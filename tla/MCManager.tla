------------------------------ MODULE MCManager ------------------------------
EXTENDS GatewayManager
CONSTANTS a, b, c1, c2, k1, L1, L2, L3, R1, S1, D1, D2
MCConfig(n, c) == [name |-> n, conf |-> c]
MCConfigOf ==
  [t \in Reloads |-> CASE t = L1 -> <<MCConfig(a, c1), MCConfig(b, c1)>>
                       [] t = L2 -> <<MCConfig(a, c2)>>
                       [] t = L3 -> <<MCConfig(a, c2), MCConfig(b, c1)>>]
=============================================================================
