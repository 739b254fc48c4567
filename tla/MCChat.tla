------------------------------- MODULE MCChat -------------------------------
EXTENDS ChatHub
CONSTANTS p1, p2, s1, s2, s3, a1, r1, r2
(* Two posts and two sockets in one room, a third socket in another.       *)
MCRoomOf == [x \in Posts \cup Sockets |-> IF x = s3 THEN r2 ELSE r1]
MCSenderOf == [p \in Posts |-> a1]
=============================================================================
