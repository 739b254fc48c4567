SPECIFICATION Spec
CONSTANTS
  p1 = p1
  p2 = p2
  s1 = s1
  s2 = s2
  s3 = s3
  a1 = a1
  r1 = r1
  r2 = r2
  Posts = {p1, p2}
  Sockets = {s1, s2, s3}
  Agents = {a1}
  Rooms = {r1, r2}
  RoomOf <- MCRoomOf
  SenderOf <- MCSenderOf
  Targeted = {p1}
  MaxFaults = 1
INVARIANTS TypeOK RoomsAreExact SeenIsRecorded AnsweredReachedAll SeenInOrderOfCalls AuditTellsOutcome
PROPERTIES StoredIsSubmitted
CHECK_DEADLOCK FALSE
