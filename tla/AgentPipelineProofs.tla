------------------------ MODULE AgentPipelineProofs ------------------------
(* The safety of the pipeline for any number of connections, messages,     *)
(* ends of the agent, failing appends and lives of the service.            *)
EXTENDS AgentPipeline, FiniteSetTheorems, SequenceTheorems, TLAPS

Record == [msg : Messages, whole : BOOLEAN]

(* What is above the count of a channel has not come in yet.               *)
Untaken == \A c \in Channels, n \in 1..MaxSent : n > sent[c] => kind[<<c, n>>] = None

(* A channel that has not begun has taken up nothing; the pipe begins anew *)
(* with the agent.                                                         *)
Unbegun ==
  /\ \A c \in Conns : stage[c] = "new" => sent[c] = 0
  /\ ~agent => stage[Pipe] = "new"
  /\ stage[Pipe] = "new" /\ stops = 0 => sent[Pipe] = 0

(* One channel at most is appending, and that a verified command.          *)
OneWriter ==
  /\ \A c, d \in Channels : stage[c] = "appending" /\ stage[d] = "appending" => c = d
  /\ \A c \in Channels : stage[c] = "appending" =>
       sent[c] \in 1..MaxSent /\ kind[<<c, sent[c]>>] \in Verified

(* A record is a verified command that came in; the one being appended is  *)
(* the last and is not whole.                                              *)
Entered ==
  \A i \in 1..Len(inbox) :
    /\ kind[inbox[i].msg] \in Verified
    /\ inbox[i].msg[2] <= sent[inbox[i].msg[1]]
    /\ stage[inbox[i].msg[1]] = "appending" /\ inbox[i].msg[2] = sent[inbox[i].msg[1]]
         => i = Len(inbox) /\ ~inbox[i].whole

InOrder ==
  \A i, j \in 1..Len(inbox) :
    i < j /\ inbox[i].msg[1] = inbox[j].msg[1] => inbox[i].msg[2] < inbox[j].msg[2]

Torn == {i \in 1..Len(inbox) : ~inbox[i].whole}
Writing == \E c \in Channels : stage[c] = "appending" /\ Begun(c)
FewTorn == Cardinality(Torn) <= stops + faults + (IF Writing THEN 1 ELSE 0)

(* Entry by entry: what is done, then what is in hand, then the queue.     *)
InHand == IF busy = None THEN 0 ELSE 1
Followed ==
  /\ reader = "off" => pos = 1
  /\ Len(ran) + InHand + Len(queue) = pos - 1
  /\ \A i \in 1..Len(ran) : ran[i] = inbox[i].msg
  /\ busy # None => busy = inbox[Len(ran) + 1].msg
  /\ \A i \in 1..Len(queue) : queue[i] = inbox[Len(ran) + InHand + i].msg

FileInv == TypeOK /\ Untaken /\ Unbegun /\ OneWriter /\ Entered
Kept == Untaken /\ Unbegun /\ OneWriter /\ Entered /\ InOrder /\ FewTorn /\ PassedIsPersisted
IInv == TypeOK /\ Kept /\ Followed

-----------------------------------------------------------------------------
LEMMA Types == Messages = Channels \X (1..MaxSent) /\ Pipe \in Channels /\ Conns \subseteq Channels
               /\ None \notin Messages /\ None \notin Kinds /\ Verified \subseteq Kinds
               /\ MaxSent \in Nat /\ MaxStops \in Nat /\ MaxFaults \in Nat /\ MaxLives \in Nat
  BY PipelineAssumption DEF Messages, Channels, Kinds, Verified

LEMMA HandledType ==
  ASSUME NEW k \in Kinds
  PROVE  /\ Handled(k) \in {"listening", "appending", "failed"}
         /\ Handled(k) = "appending" => k \in Verified /\ ~Held
         /\ Handled(k) = "listening" => k \notin Verified
  BY DEF Handled, Kinds, Verified

LEMMA Lengths ==
  ASSUME TypeOK
  PROVE  /\ Len(inbox) \in Nat /\ Len(queue) \in Nat /\ Len(ran) \in Nat
         /\ pos \in 1..(Len(inbox) + 1) /\ inbox \in Seq(Record)
         /\ \A i \in 1..Len(inbox) :
              /\ inbox[i] \in Record /\ inbox[i].whole \in BOOLEAN
              /\ inbox[i].msg \in Messages /\ inbox[i].msg[1] \in Channels
              /\ inbox[i].msg[2] \in 1..MaxSent
              /\ inbox[i].msg = <<inbox[i].msg[1], inbox[i].msg[2]>>
<1>1. inbox \in Seq(Record) /\ pos \in 1..(Len(inbox) + 1)
  BY DEF TypeOK, Record
<1>2. Len(inbox) \in Nat /\ Len(queue) \in Nat /\ Len(ran) \in Nat
  BY <1>1, LenProperties DEF TypeOK
<1>3. ASSUME NEW i \in 1..Len(inbox) PROVE inbox[i] \in Record
  BY <1>1, ElementOfSeq
<1> QED
  BY <1>1, <1>2, <1>3, Types DEF Record

LEMMA InitHolds == Init => IInv
<1> SUFFICES ASSUME Init PROVE IInv
  OBVIOUS
<1>1. Len(inbox) = 0 /\ Len(queue) = 0 /\ Len(ran) = 0 /\ inbox \in Seq(Record)
      /\ queue \in Seq(Messages) /\ ran \in Seq(Messages)
  BY EmptySeq DEF Init
<1>2. TypeOK
  <2>1. kind \in [Messages -> Kinds \cup {None}] /\ sent \in [Channels -> 0..MaxSent]
        /\ stage \in [Channels -> {"new", "listening", "appending", "failed", "closed"}]
    BY Types DEF Init
  <2>2. pos \in 1..(Len(inbox) + 1) /\ stops \in 0..MaxStops /\ faults \in 0..MaxFaults /\ lives \in 0..MaxLives
    BY <1>1, Types DEF Init
  <2>3. agent \in BOOLEAN /\ busy \in Messages \cup {None}
        /\ reader \in {"off", "reading", "ended", "failed"}
    BY DEF Init
  <2> QED
    BY <1>1, <2>1, <2>2, <2>3 DEF TypeOK, Record
<1>3. Untaken /\ Unbegun /\ OneWriter /\ Entered /\ InOrder
  BY <1>1, Types DEF Init, Untaken, Unbegun, OneWriter, Entered, InOrder
<1>4. Torn = {}
  BY <1>1 DEF Torn
<1>5. FewTorn
  BY <1>4, FS_EmptySet DEF FewTorn, Init
<1>6. Followed
  BY <1>1 DEF Init, Followed, InHand
<1>7. PassedIsPersisted
  BY Types DEF Init, PassedIsPersisted, Verified, Messages
<1> QED
  BY <1>2, <1>3, <1>5, <1>6, <1>7 DEF IInv, Kept

-----------------------------------------------------------------------------
(* Type correctness, action by action.                                     *)
LEMMA ReceiveType ==
  ASSUME TypeOK, NEW c \in Channels, Receive(c)
  PROVE  TypeOK'
<1>1. PICK k \in Kinds : /\ kind' = [kind EXCEPT ![<<c, sent[c] + 1>>] = k]
                         /\ stage' = [stage EXCEPT ![c] = Handled(k)]
  BY DEF Receive
<1>2. sent' = [sent EXCEPT ![c] = @ + 1] /\ sent[c] \in 0..MaxSent /\ sent[c] < MaxSent
  BY DEF Receive, TypeOK
<1>3. sent' \in [Channels -> 0..MaxSent]
  BY <1>2, Types DEF TypeOK
<1>4. stage' \in [Channels -> {"new", "listening", "appending", "failed", "closed"}]
  BY <1>1, HandledType DEF TypeOK
<1>5. kind' \in [Messages -> Kinds \cup {None}]
  BY <1>1 DEF TypeOK
<1>6. UNCHANGED <<agent, inbox, stops, faults, reader, pos, queue, busy, ran, lives>>
  BY DEF Receive, serviceVars
<1> QED
  BY <1>3, <1>4, <1>5, <1>6 DEF TypeOK

LEMMA Completed ==
  ASSUME NEW e \in Record, NEW b \in BOOLEAN
  PROVE  [e EXCEPT !.whole = b] = [msg |-> e.msg, whole |-> b]
  BY DEF Record

LEMMA LastReplaced ==
  ASSUME NEW s \in Seq(Record), Len(s) \in Nat, Len(s) >= 1, NEW e \in Record
  PROVE  /\ [s EXCEPT ![Len(s)] = e] \in Seq(Record)
         /\ Len([s EXCEPT ![Len(s)] = e]) = Len(s)
         /\ [s EXCEPT ![Len(s)] = e][Len(s)] = e
         /\ \A i \in 1..(Len(s) - 1) : [s EXCEPT ![Len(s)] = e][i] = s[i]
<1>1. Len(s) \in 1..Len(s)
  OBVIOUS
<1> QED
  BY <1>1, ExceptSeq

Completes(c) ==
  /\ Begun(c) /\ AppendEnds(c)
  /\ Len(inbox') = Len(inbox) /\ Len(inbox) >= 1
  /\ inbox'[Len(inbox)] = [msg |-> <<c, sent[c]>>, whole |-> TRUE]
  /\ inbox[Len(inbox)].msg = <<c, sent[c]>>
  /\ \A i \in 1..(Len(inbox) - 1) : inbox'[i] = inbox[i]
Adds(c) ==
  /\ ~Begun(c)
  /\ Len(inbox') = Len(inbox) + 1
  /\ \E b \in BOOLEAN : /\ inbox'[Len(inbox) + 1] = [msg |-> <<c, sent[c]>>, whole |-> b]
                        /\ b = FALSE <=> AppendPart(c)
  /\ \A i \in 1..Len(inbox) : inbox'[i] = inbox[i]

(* What an append does to the file: it completes the last record or adds   *)
(* one.                                                                    *)
LEMMA AppendShape ==
  ASSUME FileInv, NEW c \in Channels, AppendPart(c) \/ AppendEnds(c)
  PROVE  /\ stage[c] = "appending" /\ sent[c] \in 1..MaxSent
         /\ <<c, sent[c]>> \in Messages /\ kind[<<c, sent[c]>>] \in Verified
         /\ inbox' \in Seq(Record)
         /\ Completes(c) \/ Adds(c)
<1>1. stage[c] = "appending" /\ sent[c] \in 1..MaxSent /\ kind[<<c, sent[c]>>] \in Verified
  BY DEF AppendPart, AppendEnds, FileInv, OneWriter
<1>2. <<c, sent[c]>> \in Messages
  BY <1>1, Types
<1>3. TypeOK /\ inbox \in Seq(Record) /\ Len(inbox) \in Nat
  BY Lengths DEF FileInv
<1>4. ASSUME NEW b \in BOOLEAN, inbox' = Append(inbox, [msg |-> <<c, sent[c]>>, whole |-> b])
      PROVE  /\ inbox' \in Seq(Record) /\ Len(inbox') = Len(inbox) + 1
             /\ inbox'[Len(inbox) + 1] = [msg |-> <<c, sent[c]>>, whole |-> b]
             /\ \A i \in 1..Len(inbox) : inbox'[i] = inbox[i]
  <2>1. [msg |-> <<c, sent[c]>>, whole |-> b] \in Record
    BY <1>2 DEF Record
  <2> QED
    BY <1>3, <1>4, <2>1, AppendProperties
<1>5. CASE AppendPart(c)
  <2>1. ~Begun(c) /\ inbox' = Append(inbox, [msg |-> <<c, sent[c]>>, whole |-> FALSE])
    BY <1>5 DEF AppendPart
  <2> QED
    BY <1>1, <1>2, <1>4, <1>5, <2>1 DEF Adds
<1>6. CASE AppendEnds(c) /\ Begun(c)
  <2>1. /\ inbox # <<>> /\ inbox[Len(inbox)].msg = <<c, sent[c]>>
        /\ inbox' = [inbox EXCEPT ![Len(inbox)].whole = TRUE]
    BY <1>6 DEF AppendEnds, Begun
  <2>2. Len(inbox) >= 1
    BY <1>3, <2>1, EmptySeq
  <2>3. inbox[Len(inbox)] \in Record
    BY <1>3, <2>2, ElementOfSeq
  <2>4. [inbox[Len(inbox)] EXCEPT !.whole = TRUE] = [msg |-> <<c, sent[c]>>, whole |-> TRUE]
    BY <2>1, <2>3, Completed, Zenon
  <2>5. inbox' = [inbox EXCEPT ![Len(inbox)] = [msg |-> <<c, sent[c]>>, whole |-> TRUE]]
    BY <2>1, <2>4
  <2>6. [msg |-> <<c, sent[c]>>, whole |-> TRUE] \in Record
    BY <1>2 DEF Record
  <2>7. PICK e \in Record : e = [msg |-> <<c, sent[c]>>, whole |-> TRUE]
    BY <2>6
  <2>8. inbox' = [inbox EXCEPT ![Len(inbox)] = e]
    BY <2>5, <2>7
  <2>9. /\ inbox' \in Seq(Record) /\ Len(inbox') = Len(inbox)
        /\ inbox'[Len(inbox)] = e
        /\ \A i \in 1..(Len(inbox) - 1) : inbox'[i] = inbox[i]
    BY <1>3, <2>2, <2>8, LastReplaced
  <2> QED
    BY <1>1, <1>2, <1>6, <2>1, <2>2, <2>7, <2>9 DEF Completes
<1>7. CASE AppendEnds(c) /\ ~Begun(c)
  <2>1. inbox' = Append(inbox, [msg |-> <<c, sent[c]>>, whole |-> TRUE])
    BY <1>7 DEF AppendEnds
  <2>2. ~AppendPart(c)
    BY <1>1, <1>7 DEF AppendPart, AppendEnds, FileInv, TypeOK
  <2> QED
    BY <1>1, <1>2, <1>4, <1>7, <2>1, <2>2 DEF Adds
<1> QED
  BY <1>5, <1>6, <1>7

LEMMA AppendType ==
  ASSUME FileInv, NEW c \in Channels, AppendPart(c) \/ AppendEnds(c)
  PROVE  TypeOK'
<1>1. inbox' \in Seq(Record) /\ Len(inbox') \in Nat /\ Len(inbox') >= Len(inbox)
      /\ Len(inbox) \in Nat /\ TypeOK
  <2>1. TypeOK /\ Len(inbox) \in Nat
    BY Lengths DEF FileInv
  <2>2. /\ inbox' \in Seq(Record)
        /\ Len(inbox') = Len(inbox) \/ Len(inbox') = Len(inbox) + 1
    BY AppendShape DEF Completes, Adds
  <2> QED
    BY <2>1, <2>2
<1>2. stage' \in [Channels -> {"new", "listening", "appending", "failed", "closed"}]
  BY <1>1 DEF AppendPart, AppendEnds, TypeOK
<1>3. UNCHANGED <<agent, sent, kind, stops, faults, reader, pos, queue, busy, ran, lives>>
  BY DEF AppendPart, AppendEnds, serviceVars
<1>4. pos' \in 1..(Len(inbox') + 1)
  BY <1>1, <1>3 DEF TypeOK
<1> QED
  BY <1>1, <1>2, <1>3, <1>4 DEF TypeOK, Record

LEMMA StepType == FileInv /\ [Next]_vars => TypeOK'
<1> SUFFICES ASSUME FileInv, [Next]_vars PROVE TypeOK'
  OBVIOUS
<1>0. TypeOK
  BY DEF FileInv
<1>1. CASE UNCHANGED vars
  BY <1>0, <1>1 DEF vars, agentVars, serviceVars, TypeOK
<1>2. CASE AgentStarts
  BY <1>0, <1>2, Types DEF AgentStarts, serviceVars, TypeOK
<1>3. CASE AgentEnds
  <2>1. stage' \in [Channels -> {"new", "listening", "appending", "failed", "closed"}]
    BY <1>0, <1>3 DEF AgentEnds, TypeOK
  <2>2. stops' \in 0..MaxStops
    BY <1>0, <1>3, Types DEF AgentEnds, TypeOK
  <2> QED
    BY <1>0, <1>3, <2>1, <2>2 DEF AgentEnds, serviceVars, TypeOK
<1>4. ASSUME NEW c \in Conns, Connect(c) \/ HangUp(c) PROVE TypeOK'
  BY <1>0, <1>4, Types DEF Connect, HangUp, serviceVars, TypeOK
<1>5. ASSUME NEW c \in Channels, Receive(c) PROVE TypeOK'
  BY <1>0, <1>5, ReceiveType
<1>6. ASSUME NEW c \in Channels, AppendPart(c) \/ AppendEnds(c) PROVE TypeOK'
  BY <1>6, AppendType
<1>12. ASSUME NEW c \in Channels, AppendFails(c) PROVE TypeOK'
  <2>1. stage' \in [Channels -> {"new", "listening", "appending", "failed", "closed"}]
    BY <1>0, <1>12 DEF AppendFails, TypeOK
  <2>2. faults' \in 0..MaxFaults
    BY <1>0, <1>12, Types DEF AppendFails, TypeOK
  <2> QED
    BY <1>0, <1>12, <2>1, <2>2 DEF AppendFails, serviceVars, TypeOK
<1>7. CASE ServiceStarts
  BY <1>0, <1>7, Types DEF ServiceStarts, agentVars, TypeOK
<1>8. CASE ServiceEnds
  BY <1>0, <1>8, Types DEF ServiceEnds, agentVars, TypeOK
<1>9. CASE ReadLine
  <2>1. pos <= Len(inbox) => inbox[pos].msg \in Messages
    BY <1>0, Lengths DEF TypeOK, Record
  <2>2. ASSUME pos <= Len(inbox) PROVE Append(queue, inbox[pos].msg) \in Seq(Messages)
    BY <1>0, <2>1, <2>2, AppendProperties DEF TypeOK
  <2>3. \/ UNCHANGED <<pos, queue>>
        \/ pos <= Len(inbox) /\ queue' = Append(queue, inbox[pos].msg) /\ pos' = pos + 1
    BY <1>0, <1>9 DEF ReadLine
  <2>5. queue' \in Seq(Messages)
    BY <1>0, <2>2, <2>3 DEF TypeOK
  <2>6. pos' \in 1..(Len(inbox) + 1)
    BY <1>0, <2>3, Lengths
  <2>4. reader' \in {"off", "reading", "ended", "failed"} /\ UNCHANGED <<busy, ran, lives, agentVars>>
    BY <1>0, <1>9 DEF ReadLine, TypeOK
  <2> QED
    BY <1>0, <2>4, <2>5, <2>6 DEF agentVars, TypeOK
<1>10. CASE TakeUp
  BY <1>0, <1>10, HeadTailProperties DEF TakeUp, agentVars, TypeOK
<1>11. CASE Finish
  BY <1>0, <1>11, Types DEF Finish, agentVars, TypeOK
<1> QED
  BY <1>1, <1>2, <1>3, <1>4, <1>5, <1>6, <1>7, <1>8, <1>9, <1>10, <1>11, <1>12 DEF Next

-----------------------------------------------------------------------------
(* What is kept about the agent and its file, action by action.            *)
LEMMA TornFinite ==
  ASSUME TypeOK
  PROVE  IsFiniteSet(Torn) /\ Cardinality(Torn) \in Nat
<1>1. Len(inbox) \in Nat
  BY Lengths
<1>2. IsFiniteSet(1..Len(inbox))
  BY <1>1, FS_Interval
<1>3. Torn \subseteq 1..Len(inbox)
  BY DEF Torn
<1> QED
  BY <1>2, <1>3, FS_Subset, FS_CardinalityType

LEMMA StartsKeeps == IInv /\ AgentStarts => Kept'
<1> SUFFICES ASSUME IInv, AgentStarts PROVE Kept'
  OBVIOUS
<1>1. /\ TypeOK /\ Kept /\ ~agent /\ agent' = TRUE
      /\ stage' = [stage EXCEPT ![Pipe] = "listening"] /\ stage[Pipe] = "new"
      /\ UNCHANGED <<sent, kind, inbox, stops, faults>>
  BY DEF IInv, Kept, Unbegun, AgentStarts
<1>2. stage'[Pipe] = "listening" /\ \A c \in Channels \ {Pipe} : stage'[c] = stage[c]
  BY <1>1, Types DEF TypeOK
<1>3. Pipe \in Channels /\ Pipe \notin Conns /\ Conns \subseteq Channels
  BY Types, PipelineAssumption
<1>4. Untaken' /\ Unbegun' /\ OneWriter' /\ InOrder'
  BY <1>1, <1>2, <1>3 DEF Kept, Untaken, Unbegun, OneWriter, InOrder
<1>5. Entered'
  BY <1>1, <1>2, <1>3, Lengths DEF Kept, Entered
<1>6. Writing' <=> Writing
  BY <1>1, <1>2, <1>3 DEF Writing, Begun
<1>7. FewTorn'
  BY <1>1, <1>6 DEF Kept, FewTorn, Torn
<1>8. PassedIsPersisted'
  <2>1. stops = 0 => \A n \in 1..MaxSent : kind[<<Pipe, n>>] = None
    BY <1>1, <1>3, Types DEF Kept, Untaken, Unbegun
  <2> QED
    BY <1>1, <1>2, <1>3, <2>1, Types DEF Kept, PassedIsPersisted
<1> QED
  BY <1>4, <1>5, <1>7, <1>8 DEF Kept

LEMMA EndsKeeps == IInv /\ AgentEnds => Kept'
<1> SUFFICES ASSUME IInv, AgentEnds PROVE Kept'
  OBVIOUS
<1>1. /\ TypeOK /\ Kept /\ agent /\ ~agent' /\ stops' = stops + 1 /\ stops \in Nat /\ faults \in Nat
      /\ UNCHANGED <<sent, kind, inbox, faults>>
  BY Types DEF IInv, AgentEnds, TypeOK
<1>2. /\ stage'[Pipe] = "new"
      /\ \A c \in Channels : stage'[c] # "appending" /\ stage'[c] # "listening"
      /\ \A c \in Conns : stage'[c] = "new" => stage[c] = "new"
  BY Types, PipelineAssumption DEF AgentEnds, TypeOK, IInv
<1>3. Untaken' /\ Unbegun' /\ OneWriter' /\ InOrder'
  BY <1>1, <1>2, Types DEF Kept, Untaken, Unbegun, OneWriter, InOrder
<1>4. Entered'
  BY <1>1, <1>2, Lengths DEF Kept, Entered
<1>5. FewTorn'
  <2>1. Torn' = Torn /\ ~Writing'
    BY <1>1, <1>2 DEF Torn, Writing
  <2>2. Cardinality(Torn) \in Nat
    BY <1>1, TornFinite
  <2> QED
    BY <1>1, <2>1, <2>2 DEF Kept, FewTorn
<1>6. PassedIsPersisted'
  BY <1>1, <1>2, Types DEF Kept, PassedIsPersisted
<1> QED
  BY <1>3, <1>4, <1>5, <1>6 DEF Kept

LEMMA ConnectKeeps ==
  ASSUME IInv, NEW c \in Conns, Connect(c) \/ HangUp(c)
  PROVE  Kept'
<1>1. /\ TypeOK /\ Kept /\ UNCHANGED <<agent, sent, kind, inbox, stops, faults>>
  BY DEF IInv, Connect, HangUp
<1>2. /\ c \in Channels /\ c # Pipe
      /\ \/ stage[c] = "new" /\ stage'[c] = "listening"
         \/ stage[c] = "listening" /\ stage'[c] = "closed"
      /\ \A d \in Channels \ {c} : stage'[d] = stage[d]
  BY <1>1, Types, PipelineAssumption DEF Connect, HangUp, TypeOK
<1>3. Untaken' /\ Unbegun' /\ OneWriter' /\ InOrder'
  BY <1>1, <1>2, Types DEF Kept, Untaken, Unbegun, OneWriter, InOrder
<1>4. Entered'
  BY <1>1, <1>2, Lengths DEF Kept, Entered
<1>5. Writing' <=> Writing
  BY <1>1, <1>2 DEF Writing, Begun
<1>6. FewTorn'
  BY <1>1, <1>5 DEF Kept, FewTorn, Torn
<1>7. PassedIsPersisted'
  <2>1. stage[c] = "new" => \A n \in 1..MaxSent : kind[<<c, n>>] = None
    BY <1>1, <1>2, Types DEF Kept, Untaken, Unbegun
  <2> QED
    BY <1>1, <1>2, <2>1, Types DEF Kept, PassedIsPersisted
<1> QED
  BY <1>3, <1>4, <1>6, <1>7 DEF Kept

LEMMA ReceiveKeeps ==
  ASSUME IInv, NEW c \in Channels, Receive(c)
  PROVE  Kept'
<1>1. /\ TypeOK /\ Kept /\ UNCHANGED <<agent, inbox, stops, faults>>
      /\ stage[c] = "listening" /\ sent[c] \in Nat /\ sent[c] + 1 \in 1..MaxSent
  BY Types DEF IInv, Receive, TypeOK
<1>2. PICK k \in Kinds : /\ kind' = [kind EXCEPT ![<<c, sent[c] + 1>>] = k]
                         /\ stage' = [stage EXCEPT ![c] = Handled(k)]
  BY DEF Receive
<1>3. /\ sent'[c] = sent[c] + 1 /\ \A d \in Channels \ {c} : sent'[d] = sent[d]
      /\ stage'[c] = Handled(k) /\ \A d \in Channels \ {c} : stage'[d] = stage[d]
  BY <1>1, <1>2 DEF Receive, TypeOK
<1>4. /\ kind'[<<c, sent[c] + 1>>] = k
      /\ \A d \in Channels, n \in 1..MaxSent : d # c \/ n # sent[c] + 1 => kind'[<<d, n>>] = kind[<<d, n>>]
      /\ \A m \in Messages : m # <<c, sent[c] + 1>> => kind'[m] = kind[m]
  BY <1>1, <1>2, Types DEF TypeOK
<1>5. /\ Handled(k) \in {"listening", "appending", "failed"}
      /\ Handled(k) = "appending" => k \in Verified /\ ~Held
      /\ Handled(k) = "listening" => k \notin Verified
  BY <1>2, HandledType
<1>6. \A d \in Channels : sent[d] \in 0..MaxSent
  BY <1>1 DEF TypeOK
<1>7. Untaken'
  BY <1>1, <1>3, <1>4, <1>6, Types DEF Kept, Untaken
<1>8. Unbegun'
  BY <1>1, <1>3, <1>5, Types DEF Kept, Unbegun
<1>9. OneWriter'
  <2>1. ASSUME NEW d \in Channels, stage'[d] = "appending"
        PROVE  /\ d # c => stage[d] = "appending" /\ Handled(k) # "appending"
               /\ sent'[d] \in 1..MaxSent /\ kind'[<<d, sent'[d]>>] \in Verified
    BY <1>1, <1>3, <1>4, <1>5, <2>1 DEF Kept, OneWriter, Held
  <2> QED
    BY <1>1, <1>3, <2>1 DEF Kept, OneWriter
<1>10. ASSUME NEW i \in 1..Len(inbox)
       PROVE  /\ inbox[i].msg \in Messages /\ inbox[i].msg # <<c, sent[c] + 1>>
              /\ inbox[i].msg[1] \in Channels /\ inbox[i].msg[2] \in 1..MaxSent
              /\ inbox[i].msg[2] <= sent[inbox[i].msg[1]]
              /\ kind'[inbox[i].msg] = kind[inbox[i].msg]
  <2>1. /\ inbox[i].msg \in Messages /\ inbox[i].msg[1] \in Channels
        /\ inbox[i].msg[2] \in 1..MaxSent /\ inbox[i].msg[2] <= sent[inbox[i].msg[1]]
    BY <1>1, Lengths DEF Kept, Entered
  <2>2. inbox[i].msg # <<c, sent[c] + 1>>
    BY <1>1, <2>1
  <2> QED
    BY <1>4, <2>1, <2>2
<1>11. Entered'
  <2>1. ASSUME NEW i \in 1..Len(inbox)
        PROVE  /\ kind'[inbox[i].msg] \in Verified
               /\ inbox[i].msg[2] <= sent'[inbox[i].msg[1]]
               /\ stage'[inbox[i].msg[1]] = "appending" /\ inbox[i].msg[2] = sent'[inbox[i].msg[1]]
                    => i = Len(inbox) /\ ~inbox[i].whole
    <3> DEFINE d == inbox[i].msg[1]
               n == inbox[i].msg[2]
    <3>1. /\ d \in Channels /\ n \in Nat /\ sent[d] \in Nat /\ n <= sent[d]
          /\ kind'[inbox[i].msg] \in Verified
          /\ stage[d] = "appending" /\ n = sent[d] => i = Len(inbox) /\ ~inbox[i].whole
      BY <1>1, <1>6, <1>10, Types DEF Kept, Entered
    <3> HIDE DEF d, n
    <3>2. n <= sent'[d] /\ (stage'[d] = "appending" /\ n = sent'[d] => i = Len(inbox) /\ ~inbox[i].whole)
      BY <1>1, <1>3, <3>1
    <3> QED
      BY <3>1, <3>2 DEF d, n
  <2> QED
    BY <1>1, <2>1 DEF Entered
<1>12. InOrder'
  BY <1>1 DEF Kept, InOrder
<1>13. FewTorn'
  <2>1. inbox # <<>> => Len(inbox) \in 1..Len(inbox)
    BY <1>1, Lengths, EmptySeq
  <2>2. ~Begun(c)' /\ \A d \in Channels \ {c} : Begun(d)' <=> Begun(d)
    BY <1>1, <1>3, <1>10, <2>1 DEF Begun
  <2>3. Writing' <=> Writing
    BY <1>1, <1>3, <2>2 DEF Writing
  <2> QED
    BY <1>1, <2>3 DEF Kept, FewTorn, Torn
<1>14. PassedIsPersisted'
  <2>1. ASSUME NEW d \in Channels, NEW n \in 1..MaxSent, kind'[<<d, n>>] \in Verified,
               n < sent'[d] \/ stage'[d] = "listening", d \in Conns \/ stops = 0
        PROVE  [msg |-> <<d, n>>, whole |-> TRUE] \in {inbox[i] : i \in 1..Len(inbox)}
    <3>1. CASE d # c
      BY <1>1, <1>3, <1>4, <2>1, <3>1 DEF Kept, PassedIsPersisted
    <3>2. CASE d = c
      <4>1. n # sent[c] + 1
        BY <1>1, <1>3, <1>4, <1>5, <2>1, <3>2
      <4>2. kind[<<c, n>>] \in Verified
        BY <1>4, <2>1, <3>2, <4>1
      <4> QED
        BY <1>1, <2>1, <3>2, <4>2 DEF Kept, PassedIsPersisted
    <3> QED
      BY <3>1, <3>2
  <2> QED
    BY <1>1, <2>1 DEF PassedIsPersisted
<1> QED
  BY <1>7, <1>8, <1>9, <1>11, <1>12, <1>13, <1>14 DEF Kept

(* An append leaves what is in the file: the messages, and what is whole.  *)
LEMMA AppendLeaves ==
  ASSUME TypeOK, Kept, NEW c \in Channels, AppendPart(c) \/ AppendEnds(c)
  PROVE  /\ \A i \in 1..Len(inbox) : /\ i \in 1..Len(inbox')
                                     /\ inbox'[i].msg = inbox[i].msg
                                     /\ inbox[i].whole => inbox'[i] = inbox[i]
         /\ AppendEnds(c) => \E i \in 1..Len(inbox') : inbox'[i] = [msg |-> <<c, sent[c]>>, whole |-> TRUE]
<1>1. FileInv /\ Len(inbox) \in Nat
  BY Lengths DEF Kept, FileInv
<1>2. CASE Completes(c)
  <2>1. Len(inbox) \in 1..Len(inbox') /\ ~inbox[Len(inbox)].whole
    BY <1>1, <1>2, AppendShape DEF Kept, Entered, Completes
  <2>2. inbox'[Len(inbox)].msg = inbox[Len(inbox)].msg
    BY <1>2 DEF Completes
  <2> QED
    BY <1>1, <1>2, <2>1, <2>2 DEF Completes
<1>3. CASE Adds(c)
  <2>1. AppendEnds(c) => ~AppendPart(c)
    BY <1>1 DEF AppendEnds, AppendPart, TypeOK, FileInv
  <2>2. AppendEnds(c) => inbox'[Len(inbox) + 1] = [msg |-> <<c, sent[c]>>, whole |-> TRUE]
    BY <1>3, <2>1 DEF Adds
  <2>3. Len(inbox) + 1 \in 1..Len(inbox')
    BY <1>1, <1>3 DEF Adds
  <2>4. AppendEnds(c) => \E i \in 1..Len(inbox') : inbox'[i] = [msg |-> <<c, sent[c]>>, whole |-> TRUE]
    BY <2>2, <2>3
  <2>5. \A i \in 1..Len(inbox) : i \in 1..Len(inbox') /\ inbox'[i] = inbox[i]
    BY <1>1, <1>3 DEF Adds
  <2> QED
    BY <2>4, <2>5
<1> QED
  BY <1>1, <1>2, <1>3, AppendShape

LEMMA AppendKeeps ==
  ASSUME IInv, NEW c \in Channels, AppendPart(c) \/ AppendEnds(c)
  PROVE  Kept'
<1>1. /\ TypeOK /\ Kept /\ FileInv /\ UNCHANGED <<agent, sent, kind, stops, faults>>
      /\ Len(inbox) \in Nat
  BY Lengths DEF IInv, Kept, FileInv, AppendPart, AppendEnds
<1>2. /\ stage[c] = "appending" /\ sent[c] \in 1..MaxSent /\ <<c, sent[c]>> \in Messages
      /\ kind[<<c, sent[c]>>] \in Verified
      /\ Completes(c) \/ Adds(c)
  BY <1>1, AppendShape
<1>3. /\ AppendPart(c) => stage' = stage /\ Adds(c)
      /\ stage'[c] = "appending" => AppendPart(c)
      /\ AppendEnds(c) => stage'[c] = "listening"
      /\ \A d \in Channels \ {c} : stage'[d] = stage[d] /\ stage[d] # "appending"
  <2>1. AppendPart(c) => stage' = stage /\ ~Begun(c)
    BY DEF AppendPart
  <2>2. AppendEnds(c) => stage' = [stage EXCEPT ![c] = "listening"]
    BY DEF AppendEnds
  <2>3. \A d \in Channels \ {c} : stage[d] # "appending"
    BY <1>1, <1>2 DEF Kept, OneWriter
  <2> QED
    BY <1>1, <1>2, <2>1, <2>2, <2>3 DEF TypeOK, Completes
<1>4. Untaken' /\ Unbegun' /\ OneWriter'
  BY <1>1, <1>2, <1>3, Types, PipelineAssumption DEF Kept, Untaken, Unbegun, OneWriter
<1>5. \A i \in 1..Len(inbox) :
        /\ inbox[i].msg = <<c, sent[c]>> => i = Len(inbox) /\ Begun(c)
        /\ inbox[i].msg[1] = c => inbox[i].msg[2] <= sent[c]
  <2> SUFFICES ASSUME NEW i \in 1..Len(inbox)
               PROVE  /\ inbox[i].msg = <<c, sent[c]>> => i = Len(inbox) /\ Begun(c)
                      /\ inbox[i].msg[1] = c => inbox[i].msg[2] <= sent[c]
    OBVIOUS
  <2>1. inbox[i].msg = <<c, sent[c]>> => i = Len(inbox)
    BY <1>1, <1>2, Lengths DEF Kept, Entered
  <2>2. inbox # <<>>
    BY <1>1, EmptySeq
  <2> QED
    BY <1>1, <2>1, <2>2, Lengths DEF Begun, Kept, Entered
<1>6. ASSUME Completes(c) PROVE Entered' /\ InOrder' /\ FewTorn'
  <2>1. \A i \in 1..Len(inbox) : i < Len(inbox) => i \in 1..(Len(inbox) - 1)
    BY <1>1
  <2>2. \A i \in 1..Len(inbox') : i \in 1..Len(inbox) /\ inbox'[i].msg = inbox[i].msg
    BY <1>1, AppendLeaves, <1>6 DEF Completes
  <2>3. stage'[c] = "listening" /\ Len(inbox') = Len(inbox)
    BY <1>3, <1>6 DEF Completes
  <2>4. Entered'
    BY <1>1, <1>3, <2>2, <2>3, Lengths DEF Kept, Entered
  <2>5. InOrder'
    BY <1>1, <2>2 DEF Kept, InOrder
  <2>6. FewTorn'
    <3>1. Writing /\ ~Writing'
      BY <1>2, <1>3, <1>6, <2>3 DEF Writing, Completes
    <3>2. Len(inbox) \in Torn
      BY <1>1, <1>2, <1>6 DEF Torn, Kept, Entered, Completes
    <3>3. Torn' = Torn \ {Len(inbox)}
      <4>1. inbox'[Len(inbox)].whole = TRUE
        BY <1>6 DEF Completes
      <4>2. \A i \in 1..Len(inbox) : i # Len(inbox) => inbox'[i] = inbox[i]
        BY <1>1, <1>6 DEF Completes
      <4> QED
        BY <2>3, <4>1, <4>2 DEF Torn
    <3>4. Cardinality(Torn') = Cardinality(Torn) - 1
      BY <1>1, <3>2, <3>3, TornFinite, FS_RemoveElement
    <3> QED
      BY <1>1, <3>1, <3>4, TornFinite, Types DEF Kept, FewTorn, TypeOK
  <2> QED
    BY <2>4, <2>5, <2>6
<1>7. ASSUME Adds(c) PROVE Entered' /\ InOrder' /\ FewTorn'
  <2>1. PICK b \in BOOLEAN : /\ inbox'[Len(inbox) + 1] = [msg |-> <<c, sent[c]>>, whole |-> b]
                             /\ b = FALSE <=> AppendPart(c)
    BY <1>7 DEF Adds
  <2>2. /\ inbox'[Len(inbox) + 1].msg = <<c, sent[c]>>
        /\ inbox'[Len(inbox) + 1].whole <=> ~AppendPart(c)
    <3>1. inbox'[Len(inbox) + 1].msg = <<c, sent[c]>>
      BY <2>1
    <3>2. CASE AppendPart(c)
      <4>1. inbox'[Len(inbox) + 1] = [msg |-> <<c, sent[c]>>, whole |-> FALSE]
        BY <2>1, <3>2
      <4> QED
        BY <3>1, <3>2, <4>1
    <3>3. CASE ~AppendPart(c)
      <4>1. inbox'[Len(inbox) + 1] = [msg |-> <<c, sent[c]>>, whole |-> TRUE]
        BY <2>1, <3>3
      <4>2. inbox'[Len(inbox) + 1].whole
        BY <4>1
      <4> QED
        BY <3>1, <3>3, <4>2
    <3> QED
      BY <3>2, <3>3
  <2>3. /\ Len(inbox') = Len(inbox) + 1 /\ ~Begun(c)
        /\ \A i \in 1..Len(inbox') : i \in 1..Len(inbox) \/ i = Len(inbox) + 1
        /\ \A i \in 1..Len(inbox) : inbox'[i] = inbox[i]
    BY <1>1, <1>7 DEF Adds
  <2>4. Entered'
    <3>1. ASSUME NEW i \in 1..Len(inbox')
          PROVE  /\ kind'[inbox'[i].msg] \in Verified
                 /\ inbox'[i].msg[2] <= sent'[inbox'[i].msg[1]]
                 /\ stage'[inbox'[i].msg[1]] = "appending" /\ inbox'[i].msg[2] = sent'[inbox'[i].msg[1]]
                      => i = Len(inbox') /\ ~inbox'[i].whole
      <4>1. CASE i \in 1..Len(inbox)
        BY <1>1, <1>3, <1>5, <2>3, <4>1, Lengths DEF Kept, Entered
      <4>2. CASE i = Len(inbox) + 1
        <5>1. inbox'[i].msg[1] = c /\ inbox'[i].msg[2] = sent[c]
          BY <2>2, <4>2
        <5>2. inbox'[i].msg = <<c, sent[c]>>
          BY <2>2, <4>2
        <5>4. kind'[inbox'[i].msg] \in Verified
          BY <1>1, <1>2, <5>2
        <5>5. sent' = sent /\ sent[c] \in Nat
          BY <1>1, <1>2, Types
        <5>3. stage'[c] = "appending" => AppendPart(c)
          BY <1>3
        <5> QED
          BY <2>2, <2>3, <4>2, <5>1, <5>3, <5>4, <5>5
      <4> QED
        BY <2>3, <4>1, <4>2
    <3> QED
      BY <3>1 DEF Entered
  <2>5. InOrder'
    <3>1. ASSUME NEW i \in 1..Len(inbox'), NEW j \in 1..Len(inbox'), i < j,
                 inbox'[i].msg[1] = inbox'[j].msg[1]
          PROVE  inbox'[i].msg[2] < inbox'[j].msg[2]
      <4>1. i \in 1..Len(inbox) /\ inbox'[i] = inbox[i]
        BY <1>1, <2>3, <3>1
      <4>2. CASE j \in 1..Len(inbox)
        BY <1>1, <2>3, <3>1, <4>1, <4>2 DEF Kept, InOrder
      <4>3. CASE j = Len(inbox) + 1
        <5>1. inbox[i].msg[1] = c /\ inbox'[j].msg[2] = sent[c]
          BY <2>2, <3>1, <4>1, <4>3
        <5>2. inbox[i].msg[2] <= sent[c] /\ inbox[i].msg[2] # sent[c]
          BY <1>1, <1>5, <2>3, <4>1, <5>1, Lengths
        <5>3. inbox[i].msg[2] \in Nat /\ sent[c] \in Nat
          BY <1>1, <1>2, <4>1, Lengths, Types
        <5> QED
          BY <4>1, <5>1, <5>2, <5>3
      <4> QED
        BY <2>3, <4>2, <4>3
    <3> QED
      BY <3>1 DEF InOrder
  <2>6. FewTorn'
    <3>1. ~Writing
      BY <1>2, <1>3, <2>3 DEF Writing
    <3>2. CASE AppendPart(c)
      <4>1. Writing'
        <5>1. inbox' # <<>>
          BY <1>1, <2>3, EmptySeq
        <5>2. Begun(c)' /\ stage'[c] = "appending"
          BY <1>1, <1>2, <1>3, <2>2, <2>3, <3>2, <5>1 DEF Begun
        <5> QED
          BY <5>2 DEF Writing
      <4>2. Torn' = Torn \cup {Len(inbox) + 1} /\ Len(inbox) + 1 \notin Torn
        BY <1>1, <2>2, <2>3, <3>2 DEF Torn
      <4>3. Cardinality(Torn') = Cardinality(Torn) + 1
        BY <1>1, <4>2, TornFinite, FS_AddElement
      <4> QED
        BY <1>1, <3>1, <4>1, <4>3, TornFinite, Types DEF Kept, FewTorn, TypeOK
    <3>3. CASE ~AppendPart(c)
      <4>1. ~Writing'
        BY <1>3, <3>3 DEF Writing
      <4>2. Torn' = Torn
        BY <1>1, <2>2, <2>3, <3>3 DEF Torn
      <4> QED
        BY <1>1, <3>1, <4>1, <4>2 DEF Kept, FewTorn
    <3> QED
      BY <3>2, <3>3
  <2> QED
    BY <2>4, <2>5, <2>6
<1>8. PassedIsPersisted'
  <2>1. ASSUME NEW d \in Channels, NEW n \in 1..MaxSent, kind'[<<d, n>>] \in Verified,
               n < sent'[d] \/ stage'[d] = "listening", d \in Conns \/ stops' = 0
        PROVE  \E i \in 1..Len(inbox') : inbox'[i] = [msg |-> <<d, n>>, whole |-> TRUE]
    <3>1. CASE d # c \/ n < sent[c]
      <4>1. \E i \in 1..Len(inbox) : inbox[i] = [msg |-> <<d, n>>, whole |-> TRUE]
        BY <1>1, <1>3, <2>1, <3>1 DEF Kept, PassedIsPersisted
      <4>2. PICK i \in 1..Len(inbox) : inbox[i] = [msg |-> <<d, n>>, whole |-> TRUE]
        BY <4>1
      <4>3. inbox[i].whole
        BY <4>2
      <4> QED
        <5>1. i \in 1..Len(inbox') /\ inbox'[i] = inbox[i]
          <6>1. /\ i \in 1..Len(inbox')
                /\ inbox[i].whole => inbox'[i] = inbox[i]
            BY <1>1, AppendLeaves
          <6> QED
            BY <4>3, <6>1
        <5> QED
          BY <4>2, <5>1
    <3>2. CASE d = c /\ ~(n < sent[c])
      <4>1. n = sent[c]
        BY <1>1, <1>2, <2>1, <3>2, Types DEF Kept, Untaken
      <4>2. AppendEnds(c)
        BY <1>1, <1>2, <1>3, <2>1, <3>2
      <4> QED
        BY <1>1, <3>2, <4>1, <4>2, AppendLeaves
    <3> QED
      BY <3>1, <3>2
  <2> QED
    BY <2>1 DEF PassedIsPersisted
<1> QED
  BY <1>2, <1>4, <1>6, <1>7, <1>8 DEF Kept

(* A failing append leaves the file as it is, with what it wrote of its    *)
(* record cut off.                                                         *)
LEMMA FailKeeps ==
  ASSUME IInv, NEW c \in Channels, AppendFails(c)
  PROVE  Kept'
<1>1. /\ TypeOK /\ Kept /\ UNCHANGED <<agent, sent, kind, inbox, stops>>
      /\ faults' = faults + 1 /\ faults \in Nat /\ stops \in Nat
      /\ stage[c] = "appending"
  BY Types DEF IInv, AppendFails, TypeOK
<1>2. stage'[c] = "failed" /\ \A d \in Channels \ {c} : stage'[d] = stage[d] /\ stage[d] # "appending"
  BY <1>1 DEF AppendFails, TypeOK, Kept, OneWriter
<1>3. Untaken' /\ Unbegun' /\ OneWriter' /\ InOrder'
  BY <1>1, <1>2, Types DEF Kept, Untaken, Unbegun, OneWriter, InOrder
<1>4. Entered'
  BY <1>1, <1>2, Lengths DEF Kept, Entered
<1>5. FewTorn'
  <2>1. Torn' = Torn /\ ~Writing'
    BY <1>1, <1>2 DEF Torn, Writing
  <2>2. Cardinality(Torn) \in Nat
    BY <1>1, TornFinite
  <2> QED
    BY <1>1, <2>1, <2>2 DEF Kept, FewTorn
<1>6. PassedIsPersisted'
  BY <1>1, <1>2, Types DEF Kept, PassedIsPersisted
<1> QED
  BY <1>3, <1>4, <1>5, <1>6 DEF Kept

LEMMA KeptSteps == IInv /\ [Next]_vars => Kept'
<1> SUFFICES ASSUME IInv, [Next]_vars PROVE Kept'
  OBVIOUS
<1>1. CASE UNCHANGED agentVars
  BY <1>1 DEF IInv, Kept, agentVars, Untaken, Unbegun, OneWriter, Entered, InOrder,
              FewTorn, Torn, Writing, Begun, PassedIsPersisted
<1>2. CASE AgentStarts
  BY <1>2, StartsKeeps
<1>3. CASE AgentEnds
  BY <1>3, EndsKeeps
<1>4. ASSUME NEW c \in Conns, Connect(c) \/ HangUp(c) PROVE Kept'
  BY <1>4, ConnectKeeps
<1>5. ASSUME NEW c \in Channels, Receive(c) PROVE Kept'
  BY <1>5, ReceiveKeeps
<1>6. ASSUME NEW c \in Channels, AppendPart(c) \/ AppendEnds(c) PROVE Kept'
  BY <1>6, AppendKeeps
<1>8. ASSUME NEW c \in Channels, AppendFails(c) PROVE Kept'
  BY <1>8, FailKeeps
<1>7. UNCHANGED vars \/ ServiceStarts \/ ServiceEnds \/ ReadLine \/ TakeUp \/ Finish
        => UNCHANGED agentVars
  BY DEF vars, ServiceStarts, ServiceEnds, ReadLine, TakeUp, Finish
<1> QED
  BY <1>1, <1>2, <1>3, <1>4, <1>5, <1>6, <1>7, <1>8 DEF Next

-----------------------------------------------------------------------------
(* The service follows the file.                                           *)
LEMMA FileStays ==
  ASSUME IInv, [Next]_vars
  PROVE  \A i \in 1..Len(inbox) : inbox'[i].msg = inbox[i].msg
<1>1. ASSUME NEW c \in Channels, AppendPart(c) \/ AppendEnds(c)
      PROVE  \A i \in 1..Len(inbox) : inbox'[i].msg = inbox[i].msg
  BY <1>1, AppendLeaves DEF IInv
<1>2. \/ \E c \in Channels : AppendPart(c) \/ AppendEnds(c)
      \/ inbox' = inbox
  BY DEF Next, vars, agentVars, AgentStarts, AgentEnds, Connect, HangUp, Receive, AppendFails,
         ServiceStarts, ServiceEnds, ReadLine, TakeUp, Finish
<1> QED
  BY <1>1, <1>2

LEMMA FollowedSteps == IInv /\ [Next]_vars => Followed'
<1> SUFFICES ASSUME IInv, [Next]_vars PROVE Followed'
  OBVIOUS
<1>1. /\ TypeOK /\ Followed
      /\ Len(inbox) \in Nat /\ Len(queue) \in Nat /\ Len(ran) \in Nat
      /\ pos \in 1..(Len(inbox) + 1)
      /\ queue \in Seq(Messages) /\ ran \in Seq(Messages) /\ None \notin Messages
      /\ InHand \in 0..1
  BY Lengths, Types DEF IInv, TypeOK, InHand
<1>2. CASE UNCHANGED serviceVars
  <2>1. \A i \in 1..Len(inbox) : inbox'[i].msg = inbox[i].msg
    BY FileStays
  <2>2. UNCHANGED <<reader, pos, queue, busy, ran>> /\ InHand' = InHand
    BY <1>2 DEF serviceVars, InHand
  <2>3. /\ \A i \in 1..Len(ran) : i \in 1..Len(inbox)
        /\ busy # None => Len(ran) + 1 \in 1..Len(inbox)
        /\ \A i \in 1..Len(queue) : Len(ran) + InHand + i \in 1..Len(inbox)
    BY <1>1 DEF Followed, InHand
  <2> QED
    BY <1>1, <2>1, <2>2, <2>3 DEF Followed
<1>3. CASE ServiceStarts
  BY <1>1, <1>3 DEF ServiceStarts, Followed, InHand, agentVars
<1>4. CASE ServiceEnds
  <2>1. Len(<<>>) = 0
    OBVIOUS
  <2> QED
    BY <1>1, <1>4, <2>1 DEF ServiceEnds, Followed, InHand
<1>5. CASE ReadLine
  <2>1. reader' # "off" /\ UNCHANGED <<inbox, busy, ran>> /\ InHand' = InHand
    BY <1>5 DEF ReadLine, agentVars, InHand
  <2>2. CASE UNCHANGED <<pos, queue>>
    BY <1>1, <2>1, <2>2 DEF Followed
  <2>3. CASE /\ pos <= Len(inbox) /\ pos' = pos + 1
             /\ queue' = Append(queue, inbox[pos].msg)
    <3>1. inbox[pos].msg \in Messages
      BY <1>1, <2>3, Lengths
    <3>2. /\ Len(queue') = Len(queue) + 1
          /\ \A i \in 1..Len(queue) : queue'[i] = queue[i]
          /\ queue'[Len(queue) + 1] = inbox[pos].msg
      BY <1>1, <2>3, <3>1, AppendProperties
    <3>3. Len(ran) + InHand + (Len(queue) + 1) = pos
      BY <1>1 DEF Followed
    <3>4. \A i \in 1..Len(queue') : queue'[i] = inbox[Len(ran) + InHand + i].msg
      <4>1. \A i \in 1..Len(queue') : i \in 1..Len(queue) \/ i = Len(queue) + 1
        BY <1>1, <3>2
      <4> QED
        BY <1>1, <3>2, <3>3, <4>1 DEF Followed
    <3> QED
      BY <1>1, <2>1, <2>3, <3>2, <3>4 DEF Followed
  <2> QED
    BY <1>5, <2>2, <2>3 DEF ReadLine
<1>6. CASE TakeUp
  <2>1. /\ busy = None /\ queue # <<>> /\ busy' = Head(queue) /\ queue' = Tail(queue)
        /\ UNCHANGED <<reader, pos, ran, inbox>>
    BY <1>6 DEF TakeUp, agentVars
  <2>2. /\ Head(queue) = queue[1] /\ Head(queue) \in Messages /\ Len(queue) >= 1
        /\ Len(queue') = Len(queue) - 1
        /\ \A i \in 1..Len(queue') : queue'[i] = queue[i + 1]
    BY <1>1, <2>1, HeadTailProperties, EmptySeq
  <2>3. InHand = 0 /\ InHand' = 1
    BY <1>1, <2>1, <2>2 DEF InHand
  <2> QED
    BY <1>1, <2>1, <2>2, <2>3 DEF Followed
<1>7. CASE Finish
  <2>1. /\ busy # None /\ ran' = Append(ran, busy) /\ busy' = None /\ busy \in Messages
        /\ UNCHANGED <<reader, pos, queue, inbox>>
    BY <1>1, <1>7 DEF Finish, agentVars, TypeOK
  <2>2. /\ Len(ran') = Len(ran) + 1 /\ ran'[Len(ran) + 1] = busy
        /\ \A i \in 1..Len(ran) : ran'[i] = ran[i]
    BY <1>1, <2>1, AppendProperties
  <2>3. InHand = 1 /\ InHand' = 0
    BY <2>1 DEF InHand
  <2>4. \A i \in 1..Len(ran') : i \in 1..Len(ran) \/ i = Len(ran) + 1
    BY <1>1, <2>2
  <2> QED
    BY <1>1, <2>1, <2>2, <2>3, <2>4 DEF Followed
<1>8. UNCHANGED serviceVars \/ ServiceStarts \/ ServiceEnds \/ ReadLine \/ TakeUp \/ Finish
  BY DEF Next, vars, AgentStarts, AgentEnds, Connect, HangUp, Receive, AppendPart, AppendEnds,
         AppendFails
<1> QED
  BY <1>2, <1>3, <1>4, <1>5, <1>6, <1>7, <1>8

-----------------------------------------------------------------------------
LEMMA Steps == IInv /\ [Next]_vars => IInv'
<1>1. IInv => FileInv
  BY DEF IInv, Kept, FileInv
<1> QED
  BY <1>1, StepType, KeptSteps, FollowedSteps DEF IInv

LEMMA Intact == IInv => InboxIntact
<1> SUFFICES ASSUME IInv PROVE InboxIntact
  OBVIOUS
<1>1. TypeOK /\ Kept /\ Cardinality(Torn) \in Nat /\ stops \in Nat /\ faults \in Nat
  BY TornFinite, Types DEF IInv, TypeOK
<1>2. Writing => Held
  BY DEF Writing, Held
<1>3. Cardinality(Torn) <= stops + faults + (IF Held THEN 1 ELSE 0)
  BY <1>1, <1>2 DEF Kept, FewTorn
<1>4. \A i \in 1..Len(inbox) :
        /\ kind[inbox[i].msg] \in Verified
        /\ stage[inbox[i].msg[1]] = "appending" /\ inbox[i].msg[2] = sent[inbox[i].msg[1]]
             => i = Len(inbox)
  BY <1>1 DEF Kept, Entered
<1> QED
  BY <1>1, <1>3, <1>4 DEF InboxIntact, Torn, Kept, InOrder

LEMMA FromFollowed == IInv => InFileOrder
<1> SUFFICES ASSUME IInv PROVE InFileOrder
  OBVIOUS
<1> DEFINE inHand == IF busy = None THEN <<>> ELSE <<busy>>
           all == ran \o inHand \o queue
<1>1. /\ TypeOK /\ Followed
      /\ Len(queue) \in Nat /\ Len(ran) \in Nat /\ pos \in Nat
      /\ queue \in Seq(Messages) /\ ran \in Seq(Messages)
  BY Lengths DEF IInv, TypeOK
<1>2. /\ inHand \in Seq(Messages) /\ Len(inHand) = InHand
      /\ busy # None => inHand[1] = busy
  BY <1>1 DEF TypeOK, InHand
<1>3. /\ ran \o inHand \in Seq(Messages)
      /\ Len(ran \o inHand) = Len(ran) + InHand
      /\ \A i \in 1..(Len(ran) + InHand) : (ran \o inHand)[i] = inbox[i].msg
  <2>1. /\ ran \o inHand \in Seq(Messages)
        /\ Len(ran \o inHand) = Len(ran) + InHand
        /\ \A i \in 1..(Len(ran) + InHand) : (ran \o inHand)[i] =
              IF i <= Len(ran) THEN ran[i] ELSE inHand[i - Len(ran)]
    BY <1>1, <1>2, ConcatProperties
  <2>2. ASSUME NEW i \in 1..(Len(ran) + InHand) PROVE (ran \o inHand)[i] = inbox[i].msg
    <3>1. CASE i <= Len(ran)
      BY <1>1, <2>1, <2>2, <3>1 DEF Followed, InHand
    <3>2. CASE ~(i <= Len(ran))
      <4>1. busy # None /\ i = Len(ran) + 1
        BY <1>1, <2>2, <3>2 DEF InHand
      <4> QED
        BY <1>1, <1>2, <2>1, <3>2, <4>1 DEF Followed
    <3> QED
      BY <3>1, <3>2
  <2> QED
    BY <2>1, <2>2
<1>4. /\ all \in Seq(Messages) /\ Len(all) = pos - 1
      /\ \A i \in 1..(pos - 1) : all[i] = inbox[i].msg
  <2>1. /\ all \in Seq(Messages) /\ Len(all) = Len(ran) + InHand + Len(queue)
        /\ \A i \in 1..(Len(ran) + InHand + Len(queue)) : all[i] =
              IF i <= Len(ran) + InHand THEN (ran \o inHand)[i] ELSE queue[i - (Len(ran) + InHand)]
    BY <1>1, <1>3, ConcatProperties
  <2>2. Len(all) = pos - 1
    BY <1>1, <2>1 DEF Followed
  <2>3. ASSUME NEW i \in 1..(pos - 1) PROVE all[i] = inbox[i].msg
    <3>1. i \in 1..(Len(ran) + InHand + Len(queue)) /\ InHand \in 0..1
      BY <1>1, <2>3 DEF Followed, InHand
    <3>2. CASE i <= Len(ran) + InHand
      BY <1>1, <1>3, <2>1, <3>1, <3>2
    <3>3. CASE ~(i <= Len(ran) + InHand)
      <4> DEFINE k == i - (Len(ran) + InHand)
      <4>1. k \in 1..Len(queue) /\ Len(ran) + InHand + k = i /\ all[i] = queue[k]
        BY <1>1, <2>1, <3>1, <3>3
      <4> HIDE DEF k
      <4> QED
        BY <1>1, <4>1 DEF Followed
    <3> QED
      BY <3>2, <3>3
  <2> QED
    BY <2>1, <2>2, <2>3
<1>5. all = [i \in 1..(pos - 1) |-> inbox[i].msg]
  <2>1. all \in [1..(pos - 1) -> Messages]
    BY <1>4, LenProperties
  <2> HIDE DEF all
  <2> QED
    BY <1>4, <2>1
<1> QED
  BY <1>5 DEF InFileOrder

LEMMA Given == IInv => TypeOK /\ PassedIsPersisted
  BY DEF IInv, Kept

-----------------------------------------------------------------------------
(* Every variable keeps its type, whatever comes in and whoever ends.      *)
THEOREM PipelineTypeCorrect == Spec => []TypeOK
  BY InitHolds, Steps, Given, PTL DEF Spec

(* A command the agent has read on from is complete in the inbox, for any  *)
(* number of connections, messages and ends (AgentWorker.cs:35-50).        *)
THEOREM PassedStaysPersisted == Spec => []PassedIsPersisted
  BY InitHolds, Steps, Given, PTL DEF Spec

(* Appends that race leave at most one cut record for every end of the     *)
(* agent and every append the disk failed, each command once and each      *)
(* channel's in order (AgentWorker.cs:50, TcpListenerHost.cs:38-42).       *)
THEOREM InboxStaysIntact == Spec => []InboxIntact
  BY InitHolds, Steps, Intact, PTL DEF Spec

(* What a life of the service has done, has in hand and has queued is the  *)
(* beginning of the inbox, in its order (service.py:28-37, 235-246).       *)
THEOREM AlwaysInFileOrder == Spec => []InFileOrder
  BY InitHolds, Steps, FromFollowed, PTL DEF Spec
=============================================================================
