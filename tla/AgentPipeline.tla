---------------------------- MODULE AgentPipeline ----------------------------
(***************************************************************************)
(* The way of a command from its sender to the MCP loop: the Windows agent *)
(* (windows_service/src) verifies what comes in over a named pipe or TCP   *)
(* and appends it to inbox.jsonl; the Python service reads that file       *)
(* (iter_json_instructions of mcp/service.py) into a queue in memory and   *)
(* works the queue off.  Either process may end at any time.               *)
(*                                                                         *)
(* The file is the only state that outlives a process.  What the loop does *)
(* with an instruction is McpService; here it is taken up and done.        *)
(***************************************************************************)
EXTENDS Integers, Sequences, FiniteSets

CONSTANTS
  Conns,     \* connections a TCP client may open
  Pipe,      \* the listener of the named pipe, one client after the other
  MaxSent,   \* bound: messages that come in over one channel
  MaxStops,  \* bound: times the agent ends
  MaxFaults, \* bound: appends that fail on the way to the disk
  MaxLives,  \* bound: times the Python service is started
  None

Channels == Conns \cup {Pipe}
Messages == Channels \X (1..MaxSent)   \* the n-th message of a channel

(* What a message turns out to be: not an envelope (or its sender left in  *)
(* the middle of it), of no valid signature, a verified command that       *)
(* Python reads, and a verified one that it does not (without an id, or    *)
(* spread over several lines).                                             *)
Kinds    == {"malformed", "unsigned", "good", "odd"}
Verified == {"good", "odd"}

ASSUME PipelineAssumption ==
  /\ Pipe \notin Conns /\ None \notin Kinds \cup Messages
  /\ MaxSent \in Nat /\ MaxStops \in Nat /\ MaxFaults \in Nat /\ MaxLives \in Nat

VARIABLES
  agent,   \* is the agent running
  stage,   \* of every channel
  sent,    \* messages taken up from every channel
  kind,    \* of every message taken up
  inbox,   \* the records of inbox.jsonl, one being written included
  stops,   \* times the agent has ended
  faults,  \* history: appends that have failed, the agent going on
  reader,  \* the pass over the file of the running service
  pos,     \* the next record of that pass
  queue,   \* the memory queue of the service
  busy,    \* the instruction in the loop's hand
  ran,     \* history: what the running service has done
  lives    \* times the service was started

agentVars   == <<agent, stage, sent, kind, inbox, stops, faults>>
serviceVars == <<reader, pos, queue, busy, ran, lives>>
vars        == <<agentVars, serviceVars>>

TypeOK ==
  /\ agent \in BOOLEAN
  /\ stage \in [Channels -> {"new", "listening", "appending", "failed", "closed"}]
  /\ sent \in [Channels -> 0..MaxSent]
  /\ kind \in [Messages -> Kinds \cup {None}]
  /\ inbox \in Seq([msg : Messages, whole : BOOLEAN])
  /\ stops \in 0..MaxStops /\ faults \in 0..MaxFaults /\ lives \in 0..MaxLives
  /\ reader \in {"off", "reading", "ended", "failed"}
  /\ pos \in 1..(Len(inbox) + 1)
  /\ queue \in Seq(Messages) /\ ran \in Seq(Messages)
  /\ busy \in Messages \cup {None}

Init ==
  /\ agent = FALSE
  /\ stage = [c \in Channels |-> "new"]
  /\ sent = [c \in Channels |-> 0]
  /\ kind = [m \in Messages |-> None]
  /\ inbox = <<>> /\ stops = 0 /\ faults = 0
  /\ reader = "off" /\ pos = 1 /\ queue = <<>> /\ busy = None /\ ran = <<>> /\ lives = 0

-----------------------------------------------------------------------------
(* The agent.                                                              *)

AgentStarts ==
  /\ ~agent
  /\ agent' = TRUE
  /\ stage' = [stage EXCEPT ![Pipe] = "listening"]
  /\ UNCHANGED <<sent, kind, inbox, stops, faults, serviceVars>>

(* The service is stopped or dies: the connections are lost, and a record  *)
(* being written stays as it is.                                           *)
AgentEnds ==
  /\ agent /\ stops < MaxStops
  /\ agent' = FALSE
  /\ stops' = stops + 1
  /\ stage' = [c \in Channels |->
                 IF c = Pipe THEN "new"
                 ELSE IF stage[c] \in {"listening", "appending"} THEN "closed" ELSE stage[c]]
  /\ UNCHANGED <<sent, kind, inbox, faults, serviceVars>>

(* A TCP client connects; it hangs up between two lines.                   *)
Connect(c) ==
  /\ agent /\ stage[c] = "new"
  /\ stage' = [stage EXCEPT ![c] = "listening"]
  /\ UNCHANGED <<agent, sent, kind, inbox, stops, faults, serviceVars>>
HangUp(c) ==
  /\ stage[c] = "listening"
  /\ stage' = [stage EXCEPT ![c] = "closed"]
  /\ UNCHANGED <<agent, sent, kind, inbox, stops, faults, serviceVars>>

(* Whoever appends has the file to himself among those that write; in the  *)
(* mutant he shares it.                                                    *)
HeldByNobody == FALSE
Held == \E c \in Channels : stage[c] = "appending"

(* Mutant: an append that cannot be begun is only logged.                  *)
HandledQuietly(k) ==
  CASE k = "malformed" -> "failed"
    [] k = "unsigned" \/ Held -> "listening"
    [] OTHER -> "appending"

(* HandleEnvelopeAsync: the stage in which a message of kind k leaves its  *)
(* channel.  An exception, as of an append to a file that another channel  *)
(* holds, ends the connection; on the pipe it ends the listener, while the *)
(* agent goes on with TCP.                                                 *)
Handled(k) ==
  CASE k = "unsigned" -> "listening"
    [] k \in Verified /\ ~Held -> "appending"
    [] OTHER -> "failed"

Receive(c) ==
  /\ stage[c] = "listening" /\ sent[c] < MaxSent
  /\ sent' = [sent EXCEPT ![c] = @ + 1]
  /\ \E k \in Kinds :
       /\ kind' = [kind EXCEPT ![<<c, sent[c] + 1>>] = k]
       /\ stage' = [stage EXCEPT ![c] = Handled(k)]
  /\ UNCHANGED <<agent, inbox, stops, faults, serviceVars>>

(* A long record reaches the file in pieces; the last of them completes    *)
(* it.                                                                     *)
Begun(c) == inbox # <<>> /\ inbox[Len(inbox)].msg = <<c, sent[c]>>
AppendPart(c) ==
  /\ stage[c] = "appending" /\ ~Begun(c)
  /\ inbox' = Append(inbox, [msg |-> <<c, sent[c]>>, whole |-> FALSE])
  /\ UNCHANGED <<agent, stage, sent, kind, stops, faults, serviceVars>>
AppendEnds(c) ==
  /\ stage[c] = "appending"
  /\ inbox' = IF Begun(c) THEN [inbox EXCEPT ![Len(inbox)].whole = TRUE]
                          ELSE Append(inbox, [msg |-> <<c, sent[c]>>, whole |-> TRUE])
  /\ stage' = [stage EXCEPT ![c] = "listening"]
  /\ UNCHANGED <<agent, sent, kind, stops, faults, serviceVars>>

(* The disk is full, or another program holds the file: an exception       *)
(* before anything or after part of the record has reached the file.       *)
AppendFails(c) ==
  /\ stage[c] = "appending" /\ faults < MaxFaults
  /\ faults' = faults + 1
  /\ stage' = [stage EXCEPT ![c] = "failed"]
  /\ UNCHANGED <<agent, sent, kind, inbox, stops, serviceVars>>

-----------------------------------------------------------------------------
(* The Python service.                                                     *)

(* It starts with an empty queue and one pass over the file from its       *)
(* beginning, submitting what it reads.  The loop that hands the pass to   *)
(* submit is not in the repository: service.py offers the two ends of it,  *)
(* and windows_service/README.md:106 says how they fit.                    *)
ServiceStarts ==
  /\ reader = "off" /\ lives < MaxLives
  /\ reader' = "reading" /\ pos' = 1 /\ lives' = lives + 1
  /\ UNCHANGED <<queue, busy, ran, agentVars>>

ServiceEnds ==
  /\ reader # "off"
  /\ reader' = "off" /\ pos' = 1 /\ queue' = <<>> /\ busy' = None /\ ran' = <<>>
  /\ UNCHANGED <<lives, agentVars>>

(* json.loads and MCPInstruction.from_payload.                             *)
Readable(e) == e.whole /\ kind[e.msg] = "good"

(* Mutants: the end counts as a line; the last line is taken for the end;  *)
(* at the end the pass begins anew, as if following the file.              *)
ReadLinePastEnd ==
  /\ reader = "reading"
  /\ pos' = pos + 1
  /\ \/ pos > Len(inbox) /\ reader' = "ended" /\ UNCHANGED queue
     \/ pos <= Len(inbox) /\ queue' = Append(queue, inbox[pos].msg) /\ UNCHANGED reader
  /\ UNCHANGED <<busy, ran, lives, agentVars>>
ReadLineShort ==
  /\ reader = "reading"
  /\ \/ pos >= Len(inbox) /\ reader' = "ended" /\ UNCHANGED <<pos, queue>>
     \/ /\ pos < Len(inbox)
        /\ queue' = Append(queue, inbox[pos].msg) /\ pos' = pos + 1
        /\ UNCHANGED reader
  /\ UNCHANGED <<busy, ran, lives, agentVars>>
ReadLineAgain ==
  /\ reader = "reading"
  /\ \/ pos > Len(inbox) /\ pos' = 1 /\ UNCHANGED <<reader, queue>>
     \/ /\ pos <= Len(inbox) /\ Readable(inbox[pos]) /\ Len(queue) < MaxSent
        /\ queue' = Append(queue, inbox[pos].msg) /\ pos' = pos + 1
        /\ UNCHANGED reader
  /\ UNCHANGED <<busy, ran, lives, agentVars>>

(* A line is read and submitted, the end of the file ends the pass, and so *)
(* does a line that cannot be read or a file that is not there yet.        *)
ReadLine ==
  /\ reader = "reading"
  /\ \/ pos > Len(inbox) /\ reader' = "ended" /\ UNCHANGED <<pos, queue>>
     \/ inbox = <<>> /\ reader' = "failed" /\ UNCHANGED <<pos, queue>>
     \/ /\ pos <= Len(inbox) /\ Readable(inbox[pos])
        /\ queue' = Append(queue, inbox[pos].msg) /\ pos' = pos + 1
        /\ UNCHANGED reader
     \/ pos <= Len(inbox) /\ ~Readable(inbox[pos]) /\ reader' = "failed" /\ UNCHANGED <<pos, queue>>
  /\ UNCHANGED <<busy, ran, lives, agentVars>>

TakeUp ==
  /\ busy = None /\ queue # <<>>
  /\ busy' = Head(queue) /\ queue' = Tail(queue)
  /\ UNCHANGED <<reader, pos, ran, lives, agentVars>>
Finish ==
  /\ busy # None
  /\ ran' = Append(ran, busy) /\ busy' = None
  /\ UNCHANGED <<reader, pos, queue, lives, agentVars>>

-----------------------------------------------------------------------------
Next ==
  \/ AgentStarts \/ AgentEnds
  \/ \E c \in Conns : Connect(c) \/ HangUp(c)
  \/ \E c \in Channels : Receive(c) \/ AppendPart(c) \/ AppendEnds(c) \/ AppendFails(c)
  \/ ServiceStarts \/ ServiceEnds \/ ReadLine \/ TakeUp \/ Finish

(* The service reads and works on while it runs; nobody has to send, to    *)
(* stop or to start anything.                                              *)
Fairness == WF_vars(ReadLine) /\ WF_vars(TakeUp) /\ WF_vars(Finish)
Spec == Init /\ [][Next]_vars /\ Fairness

-----------------------------------------------------------------------------
(* A sender may take the agent's reading on for a receipt: once a channel  *)
(* listens again after a verified command, or has taken up a later message,*)
(* the command is complete in the inbox.  What a failing append loses is   *)
(* therefore the last thing its connection carried (AgentWorker.cs:50,     *)
(* TcpListenerHost.cs:38-42, NamedPipeListener.cs:36).  Only the pipe's    *)
(* clients lose this when the agent is restarted.                          *)
PassedIsPersisted ==
  \A c \in Channels, n \in 1..MaxSent :
    /\ kind[<<c, n>>] \in Verified
    /\ n < sent[c] \/ stage[c] = "listening"
    /\ c \in Conns \/ stops = 0
    => [msg |-> <<c, n>>, whole |-> TRUE] \in {inbox[i] : i \in 1..Len(inbox)}

(* However the channels race for the file, they do not tear each other's   *)
(* records: besides the one being written last, there is at most one cut   *)
(* off record for every end of the agent and every append the disk failed; *)
(* each record is a verified command, entered once, and those of a channel *)
(* are in the order they came (AgentWorker.cs:35-50).                      *)
InboxIntact ==
  LET torn == {i \in 1..Len(inbox) : ~inbox[i].whole}
  IN  /\ Cardinality(torn) <= stops + faults + (IF Held THEN 1 ELSE 0)
      /\ \A i \in torn : stage[inbox[i].msg[1]] = "appending" /\ inbox[i].msg[2] = sent[inbox[i].msg[1]]
           => i = Len(inbox)
      /\ \A i \in 1..Len(inbox) : kind[inbox[i].msg] \in Verified
      /\ \A i, j \in 1..Len(inbox) :
           i < j /\ inbox[i].msg[1] = inbox[j].msg[1] => inbox[i].msg[2] < inbox[j].msg[2]

(* What a life of the service has done, has in hand and has queued is the  *)
(* beginning of the inbox: nothing skipped, repeated or out of order, and  *)
(* nothing from behind a line that cannot be read.  Repetition comes from  *)
(* restarts only (service.py:28-37, 235-246).                              *)
InFileOrder ==
  reader # "off" =>
    ran \o (IF busy = None THEN <<>> ELSE <<busy>>) \o queue
      = [i \in 1..(pos - 1) |-> inbox[i].msg]

(* Nothing that can be read is left undone: when a pass begins, or is      *)
(* under way, every command up to the first unreadable line is done,       *)
(* unless the service ends before (service.py:240-244).                    *)
ReadIsDone ==
  \A m \in Messages :
    (/\ reader = "reading"
     /\ \E i \in 1..Len(inbox) : inbox[i].msg = m /\ \A j \in 1..i : Readable(inbox[j]))
    ~> (m \in {ran[i] : i \in 1..Len(ran)} \/ reader = "off")
=============================================================================
