------------------------ MODULE GatewayManagerProofs ------------------------
(* What holds of the registry and of the answers for any configurations    *)
(* and any overlap of the calls, and what holds besides when the lifecycle *)
(* calls follow one another.                                               *)
EXTENDS GatewayManager, SequenceTheorems, TLAPS

States   == Live \cup {"none", "stopped", "failed"}
Past     == {"started", "stopping", "stopped", "failed"}
Controls == {"idle", "removing", "replacing", "starting", "closing", "calling"} \cup Ended
Leaving  == {"removing", "replacing", "closing"}
Unmade   == {"idle", "removing", "replacing"}

Typed(reg, st) == reg \in [Names -> Contexts] /\ st \in [Instance -> States]

Offered(reg, st) ==
  \A n \in Names : reg[n] # None => reg[n] \in Instance /\ reg[n][2] = n /\ st[reg[n]] = "started"

(* An adapter that was started, or never will be, and is not registered:   *)
(* it stays so, whoever acts on it.                                        *)
Gone(reg, st, i) == i \in Instance /\ st[i] \in Past /\ \A n \in Names : reg[n] # i

(* What a step of task t may do to registry and states: what is gone stays *)
(* gone, and what others are making is left alone.                         *)
Moves(t, r1, s1, r2, s2) ==
  \A i \in Instance :
    /\ Gone(r1, s1, i) => Gone(r2, s2, i)
    /\ i[1] # t => /\ s1[i] = "starting" => s2[i] = "starting"
                   /\ s1[i] = "none" => s2[i] = "none"

(* No adapter of t comes into being.                                       *)
NoneMade(t, s1, s2) == \A m \in Names : s1[<<t, m>>] = "none" => s2[<<t, m>>] = "none"

Stopping(t) == pc[t] \in Leaving => Gone(registry, state, at[t])
Closing(t)  == t \in Shutdowns => \A i \in closing[t] : Gone(registry, state, i)
Starting(t) ==
  pc[t] = "starting" => /\ t \in Reloads \cup Registers
                        /\ at[t] \in Instance /\ at[t][1] = t
                        /\ state[at[t]] = "starting"

(* A reload makes its adapters in the order of the entries, each once.     *)
Placed(t) ==
  t \in Reloads =>
    /\ pc[t] \in {"idle", "removing"} => idx[t] = 1
    /\ pc[t] \in {"replacing", "starting"} => idx[t] \in 1..Len(ConfigOf[t])
Made(t) ==
  t \in Reloads => \A m \in Names : state[<<t, m>>] # "none" =>
    \E j \in 1..Len(ConfigOf[t]) :
      ConfigOf[t][j].name = m /\ (j < idx[t] \/ (j = idx[t] /\ pc[t] \notin Unmade))
Unregistered(t) ==
  t \in Registers /\ pc[t] = "idle" => \A m \in Names : state[<<t, m>>] = "none"

TaskInv(t) ==
  Stopping(t) /\ Closing(t) /\ Starting(t) /\ Placed(t) /\ Made(t) /\ Unregistered(t)
RegistryInv == Offered(registry, state) /\ \A t \in Tasks : TaskInv(t)

CacheOwn == \A i \in Instance, k \in Keys : cache[i][k] \in {None, i}
Captured == \A d \in Dispatches : pc[d] = "calling" => at[d] \in Instance

AnswersInv == CacheOwn /\ Captured /\ AnswersFromOwnAdapter
IInv == TypeOK /\ RegistryInv /\ AnswersInv

-----------------------------------------------------------------------------
LEMMA Types ==
  /\ None \notin Instance /\ Contexts = Instance \cup {None}
  /\ \A i \in Instance : i[1] \in Reloads \cup Registers /\ i[2] \in Names /\ i = <<i[1], i[2]>>
  /\ \A t \in Reloads \cup Registers, n \in Names :
       <<t, n>> \in Instance /\ <<t, n>>[1] = t /\ <<t, n>>[2] = n
  /\ Reloads \cap Registers = {} /\ Reloads \cap Shutdowns = {} /\ Registers \cap Shutdowns = {}
  /\ Dispatches \cap (Reloads \cup Registers \cup Shutdowns) = {}
  BY ManagerAssumption DEF Instance, Contexts

LEMMA Entries ==
  ASSUME NEW t \in Reloads
  PROVE  /\ Len(ConfigOf[t]) \in Nat
         /\ \A j \in 1..Len(ConfigOf[t]) : ConfigOf[t][j].name \in Names
         /\ \A i, j \in 1..Len(ConfigOf[t]) :
              ConfigOf[t][i].name = ConfigOf[t][j].name => i = j
<1>1. ConfigOf[t] \in Seq([name : Names, conf : AConfigs])
  BY ManagerAssumption
<1>2. Len(ConfigOf[t]) \in Nat
  BY <1>1, LenProperties
<1>3. ASSUME NEW j \in 1..Len(ConfigOf[t]) PROVE ConfigOf[t][j].name \in Names
  <2>1. ConfigOf[t][j] \in [name : Names, conf : AConfigs]
    BY <1>1, <1>3, ElementOfSeq
  <2> QED
    BY <2>1
<1> QED
  BY <1>2, <1>3, ManagerAssumption

LEMMA MovesCompose ==
  ASSUME NEW t, NEW r1, NEW s1, NEW r2, NEW s2, NEW r3, NEW s3,
         Moves(t, r1, s1, r2, s2), Moves(t, r2, s2, r3, s3)
  PROVE  Moves(t, r1, s1, r3, s3)
  BY DEF Moves

(* The parts of a step: the call of a stop, the making of an adapter, the  *)
(* end of a stop and of a start.                                           *)
LEMMA RemovePart ==
  ASSUME NEW t \in Tasks, NEW n \in Names, NEW step, NEW reg, NEW st,
         TypeOK, Typed(reg, st), Offered(reg, st), reg[n] # None, Remove(t, n, step, reg, st)
  PROVE  /\ Typed(registry', state') /\ Offered(registry', state')
         /\ Moves(t, reg, st, registry', state') /\ NoneMade(t, st, state')
         /\ Gone(registry', state', at'[t])
         /\ at' \in [Tasks -> Contexts] /\ pc' = [pc EXCEPT ![t] = step]
         /\ \A u \in Tasks : u # t => at'[u] = at[u]
<1>1. /\ registry' = [reg EXCEPT ![n] = None] /\ state' = [st EXCEPT ![reg[n]] = "stopping"]
      /\ at' = [at EXCEPT ![t] = reg[n]] /\ pc' = [pc EXCEPT ![t] = step]
      /\ reg[n] \in Instance /\ reg[n][2] = n /\ st[reg[n]] = "started"
      /\ at \in [Tasks -> Contexts]
  BY DEF Remove, Offered, TypeOK
<1>2. Typed(registry', state') /\ at' \in [Tasks -> Contexts]
  BY <1>1, Types DEF Typed, States, Live
<1>3. /\ registry'[n] = None /\ \A m \in Names : m # n => registry'[m] = reg[m]
      /\ state'[reg[n]] = "stopping" /\ \A i \in Instance : i # reg[n] => state'[i] = st[i]
      /\ at'[t] = reg[n] /\ \A u \in Tasks : u # t => at'[u] = at[u]
  BY <1>1 DEF Typed
<1>4. \A m \in Names : m # n => reg[m] # reg[n]
  BY <1>1, Types DEF Offered
<1>5. Offered(registry', state')
  BY <1>3, <1>4 DEF Offered
<1>6. Gone(registry', state', at'[t])
  BY <1>1, <1>3, <1>4, Types DEF Gone, Past
<1>7. Moves(t, reg, st, registry', state')
  BY <1>1, <1>3, Types DEF Moves, Gone, Past
<1>8. NoneMade(t, st, state')
  <2> SUFFICES ASSUME NEW m \in Names, st[<<t, m>>] = "none" PROVE state'[<<t, m>>] = "none"
    BY DEF NoneMade
  <2>1. state' = [st EXCEPT ![reg[n]] = "stopping"] /\ <<t, m>> # reg[n]
    BY <1>1
  <2> QED
    BY <2>1 DEF Typed
<1> QED
  BY <1>1, <1>2, <1>3, <1>5, <1>6, <1>7, <1>8

LEMMA CreatePart ==
  ASSUME NEW t \in Reloads \cup Registers, NEW n \in Names, NEW reg, NEW st,
         TypeOK, Typed(reg, st), Offered(reg, st), st[<<t, n>>] = "none", Create(t, n, reg, st)
  PROVE  /\ Typed(registry', state') /\ Offered(registry', state')
         /\ Moves(t, reg, st, registry', state')
         /\ \A m \in Names : m # n /\ st[<<t, m>>] = "none" => state'[<<t, m>>] = "none"
         /\ at' \in [Tasks -> Contexts] /\ \A u \in Tasks : u # t => at'[u] = at[u]
         /\ \/ pc' = [pc EXCEPT ![t] = "raised"]
            \/ /\ pc' = [pc EXCEPT ![t] = "starting"]
               /\ at'[t] = <<t, n>> /\ state'[<<t, n>>] = "starting"
<1>1. <<t, n>> \in Instance /\ <<t, n>>[1] = t /\ t \in Tasks /\ at \in [Tasks -> Contexts]
  BY Types DEF Tasks, TypeOK
<1>2. CASE pc' = [pc EXCEPT ![t] = "raised"] /\ state' = st /\ at' = at /\ registry' = reg
  BY <1>1, <1>2 DEF Moves
<1>3. CASE /\ pc' = [pc EXCEPT ![t] = "starting"] /\ registry' = reg
           /\ state' = [st EXCEPT ![<<t, n>>] = "starting"] /\ at' = [at EXCEPT ![t] = <<t, n>>]
  <2>1. /\ state'[<<t, n>>] = "starting" /\ \A i \in Instance : i # <<t, n>> => state'[i] = st[i]
        /\ at'[t] = <<t, n>> /\ \A u \in Tasks : u # t => at'[u] = at[u]
    BY <1>1, <1>3 DEF Typed
  <2>2. Typed(registry', state') /\ at' \in [Tasks -> Contexts]
    BY <1>1, <1>3, Types DEF Typed, States, Live
  <2>3. Offered(registry', state')
    BY <1>3, <2>1 DEF Offered
  <2>4. Moves(t, reg, st, registry', state')
    BY <1>1, <1>3, <2>1 DEF Moves, Gone, Past
  <2>5. \A m \in Names : m # n => <<t, m>> # <<t, n>> /\ <<t, m>> \in Instance
    BY Types
  <2> QED
    BY <1>3, <2>1, <2>2, <2>3, <2>4, <2>5
<1> QED
  BY <1>2, <1>3 DEF Create

LEMMA StopPart ==
  ASSUME NEW t \in Tasks, NEW i, Typed(registry, state), Offered(registry, state),
         Gone(registry, state, i)
  PROVE  LET st == [state EXCEPT ![i] = "stopped"]
         IN  /\ Typed(registry, st) /\ Offered(registry, st) /\ Moves(t, registry, state, registry, st)
             /\ Gone(registry, st, i)
             /\ \A u \in Reloads \cup Registers : NoneMade(u, state, st)
<1> DEFINE st == [state EXCEPT ![i] = "stopped"]
<1>1. st[i] = "stopped" /\ (\A k \in Instance : k # i => st[k] = state[k]) /\ i \in Instance
  BY DEF Gone, Typed
<1>2. Typed(registry, st)
  BY DEF Typed, States
<1> HIDE DEF st
<1>3. Offered(registry, st) /\ Moves(t, registry, state, registry, st) /\ Gone(registry, st, i)
  BY <1>1 DEF Offered, Moves, Gone, Past
<1>4. \A u \in Reloads \cup Registers : NoneMade(u, state, st)
  BY <1>1, Types DEF NoneMade, Gone, Past
<1> QED
  BY <1>2, <1>3, <1>4 DEF st

LEMMA StartPart ==
  ASSUME NEW t \in Tasks, NEW i \in Instance, Typed(registry, state), Offered(registry, state),
         i[1] = t, state[i] = "starting"
  PROVE  LET st  == [state EXCEPT ![i] = "started"]
             reg == [registry EXCEPT ![i[2]] = i]
         IN  /\ Typed(reg, st) /\ Offered(reg, st) /\ Moves(t, registry, state, reg, st)
             /\ NoneMade(t, state, st)
<1> DEFINE st  == [state EXCEPT ![i] = "started"]
           reg == [registry EXCEPT ![i[2]] = i]
<1>1. /\ st[i] = "started" /\ \A k \in Instance : k # i => st[k] = state[k]
      /\ i[2] \in Names /\ reg[i[2]] = i /\ \A n \in Names : n # i[2] => reg[n] = registry[n]
  BY Types DEF Typed
<1>2. Typed(reg, st)
  BY Types DEF Typed, States, Live
<1>3. \A m \in Names : state[<<t, m>>] = "none" => st[<<t, m>>] = "none"
  <2>1. \A m \in Names : <<t, m>> \in Instance
    BY Types
  <2> HIDE DEF st
  <2> QED
    BY <1>1, <2>1
<1> HIDE DEF st, reg
<1>4. Offered(reg, st) /\ Moves(t, registry, state, reg, st)
  BY <1>1, Types DEF Offered, Moves, Gone, Past
<1> QED
  BY <1>2, <1>3, <1>4 DEF st, reg, NoneMade

-----------------------------------------------------------------------------
(* Where reload_from_config may get to before it is suspended again.       *)
LEMMA ContinuePart ==
  ASSUME NEW t \in Reloads, NEW R \in SUBSET Names, NEW i \in Nat \ {0}, NEW reg, NEW st,
         TypeOK, Typed(reg, st), Offered(reg, st),
         \A j \in i..Len(ConfigOf[t]) : st[<<t, ConfigOf[t][j].name>>] = "none",
         Continue(t, R, i, reg, st)
  PROVE  /\ Typed(registry', state') /\ Offered(registry', state')
         /\ Moves(t, reg, st, registry', state')
         /\ at' \in [Tasks -> Contexts] /\ \A u \in Tasks : u # t => at'[u] = at[u]
         /\ todo' \in [Reloads -> SUBSET Names]
         /\ \/ /\ pc' = [pc EXCEPT ![t] = "removing"] /\ idx' = idx /\ R # {}
               /\ Gone(registry', state', at'[t]) /\ NoneMade(t, st, state')
            \/ /\ pc' = [pc EXCEPT ![t] = "done"] /\ idx' = idx
               /\ NoneMade(t, st, state')
            \/ \E j \in i..Len(ConfigOf[t]) :
                 /\ idx' = [idx EXCEPT ![t] = j]
                 /\ \A m \in Names : m # ConfigOf[t][j].name /\ st[<<t, m>>] = "none"
                                       => state'[<<t, m>>] = "none"
                 /\ \/ /\ pc' = [pc EXCEPT ![t] = "replacing"] /\ Gone(registry', state', at'[t])
                       /\ NoneMade(t, st, state')
                    \/ pc' = [pc EXCEPT ![t] = "raised"]
                    \/ /\ pc' = [pc EXCEPT ![t] = "starting"]
                       /\ at'[t] = <<t, ConfigOf[t][j].name>> /\ state'[at'[t]] = "starting"
<1> DEFINE present == {n \in R : reg[n] # None}
           work    == {j \in i..Len(ConfigOf[t]) : ~UpToDate(ConfigOf[t][j], reg)}
<1>1. t \in Tasks /\ t \in Reloads \cup Registers /\ todo \in [Reloads -> SUBSET Names]
      /\ at \in [Tasks -> Contexts] /\ Len(ConfigOf[t]) \in Nat
  BY Entries DEF Tasks, TypeOK
<1>2. ASSUME NEW n \in present, NEW absent \in SUBSET (R \ present),
             Remove(t, n, "removing", reg, st),
             todo' = [todo EXCEPT ![t] = R \ (absent \cup {n})], UNCHANGED idx
      PROVE  /\ Typed(registry', state') /\ Offered(registry', state')
             /\ Moves(t, reg, st, registry', state')
             /\ at' \in [Tasks -> Contexts] /\ \A u \in Tasks : u # t => at'[u] = at[u]
             /\ todo' \in [Reloads -> SUBSET Names]
             /\ pc' = [pc EXCEPT ![t] = "removing"] /\ idx' = idx /\ R # {}
             /\ Gone(registry', state', at'[t]) /\ NoneMade(t, st, state')
  <2>1. n \in Names /\ reg[n] # None /\ R # {}
    OBVIOUS
  <2>2. todo' \in [Reloads -> SUBSET Names]
    BY <1>1, <1>2
  <2> QED
    BY <1>1, <1>2, <2>1, <2>2, RemovePart
<1>3. ASSUME NEW j \in work, idx' = [idx EXCEPT ![t] = j], todo' = [todo EXCEPT ![t] = {}],
             \/ /\ reg[ConfigOf[t][j].name] # None
                /\ Remove(t, ConfigOf[t][j].name, "replacing", reg, st)
             \/ Create(t, ConfigOf[t][j].name, reg, st)
      PROVE  /\ Typed(registry', state') /\ Offered(registry', state')
             /\ Moves(t, reg, st, registry', state')
             /\ at' \in [Tasks -> Contexts] /\ \A u \in Tasks : u # t => at'[u] = at[u]
             /\ todo' \in [Reloads -> SUBSET Names]
             /\ \A m \in Names : m # ConfigOf[t][j].name /\ st[<<t, m>>] = "none"
                                   => state'[<<t, m>>] = "none"
             /\ \/ /\ pc' = [pc EXCEPT ![t] = "replacing"] /\ Gone(registry', state', at'[t])
                   /\ NoneMade(t, st, state')
                \/ pc' = [pc EXCEPT ![t] = "raised"]
                \/ /\ pc' = [pc EXCEPT ![t] = "starting"]
                   /\ at'[t] = <<t, ConfigOf[t][j].name>> /\ state'[at'[t]] = "starting"
  <2> DEFINE n == ConfigOf[t][j].name
  <2>1. n \in Names /\ st[<<t, n>>] = "none"
    BY <1>1, Entries
  <2>2. todo' \in [Reloads -> SUBSET Names]
    BY <1>1, <1>3
  <2>3. CASE reg[n] # None /\ Remove(t, n, "replacing", reg, st)
    BY <1>1, <2>1, <2>2, <2>3, RemovePart DEF NoneMade
  <2>4. CASE Create(t, n, reg, st)
    BY <1>1, <2>1, <2>2, <2>4, CreatePart
  <2> QED
    BY <1>3, <2>3, <2>4
<1>4. CASE registry' = reg /\ state' = st /\ pc' = [pc EXCEPT ![t] = "done"] /\ UNCHANGED <<at, todo, idx>>
  BY <1>1, <1>4 DEF Moves, NoneMade
<1>5. \/ \E n \in present, absent \in SUBSET (R \ present) :
           /\ Remove(t, n, "removing", reg, st)
           /\ todo' = [todo EXCEPT ![t] = R \ (absent \cup {n})] /\ UNCHANGED idx
      \/ /\ \E j \in work :
              /\ idx' = [idx EXCEPT ![t] = j]
              /\ \/ /\ reg[ConfigOf[t][j].name] # None
                    /\ Remove(t, ConfigOf[t][j].name, "replacing", reg, st)
                 \/ Create(t, ConfigOf[t][j].name, reg, st)
         /\ todo' = [todo EXCEPT ![t] = {}]
      \/ registry' = reg /\ state' = st /\ pc' = [pc EXCEPT ![t] = "done"] /\ UNCHANGED <<at, todo, idx>>
  BY DEF Continue
<1>6. CASE \E n \in present, absent \in SUBSET (R \ present) :
             /\ Remove(t, n, "removing", reg, st)
             /\ todo' = [todo EXCEPT ![t] = R \ (absent \cup {n})] /\ UNCHANGED idx
  BY <1>2, <1>6
<1>7. CASE /\ \E j \in work :
                /\ idx' = [idx EXCEPT ![t] = j]
                /\ \/ /\ reg[ConfigOf[t][j].name] # None
                      /\ Remove(t, ConfigOf[t][j].name, "replacing", reg, st)
                   \/ Create(t, ConfigOf[t][j].name, reg, st)
           /\ todo' = [todo EXCEPT ![t] = {}]
  <2>1. PICK j \in work : /\ idx' = [idx EXCEPT ![t] = j]
                          /\ \/ /\ reg[ConfigOf[t][j].name] # None
                                /\ Remove(t, ConfigOf[t][j].name, "replacing", reg, st)
                             \/ Create(t, ConfigOf[t][j].name, reg, st)
    BY <1>7
  <2>2. j \in i..Len(ConfigOf[t])
    OBVIOUS
  <2> QED
    BY <1>3, <1>7, <2>1, <2>2
<1> QED
  BY <1>4, <1>5, <1>6, <1>7

LEMMA ClosePart ==
  ASSUME NEW t \in Shutdowns, NEW S \in SUBSET Instance, NEW reg, NEW st,
         TypeOK, Typed(reg, st), Offered(reg, st), \A i \in S : Gone(reg, st, i),
         registry' = reg, Close(t, S, st)
  PROVE  /\ Typed(registry', state') /\ Offered(registry', state')
         /\ Moves(t, reg, st, registry', state')
         /\ closing' = [closing EXCEPT ![t] = S]
         /\ \A i \in S : Gone(registry', state', i)
         /\ at' \in [Tasks -> Contexts] /\ \A u \in Tasks : u # t => at'[u] = at[u]
<1>1. closing' = [closing EXCEPT ![t] = S] /\ at \in [Tasks -> Contexts] /\ t \in Tasks
  BY DEF Close, Tasks, TypeOK
<1>2. CASE pc' = [pc EXCEPT ![t] = "done"] /\ state' = st /\ at' = at
  BY <1>1, <1>2 DEF Moves
<1>3. ASSUME NEW i \in S, pc' = [pc EXCEPT ![t] = "closing"], at' = [at EXCEPT ![t] = i],
             state' = [st EXCEPT ![i] = "stopping"]
      PROVE  /\ Typed(registry', state') /\ Offered(registry', state')
             /\ Moves(t, reg, st, registry', state')
             /\ \A k \in S : Gone(registry', state', k)
             /\ at' \in [Tasks -> Contexts] /\ \A u \in Tasks : u # t => at'[u] = at[u]
             /\ Gone(registry', state', at'[t])
  <2>1. i \in Instance /\ st[i] \in Past /\ \A n \in Names : reg[n] # i
    BY DEF Gone
  <2>2. /\ state'[i] = "stopping" /\ \A k \in Instance : k # i => state'[k] = st[k]
        /\ at'[t] = i /\ \A u \in Tasks : u # t => at'[u] = at[u]
    BY <1>1, <1>3, <2>1 DEF Typed
  <2>3. Typed(registry', state') /\ at' \in [Tasks -> Contexts]
    BY <1>1, <1>3, <2>1, Types DEF Typed, States, Live
  <2>4. Offered(registry', state') /\ Moves(t, reg, st, registry', state')
    BY <2>1, <2>2 DEF Offered, Moves, Gone, Past
  <2>5. \A k \in S : Gone(registry', state', k)
    BY <2>1, <2>4 DEF Moves
  <2> QED
    BY <2>2, <2>3, <2>4, <2>5
<1>4. \/ pc' = [pc EXCEPT ![t] = "done"] /\ state' = st /\ at' = at
      \/ \E i \in S : /\ pc' = [pc EXCEPT ![t] = "closing"] /\ at' = [at EXCEPT ![t] = i]
                      /\ state' = [st EXCEPT ![i] = "stopping"]
  BY DEF Close
<1>5. CASE \E i \in S : /\ pc' = [pc EXCEPT ![t] = "closing"] /\ at' = [at EXCEPT ![t] = i]
                        /\ state' = [st EXCEPT ![i] = "stopping"]
  BY <1>1, <1>3, <1>5
<1> QED
  BY <1>1, <1>2, <1>4, <1>5

-----------------------------------------------------------------------------
(* A step of one task leaves what holds of the others.                     *)
LEMMA OthersKeep ==
  ASSUME TypeOK, RegistryInv, NEW t \in Tasks, Moves(t, registry, state, registry', state'),
         NEW u \in Tasks, u # t, pc'[u] = pc[u], at'[u] = at[u],
         u \in Reloads => idx'[u] = idx[u], u \in Shutdowns => closing'[u] = closing[u]
  PROVE  TaskInv(u)'
<1>1. TaskInv(u) /\ \A i \in Instance : Gone(registry, state, i) => Gone(registry', state', i)
  BY DEF RegistryInv, Moves
<1>2. Stopping(u)'
  BY <1>1 DEF TaskInv, Stopping, Gone
<1>3. Closing(u)'
  BY <1>1 DEF TaskInv, Closing, Gone
<1>4. Starting(u)' /\ Placed(u)'
  BY <1>1 DEF TaskInv, Starting, Placed, Moves
<1>5. \A m \in Names : u \in Reloads \cup Registers /\ state[<<u, m>>] = "none" => state'[<<u, m>>] = "none"
  BY Types DEF Moves
<1>6. Made(u)' /\ Unregistered(u)'
  BY <1>1, <1>5 DEF TaskInv, Made, Unregistered
<1> QED
  BY <1>2, <1>3, <1>4, <1>6 DEF TaskInv

(* Going on with a reload keeps the invariant, from wherever it does.      *)
LEMMA ContinueKeeps ==
  ASSUME TypeOK, RegistryInv, NEW t \in Reloads, NEW R \in SUBSET Names, NEW i \in Nat,
         NEW reg, NEW st, Typed(reg, st), Offered(reg, st),
         Moves(t, registry, state, reg, st), NoneMade(t, state, st),
         \/ i = 1 /\ pc[t] \in {"idle", "removing"}
         \/ i = idx[t] + 1 /\ R = {} /\ pc[t] = "starting",
         Continue(t, R, i, reg, st), UNCHANGED <<closing, calls>>
  PROVE  TypeOK' /\ RegistryInv'
<1>1. /\ TaskInv(t) /\ t \in Tasks /\ t \notin Shutdowns /\ t \notin Registers
      /\ idx[t] \in Nat /\ i # 0
      /\ pc \in [Tasks -> Controls] /\ idx \in [Reloads -> Nat] /\ Len(ConfigOf[t]) \in Nat
      /\ \A m \in Names : state[<<t, m>>] = "none" => st[<<t, m>>] = "none"
  BY Types, Entries DEF RegistryInv, Tasks, TypeOK, Controls, NoneMade
<1>2. \A m \in Names : state[<<t, m>>] # "none" =>
        /\ i = idx[t] + 1 /\ pc[t] = "starting"
        /\ \E j \in 1..Len(ConfigOf[t]) : ConfigOf[t][j].name = m /\ j <= idx[t]
  BY <1>1 DEF TaskInv, Placed, Made, Unmade
<1>3. \A j \in i..Len(ConfigOf[t]) : st[<<t, ConfigOf[t][j].name>>] = "none"
  <2> SUFFICES ASSUME NEW j \in i..Len(ConfigOf[t]), state[<<t, ConfigOf[t][j].name>>] # "none"
               PROVE  FALSE
    BY <1>1, Entries
  <2>1. j \in 1..Len(ConfigOf[t]) /\ ConfigOf[t][j].name \in Names
    BY <1>1, Entries
  <2>2. PICK k \in 1..Len(ConfigOf[t]) : ConfigOf[t][k].name = ConfigOf[t][j].name /\ k <= idx[t]
    BY <1>2, <2>1
  <2>3. k = j /\ i = idx[t] + 1
    BY <1>2, <2>1, <2>2, Entries
  <2> QED
    BY <1>1, <2>2, <2>3
<1> DEFINE Outcome ==
      \/ /\ pc' = [pc EXCEPT ![t] = "removing"] /\ idx' = idx /\ R # {}
         /\ Gone(registry', state', at'[t]) /\ NoneMade(t, st, state')
      \/ /\ pc' = [pc EXCEPT ![t] = "done"] /\ idx' = idx
         /\ NoneMade(t, st, state')
      \/ \E j \in i..Len(ConfigOf[t]) :
           /\ idx' = [idx EXCEPT ![t] = j]
           /\ \A m \in Names : m # ConfigOf[t][j].name /\ st[<<t, m>>] = "none"
                                 => state'[<<t, m>>] = "none"
           /\ \/ /\ pc' = [pc EXCEPT ![t] = "replacing"] /\ Gone(registry', state', at'[t])
                 /\ NoneMade(t, st, state')
              \/ pc' = [pc EXCEPT ![t] = "raised"]
              \/ /\ pc' = [pc EXCEPT ![t] = "starting"]
                 /\ at'[t] = <<t, ConfigOf[t][j].name>> /\ state'[at'[t]] = "starting"
<1>4. /\ Typed(registry', state') /\ Offered(registry', state')
      /\ Moves(t, reg, st, registry', state')
      /\ at' \in [Tasks -> Contexts] /\ \A u \in Tasks : u # t => at'[u] = at[u]
      /\ todo' \in [Reloads -> SUBSET Names]
      /\ Outcome
  <2>1. i \in Nat \ {0}
    BY <1>1
  <2> QED
    BY <1>3, <2>1, ContinuePart
<1>5. Moves(t, registry, state, registry', state')
  BY <1>4, MovesCompose
<1>6. /\ \A u \in Tasks : u # t => pc'[u] = pc[u]
      /\ \A u \in Reloads : u # t => idx'[u] = idx[u]
      /\ pc' \in [Tasks -> Controls] /\ idx' \in [Reloads -> Nat]
  <2>1. \E s \in Controls : pc' = [pc EXCEPT ![t] = s]
    BY <1>4 DEF Controls, Ended
  <2>2. \E j \in Nat : idx' = [idx EXCEPT ![t] = j]
    BY <1>1, <1>4
  <2> QED
    BY <1>1, <2>1, <2>2
<1>7. TypeOK'
  BY <1>4, <1>6 DEF TypeOK, Typed, Controls, States, calls
<1>8. ASSUME NEW u \in Tasks, u # t PROVE TaskInv(u)'
  BY <1>4, <1>5, <1>6, <1>8, <1>1, OthersKeep
<1>9. TaskInv(t)'
  <2>1. Closing(t)' /\ Unregistered(t)'
    BY <1>1 DEF Closing, Unregistered
  <2>2. CASE /\ pc' = [pc EXCEPT ![t] = "removing"] /\ idx' = idx /\ R # {}
             /\ Gone(registry', state', at'[t]) /\ NoneMade(t, st, state')
    <3>1. pc'[t] = "removing" /\ idx'[t] = 1
      BY <1>1, <2>2 DEF TaskInv, Placed
    <3>2. \A m \in Names : state'[<<t, m>>] = "none"
      BY <1>1, <1>2, <2>2 DEF NoneMade
    <3> QED
      BY <2>1, <2>2, <3>1, <3>2 DEF TaskInv, Stopping, Starting, Placed, Made, Gone
  <2>3. CASE pc' = [pc EXCEPT ![t] = "done"] /\ idx' = idx /\ NoneMade(t, st, state')
    <3>1. pc'[t] = "done"
      BY <1>1, <2>3
    <3>2. \A m \in Names : state'[<<t, m>>] # "none" => state[<<t, m>>] # "none"
      BY <1>1, <2>3 DEF NoneMade
    <3>3. Made(t)'
      BY <1>1, <1>2, <2>3, <3>1, <3>2 DEF Made, Unmade
    <3> QED
      BY <2>1, <3>1, <3>3 DEF TaskInv, Stopping, Starting, Placed, Leaving
  <2>4. ASSUME NEW j \in i..Len(ConfigOf[t]), idx' = [idx EXCEPT ![t] = j],
               \A m \in Names : m # ConfigOf[t][j].name /\ st[<<t, m>>] = "none"
                                  => state'[<<t, m>>] = "none"
        PROVE  /\ j \in 1..Len(ConfigOf[t]) /\ idx'[t] = j
               /\ \A m \in Names : state'[<<t, m>>] # "none" /\ m # ConfigOf[t][j].name =>
                    \E k \in 1..Len(ConfigOf[t]) : ConfigOf[t][k].name = m /\ k < j
    BY <1>1, <1>2, <2>4
  <2>5. ASSUME NEW j \in i..Len(ConfigOf[t]), idx' = [idx EXCEPT ![t] = j],
               \A m \in Names : m # ConfigOf[t][j].name /\ st[<<t, m>>] = "none"
                                  => state'[<<t, m>>] = "none",
               pc' = [pc EXCEPT ![t] = "replacing"], Gone(registry', state', at'[t]),
               NoneMade(t, st, state')
        PROVE  TaskInv(t)'
    <3>1. /\ pc'[t] = "replacing" /\ idx'[t] = j /\ j \in 1..Len(ConfigOf[t])
          /\ \A m \in Names : state'[<<t, m>>] # "none" /\ m # ConfigOf[t][j].name =>
               \E k \in 1..Len(ConfigOf[t]) : ConfigOf[t][k].name = m /\ k < j
      BY <1>1, <2>4, <2>5
    <3>2. state'[<<t, ConfigOf[t][j].name>>] = "none"
      BY <1>3, <2>5, <3>1, Entries DEF NoneMade
    <3>3. Made(t)'
      BY <3>1, <3>2 DEF Made
    <3> QED
      BY <2>1, <2>5, <3>1, <3>3 DEF TaskInv, Stopping, Starting, Placed, Gone
  <2>6. ASSUME NEW j \in i..Len(ConfigOf[t]), idx' = [idx EXCEPT ![t] = j],
               \A m \in Names : m # ConfigOf[t][j].name /\ st[<<t, m>>] = "none"
                                  => state'[<<t, m>>] = "none",
               \/ pc' = [pc EXCEPT ![t] = "raised"]
               \/ /\ pc' = [pc EXCEPT ![t] = "starting"]
                  /\ at'[t] = <<t, ConfigOf[t][j].name>> /\ state'[at'[t]] = "starting"
        PROVE  TaskInv(t)'
    <3>1. /\ pc'[t] = "raised" \/ (/\ pc'[t] = "starting" /\ at'[t] = <<t, ConfigOf[t][j].name>>
                                   /\ state'[at'[t]] = "starting")
          /\ idx'[t] = j /\ j \in 1..Len(ConfigOf[t])
          /\ \A m \in Names : state'[<<t, m>>] # "none" /\ m # ConfigOf[t][j].name =>
               \E k \in 1..Len(ConfigOf[t]) : ConfigOf[t][k].name = m /\ k < j
      BY <1>1, <2>4, <2>6
    <3>2. Made(t)'
      BY <3>1 DEF Made, Unmade
    <3>3. Starting(t)'
      <4> DEFINE a == <<t, ConfigOf[t][j].name>>
      <4>1. a \in Instance /\ a[1] = t
        BY <3>1, Types, Entries
      <4> HIDE DEF a
      <4>2. pc'[t] = "starting" => at'[t] = a /\ state'[a] = "starting"
        BY <3>1 DEF a
      <4> QED
        BY <4>1, <4>2 DEF Starting
    <3> QED
      BY <2>1, <3>1, <3>2, <3>3 DEF TaskInv, Stopping, Placed, Leaving
  <2> QED
    BY <1>4, <2>2, <2>3, <2>5, <2>6
<1> QED
  BY <1>4, <1>7, <1>8, <1>9 DEF RegistryInv, Offered

-----------------------------------------------------------------------------
(* The registry, action by action.                                         *)
LEMMA ReloadCalledKeeps ==
  ASSUME TypeOK, RegistryInv, NEW t \in Reloads, ReloadCalled(t)
  PROVE  TypeOK' /\ RegistryInv'
<1> DEFINE R == {n \in Names : registry[n] # None} \ {ConfigOf[t][j].name : j \in 1..Len(ConfigOf[t])}
<1>1. /\ pc[t] = "idle" /\ Continue(t, R, 1, registry, state) /\ UNCHANGED <<closing, calls>>
      /\ R \in SUBSET Names
  BY DEF ReloadCalled
<1>2. Typed(registry, state) /\ Offered(registry, state)
  BY DEF TypeOK, RegistryInv, Typed, States
<1>3. Moves(t, registry, state, registry, state) /\ NoneMade(t, state, state)
  BY DEF Moves, NoneMade
<1> HIDE DEF R
<1> QED
  BY <1>1, <1>2, <1>3, ContinueKeeps

LEMMA RemovedKeeps ==
  ASSUME TypeOK, RegistryInv, NEW t \in Reloads, Removed(t)
  PROVE  TypeOK' /\ RegistryInv'
<1> DEFINE st == [state EXCEPT ![at[t]] = "stopped"]
<1>1. /\ t \in Tasks /\ t \in Reloads \cup Registers /\ t \notin Shutdowns /\ t \notin Registers
      /\ TaskInv(t) /\ UNCHANGED <<closing, calls>> /\ idx[t] \in Nat
  BY Types DEF Tasks, RegistryInv, Removed, TypeOK
<1>2. /\ pc[t] \in {"removing", "replacing"} /\ Gone(registry, state, at[t])
      /\ \/ pc[t] = "removing" /\ Continue(t, todo[t], 1, registry, st)
         \/ /\ pc[t] = "replacing" /\ Create(t, ConfigOf[t][idx[t]].name, registry, st)
            /\ UNCHANGED <<todo, idx>>
  BY <1>1 DEF Removed, TaskInv, Stopping, Leaving
<1>3. Typed(registry, state) /\ Offered(registry, state) /\ todo[t] \in SUBSET Names
  BY DEF TypeOK, RegistryInv, Typed, States
<1>4. /\ Typed(registry, st) /\ Offered(registry, st) /\ Moves(t, registry, state, registry, st)
      /\ NoneMade(t, state, st)
  BY <1>1, <1>2, <1>3, StopPart
<1> HIDE DEF st
<1>5. CASE pc[t] = "removing" /\ Continue(t, todo[t], 1, registry, st)
  BY <1>1, <1>3, <1>4, <1>5, ContinueKeeps
<1>6. CASE /\ pc[t] = "replacing" /\ Create(t, ConfigOf[t][idx[t]].name, registry, st)
           /\ UNCHANGED <<todo, idx>>
  <2> DEFINE n == ConfigOf[t][idx[t]].name
  <2>1. idx[t] \in 1..Len(ConfigOf[t]) /\ n \in Names /\ <<t, n>> \in Instance /\ <<t, n>>[1] = t
    BY <1>1, <1>6, Types, Entries DEF TaskInv, Placed
  <2>2. \A m \in Names : state[<<t, m>>] # "none" =>
          \E k \in 1..Len(ConfigOf[t]) : ConfigOf[t][k].name = m /\ k < idx[t]
    BY <1>1, <1>6 DEF TaskInv, Made, Unmade
  <2>3. state[<<t, n>>] = "none" /\ st[<<t, n>>] = "none"
    BY <1>1, <1>4, <2>1, <2>2, Entries DEF NoneMade
  <2> HIDE DEF n
  <2>4. /\ Typed(registry', state') /\ Offered(registry', state')
        /\ Moves(t, registry, st, registry', state')
        /\ \A m \in Names : m # n /\ st[<<t, m>>] = "none" => state'[<<t, m>>] = "none"
        /\ at' \in [Tasks -> Contexts] /\ \A u \in Tasks : u # t => at'[u] = at[u]
        /\ \/ pc' = [pc EXCEPT ![t] = "raised"]
           \/ /\ pc' = [pc EXCEPT ![t] = "starting"]
              /\ at'[t] = <<t, n>> /\ state'[<<t, n>>] = "starting"
    BY <1>1, <1>4, <1>6, <2>1, <2>3, CreatePart DEF n
  <2>5. Moves(t, registry, state, registry', state')
    BY <1>4, <2>4, MovesCompose
  <2>6. /\ pc' \in [Tasks -> Controls] /\ \A u \in Tasks : u # t => pc'[u] = pc[u]
        /\ \/ pc'[t] = "raised"
           \/ pc'[t] = "starting" /\ at'[t] = <<t, n>> /\ state'[<<t, n>>] = "starting"
    BY <1>1, <2>4 DEF TypeOK, Controls, Ended
  <2>7. TypeOK'
    BY <1>1, <1>6, <2>4, <2>6 DEF TypeOK, Typed, Controls, States, calls
  <2>8. ASSUME NEW u \in Tasks, u # t PROVE TaskInv(u)'
    BY <1>1, <1>6, <2>4, <2>5, <2>6, <2>8, OthersKeep
  <2>9. TaskInv(t)'
    <3>1. \A m \in Names : state'[<<t, m>>] # "none" =>
            \E k \in 1..Len(ConfigOf[t]) : ConfigOf[t][k].name = m /\ k <= idx[t]
      BY <1>1, <1>4, <2>1, <2>2, <2>4 DEF NoneMade, n
    <3>2. Made(t)'
      BY <1>1, <1>6, <2>6, <3>1 DEF Made, Unmade
    <3>3. Starting(t)'
      BY <1>1, <2>1, <2>6 DEF Starting
    <3> QED
      BY <1>1, <1>6, <2>1, <2>6, <3>2, <3>3 DEF TaskInv, Stopping, Closing, Placed, Unregistered, Leaving
  <2> QED
    BY <2>4, <2>7, <2>8, <2>9 DEF RegistryInv, Offered
<1> QED
  BY <1>2, <1>5, <1>6

LEMMA StartedKeeps ==
  ASSUME TypeOK, RegistryInv, NEW t \in Reloads \cup Registers, Started(t)
  PROVE  TypeOK' /\ RegistryInv'
<1> DEFINE st  == [state EXCEPT ![at[t]] = "started"]
           reg == [registry EXCEPT ![at[t][2]] = at[t]]
<1>1. /\ t \in Tasks /\ t \notin Shutdowns /\ TaskInv(t) /\ pc[t] = "starting"
      /\ UNCHANGED <<closing, calls>>
      /\ at[t] \in Instance /\ at[t][1] = t /\ state[at[t]] = "starting"
  BY Types DEF Tasks, RegistryInv, Started, TaskInv, Starting
<1>2. Typed(registry, state) /\ Offered(registry, state)
  BY DEF TypeOK, RegistryInv, Typed, States
<1>3. /\ Typed(reg, st) /\ Offered(reg, st) /\ Moves(t, registry, state, reg, st)
      /\ NoneMade(t, state, st)
  BY <1>1, <1>2, StartPart
<1>4. \/ t \in Reloads /\ Continue(t, {}, idx[t] + 1, reg, st)
      \/ /\ t \in Registers /\ registry' = reg /\ state' = st
         /\ pc' = [pc EXCEPT ![t] = "done"] /\ UNCHANGED <<at, todo, idx>>
  BY DEF Started
<1> HIDE DEF st, reg
<1>5. CASE t \in Reloads /\ Continue(t, {}, idx[t] + 1, reg, st)
  <2>1. idx[t] + 1 \in Nat /\ {} \in SUBSET Names
    BY <1>5 DEF TypeOK
  <2> QED
    BY <1>1, <1>3, <1>5, <2>1, ContinueKeeps
<1>6. CASE /\ t \in Registers /\ registry' = reg /\ state' = st
           /\ pc' = [pc EXCEPT ![t] = "done"] /\ UNCHANGED <<at, todo, idx>>
  <2>1. /\ pc' \in [Tasks -> Controls] /\ pc'[t] = "done" /\ t \notin Reloads
        /\ \A u \in Tasks : u # t => pc'[u] = pc[u]
    BY <1>1, <1>6, Types DEF TypeOK, Controls, Ended
  <2>2. TypeOK'
    BY <1>1, <1>3, <1>6, <2>1 DEF TypeOK, Typed, Controls, States, calls
  <2>3. ASSUME NEW u \in Tasks, u # t PROVE TaskInv(u)'
    BY <1>1, <1>3, <1>6, <2>1, <2>3, OthersKeep
  <2>4. TaskInv(t)'
    BY <1>1, <2>1 DEF TaskInv, Stopping, Closing, Starting, Placed, Made, Unregistered, Leaving
  <2> QED
    BY <1>3, <1>6, <2>2, <2>3, <2>4 DEF RegistryInv, Offered
<1> QED
  BY <1>4, <1>5, <1>6

LEMMA StartFailsKeeps ==
  ASSUME TypeOK, RegistryInv, NEW t \in Reloads \cup Registers, StartFails(t)
  PROVE  TypeOK' /\ RegistryInv'
<1>1. /\ t \in Tasks /\ t \notin Shutdowns /\ TaskInv(t) /\ pc[t] = "starting"
      /\ at[t] \in Instance /\ at[t][1] = t /\ state[at[t]] = "starting"
      /\ state' = [state EXCEPT ![at[t]] = "failed"] /\ pc' = [pc EXCEPT ![t] = "raised"]
      /\ UNCHANGED <<registry, at, todo, idx, closing, calls>>
  BY Types DEF Tasks, RegistryInv, StartFails, TaskInv, Starting
<1>2. /\ state'[at[t]] = "failed" /\ \A i \in Instance : i # at[t] => state'[i] = state[i]
      /\ pc'[t] = "raised" /\ \A u \in Tasks : u # t => pc'[u] = pc[u]
  BY <1>1 DEF TypeOK
<1>3. TypeOK'
  BY <1>1 DEF TypeOK, Ended, calls
<1>4. Offered(registry', state') /\ Moves(t, registry, state, registry', state')
  BY <1>1, <1>2 DEF RegistryInv, Offered, Moves, Gone, Past
<1>5. ASSUME NEW u \in Tasks, u # t PROVE TaskInv(u)'
  BY <1>1, <1>2, <1>4, <1>5, OthersKeep
<1>6. TaskInv(t)'
  <2>1. \A m \in Names : t \in Reloads /\ state'[<<t, m>>] # "none" => state[<<t, m>>] # "none"
    BY <1>1, <1>2, Types
  <2>2. Made(t)'
    BY <1>1, <1>2, <2>1 DEF TaskInv, Made, Unmade
  <2> QED
    BY <1>1, <1>2, <2>2 DEF TaskInv, Stopping, Closing, Starting, Placed, Unregistered, Leaving
<1> QED
  BY <1>3, <1>4, <1>5, <1>6 DEF RegistryInv, Offered

LEMMA RegisterCalledKeeps ==
  ASSUME TypeOK, RegistryInv, NEW t \in Registers, NEW n \in Names, RegisterCalled(t, n)
  PROVE  TypeOK' /\ RegistryInv'
<1>1. /\ t \in Tasks /\ t \notin Shutdowns /\ t \notin Reloads /\ TaskInv(t) /\ pc[t] = "idle"
      /\ <<t, n>> \in Instance /\ <<t, n>>[1] = t
      /\ state' = [state EXCEPT ![<<t, n>>] = "starting"] /\ pc' = [pc EXCEPT ![t] = "starting"]
      /\ at' = [at EXCEPT ![t] = <<t, n>>]
      /\ UNCHANGED <<registry, todo, idx, closing, calls>>
  BY Types DEF Tasks, RegistryInv, RegisterCalled
<1>2. /\ state'[<<t, n>>] = "starting" /\ \A i \in Instance : i # <<t, n>> => state'[i] = state[i]
      /\ pc'[t] = "starting" /\ at'[t] = <<t, n>>
      /\ \A u \in Tasks : u # t => pc'[u] = pc[u] /\ at'[u] = at[u]
  BY <1>1 DEF TypeOK
<1>3. state[<<t, n>>] = "none"
  BY <1>1 DEF TaskInv, Unregistered
<1>4. TypeOK'
  BY <1>1, Types DEF TypeOK, Live, calls
<1>5. Offered(registry', state') /\ Moves(t, registry, state, registry', state')
  BY <1>1, <1>2, <1>3 DEF RegistryInv, Offered, Moves, Gone, Past
<1>6. ASSUME NEW u \in Tasks, u # t PROVE TaskInv(u)'
  BY <1>1, <1>2, <1>5, <1>6, OthersKeep
<1>7. TaskInv(t)'
  BY <1>1, <1>2 DEF TaskInv, Stopping, Closing, Starting, Placed, Made, Unregistered, Leaving
<1> QED
  BY <1>4, <1>5, <1>6, <1>7 DEF RegistryInv, Offered

LEMMA ClosesKeep ==
  ASSUME TypeOK, RegistryInv, NEW t \in Shutdowns, NEW S \in SUBSET Instance, NEW reg, NEW st,
         Typed(reg, st), Offered(reg, st), Moves(t, registry, state, reg, st),
         \A i \in S : Gone(reg, st, i), registry' = reg, Close(t, S, st)
  PROVE  TypeOK' /\ RegistryInv'
<1>1. /\ t \in Tasks /\ t \notin Reloads /\ t \notin Registers /\ UNCHANGED <<todo, idx, calls>>
  BY Types DEF Tasks, Close
<1>2. /\ Typed(registry', state') /\ Offered(registry', state')
      /\ Moves(t, reg, st, registry', state')
      /\ closing' = [closing EXCEPT ![t] = S]
      /\ \A i \in S : Gone(registry', state', i)
      /\ at' \in [Tasks -> Contexts] /\ \A u \in Tasks : u # t => at'[u] = at[u]
      /\ \/ pc' = [pc EXCEPT ![t] = "done"]
         \/ pc' = [pc EXCEPT ![t] = "closing"] /\ Gone(registry', state', at'[t])
  <2>1. /\ Typed(registry', state') /\ Offered(registry', state')
        /\ Moves(t, reg, st, registry', state')
        /\ closing' = [closing EXCEPT ![t] = S]
        /\ \A i \in S : Gone(registry', state', i)
        /\ at' \in [Tasks -> Contexts] /\ \A u \in Tasks : u # t => at'[u] = at[u]
    BY ClosePart
  <2>2. \/ pc' = [pc EXCEPT ![t] = "done"]
        \/ pc' = [pc EXCEPT ![t] = "closing"] /\ at'[t] \in S
    BY <1>1 DEF Close, TypeOK
  <2> QED
    BY <2>1, <2>2
<1>3. /\ pc' \in [Tasks -> Controls] /\ \A u \in Tasks : u # t => pc'[u] = pc[u]
      /\ pc'[t] = "done" \/ (pc'[t] = "closing" /\ Gone(registry', state', at'[t]))
      /\ closing' \in [Shutdowns -> SUBSET Instance] /\ closing'[t] = S
      /\ \A u \in Shutdowns : u # t => closing'[u] = closing[u]
  BY <1>1, <1>2 DEF TypeOK, Controls, Ended
<1>4. TypeOK'
  BY <1>1, <1>2, <1>3 DEF TypeOK, Typed, Controls, States, calls
<1>5. Moves(t, registry, state, registry', state')
  BY <1>2, MovesCompose
<1>6. ASSUME NEW u \in Tasks, u # t PROVE TaskInv(u)'
  BY <1>1, <1>2, <1>3, <1>5, <1>6, OthersKeep
<1>7. TaskInv(t)'
  BY <1>1, <1>2, <1>3 DEF TaskInv, Stopping, Closing, Starting, Placed, Made, Unregistered, Leaving, Gone
<1> QED
  BY <1>2, <1>4, <1>6, <1>7 DEF RegistryInv, Offered

LEMMA ShutdownKeeps ==
  ASSUME TypeOK, RegistryInv, NEW t \in Shutdowns, ShutdownCalled(t) \/ ClosingStopped(t)
  PROVE  TypeOK' /\ RegistryInv'
<1>1. /\ Typed(registry, state) /\ Offered(registry, state) /\ t \in Tasks /\ TaskInv(t)
      /\ closing[t] \in SUBSET Instance
  BY DEF TypeOK, RegistryInv, Typed, States, Tasks
<1>2. CASE ShutdownCalled(t)
  <2> DEFINE reg == [n \in Names |-> None]
             S   == {registry[n] : n \in Names} \ {None}
  <2>1. registry' = reg /\ Close(t, S, state)
    BY <1>2 DEF ShutdownCalled
  <2>2. Typed(reg, state) /\ Offered(reg, state) /\ S \in SUBSET Instance
    BY <1>1, Types DEF Typed, Offered
  <2>3. Moves(t, registry, state, reg, state) /\ \A i \in S : Gone(reg, state, i)
    BY <1>1, Types DEF Moves, Gone, Past, Offered
  <2> HIDE DEF reg, S
  <2> QED
    BY <2>1, <2>2, <2>3, ClosesKeep
<1>3. CASE ClosingStopped(t)
  <2> DEFINE st == [state EXCEPT ![at[t]] = "stopped"]
             S  == closing[t] \ {at[t]}
  <2>1. /\ registry' = registry /\ Close(t, S, st) /\ Gone(registry, state, at[t])
        /\ S \in SUBSET Instance /\ \A i \in S : Gone(registry, state, i)
    BY <1>1, <1>3 DEF ClosingStopped, TaskInv, Stopping, Closing, Leaving
  <2>2. Typed(registry, st) /\ Offered(registry, st) /\ Moves(t, registry, state, registry, st)
    BY <1>1, <2>1, StopPart
  <2> HIDE DEF st, S
  <2>3. \A i \in S : Gone(registry, st, i)
    BY <2>1, <2>2 DEF Moves
  <2> QED
    BY <2>1, <2>2, <2>3, ClosesKeep
<1> QED
  BY <1>2, <1>3

LEMMA DispatchKeeps ==
  ASSUME TypeOK, RegistryInv, NEW d \in Dispatches,
         (\E n \in Names, k \in Keys \cup {None} : DispatchCalled(d, n, k)) \/ AdapterAnswers(d)
  PROVE  TypeOK' /\ RegistryInv'
<1>1. d \in Tasks /\ d \notin Reloads /\ d \notin Registers /\ d \notin Shutdowns
  BY Types DEF Tasks
<1>2. /\ UNCHANGED <<registry, state, todo, idx, closing>>
      /\ \E s \in Ended \cup {"calling"} : pc' = [pc EXCEPT ![d] = s]
      /\ \E i \in Contexts : at' = [at EXCEPT ![d] = i]
      /\ key' \in [Dispatches -> Keys \cup {None}]
      /\ from' \in [Dispatches -> Contexts]
      /\ cache' \in [Instance -> [Keys -> Contexts]]
      /\ requests_total' \in Nat /\ errors_total' \in Nat
  <2>1. CASE AdapterAnswers(d)
    <3>1. /\ at[d] \in Contexts /\ at' = [at EXCEPT ![d] = at[d]]
      BY <1>1, <2>1 DEF TypeOK, AdapterAnswers
    <3>2. /\ \E s \in Ended : pc' = [pc EXCEPT ![d] = s]
          /\ from' \in [Dispatches -> Contexts]
      BY <3>1, <2>1, Types DEF TypeOK, AdapterAnswers, End, Ended
    <3>3. cache' \in [Instance -> [Keys -> Contexts]]
      <4>1. CASE cache' = cache
        BY <4>1 DEF TypeOK
      <4>2. CASE /\ at[d] # None /\ key[d] # None
                 /\ cache' = [cache EXCEPT ![at[d]][key[d]] = at[d]]
        <5>1. at[d] \in Instance /\ key[d] \in Keys
          BY <3>1, <4>2, Types DEF TypeOK
        <5>2. [cache[at[d]] EXCEPT ![key[d]] = at[d]] \in [Keys -> Contexts]
          BY <3>1, <5>1 DEF TypeOK
        <5>3. cache' = [cache EXCEPT ![at[d]] = [cache[at[d]] EXCEPT ![key[d]] = at[d]]]
          BY <4>2
        <5> QED
          BY <5>1, <5>2, <5>3 DEF TypeOK
      <4> QED
        BY <2>1, <4>1, <4>2 DEF AdapterAnswers, FillTarget
    <3>4. requests_total' \in Nat /\ errors_total' \in Nat
      BY <2>1 DEF TypeOK, AdapterAnswers
    <3> QED
      BY <2>1, <3>1, <3>2, <3>3, <3>4 DEF AdapterAnswers, TypeOK
  <2>2. ASSUME NEW n \in Names, NEW k \in Keys \cup {None}, DispatchCalled(d, n, k)
        PROVE  /\ UNCHANGED <<registry, state, todo, idx, closing, cache>>
               /\ \E s \in Ended \cup {"calling"} : pc' = [pc EXCEPT ![d] = s]
               /\ \E i \in Contexts : at' = [at EXCEPT ![d] = i]
               /\ key' \in [Dispatches -> Keys \cup {None}]
               /\ from' \in [Dispatches -> Contexts]
               /\ requests_total' \in Nat /\ errors_total' \in Nat
    <3>1. registry[n] \in Contexts /\ at[d] \in Contexts /\ at = [at EXCEPT ![d] = at[d]]
      BY <1>1 DEF TypeOK
    <3>2. \E i \in Contexts : at' = [at EXCEPT ![d] = i]
      BY <2>2, <3>1 DEF DispatchCalled
    <3>3. \E s \in Ended \cup {"calling"} : pc' = [pc EXCEPT ![d] = s]
      BY <2>2 DEF DispatchCalled, End, Ended
    <3>4. key' \in [Dispatches -> Keys \cup {None}]
      BY <2>2 DEF DispatchCalled, TypeOK
    <3>5. from' \in [Dispatches -> Contexts]
      <4>1. \/ from' = from
            \/ from' = [from EXCEPT ![d] = None]
            \/ /\ registry[n] # None /\ k # None
               /\ from' = [from EXCEPT ![d] = cache[registry[n]][k]]
        BY <2>2 DEF DispatchCalled, End
      <4>2. registry[n] # None /\ k # None => cache[registry[n]][k] \in Contexts
        BY <3>1, Types DEF TypeOK
      <4>3. from \in [Dispatches -> Contexts] /\ None \in Contexts
        BY Types DEF TypeOK
      <4> QED
        BY <4>1, <4>2, <4>3
    <3>6. requests_total' \in Nat /\ errors_total' \in Nat
      BY <2>2 DEF DispatchCalled, TypeOK
    <3> QED
      BY <2>2, <3>2, <3>3, <3>4, <3>5, <3>6 DEF DispatchCalled
  <2>3. cache \in [Instance -> [Keys -> Contexts]]
    BY DEF TypeOK
  <2> QED
    BY <2>1, <2>2, <2>3
<1>3. /\ pc' \in [Tasks -> Controls] /\ pc'[d] \in Ended \cup {"calling"}
      /\ at' \in [Tasks -> Contexts]
      /\ \A u \in Tasks : u # d => pc'[u] = pc[u] /\ at'[u] = at[u]
  BY <1>1, <1>2 DEF TypeOK, Controls
<1>4. TypeOK'
  BY <1>2, <1>3 DEF TypeOK, Controls
<1>5. Offered(registry', state') /\ Moves(d, registry, state, registry', state')
  BY <1>2 DEF RegistryInv, Offered, Moves, Gone
<1>6. ASSUME NEW u \in Tasks, u # d PROVE TaskInv(u)'
  BY <1>1, <1>2, <1>3, <1>5, <1>6, OthersKeep
<1>7. TaskInv(d)'
  BY <1>1, <1>3 DEF TaskInv, Stopping, Closing, Starting, Placed, Made, Unregistered, Leaving, Ended
<1> QED
  BY <1>4, <1>5, <1>6, <1>7 DEF RegistryInv, Offered

-----------------------------------------------------------------------------
(* Answers.                                                                *)
LEMMA OthersAnswers ==
  ASSUME AnswersInv, UNCHANGED calls,
         \A d \in Dispatches : pc'[d] = pc[d] /\ at'[d] = at[d]
  PROVE  AnswersInv'
  BY DEF AnswersInv, CacheOwn, Captured, AnswersFromOwnAdapter, calls

LEMMA DispatchAnswers ==
  ASSUME TypeOK, AnswersInv, NEW d \in Dispatches, NEW n \in Names, NEW k \in Keys \cup {None},
         DispatchCalled(d, n, k)
  PROVE  AnswersInv'
<1>1. /\ d \in Tasks /\ Dispatches \subseteq Tasks /\ pc[d] = "idle" /\ cache' = cache
      /\ registry[n] \in Contexts /\ CacheOwn
  BY DEF Tasks, DispatchCalled, TypeOK, AnswersInv
<1>2. \A e \in Dispatches : e # d => pc'[e] = pc[e] /\ at'[e] = at[e] /\ from'[e] = from[e]
  BY <1>1 DEF DispatchCalled, End, TypeOK
<1>3. CacheOwn'
  BY <1>1 DEF CacheOwn
<1>4. CASE pc' = [pc EXCEPT ![d] = "calling"] /\ at' = [at EXCEPT ![d] = registry[n]]
           /\ registry[n] # None
  <2>1. pc'[d] = "calling" /\ at'[d] \in Instance
    BY <1>1, <1>4, Types DEF TypeOK
  <2> QED
    BY <1>2, <1>3, <2>1 DEF AnswersInv, Captured, AnswersFromOwnAdapter
<1>5. ASSUME NEW s \in {"unknown", "raised"}, pc' = [pc EXCEPT ![d] = s] PROVE AnswersInv'
  <2>1. pc'[d] = s
    BY <1>1, <1>5 DEF TypeOK
  <2> QED
    BY <1>2, <1>3, <2>1 DEF AnswersInv, Captured, AnswersFromOwnAdapter
<1>6. CASE /\ registry[n] # None /\ k # None /\ at' = [at EXCEPT ![d] = registry[n]]
           /\ pc' = [pc EXCEPT ![d] = "done"] /\ from' = [from EXCEPT ![d] = cache[registry[n]][k]]
  <2>1. cache[registry[n]][k] \in {None, registry[n]}
    BY <1>1, <1>6, Types DEF CacheOwn
  <2>2. pc'[d] = "done" /\ at'[d] = registry[n] /\ from'[d] \in {at'[d], None}
    BY <1>1, <1>6, <2>1 DEF TypeOK
  <2> QED
    BY <1>2, <1>3, <2>2 DEF AnswersInv, Captured, AnswersFromOwnAdapter
<1> QED
  BY <1>4, <1>5, <1>6 DEF DispatchCalled, End

LEMMA AnsweredAnswers ==
  ASSUME TypeOK, AnswersInv, NEW d \in Dispatches, AdapterAnswers(d)
  PROVE  AnswersInv'
<1>1. /\ d \in Tasks /\ Dispatches \subseteq Tasks /\ at' = at /\ at[d] \in Instance
      /\ pc[d] = "calling" /\ key[d] \in Keys \cup {None}
      /\ cache \in [Instance -> [Keys -> Contexts]]
  BY DEF Tasks, AdapterAnswers, TypeOK, AnswersInv, Captured
<1>2. /\ \A e \in Dispatches : e # d => pc'[e] = pc[e] /\ from'[e] = from[e]
      /\ pc'[d] \in {"done", "raised"} /\ from'[d] \in {at[d], None}
  BY <1>1 DEF AdapterAnswers, End, TypeOK
<1>3. CacheOwn'
  <2>1. CASE cache' = cache
    BY <2>1 DEF AnswersInv, CacheOwn
  <2>2. CASE key[d] # None /\ cache' = [cache EXCEPT ![at[d]][key[d]] = at[d]]
    <3>1. ASSUME NEW i \in Instance, NEW k \in Keys PROVE cache'[i][k] \in {None, i}
      <4>1. cache[i][k] \in {None, i}
        BY DEF AnswersInv, CacheOwn
      <4>2. cache'[i][k] = IF i = at[d] /\ k = key[d] THEN at[d] ELSE cache[i][k]
        BY <1>1, <2>2
      <4> QED
        BY <4>1, <4>2
    <3> QED
      BY <3>1 DEF CacheOwn
  <2> QED
    BY <2>1, <2>2 DEF AdapterAnswers, FillTarget
<1> QED
  BY <1>1, <1>2, <1>3 DEF AnswersInv, Captured, AnswersFromOwnAdapter

-----------------------------------------------------------------------------
LEMMA InitHolds == Init => IInv
<1> SUFFICES ASSUME Init PROVE IInv
  OBVIOUS
<1>1. TypeOK
  BY Types DEF Init, TypeOK
<1>2. Offered(registry, state)
  BY DEF Init, Offered
<1>3. ASSUME NEW t \in Tasks PROVE TaskInv(t)
  <2>1. pc[t] = "idle" /\ t \in Tasks
    BY DEF Init
  <2>2. t \in Reloads \cup Registers => \A m \in Names : state[<<t, m>>] = "none"
    BY Types DEF Init
  <2> QED
    BY <2>1, <2>2 DEF TaskInv, Stopping, Closing, Starting, Placed, Made, Unregistered, Leaving, Init
<1>4. AnswersInv
  BY DEF Init, AnswersInv, CacheOwn, Captured, AnswersFromOwnAdapter, Tasks
<1> QED
  BY <1>1, <1>2, <1>3, <1>4 DEF IInv, RegistryInv

LEMMA Steps == IInv /\ [Next]_vars => IInv'
<1> SUFFICES ASSUME IInv, [Next]_vars PROVE IInv'
  OBVIOUS
<1>0. TypeOK /\ RegistryInv /\ AnswersInv
  BY DEF IInv
<1>1. CASE UNCHANGED vars
  BY <1>0, <1>1 DEF IInv, TypeOK, RegistryInv, Offered, TaskInv, Stopping, Closing, Starting, Placed, Made,
                    Unregistered, Gone, AnswersInv, CacheOwn, Captured, AnswersFromOwnAdapter,
                    vars, registers, calls
<1>2. CASE \/ \E t \in Reloads : ReloadCalled(t) \/ Removed(t)
           \/ \E t \in Registers, n \in Names : RegisterCalled(t, n)
           \/ \E t \in Reloads \cup Registers : Started(t) \/ StartFails(t)
           \/ \E t \in Shutdowns : ShutdownCalled(t) \/ ClosingStopped(t)
  <2>1. TypeOK' /\ RegistryInv'
    BY <1>0, <1>2, ReloadCalledKeeps, RemovedKeeps, RegisterCalledKeeps, StartedKeeps,
       StartFailsKeeps, ShutdownKeeps
  <2>2. AnswersInv'
    <3>1. /\ UNCHANGED calls
          /\ \E t \in Reloads \cup Registers \cup Shutdowns :
               /\ \E s : pc' = [pc EXCEPT ![t] = s]
               /\ \E i : at' = [at EXCEPT ![t] = i] \/ at' = at
      <4>1. ASSUME NEW t \in Reloads, NEW R, NEW i, NEW reg, NEW st, Continue(t, R, i, reg, st)
            PROVE  /\ \E s : pc' = [pc EXCEPT ![t] = s]
                   /\ \E k : at' = [at EXCEPT ![t] = k] \/ at' = at
        BY <4>1 DEF Continue, Remove, Create
      <4>2. ASSUME NEW t \in Shutdowns, NEW S, NEW st, Close(t, S, st)
            PROVE  /\ UNCHANGED calls /\ \E s : pc' = [pc EXCEPT ![t] = s]
                   /\ \E k : at' = [at EXCEPT ![t] = k] \/ at' = at
        BY <4>2 DEF Close
      <4>3. ASSUME NEW t \in Reloads, ReloadCalled(t) \/ Removed(t)
            PROVE  /\ UNCHANGED calls /\ \E s : pc' = [pc EXCEPT ![t] = s]
                   /\ \E k : at' = [at EXCEPT ![t] = k] \/ at' = at
        BY <4>1, <4>3 DEF ReloadCalled, Removed, Create
      <4>4. ASSUME NEW t \in Reloads \cup Registers, Started(t) \/ StartFails(t)
            PROVE  /\ UNCHANGED calls /\ \E s : pc' = [pc EXCEPT ![t] = s]
                   /\ \E k : at' = [at EXCEPT ![t] = k] \/ at' = at
        BY <4>1, <4>4 DEF Started, StartFails
      <4>5. ASSUME NEW t \in Registers, NEW n \in Names, RegisterCalled(t, n)
            PROVE  /\ UNCHANGED calls /\ \E s : pc' = [pc EXCEPT ![t] = s]
                   /\ \E k : at' = [at EXCEPT ![t] = k] \/ at' = at
        BY <4>5 DEF RegisterCalled
      <4>6. ASSUME NEW t \in Shutdowns, ShutdownCalled(t) \/ ClosingStopped(t)
            PROVE  /\ UNCHANGED calls /\ \E s : pc' = [pc EXCEPT ![t] = s]
                   /\ \E k : at' = [at EXCEPT ![t] = k] \/ at' = at
        BY <4>2, <4>6 DEF ShutdownCalled, ClosingStopped
      <4> QED
        BY <1>2, <4>3, <4>4, <4>5, <4>6
    <3>2. \A d \in Dispatches : pc'[d] = pc[d] /\ at'[d] = at[d]
      BY <1>0, <3>1, Types DEF TypeOK, Tasks
    <3> QED
      BY <1>0, <3>1, <3>2, OthersAnswers
  <2> QED
    BY <2>1, <2>2 DEF IInv
<1>3. ASSUME NEW d \in Dispatches, NEW n \in Names, NEW k \in Keys \cup {None}, DispatchCalled(d, n, k)
      PROVE  IInv'
  <2>1. TypeOK' /\ RegistryInv'
    BY <1>0, <1>3, DispatchKeeps
  <2> QED
    BY <1>0, <1>3, <2>1, DispatchAnswers DEF IInv
<1>4. ASSUME NEW d \in Dispatches, AdapterAnswers(d) PROVE IInv'
  <2>1. TypeOK' /\ RegistryInv'
    BY <1>0, <1>4, DispatchKeeps
  <2> QED
    BY <1>0, <1>4, <2>1, AnsweredAnswers DEF IInv
<1> QED
  BY <1>1, <1>2, <1>3, <1>4 DEF Next

LEMMA Gives == IInv => TypeOK /\ RegisteredIsStarted /\ AnswersFromOwnAdapter
  BY DEF IInv, RegistryInv, Offered, AnswersInv, RegisteredIsStarted

-----------------------------------------------------------------------------
(* Every variable keeps its type, for any calls and configurations.        *)
THEOREM ManagerTypeCorrect == Spec => []TypeOK
  BY InitHolds, Steps, Gives, PTL DEF Spec

(* However reloads, registrations and shutdowns overlap, what the registry *)
(* offers has been started and is not being stopped (manager.py:65-71,     *)
(* 79-83, 150-162).                                                        *)
THEOREM AlwaysRegisteredIsStarted == Spec => []RegisteredIsStarted
  BY InitHolds, Steps, Gives, PTL DEF Spec

(* An answer is one of the adapter that was captured by the dispatch, also *)
(* if it was replaced meanwhile and also out of a cache (manager.py:88-110)*)
THEOREM AlwaysAnswersFromOwnAdapter == Spec => []AnswersFromOwnAdapter
  BY InitHolds, Steps, Gives, PTL DEF Spec
-----------------------------------------------------------------------------
(* When one lifecycle call follows the other: what the one task at work     *)
(* holds outside the registry, and how far it has got.                     *)
Working     == {"starting", "removing", "replacing"}
Resting(t)  == pc[t] \in Ended \cup {"idle"}
Alone(t)    == \A u \in Lifecycle : u # t => Resting(u)
Entry(t, j) == ConfigOf[t][j]
Wanted(t)   == {Entry(t, j).name : j \in 1..Len(ConfigOf[t])}

Kept(reg, st, i) == st[i] = "started" /\ reg[i[2]] = i
Tidy(reg, st)    == \A i \in Instance : st[i] \in Live => Kept(reg, st, i)

Holds(t, i) ==
  \/ t \in Reloads \cup Registers /\ pc[t] \in Working /\ at[t] = i
  \/ t \in Shutdowns /\ pc[t] = "closing" /\ i \in closing[t]
Accounted ==
  \A i \in Instance : state[i] \in Live =>
    Kept(registry, state, i) \/ \E t \in Lifecycle : Holds(t, i)

(* A name whose adapter is being made or stopped is free in the registry,  *)
(* so are all names during a shutdown.                                     *)
Vacated(t) ==
  /\ t \in Reloads \cup Registers /\ pc[t] \in {"removing", "replacing"} => state[at[t]] = "stopping"
  /\ t \in Reloads \cup Registers /\ pc[t] \in Working => registry[at[t][2]] = None
  /\ t \in Shutdowns /\ pc[t] = "closing" =>
       /\ \A n \in Names : registry[n] = None
       /\ at[t] \in closing[t] /\ state[at[t]] = "stopping"
       /\ \A i \in closing[t] : i # at[t] => state[i] = "started"
       /\ \A i, j \in closing[t] : i[2] = j[2] => i = j

(* A reload has brought the registry into agreement with its entries up to *)
(* the one it is at, and removed all else but for the names in todo.       *)
Agrees(t, i, reg)   == \A j \in 1..Len(ConfigOf[t]) : j < i => UpToDate(Entry(t, j), reg)
Removes(t, R, reg)  == \A n \in Names : n \notin Wanted(t) => reg[n] = None \/ n \in R
Progress(t) ==
  t \in Reloads =>
    /\ pc[t] = "removing" => todo[t] \cap Wanted(t) = {} /\ Removes(t, todo[t], registry)
    /\ pc[t] \in {"replacing", "starting"} =>
         /\ at[t][2] = Entry(t, idx[t]).name
         /\ Agrees(t, idx[t], registry) /\ Removes(t, {}, registry)

Turns   == \A t, u \in Lifecycle : ~Resting(t) /\ ~Resting(u) => t = u
SerInv  == Turns /\ Accounted /\ \A t \in Lifecycle : Vacated(t) /\ Progress(t)
SInv    == IInv /\ SerInv

LEMMA Kinds ==
  /\ Lifecycle \subseteq Tasks
  /\ \A t \in Reloads : t \in Lifecycle /\ t \notin Registers /\ t \notin Shutdowns
  /\ \A t \in Registers : t \in Lifecycle /\ t \notin Reloads /\ t \notin Shutdowns
  /\ \A t \in Shutdowns : t \in Lifecycle /\ t \notin Reloads /\ t \notin Registers
  /\ \A d \in Dispatches : d \in Tasks /\ d \notin Lifecycle
  BY Types DEF Lifecycle, Tasks

(* A task acts on its own: what the others hold is as it was, nothing.     *)
LEMMA OwnTurn ==
  ASSUME NEW t \in Lifecycle, Alone(t), \A u \in Tasks : u # t => pc'[u] = pc[u]
  PROVE  Turns' /\ \A u \in Lifecycle : u # t => Vacated(u)' /\ Progress(u)'
<1>1. \A u \in Lifecycle : u # t => pc'[u] \in Ended \cup {"idle"}
  BY Kinds DEF Alone, Resting
<1>2. Turns'
  BY <1>1 DEF Turns, Resting
<1>3. \A u \in Lifecycle : u # t => Vacated(u)' /\ Progress(u)'
  BY <1>1 DEF Vacated, Progress, Working, Ended
<1> QED
  BY <1>2, <1>3

LEMMA MineOrKept ==
  ASSUME SerInv, NEW t \in Lifecycle, Alone(t), NEW i \in Instance, state[i] \in Live
  PROVE  Kept(registry, state, i) \/ Holds(t, i)
<1>1. \A u \in Lifecycle : Holds(u, i) => ~Resting(u)
  BY DEF Holds, Resting, Working, Ended
<1> QED
  BY <1>1 DEF SerInv, Accounted, Alone

LEMMA TidyBefore ==
  ASSUME SerInv, NEW t \in Lifecycle, Alone(t), pc[t] = "idle"
  PROVE  Tidy(registry, state)
<1>1. \A i \in Instance : ~Holds(t, i)
  BY DEF Holds, Working
<1> QED
  BY <1>1, MineOrKept DEF Tidy

LEMMA TidyStopped ==
  ASSUME IInv, SerInv, NEW t \in Reloads, Alone(t), pc[t] \in {"removing", "replacing"}
  PROVE  Tidy(registry, [state EXCEPT ![at[t]] = "stopped"])
<1>1. t \in Lifecycle /\ t \notin Shutdowns /\ state \in [Instance -> States]
  BY Kinds DEF IInv, TypeOK, States
<1>2. \A i \in Instance : Holds(t, i) => i = at[t]
  BY <1>1 DEF Holds
<1> DEFINE st == [state EXCEPT ![at[t]] = "stopped"]
<1>3. \A i \in Instance : st[i] = IF i = at[t] THEN "stopped" ELSE state[i]
  BY <1>1
<1> HIDE DEF st
<1>4. \A i \in Instance : st[i] \in Live => Kept(registry, state, i) /\ st[i] = state[i]
  BY <1>1, <1>2, <1>3, MineOrKept DEF Live
<1>5. Tidy(registry, st)
  BY <1>4 DEF Tidy, Kept
<1> QED
  BY <1>5 DEF st

LEMMA TidyStarted ==
  ASSUME IInv, SerInv, NEW t \in Reloads \cup Registers, Alone(t), pc[t] = "starting"
  PROVE  Tidy([registry EXCEPT ![at[t][2]] = at[t]], [state EXCEPT ![at[t]] = "started"])
<1>1. /\ t \in Lifecycle /\ t \notin Shutdowns /\ t \in Tasks
      /\ state \in [Instance -> States] /\ registry \in [Names -> Contexts]
  BY Kinds DEF IInv, TypeOK, States
<1>2. /\ at[t] \in Instance /\ at[t][2] \in Names /\ registry[at[t][2]] = None
      /\ None \notin Instance
  BY <1>1, Types DEF IInv, RegistryInv, TaskInv, Starting, SerInv, Vacated, Working
<1>3. \A i \in Instance : Holds(t, i) => i = at[t]
  BY <1>1 DEF Holds
<1> DEFINE st  == [state EXCEPT ![at[t]] = "started"]
           reg == [registry EXCEPT ![at[t][2]] = at[t]]
<1>4. /\ \A i \in Instance : st[i] = IF i = at[t] THEN "started" ELSE state[i]
      /\ \A n \in Names : reg[n] = IF n = at[t][2] THEN at[t] ELSE registry[n]
  BY <1>1, <1>2
<1> HIDE DEF st, reg
<1>5. ASSUME NEW i \in Instance, st[i] \in Live PROVE Kept(reg, st, i)
  <2>1. CASE i = at[t]
    BY <1>2, <1>4, <2>1 DEF Kept
  <2>2. CASE i # at[t]
    <3>1. Kept(registry, state, i) /\ st[i] = state[i]
      BY <1>1, <1>3, <1>4, <1>5, <2>2, MineOrKept
    <3>2. i[2] \in Names /\ i[2] # at[t][2]
      BY <1>2, <3>1, Types DEF Kept
    <3> QED
      BY <1>4, <3>1, <3>2 DEF Kept
  <2> QED
    BY <2>1, <2>2
<1>6. Tidy(reg, st)
  BY <1>5 DEF Tidy
<1> QED
  BY <1>6 DEF st, reg

LEMMA RemoveTidy ==
  ASSUME NEW t \in Reloads, NEW n \in Names, NEW step \in {"removing", "replacing"}, NEW reg, NEW st,
         TypeOK, Typed(reg, st), Offered(reg, st), Tidy(reg, st), reg[n] # None,
         Remove(t, n, step, reg, st)
  PROVE  /\ Accounted' /\ pc'[t] = step /\ at'[t][2] = n /\ registry'[n] = None
         /\ state'[at'[t]] = "stopping"
         /\ \A m \in Names : m # n => registry'[m] = reg[m]
<1>1. /\ registry' = [reg EXCEPT ![n] = None] /\ state' = [st EXCEPT ![reg[n]] = "stopping"]
      /\ at' = [at EXCEPT ![t] = reg[n]] /\ pc' = [pc EXCEPT ![t] = step]
      /\ reg[n] \in Instance /\ reg[n][2] = n
  BY DEF Remove, Offered
<1>2. t \in Tasks /\ t \in Lifecycle
  BY Kinds
<1>3. /\ pc'[t] = step /\ at'[t] = reg[n]
      /\ \A m \in Names : registry'[m] = IF m = n THEN None ELSE reg[m]
      /\ \A i \in Instance : state'[i] = IF i = reg[n] THEN "stopping" ELSE st[i]
  BY <1>1, <1>2 DEF TypeOK, Typed
<1>4. ASSUME NEW i \in Instance, state'[i] \in Live
      PROVE  Kept(registry', state', i) \/ Holds(t, i)'
  <2>1. CASE i = reg[n]
    BY <1>3, <2>1 DEF Holds, Working
  <2>2. CASE i # reg[n]
    <3>1. Kept(reg, st, i) /\ i[2] \in Names /\ state'[i] = st[i]
      BY <1>3, <1>4, <2>2, Types DEF Tidy
    <3>2. i[2] # n
      BY <2>2, <3>1 DEF Kept
    <3> QED
      BY <1>3, <3>1, <3>2 DEF Kept
  <2> QED
    BY <2>1, <2>2
<1>5. Accounted'
  BY <1>2, <1>4 DEF Accounted
<1> QED
  BY <1>1, <1>3, <1>5

LEMMA CreateTidy ==
  ASSUME NEW t \in Reloads, NEW n \in Names, NEW reg, NEW st,
         TypeOK, Typed(reg, st), Tidy(reg, st), Create(t, n, reg, st)
  PROVE  /\ Accounted' /\ registry' = reg
         /\ pc'[t] = "raised" \/ (pc'[t] = "starting" /\ at'[t] = <<t, n>>)
<1>1. t \in Tasks /\ t \in Lifecycle /\ <<t, n>> \in Instance
  BY Kinds, Types
<1>2. CASE registry' = reg /\ pc' = [pc EXCEPT ![t] = "raised"] /\ state' = st
  <2>1. pc'[t] = "raised"
    BY <1>1, <1>2 DEF TypeOK
  <2>2. Accounted'
    BY <1>2 DEF Accounted, Tidy, Kept
  <2> QED
    BY <1>2, <2>1, <2>2
<1>3. CASE /\ registry' = reg /\ pc' = [pc EXCEPT ![t] = "starting"]
           /\ state' = [st EXCEPT ![<<t, n>>] = "starting"] /\ at' = [at EXCEPT ![t] = <<t, n>>]
  <2>1. /\ pc'[t] = "starting" /\ at'[t] = <<t, n>>
        /\ \A i \in Instance : i # <<t, n>> => state'[i] = st[i]
    BY <1>1, <1>3 DEF TypeOK, Typed
  <2>2. ASSUME NEW i \in Instance, state'[i] \in Live
        PROVE  Kept(registry', state', i) \/ Holds(t, i)'
    BY <1>3, <2>1, <2>2 DEF Holds, Working, Tidy, Kept
  <2>3. Accounted'
    BY <1>1, <2>2 DEF Accounted
  <2> QED
    BY <1>3, <2>1, <2>3
<1> QED
  BY <1>2, <1>3 DEF Create

(* The entries.                                                            *)
LEMMA Latest ==
  ASSUME NEW t \in Reloads, NEW j \in 1..Len(ConfigOf[t])
  PROVE  /\ Entry(t, j).name \in Names /\ Entry(t, j).name \in Wanted(t)
         /\ \A m \in 1..Len(ConfigOf[t]) : Entry(t, m).name = Entry(t, j).name => m = j
         /\ ConfOf(<<t, Entry(t, j).name>>) = Entry(t, j).conf
<1>1. /\ Entry(t, j).name \in Names /\ Entry(t, j).name \in Wanted(t)
      /\ \A m \in 1..Len(ConfigOf[t]) : Entry(t, m).name = Entry(t, j).name => m = j
  BY Entries DEF Entry, Wanted
<1> DEFINE es == {ConfigOf[t][m] : m \in 1..Len(ConfigOf[t])}
           e  == CHOOSE e \in es : e.name = Entry(t, j).name
<1>2. Entry(t, j) \in es /\ \A f \in es : f.name = Entry(t, j).name => f = Entry(t, j)
  BY <1>1 DEF Entry
<1> HIDE DEF es
<1>3. e = Entry(t, j)
  BY <1>2
<1>4. ConfOf(<<t, Entry(t, j).name>>) = e.conf
  BY Kinds DEF ConfOf, es
<1> QED
  BY <1>1, <1>3, <1>4

(* A registry that lost or gained one name agrees with the other entries.  *)
LEMMA AgreesElsewhere ==
  ASSUME NEW t \in Reloads, NEW j \in 1..Len(ConfigOf[t]), NEW r1, NEW r2, Agrees(t, j, r1),
         \A m \in Names : m # Entry(t, j).name => r2[m] = r1[m]
  PROVE  Agrees(t, j, r2)
<1> SUFFICES ASSUME NEW m \in 1..Len(ConfigOf[t]), m < j PROVE UpToDate(Entry(t, m), r2)
  BY DEF Agrees
<1>1. Entry(t, m).name # Entry(t, j).name /\ Entry(t, m).name \in Names
  <2>1. m # j
    BY Entries
  <2> QED
    BY <2>1, Latest
<1>2. r2[Entry(t, m).name] = r1[Entry(t, m).name]
  BY <1>1
<1> QED
  BY <1>2 DEF Agrees, UpToDate

LEMMA ContinueTidy ==
  ASSUME NEW t \in Reloads, NEW R \in SUBSET Names, NEW i \in Nat \ {0}, NEW reg, NEW st,
         TypeOK, Typed(reg, st), Offered(reg, st), Tidy(reg, st),
         R \cap Wanted(t) = {}, Removes(t, R, reg), Agrees(t, i, reg),
         Continue(t, R, i, reg, st)
  PROVE  /\ Accounted' /\ Vacated(t)' /\ Progress(t)'
         /\ pc'[t] = "done" => Agrees(t, Len(ConfigOf[t]) + 1, registry') /\ Removes(t, {}, registry')
<1> DEFINE present == {n \in R : reg[n] # None}
           work    == {j \in i..Len(ConfigOf[t]) : ~UpToDate(Entry(t, j), reg)}
           Goal    == /\ Accounted' /\ Vacated(t)' /\ Progress(t)'
                      /\ pc'[t] = "done" => /\ Agrees(t, Len(ConfigOf[t]) + 1, registry')
                                            /\ Removes(t, {}, registry')
<1>1. t \in Tasks /\ t \in Lifecycle /\ t \notin Shutdowns /\ Len(ConfigOf[t]) \in Nat
  BY Kinds, Entries
<1>2. ASSUME NEW n \in present, NEW absent \in SUBSET (R \ present),
             Remove(t, n, "removing", reg, st),
             todo' = [todo EXCEPT ![t] = R \ (absent \cup {n})]
      PROVE  Goal
  <2>1. n \in Names /\ reg[n] # None
    OBVIOUS
  <2>2. /\ Accounted' /\ pc'[t] = "removing" /\ at'[t][2] = n /\ registry'[n] = None
        /\ state'[at'[t]] = "stopping"
        /\ \A m \in Names : m # n => registry'[m] = reg[m]
    BY <1>2, <2>1, RemoveTidy
  <2>3. todo'[t] = R \ (absent \cup {n})
    BY <1>2 DEF TypeOK
  <2>4. todo'[t] \cap Wanted(t) = {}
    BY <2>3
  <2>5. Removes(t, todo'[t], registry')
    <3> SUFFICES ASSUME NEW m \in Names, m \notin Wanted(t), m \notin todo'[t] PROVE registry'[m] = None
      BY DEF Removes
    <3>1. CASE m = n
      BY <2>2, <3>1
    <3>2. CASE m # n /\ m \in R
      BY <2>2, <2>3, <3>2
    <3>3. CASE m # n /\ m \notin R
      BY <2>2, <3>3 DEF Removes
    <3> QED
      BY <3>1, <3>2, <3>3
  <2>6. Vacated(t)'
    BY <1>1, <2>2 DEF Vacated
  <2>7. Progress(t)'
    BY <2>2, <2>4, <2>5 DEF Progress, Removes, Wanted, Entry
  <2> QED
    BY <2>2, <2>6, <2>7
<1>3. ASSUME present = {}, NEW j \in work, \A m \in work : j <= m,
             idx' = [idx EXCEPT ![t] = j],
             \/ /\ reg[Entry(t, j).name] # None
                /\ Remove(t, Entry(t, j).name, "replacing", reg, st)
             \/ /\ reg[Entry(t, j).name] = None
                /\ Create(t, Entry(t, j).name, reg, st)
      PROVE  Goal
  <2> DEFINE n == Entry(t, j).name
  <2>1. j \in 1..Len(ConfigOf[t]) /\ n \in Names /\ n \in Wanted(t)
    <3>1. j \in 1..Len(ConfigOf[t])
      BY <1>1
    <3> QED
      BY <3>1, Latest
  <2>2. /\ Accounted'
        /\ \/ pc'[t] = "raised"
           \/ pc'[t] \in {"replacing", "starting"} /\ at'[t][2] = n /\ registry'[n] = None
        /\ pc'[t] = "replacing" => state'[at'[t]] = "stopping"
        /\ \A m \in Names : m # n => registry'[m] = reg[m]
    <3>1. CASE reg[n] # None /\ Remove(t, n, "replacing", reg, st)
      BY <2>1, <3>1, RemoveTidy
    <3>2. CASE reg[n] = None /\ Create(t, n, reg, st)
      BY <2>1, <3>2, CreateTidy
    <3> QED
      BY <1>3, <3>1, <3>2
  <2>3. idx'[t] = j
    BY <1>3 DEF TypeOK
  <2>4. Agrees(t, j, reg)
    <3> SUFFICES ASSUME NEW m \in 1..Len(ConfigOf[t]), m < j PROVE UpToDate(Entry(t, m), reg)
      BY DEF Agrees
    <3>1. CASE m < i
      BY <3>1 DEF Agrees
    <3>2. CASE ~(m < i)
      <4>1. m \in i..Len(ConfigOf[t]) /\ ~(j <= m)
        BY <1>1, <3>2
      <4> QED
        BY <1>3, <4>1
    <3> QED
      BY <3>1, <3>2
  <2>5. Agrees(t, j, registry')
    BY <2>1, <2>2, <2>4, AgreesElsewhere
  <2>6. Removes(t, {}, registry')
    BY <1>3, <2>1, <2>2 DEF Removes
  <2>7. Vacated(t)'
    <3>1. pc'[t] # "removing"
      BY <2>2
    <3> QED
      BY <1>1, <2>2, <3>1 DEF Vacated, Working
  <2>8. Progress(t)'
    BY <2>2, <2>3, <2>5, <2>6 DEF Progress, Removes, Agrees, UpToDate, Wanted, Entry, ConfOf
  <2> QED
    BY <2>2, <2>7, <2>8
<1>4. ASSUME present = {}, work = {}, registry' = reg, state' = st,
             pc' = [pc EXCEPT ![t] = "done"]
      PROVE  Goal
  <2>1. pc'[t] = "done"
    BY <1>1, <1>4 DEF TypeOK
  <2>2. Accounted'
    BY <1>4 DEF Accounted, Tidy, Kept
  <2>3. Agrees(t, Len(ConfigOf[t]) + 1, registry')
    BY <1>1, <1>4 DEF Agrees
  <2>4. Removes(t, {}, registry')
    BY <1>4 DEF Removes
  <2>5. Vacated(t)' /\ Progress(t)'
    BY <1>1, <2>1 DEF Vacated, Working, Progress
  <2> QED
    BY <2>2, <2>3, <2>4, <2>5
<1> HIDE DEF Goal
<1>5. Goal
  BY <1>2, <1>3, <1>4 DEF Continue, Entry
<1> QED
  BY <1>5 DEF Goal

-----------------------------------------------------------------------------
(* The steps of a program whose lifecycle calls follow one another, and    *)
(* what they have established when a call ends.                            *)
Established(t) ==
  pc[t] # "done" /\ pc'[t] = "done" =>
    Agrees(t, Len(ConfigOf[t]) + 1, registry') /\ Removes(t, {}, registry')
AllStopped(t) ==
  pc[t] # "done" /\ pc'[t] = "done" => \A i \in Instance : state'[i] \notin Live
Result ==
  /\ SerInv'
  /\ \A t \in Reloads : Established(t)
  /\ \A t \in Shutdowns : AllStopped(t)

LEMMA ContinueSteps ==
  ASSUME TypeOK, NEW t \in Reloads, NEW R, NEW i, NEW reg, NEW st, Continue(t, R, i, reg, st)
  PROVE  /\ \A u \in Tasks : u # t => pc'[u] = pc[u]
         /\ pc'[t] \in {"removing", "replacing", "starting", "raised", "done"}
<1>1. t \in Tasks /\ pc \in [Tasks -> Controls]
  BY Kinds DEF TypeOK, Controls
<1>2. \E s \in {"removing", "replacing", "starting", "raised", "done"} : pc' = [pc EXCEPT ![t] = s]
  BY DEF Continue, Remove, Create
<1> QED
  BY <1>1, <1>2

LEMMA ActsAlone ==
  ASSUME SerInv, SerialNext, NEW t \in Lifecycle, pc[t] \notin Ended, pc'[t] # "idle"
  PROVE  Alone(t)
<1>1. CASE pc[t] = "idle"
  BY <1>1 DEF SerialNext, Alone, Resting
<1>2. CASE pc[t] # "idle"
  BY <1>2 DEF SerInv, Turns, Alone, Resting
<1> QED
  BY <1>1, <1>2

(* What a step of t has to show.                                           *)
LEMMA TurnGives ==
  ASSUME NEW t \in Lifecycle, Alone(t), \A u \in Tasks : u # t => pc'[u] = pc[u],
         Accounted', Vacated(t)', Progress(t)',
         t \in Reloads => Established(t), t \in Shutdowns => AllStopped(t)
  PROVE  Result
<1>1. SerInv'
  BY OwnTurn DEF SerInv
<1>2. \A u \in Lifecycle : u \in Tasks
  BY Kinds
<1>3. \A u \in Reloads : Established(u)
  BY <1>2, Kinds DEF Established
<1>4. \A u \in Shutdowns : AllStopped(u)
  BY <1>2, Kinds DEF AllStopped
<1> QED
  BY <1>1, <1>3, <1>4 DEF Result

LEMMA ReloadCalledSerial ==
  ASSUME SInv, SerialNext, NEW t \in Reloads, ReloadCalled(t)
  PROVE  Result
<1> DEFINE R == {n \in Names : registry[n] # None} \ Wanted(t)
<1>1. /\ TypeOK /\ Typed(registry, state) /\ Offered(registry, state) /\ SerInv
      /\ t \in Lifecycle /\ t \notin Shutdowns
  BY Kinds DEF SInv, IInv, RegistryInv, TypeOK, Typed, States
<1>2. pc[t] = "idle" /\ Continue(t, R, 1, registry, state)
  BY DEF ReloadCalled, Wanted, Entry
<1>3. R \in SUBSET Names /\ R \cap Wanted(t) = {} /\ Removes(t, R, registry)
  BY DEF Removes
<1>4. 1 \in Nat \ {0} /\ Agrees(t, 1, registry)
  BY DEF Agrees
<1> HIDE DEF R
<1>5. /\ \A u \in Tasks : u # t => pc'[u] = pc[u]
      /\ pc'[t] # "idle"
  BY <1>1, <1>2, ContinueSteps
<1>6. Alone(t)
  BY <1>1, <1>2, <1>5, ActsAlone DEF Ended
<1>7. Tidy(registry, state)
  BY <1>1, <1>2, <1>6, TidyBefore
<1>8. /\ Accounted' /\ Vacated(t)' /\ Progress(t)'
      /\ pc'[t] = "done" => Agrees(t, Len(ConfigOf[t]) + 1, registry') /\ Removes(t, {}, registry')
  BY <1>1, <1>2, <1>3, <1>4, <1>7, ContinueTidy
<1> QED
  BY <1>1, <1>5, <1>6, <1>8, TurnGives DEF Established

LEMMA RemovedSerial ==
  ASSUME SInv, SerialNext, NEW t \in Reloads, Removed(t)
  PROVE  Result
<1> DEFINE st == [state EXCEPT ![at[t]] = "stopped"]
<1>1. /\ IInv /\ TypeOK /\ Typed(registry, state) /\ Offered(registry, state) /\ SerInv
      /\ t \in Lifecycle /\ t \notin Shutdowns /\ t \in Tasks /\ TaskInv(t) /\ Vacated(t) /\ Progress(t)
  BY Kinds DEF SInv, SerInv, IInv, RegistryInv, TypeOK, Typed, States
<1>2. pc[t] \in {"removing", "replacing"}
  BY DEF Removed
<1>3. Typed(registry, st) /\ Offered(registry, st)
  BY <1>1, <1>2, StopPart DEF TaskInv, Stopping, Leaving
<1>4. Alone(t)
  BY <1>1, <1>2 DEF SerInv, Turns, Alone, Resting, Ended
<1>5. Tidy(registry, st)
  BY <1>1, <1>2, <1>4, TidyStopped
<1> HIDE DEF st
<1>6. CASE pc[t] = "removing" /\ Continue(t, todo[t], 1, registry, st)
  <2>1. todo[t] \in SUBSET Names /\ todo[t] \cap Wanted(t) = {} /\ Removes(t, todo[t], registry)
    BY <1>1, <1>6 DEF Progress, TypeOK
  <2>2. 1 \in Nat \ {0} /\ Agrees(t, 1, registry)
    BY DEF Agrees
  <2>3. /\ Accounted' /\ Vacated(t)' /\ Progress(t)'
        /\ pc'[t] = "done" => Agrees(t, Len(ConfigOf[t]) + 1, registry') /\ Removes(t, {}, registry')
    BY <1>1, <1>3, <1>5, <1>6, <2>1, <2>2, ContinueTidy
  <2>4. \A u \in Tasks : u # t => pc'[u] = pc[u]
    BY <1>1, <1>6, ContinueSteps
  <2> QED
    BY <1>1, <1>4, <2>3, <2>4, TurnGives DEF Established
<1>7. CASE /\ pc[t] = "replacing" /\ Create(t, Entry(t, idx[t]).name, registry, st)
           /\ UNCHANGED <<todo, idx>>
  <2> DEFINE n == Entry(t, idx[t]).name
  <2>1. /\ idx[t] \in 1..Len(ConfigOf[t]) /\ n = at[t][2]
        /\ Agrees(t, idx[t], registry) /\ Removes(t, {}, registry) /\ registry[n] = None
    BY <1>1, <1>7 DEF TaskInv, Placed, Progress, Vacated, Working
  <2>2. n \in Names
    BY <2>1, Latest
  <2>3. /\ Accounted' /\ registry' = registry /\ idx' = idx
        /\ pc'[t] = "raised" \/ (pc'[t] = "starting" /\ at'[t] = <<t, n>>)
    BY <1>1, <1>3, <1>5, <1>7, <2>2, CreateTidy
  <2>4. Vacated(t)'
    BY <1>1, <2>1, <2>3 DEF Vacated, Working
  <2>5. Progress(t)'
    <3>1. pc'[t] = "starting" => at'[t][2] = Entry(t, idx'[t]).name
      BY <2>3
    <3>2. Agrees(t, idx'[t], registry') /\ Removes(t, {}, registry')
      BY <2>1, <2>3
    <3>3. pc'[t] \in {"raised", "starting"}
      BY <2>3
    <3> HIDE DEF n
    <3> QED
      BY <3>1, <3>2, <3>3 DEF Progress, Removes, Agrees, UpToDate, Wanted, Entry, ConfOf
  <2>6. \A u \in Tasks : u # t => pc'[u] = pc[u]
    BY <1>1, <1>7 DEF Create, TypeOK
  <2>7. Established(t)
    BY <2>3 DEF Established
  <2> QED
    BY <1>1, <1>4, <2>3, <2>4, <2>5, <2>6, <2>7, TurnGives
<1> QED
  BY <1>6, <1>7 DEF Removed, Entry, st

LEMMA StartedSerial ==
  ASSUME SInv, SerialNext, NEW t \in Reloads \cup Registers, Started(t)
  PROVE  Result
<1> DEFINE st  == [state EXCEPT ![at[t]] = "started"]
           reg == [registry EXCEPT ![at[t][2]] = at[t]]
<1>1. /\ IInv /\ TypeOK /\ Typed(registry, state) /\ Offered(registry, state) /\ SerInv
      /\ t \in Lifecycle /\ t \notin Shutdowns /\ t \in Tasks /\ TaskInv(t) /\ Vacated(t) /\ Progress(t)
  BY Kinds DEF SInv, SerInv, IInv, RegistryInv, TypeOK, Typed, States
<1>2. /\ pc[t] = "starting" /\ at[t] \in Instance /\ at[t][1] = t /\ state[at[t]] = "starting"
      /\ at[t][2] \in Names /\ at[t] = <<t, at[t][2]>> /\ None \notin Instance
  BY <1>1, Types DEF Started, TaskInv, Starting
<1>3. Typed(reg, st) /\ Offered(reg, st)
  BY <1>1, <1>2, StartPart
<1>4. Alone(t)
  BY <1>1, <1>2 DEF SerInv, Turns, Alone, Resting, Ended
<1>5. Tidy(reg, st)
  BY <1>1, <1>2, <1>4, TidyStarted
<1>6. /\ reg[at[t][2]] = at[t]
      /\ \A n \in Names : n # at[t][2] => reg[n] = registry[n]
  BY <1>1, <1>2 DEF Typed
<1> HIDE DEF st, reg
<1>7. CASE t \in Reloads /\ Continue(t, {}, idx[t] + 1, reg, st)
  <2>1. /\ idx[t] \in 1..Len(ConfigOf[t]) /\ Entry(t, idx[t]).name = at[t][2]
        /\ Agrees(t, idx[t], registry) /\ Removes(t, {}, registry)
    BY <1>1, <1>2, <1>7 DEF TaskInv, Placed, Progress
  <2>2. Agrees(t, idx[t], reg)
    BY <1>6, <1>7, <2>1, AgreesElsewhere
  <2>3. UpToDate(Entry(t, idx[t]), reg)
    <3>1. ConfOf(<<t, Entry(t, idx[t]).name>>) = Entry(t, idx[t]).conf
      BY <1>7, <2>1, Latest
    <3>2. reg[Entry(t, idx[t]).name] = at[t] /\ at[t] = <<t, Entry(t, idx[t]).name>>
      BY <1>2, <1>6, <2>1
    <3>3. at[t] # None
      BY <1>2
    <3>4. ConfOf(at[t]) = Entry(t, idx[t]).conf
      BY <3>1, <3>2
    <3> QED
      BY <3>2, <3>3, <3>4 DEF UpToDate
  <2>4. Agrees(t, idx[t] + 1, reg)
    <3>1. ASSUME NEW j \in 1..Len(ConfigOf[t]), j < idx[t] + 1 PROVE j < idx[t] \/ j = idx[t]
      BY <1>7, <2>1, <3>1, Entries
    <3> QED
      BY <2>2, <2>3, <3>1 DEF Agrees
  <2>5. {} \in SUBSET Names /\ {} \cap Wanted(t) = {} /\ Removes(t, {}, reg)
    <3>1. at[t][2] \in Wanted(t)
      BY <2>1 DEF Wanted
    <3> QED
      BY <1>6, <2>1, <3>1 DEF Removes
  <2>6. idx[t] + 1 \in Nat \ {0}
    BY <1>7, <2>1, Entries
  <2>7. /\ Accounted' /\ Vacated(t)' /\ Progress(t)'
        /\ pc'[t] = "done" => Agrees(t, Len(ConfigOf[t]) + 1, registry') /\ Removes(t, {}, registry')
    BY <1>1, <1>3, <1>5, <1>7, <2>4, <2>5, <2>6, ContinueTidy
  <2>8. \A u \in Tasks : u # t => pc'[u] = pc[u]
    BY <1>1, <1>7, ContinueSteps
  <2> QED
    BY <1>1, <1>4, <2>7, <2>8, TurnGives DEF Established
<1>8. CASE t \in Registers /\ registry' = reg /\ state' = st /\ pc' = [pc EXCEPT ![t] = "done"]
  <2>1. pc'[t] = "done" /\ \A u \in Tasks : u # t => pc'[u] = pc[u]
    BY <1>1, <1>8 DEF TypeOK
  <2>2. Accounted'
    BY <1>5, <1>8 DEF Accounted, Tidy, Kept
  <2>3. Vacated(t)' /\ Progress(t)' /\ t \notin Reloads
    BY <1>1, <1>8, <2>1, Kinds DEF Vacated, Working, Progress
  <2> QED
    BY <1>1, <1>4, <2>1, <2>2, <2>3, TurnGives
<1> QED
  BY <1>7, <1>8 DEF Started, reg, st

LEMMA StartFailsSerial ==
  ASSUME SInv, SerialNext, NEW t \in Reloads \cup Registers, StartFails(t)
  PROVE  Result
<1>1. /\ SerInv /\ t \in Lifecycle /\ t \notin Shutdowns /\ t \in Tasks /\ pc[t] = "starting"
      /\ pc \in [Tasks -> Controls] /\ state \in [Instance -> States]
  BY Kinds DEF SInv, IInv, TypeOK, Controls, States, StartFails
<1>2. /\ pc' = [pc EXCEPT ![t] = "raised"] /\ registry' = registry
      /\ state' = [state EXCEPT ![at[t]] = "failed"]
  BY DEF StartFails
<1>3. /\ pc'[t] = "raised" /\ \A u \in Tasks : u # t => pc'[u] = pc[u]
      /\ \A i \in Instance : state'[i] = IF i = at[t] THEN "failed" ELSE state[i]
  BY <1>1, <1>2
<1>4. Alone(t)
  BY <1>1 DEF SerInv, Turns, Alone, Resting, Ended
<1>5. \A i \in Instance : Holds(t, i) => i = at[t]
  BY <1>1 DEF Holds
<1>6. ASSUME NEW i \in Instance, state'[i] \in Live PROVE Kept(registry', state', i)
  <2>1. i # at[t] /\ state'[i] = state[i]
    BY <1>3, <1>6 DEF Live
  <2>2. Kept(registry, state, i)
    BY <1>1, <1>4, <1>5, <1>6, <2>1, MineOrKept
  <2> QED
    BY <1>2, <2>1, <2>2 DEF Kept
<1>7. Accounted'
  BY <1>6 DEF Accounted
<1>8. Vacated(t)' /\ Progress(t)' /\ Established(t)
  BY <1>1, <1>3 DEF Vacated, Working, Progress, Established
<1> QED
  BY <1>1, <1>3, <1>4, <1>7, <1>8, TurnGives

LEMMA RegisterCalledSerial ==
  ASSUME SInv, SerialNext, NEW t \in Registers, NEW n \in Names, RegisterCalled(t, n)
  PROVE  Result
<1>1. /\ SerInv /\ t \in Lifecycle /\ t \notin Shutdowns /\ t \notin Reloads /\ t \in Tasks
      /\ pc[t] = "idle" /\ pc \in [Tasks -> Controls] /\ state \in [Instance -> States]
      /\ at \in [Tasks -> Contexts] /\ <<t, n>> \in Instance /\ <<t, n>>[2] = n
  BY Kinds, Types DEF SInv, IInv, TypeOK, Controls, States, RegisterCalled
<1>2. /\ pc' = [pc EXCEPT ![t] = "starting"] /\ registry' = registry
      /\ state' = [state EXCEPT ![<<t, n>>] = "starting"]
      /\ at' = [at EXCEPT ![t] = <<t, n>>]
  BY DEF RegisterCalled
<1>3. /\ pc'[t] = "starting" /\ \A u \in Tasks : u # t => pc'[u] = pc[u]
      /\ at'[t] = <<t, n>>
      /\ \A i \in Instance : i # <<t, n>> => state'[i] = state[i]
  BY <1>1, <1>2
<1>4. Alone(t)
  BY <1>1, <1>3, ActsAlone DEF Ended
<1>5. registry[n] = None
  BY <1>1, <1>3 DEF SerialNext
<1>6. Tidy(registry, state)
  BY <1>1, <1>4, TidyBefore
<1>7. ASSUME NEW i \in Instance, state'[i] \in Live
      PROVE  Kept(registry', state', i) \/ Holds(t, i)'
  BY <1>2, <1>3, <1>6, <1>7 DEF Tidy, Kept, Holds, Working
<1>8. Accounted'
  BY <1>1, <1>7 DEF Accounted
<1>9. Vacated(t)' /\ Progress(t)'
  BY <1>1, <1>2, <1>3, <1>5 DEF Vacated, Progress
<1> QED
  BY <1>1, <1>3, <1>4, <1>8, <1>9, TurnGives

LEMMA CloseTidy ==
  ASSUME TypeOK, NEW t \in Shutdowns, Alone(t), NEW S \in SUBSET Instance, NEW st,
         st \in [Instance -> States],
         \A n \in Names : registry'[n] = None,
         \A i \in S : st[i] = "started",
         \A i \in Instance : st[i] \in Live => i \in S,
         \A i, j \in S : i[2] = j[2] => i = j,
         Close(t, S, st)
  PROVE  Result
<1>1. /\ t \in Lifecycle /\ t \in Tasks /\ t \notin Reloads /\ t \notin Registers
      /\ pc \in [Tasks -> Controls] /\ at \in [Tasks -> Contexts]
      /\ closing'[t] = S
  BY Kinds DEF TypeOK, Controls, Close
<1>2. CASE S = {} /\ pc' = [pc EXCEPT ![t] = "done"] /\ state' = st
  <2>1. pc'[t] = "done" /\ \A u \in Tasks : u # t => pc'[u] = pc[u]
    BY <1>1, <1>2
  <2>2. \A i \in Instance : state'[i] \notin Live
    BY <1>2
  <2>3. Accounted' /\ AllStopped(t)
    BY <2>2 DEF Accounted, AllStopped
  <2>4. Vacated(t)' /\ Progress(t)'
    BY <1>1, <2>1 DEF Vacated, Progress
  <2> QED
    BY <1>1, <2>1, <2>3, <2>4, TurnGives
<1>3. ASSUME NEW k \in S, pc' = [pc EXCEPT ![t] = "closing"],
             state' = [st EXCEPT ![k] = "stopping"], at' = [at EXCEPT ![t] = k]
      PROVE  Result
  <2>1. /\ pc'[t] = "closing" /\ at'[t] = k /\ \A u \in Tasks : u # t => pc'[u] = pc[u]
        /\ \A i \in Instance : state'[i] = IF i = k THEN "stopping" ELSE st[i]
    BY <1>1, <1>3
  <2>2. \A i \in Instance : state'[i] \in Live => Holds(t, i)'
    BY <1>1, <2>1 DEF Holds
  <2>3. Accounted'
    BY <1>1, <2>2 DEF Accounted
  <2>4. Vacated(t)'
    BY <1>1, <2>1 DEF Vacated
  <2>5. Progress(t)' /\ AllStopped(t)
    BY <1>1, <2>1 DEF Progress, AllStopped
  <2> QED
    BY <1>1, <2>1, <2>3, <2>4, <2>5, TurnGives
<1> QED
  BY <1>2, <1>3 DEF Close

LEMMA ShutdownSerial ==
  ASSUME SInv, SerialNext, NEW t \in Shutdowns, ShutdownCalled(t) \/ ClosingStopped(t)
  PROVE  Result
<1>1. /\ TypeOK /\ SerInv /\ t \in Lifecycle /\ t \in Tasks /\ t \notin Reloads /\ t \notin Registers
      /\ state \in [Instance -> States] /\ registry \in [Names -> Contexts]
      /\ Offered(registry, state) /\ Vacated(t) /\ closing[t] \in SUBSET Instance
      /\ None \notin Instance /\ Contexts = Instance \cup {None}
  BY Kinds, Types DEF SInv, SerInv, IInv, RegistryInv, TypeOK, States
<1>2. CASE ShutdownCalled(t)
  <2> DEFINE S == {registry[n] : n \in Names} \ {None}
  <2>1. /\ pc[t] = "idle" /\ Close(t, S, state) /\ registry' = [n \in Names |-> None]
    BY <1>2 DEF ShutdownCalled
  <2>2. pc'[t] # "idle"
    BY <1>1, <2>1 DEF Close, TypeOK
  <2>3. Alone(t) /\ Tidy(registry, state)
    BY <1>1, <2>1, <2>2, ActsAlone, TidyBefore DEF Ended
  <2>4. S \in SUBSET Instance /\ \A i \in S : state[i] = "started" /\ registry[i[2]] = i
    BY <1>1 DEF Offered
  <2>5. \A i \in Instance : state[i] \in Live => i \in S
    BY <1>1, <2>3, Types DEF Tidy, Kept
  <2> HIDE DEF S
  <2>6. \A i, j \in S : i[2] = j[2] => i = j
    BY <2>4
  <2>7. \A n \in Names : registry'[n] = None
    BY <2>1
  <2> QED
    BY <1>1, <2>1, <2>3, <2>4, <2>5, <2>6, <2>7, CloseTidy
<1>3. CASE ClosingStopped(t)
  <2> DEFINE S  == closing[t] \ {at[t]}
             st == [state EXCEPT ![at[t]] = "stopped"]
  <2>1. pc[t] = "closing" /\ Close(t, S, st) /\ registry' = registry
    BY <1>3 DEF ClosingStopped
  <2>2. Alone(t)
    BY <1>1, <2>1 DEF SerInv, Turns, Alone, Resting, Ended
  <2>3. /\ \A n \in Names : registry[n] = None
        /\ at[t] \in closing[t]
        /\ \A i \in closing[t] : i # at[t] => state[i] = "started"
        /\ \A i, j \in closing[t] : i[2] = j[2] => i = j
    BY <1>1, <2>1 DEF Vacated
  <2>4. /\ \A i \in Instance : st[i] = IF i = at[t] THEN "stopped" ELSE state[i]
        /\ st \in [Instance -> States]
    BY <1>1 DEF States
  <2> HIDE DEF st
  <2>5. \A i \in Instance : st[i] \in Live => i \in S
    <3> SUFFICES ASSUME NEW i \in Instance, st[i] \in Live PROVE i \in S
      OBVIOUS
    <3>1. i # at[t] /\ state[i] \in Live
      BY <2>4 DEF Live
    <3>2. ~Kept(registry, state, i)
      BY <1>1, <2>3, Types DEF Kept
    <3>3. Holds(t, i)
      BY <1>1, <2>2, <3>1, <3>2, MineOrKept
    <3> QED
      BY <1>1, <3>1, <3>3 DEF Holds
  <2>6. /\ S \in SUBSET Instance /\ \A i \in S : st[i] = "started"
        /\ \A i, j \in S : i[2] = j[2] => i = j
    BY <1>1, <2>3, <2>4
  <2>7. \A n \in Names : registry'[n] = None
    BY <2>1, <2>3
  <2> HIDE DEF S
  <2> QED
    BY <1>1, <2>1, <2>2, <2>4, <2>5, <2>6, <2>7, CloseTidy
<1> QED
  BY <1>2, <1>3

(* Whoever only dispatches changes none of it.                             *)
LEMMA SerialSame ==
  ASSUME SerInv, UNCHANGED <<registry, state, todo, idx, closing>>,
         \A t \in Lifecycle : pc'[t] = pc[t] /\ at'[t] = at[t]
  PROVE  Result
<1>1. Turns'
  BY DEF SerInv, Turns, Resting
<1>2. Accounted'
  <2>1. \A t \in Lifecycle, i \in Instance : Holds(t, i)' <=> Holds(t, i)
    BY DEF Holds
  <2> QED
    BY <2>1 DEF SerInv, Accounted, Kept
<1>3. ASSUME NEW t \in Lifecycle PROVE Vacated(t)' /\ Progress(t)'
  <2>1. Vacated(t) /\ Progress(t) /\ pc'[t] = pc[t] /\ at'[t] = at[t]
    BY DEF SerInv
  <2>2. Vacated(t)'
    BY <2>1 DEF Vacated
  <2>3. Progress(t)'
    <3>1. ASSUME NEW i, Agrees(t, i, registry) PROVE Agrees(t, i, registry')
      BY <3>1
    <3>2. ASSUME NEW R, Removes(t, R, registry) PROVE Removes(t, R, registry')
      BY <3>2
    <3>3. UNCHANGED <<todo, idx>>
      OBVIOUS
    <3>4. t \in Reloads =>
            /\ pc'[t] = "removing" => todo'[t] \cap Wanted(t) = {} /\ Removes(t, todo'[t], registry')
            /\ pc'[t] \in {"replacing", "starting"} =>
                 /\ at'[t][2] = Entry(t, idx'[t]).name
                 /\ Agrees(t, idx'[t], registry') /\ Removes(t, {}, registry')
      BY <2>1, <3>1, <3>2, <3>3 DEF Progress
    <3> QED
      BY <3>4 DEF Progress, Agrees, Removes, UpToDate, ConfOf, Entry, Wanted
  <2> QED
    BY <2>2, <2>3
<1>4. SerInv'
  BY <1>1, <1>2, <1>3 DEF SerInv
<1> QED
  BY <1>4, Kinds DEF Result, Established, AllStopped

LEMMA DispatchSerial ==
  ASSUME SInv, NEW d \in Dispatches,
         (\E n \in Names, k \in Keys \cup {None} : DispatchCalled(d, n, k)) \/ AdapterAnswers(d)
  PROVE  Result
<1>1. d \in Tasks /\ d \notin Lifecycle /\ Lifecycle \subseteq Tasks /\ SerInv /\ TypeOK
  BY Kinds DEF SInv, IInv
<1>2. /\ UNCHANGED <<registry, state, todo, idx, closing>>
      /\ \E s : pc' = [pc EXCEPT ![d] = s]
      /\ (\E i : at' = [at EXCEPT ![d] = i]) \/ at' = at
  BY DEF DispatchCalled, AdapterAnswers, End
<1>3. \A t \in Lifecycle : pc'[t] = pc[t] /\ at'[t] = at[t]
  BY <1>1, <1>2 DEF TypeOK
<1> QED
  BY <1>1, <1>2, <1>3, SerialSame

LEMMA SerialInit == Init => SInv
<1> SUFFICES ASSUME Init PROVE SInv
  OBVIOUS
<1>1. IInv
  BY InitHolds
<1>2. \A t \in Lifecycle : pc[t] = "idle"
  BY Kinds DEF Init
<1>3. Turns /\ \A t \in Lifecycle : Vacated(t) /\ Progress(t)
  BY <1>2 DEF Turns, Resting, Vacated, Working, Progress
<1>4. Accounted
  BY DEF Accounted, Init, Live
<1> QED
  BY <1>1, <1>3, <1>4 DEF SInv, SerInv

LEMMA SerialSteps == SInv /\ [SerialNext]_vars => SInv' /\ Result
<1> SUFFICES ASSUME SInv, [SerialNext]_vars PROVE SInv' /\ Result
  OBVIOUS
<1>1. IInv'
  BY Steps DEF SInv, SerialNext
<1>2. Result
  <2>1. CASE UNCHANGED vars
    BY <2>1, SerialSame DEF vars, registers, SInv
  <2>2. CASE SerialNext
    <3>1. Next
      BY <2>2 DEF SerialNext
    <3> QED
      BY <2>2, <3>1, ReloadCalledSerial, RemovedSerial, RegisterCalledSerial, StartedSerial,
         StartFailsSerial, ShutdownSerial, DispatchSerial DEF Next
  <2> QED
    BY <2>1, <2>2
<1> QED
  BY <1>1, <1>2 DEF SInv, Result

LEMMA SerialGives == SInv => NoOrphan /\ OneLivePerName
<1> SUFFICES ASSUME SInv PROVE NoOrphan /\ OneLivePerName
  OBVIOUS
<1>0. /\ SerInv /\ None \notin Instance /\ Lifecycle \subseteq Tasks
      /\ \A t \in Lifecycle : Vacated(t) /\ Starting(t)
  BY Types, Kinds DEF SInv, SerInv, IInv, RegistryInv, TaskInv
<1>1. ASSUME NEW t \in Lifecycle, NEW i \in Instance, Holds(t, i)
      PROVE  /\ registry[i[2]] = None /\ ~Resting(t)
             /\ state[i] = "started" => t \in Shutdowns /\ i \in closing[t]
             /\ t \notin Shutdowns => i = at[t]
             /\ t \in Shutdowns => pc[t] = "closing" /\ i \in closing[t]
  <2>1. Vacated(t) /\ Starting(t)
    BY <1>0
  <2>2. CASE t \in Reloads \cup Registers /\ pc[t] \in Working /\ at[t] = i
    <3>1. t \notin Shutdowns /\ registry[i[2]] = None
      BY <2>1, <2>2, Kinds DEF Vacated
    <3>2. state[i] # "started"
      BY <2>1, <2>2 DEF Vacated, Starting, Working
    <3> QED
      BY <2>2, <3>1, <3>2 DEF Resting, Working, Ended
  <2>3. CASE t \in Shutdowns /\ pc[t] = "closing" /\ i \in closing[t]
    BY <2>1, <2>3, Types DEF Vacated, Resting, Ended
  <2> QED
    BY <1>1, <2>2, <2>3 DEF Holds
<1>2. ASSUME NEW i \in Instance, state[i] \in Live
      PROVE  registry[i[2]] = i \/ \E t \in Lifecycle : Holds(t, i)
  BY <1>0, <1>2 DEF SerInv, Accounted, Kept
<1>3. NoOrphan
  BY <1>1, <1>2 DEF NoOrphan, Live
<1>4. ASSUME NEW i \in Instance, NEW j \in Instance, i[2] = j[2], state[i] \in Live, state[j] \in Live
      PROVE  i = j
  <2>1. CASE registry[i[2]] = i \/ registry[j[2]] = j
    BY <1>0, <1>1, <1>2, <1>4, <2>1
  <2>2. CASE registry[i[2]] # i /\ registry[j[2]] # j
    <3>1. PICK t \in Lifecycle : Holds(t, i) /\ Holds(t, j)
      BY <1>0, <1>1, <1>2, <1>4, <2>2 DEF SerInv, Turns
    <3> QED
      BY <1>0, <1>1, <1>4, <3>1 DEF Vacated
  <2> QED
    BY <2>1, <2>2
<1> QED
  BY <1>3, <1>4 DEF OneLivePerName

(* What the two action properties ask of a step.                           *)
LEMMA AgreedIsEstablished ==
  ASSUME NEW t \in Reloads, NEW reg, NEW n \in Names,
         Agrees(t, Len(ConfigOf[t]) + 1, reg), Removes(t, {}, reg)
  PROVE  IF \E j \in 1..Len(ConfigOf[t]) : ConfigOf[t][j].name = n
         THEN \E j \in 1..Len(ConfigOf[t]) :
                /\ ConfigOf[t][j].name = n
                /\ reg[n] # None
                /\ ConfOf(reg[n]) = ConfigOf[t][j].conf
         ELSE reg[n] = None
<1>1. ASSUME NEW j \in 1..Len(ConfigOf[t])
      PROVE  reg[ConfigOf[t][j].name] # None /\ ConfOf(reg[ConfigOf[t][j].name]) = ConfigOf[t][j].conf
  <2>1. j < Len(ConfigOf[t]) + 1
    BY Entries
  <2> QED
    BY <2>1 DEF Agrees, UpToDate, Entry
<1>2. (\A j \in 1..Len(ConfigOf[t]) : ConfigOf[t][j].name # n) => reg[n] = None
  BY DEF Removes, Wanted, Entry
<1> QED
  BY <1>1, <1>2

LEMMA SerialActions ==
  SInv /\ [SerialNext]_vars =>
    /\ [\A t \in Reloads : pc[t] # "done" /\ pc'[t] = "done" =>
          \A n \in Names : IF \E j \in 1..Len(ConfigOf[t]) : ConfigOf[t][j].name = n
                           THEN \E j \in 1..Len(ConfigOf[t]) :
                                  /\ ConfigOf[t][j].name = n
                                  /\ registry'[n] # None
                                  /\ ConfOf(registry'[n]) = ConfigOf[t][j].conf
                           ELSE registry'[n] = None]_vars
    /\ [\A t \in Shutdowns : pc[t] # "done" /\ pc'[t] = "done" =>
          \A i \in Instance : state'[i] \notin Live]_vars
<1> SUFFICES ASSUME SInv, [SerialNext]_vars
             PROVE  /\ \A t \in Reloads : pc[t] # "done" /\ pc'[t] = "done" =>
                         \A n \in Names : IF \E j \in 1..Len(ConfigOf[t]) : ConfigOf[t][j].name = n
                                          THEN \E j \in 1..Len(ConfigOf[t]) :
                                                 /\ ConfigOf[t][j].name = n
                                                 /\ registry'[n] # None
                                                 /\ ConfOf(registry'[n]) = ConfigOf[t][j].conf
                                          ELSE registry'[n] = None
                    /\ \A t \in Shutdowns : pc[t] # "done" /\ pc'[t] = "done" =>
                         \A i \in Instance : state'[i] \notin Live
  OBVIOUS
<1>1. Result
  BY SerialSteps
<1>2. \A t \in Reloads : Established(t)
  BY <1>1 DEF Result
<1>3. \A t \in Shutdowns : AllStopped(t)
  BY <1>1 DEF Result
<1>4. ASSUME NEW t \in Reloads, pc[t] # "done" /\ pc'[t] = "done", NEW n \in Names
      PROVE  IF \E j \in 1..Len(ConfigOf[t]) : ConfigOf[t][j].name = n
             THEN \E j \in 1..Len(ConfigOf[t]) :
                    /\ ConfigOf[t][j].name = n
                    /\ registry'[n] # None
                    /\ ConfOf(registry'[n]) = ConfigOf[t][j].conf
             ELSE registry'[n] = None
  <2>1. Agrees(t, Len(ConfigOf[t]) + 1, registry') /\ Removes(t, {}, registry')
    BY <1>2, <1>4 DEF Established
  <2> QED
    BY <2>1, AgreedIsEstablished
<1>5. \A t \in Shutdowns : pc[t] # "done" /\ pc'[t] = "done" => \A i \in Instance : state'[i] \notin Live
  BY <1>3 DEF AllStopped
<1> QED
  BY <1>4, <1>5

LEMMA SerialInvariant == SerialSpec => []SInv
  BY SerialInit, SerialSteps, PTL DEF SerialSpec

(* When one lifecycle call follows the other, an adapter that runs is      *)
(* registered or about to be stopped by a shutdown, whatever starts,       *)
(* stops and implementations fail (manager.py:134-139, 150-162).           *)
THEOREM NeverAnOrphan == SerialSpec => []NoOrphan
  BY SerialInvariant, SerialGives, PTL

(* Then also two adapters of one name never run side by side               *)
(* (manager.py:159-162).                                                   *)
THEOREM AlwaysOneLivePerName == SerialSpec => []OneLivePerName
  BY SerialInvariant, SerialGives, PTL

(* A reload that returns has left the registry with exactly the configured *)
(* adapters (manager.py:143-162).                                          *)
THEOREM ReloadsEstablish == SerialSpec => ReloadEstablishes
  BY SerialInvariant, SerialActions, PTL DEF SerialSpec, ReloadEstablishes

(* After a shutdown no adapter runs (manager.py:131-141).                  *)
THEOREM ShutdownsStopAll == SerialSpec => ShutdownStopsAll
  BY SerialInvariant, SerialActions, PTL DEF SerialSpec, ShutdownStopsAll
=============================================================================
