------------------------ MODULE TaskCompletionProofs ------------------------
(***************************************************************************)
(* Proofs about TaskCompletion for any tasks, requests, calls and faults:  *)
(* an occurrence has one successor and is not lost, and what is finished   *)
(* over a blocker was gated before that blocker came.                      *)
(***************************************************************************)
EXTENDS TaskCompletion, TLAPS

\* Ids that are not given out have no history.
Fresh == \A t \in Tasks \ used : status[t] = "open"

\* A row that was spawned is the one its occurrence names.
Claimed == \A u \in Tasks : from[u] # None => next[from[u]] = u

\* Which call is at which step, and that it has a status for what it is to write.
Steps ==
  \A r \in Requests :
    /\ pc[r] = "gate" => kind[r] \in {"update", "batch"}
    /\ pc[r] = "gateAll" => kind[r] = "reorder"
    /\ pc[r] = "next" => kind[r] = "batch"
    /\ pc[r] \in {"idle", "rows", "spawn"} => todo[r] = {}
    /\ \A t \in todo[r] : to[r][t] \in Statuses
    /\ pc[r] \in {"gate", "write"} /\ kind[r] # "reorder" =>
         cur[r] \in Tasks /\ to[r][cur[r]] \in Statuses

\* A request that is about to finish a task was let through, or has read the task
\* as finished, or knows of no blocker but those that came after its gate.
Through(r) ==
  pc[r] = "write" =>
    \A t \in Target(r) : to[r][t] = "done" =>
      force[r] \/ old[r][t] = "done" \/ OpenBlockers(t) \subseteq late[r]

Gated == \A r \in Requests : Through(r)

Inv == TypeOK /\ Fresh /\ Claimed /\ Steps /\ Gated /\ NoOccurrenceLost

-----------------------------------------------------------------------------
\* The types, in the parts that the actions change together.
RowTypes ==
  /\ exists \subseteq used /\ used \subseteq Tasks
  /\ status \in [Tasks -> Statuses]
  /\ repeats \subseteq exists
  /\ next \in [Tasks -> exists \cup {None}]
  /\ from \in [Tasks -> Tasks \cup {None}]
  /\ deps \subseteq exists \X exists

RequestTypes ==
  /\ pc \in [Requests -> {"idle", "gate", "gateAll", "next", "write", "rows", "spawn"}]
  /\ kind \in [Requests -> {"update", "batch", "reorder", None}]
  /\ to \in [Requests -> [Tasks -> Statuses \cup {None}]]
  /\ old \in [Requests -> [Tasks -> Statuses \cup {None}]]
  /\ force \in [Requests -> BOOLEAN]
  /\ todo \in [Requests -> SUBSET Tasks]
  /\ cur \in [Requests -> Tasks \cup {None}]
  /\ due \in [Requests -> SUBSET Tasks]

GhostTypes ==
  /\ late \in [Requests -> SUBSET Tasks]
  /\ excused \subseteq Tasks

LEMMA Parts == TypeOK <=> /\ RowTypes /\ RequestTypes /\ GhostTypes
                          /\ faults \in 0..MaxFaults /\ calls \in 0..MaxCalls
  BY DEF TypeOK, RowTypes, RequestTypes, GhostTypes

\* A request that ends forgets what it was.
LEMMA ForgetTypes ==
  ASSUME RequestTypes, NEW r \in Requests, Forget(r), NEW s,
         s \in {"idle", "rows", "spawn"}, Goto(r, s), due' \in [Requests -> SUBSET Tasks]
  PROVE  RequestTypes'
  BY DEF RequestTypes, Forget, Goto, NoStatus, Statuses

LEMMA ThrowTypes ==
  ASSUME RowTypes, RequestTypes, GhostTypes, NEW r \in Requests, Throw(r)
  PROVE  RowTypes' /\ RequestTypes' /\ GhostTypes'
  <1>1. due' \in [Requests -> SUBSET Tasks]
    BY DEF Throw, RequestTypes
  <1>2. RequestTypes'
    BY <1>1, ForgetTypes DEF Throw
  <1>3. GhostTypes'
    BY DEF Throw, Late, GhostTypes, RequestTypes
  <1>4. RowTypes'
    BY DEF Throw, RowTypes, rowVars
  <1>5. QED
    BY <1>2, <1>3, <1>4

\* The start of a call changes nothing but the request.
LEMMA StartTypes ==
  ASSUME RowTypes, RequestTypes, GhostTypes, NEW r \in Requests, Start(r)
  PROVE  RowTypes' /\ RequestTypes' /\ GhostTypes' /\ UNCHANGED faults
  <1>1. ASSUME NEW k \in {"update", "batch", "reorder"}, NEW T \in SUBSET Tasks, NEW s,
               \A t \in T : s[t] \in Statuses, NEW f \in BOOLEAN, Begin(r, k, T, s, f)
        PROVE  /\ kind' \in [Requests -> {"update", "batch", "reorder", None}]
               /\ to' \in [Requests -> [Tasks -> Statuses \cup {None}]]
               /\ old' \in [Requests -> [Tasks -> Statuses \cup {None}]]
               /\ force' \in [Requests -> BOOLEAN]
               /\ due' = due /\ RowTypes' /\ GhostTypes' /\ UNCHANGED faults
    <2>1. [t \in Tasks |-> IF t \in T THEN s[t] ELSE None] \in [Tasks -> Statuses \cup {None}]
      BY <1>1
    <2>2. [t \in Tasks |-> IF t \in T THEN status[t] ELSE None] \in [Tasks -> Statuses \cup {None}]
      BY DEF RowTypes
    <2>3. QED
      BY <1>1, <2>1, <2>2 DEF Begin, RequestTypes, RowTypes, GhostTypes, rowVars
  <1>2. ASSUME NEW t \in Tasks, NEW s \in Statuses, NEW f \in BOOLEAN, StartUpdate(r, t, s, f)
        PROVE  RowTypes' /\ RequestTypes' /\ GhostTypes' /\ UNCHANGED faults
    <2>1. Begin(r, "update", {t}, [u \in Tasks |-> s], f)
      BY <1>2 DEF StartUpdate
    <2>2. pc' \in [Requests -> {"idle", "gate", "gateAll", "next", "write", "rows", "spawn"}]
      BY <1>2 DEF StartUpdate, Goto, RequestTypes
    <2>3. cur' \in [Requests -> Tasks \cup {None}] /\ todo' = todo
      BY <1>2 DEF StartUpdate, RequestTypes
    <2>4. {t} \in SUBSET Tasks /\ \A u \in {t} : [v \in Tasks |-> s][u] \in Statuses
      OBVIOUS
    <2>5. /\ kind' \in [Requests -> {"update", "batch", "reorder", None}]
          /\ to' \in [Requests -> [Tasks -> Statuses \cup {None}]]
          /\ old' \in [Requests -> [Tasks -> Statuses \cup {None}]]
          /\ force' \in [Requests -> BOOLEAN]
          /\ due' = due /\ RowTypes' /\ GhostTypes' /\ UNCHANGED faults
      BY <1>1, <2>1, <2>4
    <2>6. QED
      BY <2>2, <2>3, <2>5 DEF RequestTypes
  <1>3. ASSUME NEW T \in SUBSET Tasks, NEW s \in Statuses, StartBatch(r, T, s)
        PROVE  RowTypes' /\ RequestTypes' /\ GhostTypes' /\ UNCHANGED faults
    <2>1. Begin(r, "batch", T, [u \in Tasks |-> s], FALSE)
      BY <1>3 DEF StartBatch
    <2>2. QED
      BY <1>1, <1>3, <2>1 DEF StartBatch, Goto, RequestTypes
  <1>4. ASSUME NEW T \in SUBSET Tasks, NEW s \in [T -> Statuses], StartReorder(r, T, s)
        PROVE  RowTypes' /\ RequestTypes' /\ GhostTypes' /\ UNCHANGED faults
    <2>1. Begin(r, "reorder", T, s, FALSE)
      BY <1>4 DEF StartReorder
    <2>2. QED
      BY <1>1, <1>4, <2>1 DEF StartReorder, Goto, RequestTypes
  <1>5. QED
    BY <1>2, <1>3, <1>4 DEF Start

\* So do its steps, but for the write and the spawn.
LEMMA StepTypes ==
  ASSUME RowTypes, RequestTypes, GhostTypes, Steps, NEW r \in Requests, Step(r)
  PROVE  RowTypes' /\ RequestTypes' /\ GhostTypes' /\ UNCHANGED faults
  <1>1. CASE Throw(r) /\ UNCHANGED faults
    BY <1>1, ThrowTypes
  <1>2. CASE Gate(r)
    BY <1>1, <1>2 DEF Gate, Goto, RowTypes, RequestTypes, GhostTypes, rowVars
  <1>3. CASE GateAll(r)
    <2>1. [t \in Tasks |-> IF t \in todo[r] THEN status[t] ELSE None] \in [Tasks -> Statuses \cup {None}]
      BY DEF RowTypes
    <2>2. QED
      BY <1>1, <1>3, <2>1 DEF GateAll, Goto, RowTypes, RequestTypes, GhostTypes, rowVars
  <1>4. CASE Write(r) /\ Target(r) \subseteq exists
    <2>1. ToSpawn(r) \subseteq Target(r) /\ Unnoticed(r) \subseteq Target(r) /\ Target(r) \subseteq Tasks
      BY <1>4 DEF ToSpawn, Unnoticed, RowTypes
    <2>2. status' \in [Tasks -> Statuses]
      <3>1. ASSUME NEW t \in Target(r) PROVE to[r][t] \in Statuses
        <4>1. CASE kind[r] = "reorder"
          BY <1>4, <3>1, <4>1 DEF Target, Steps
        <4>2. CASE kind[r] # "reorder"
          BY <1>4, <3>1, <4>2 DEF Target, Steps, Write
        <4>3. QED
          BY <4>1, <4>2
      <3>2. QED
        BY <1>4, <3>1 DEF Write, RowTypes
    <2>3. RowTypes'
      BY <1>4, <2>2 DEF Write, RowTypes
    <2>4. GhostTypes'
      BY <1>4, <2>1 DEF Write, Late, RowTypes, GhostTypes
    <2>5. due' \in [Requests -> SUBSET Tasks]
      BY <1>4, <2>1 DEF Write, RequestTypes
    <2>6. RequestTypes'
      <3>1. CASE kind[r] = "batch"
        BY <1>4, <2>5, <3>1 DEF Write, AfterWrite, Goto, RequestTypes
      <3>2. CASE kind[r] # "batch"
        BY <1>4, <2>5, <3>2, ForgetTypes DEF Write, AfterWrite
      <3>3. QED
        BY <3>1, <3>2
    <2>7. QED
      BY <1>4, <2>3, <2>4, <2>6 DEF Write
  <1>5. CASE Write(r) /\ ~(Target(r) \subseteq exists)
    BY <1>1, <1>5 DEF Write
  <1>6. CASE ReadRows(r)
    <2>1. due' \in [Requests -> SUBSET Tasks]
      BY <1>6 DEF ReadRows, RequestTypes
    <2>2. RequestTypes'
      BY <1>6, <2>1, ForgetTypes DEF ReadRows
    <2>3. QED
      BY <1>6, <2>2 DEF ReadRows, RowTypes, GhostTypes, rowVars
  <1>7. CASE Answer(r)
    BY <1>7 DEF Answer, Goto, RowTypes, RequestTypes, GhostTypes, rowVars
  <1>8. ASSUME NEW t \in Tasks, TakeTask(r, t) PROVE RowTypes' /\ RequestTypes' /\ GhostTypes' /\ UNCHANGED faults
    <2>1. RowTypes' /\ GhostTypes' /\ UNCHANGED faults
      BY <1>8 DEF TakeTask, RowTypes, GhostTypes, rowVars
    <2>2. CASE old[r][t] = to[r][t]
      BY <1>8, <2>1, <2>2 DEF TakeTask, RequestTypes
    <2>3. CASE old[r][t] # to[r][t]
      <3>1. pc' \in [Requests -> {"idle", "gate", "gateAll", "next", "write", "rows", "spawn"}]
        BY <1>8, <2>3 DEF TakeTask, Goto, RequestTypes
      <3>2. QED
        BY <1>8, <2>1, <2>3, <3>1 DEF TakeTask, RequestTypes
    <2>4. QED
      BY <2>2, <2>3
  <1>9. ASSUME NEW t \in Tasks, NEW n \in Tasks, Spawn(r, t, n)
        PROVE  RowTypes' /\ RequestTypes' /\ GhostTypes' /\ UNCHANGED faults
    <2>1. RequestTypes' /\ GhostTypes'
      BY <1>9 DEF Spawn, RequestTypes, GhostTypes
    <2>2. RowTypes'
      <3>1. CASE t \in exists /\ next[t] = None
        BY <1>9, <3>1 DEF Spawn, RowTypes
      <3>2. CASE ~(t \in exists /\ next[t] = None)
        BY <1>9, <3>2 DEF Spawn, RowTypes
      <3>3. QED
        BY <3>1, <3>2
    <2>3. QED
      BY <1>9, <2>1, <2>2 DEF Spawn
  <1>10. QED
    BY <1>2, <1>3, <1>4, <1>5, <1>6, <1>7, <1>8, <1>9 DEF Step

\* The owner's other calls change the rows.
LEMMA OwnerTypes ==
  ASSUME RowTypes, RequestTypes, GhostTypes, Owner
  PROVE  RowTypes' /\ RequestTypes' /\ GhostTypes' /\ UNCHANGED faults
  <1>1. ASSUME NEW t \in Tasks, NEW s \in Statuses, NEW rule \in BOOLEAN, Create(t, s, rule)
        PROVE  RowTypes' /\ RequestTypes' /\ GhostTypes' /\ UNCHANGED faults
    <2>1. RowTypes'
      BY <1>1 DEF Create, RowTypes
    <2>2. QED
      BY <1>1, <2>1 DEF Create, RequestTypes, GhostTypes, requestVars
  <1>2. ASSUME NEW t \in Tasks, NEW rule \in BOOLEAN, SetRepeats(t, rule)
        PROVE  RowTypes' /\ RequestTypes' /\ GhostTypes' /\ UNCHANGED faults
    BY <1>2 DEF SetRepeats, RowTypes, RequestTypes, GhostTypes, requestVars
  <1>3. ASSUME NEW t \in Tasks, Delete(t)
        PROVE  RowTypes' /\ RequestTypes' /\ GhostTypes' /\ UNCHANGED faults
    <2>1. next' \in [Tasks -> exists' \cup {None}]
      <3>1. \A u \in Tasks : next[u] \in exists \cup {None}
        BY DEF RowTypes
      <3>2. QED
        BY <1>3, <3>1 DEF Delete
    <2>2. from' \in [Tasks -> Tasks \cup {None}]
      BY <1>3 DEF Delete, RowTypes
    <2>3. deps' \subseteq exists' \X exists'
      <3>1. \A e \in deps : e[1] \in exists /\ e[2] \in exists /\ e = <<e[1], e[2]>>
        BY DEF RowTypes
      <3>2. \A e \in deps' : e \in deps /\ e[1] \in exists' /\ e[2] \in exists' /\ e = <<e[1], e[2]>>
        BY <1>3, <3>1 DEF Delete
      <3>3. QED
        BY <3>2
    <2>4. RowTypes'
      BY <1>3, <2>1, <2>2, <2>3 DEF Delete, RowTypes, Statuses
    <2>5. QED
      BY <1>3, <2>4 DEF Delete, RequestTypes, GhostTypes, RowTypes, requestVars
  <1>4. ASSUME NEW b \in Tasks, NEW t \in Tasks, Block(b, t) \/ Unblock(b, t)
        PROVE  RowTypes' /\ RequestTypes' /\ GhostTypes' /\ UNCHANGED faults
    <2>1. late' \in [Requests -> SUBSET Tasks]
      BY <1>4 DEF Block, Unblock, Late, GhostTypes
    <2>2. QED
      BY <1>4, <2>1 DEF Block, Unblock, RowTypes, RequestTypes, GhostTypes, rowVars, requestVars
  <1>5. QED
    BY <1>1, <1>2, <1>3, <1>4 DEF Owner

-----------------------------------------------------------------------------
\* Which call is at which step, through the steps of a request.
LEMMA EndSteps ==
  ASSUME RequestTypes, Steps, NEW r \in Requests, Forget(r), NEW s,
         s \in {"idle", "rows", "spawn"}, Goto(r, s)
  PROVE  Steps'
  <1> SUFFICES ASSUME NEW q \in Requests
               PROVE  /\ pc'[q] = "gate" => kind'[q] \in {"update", "batch"}
                      /\ pc'[q] = "gateAll" => kind'[q] = "reorder"
                      /\ pc'[q] = "next" => kind'[q] = "batch"
                      /\ pc'[q] \in {"idle", "rows", "spawn"} => todo'[q] = {}
                      /\ \A t \in todo'[q] : to'[q][t] \in Statuses
                      /\ pc'[q] \in {"gate", "write"} /\ kind'[q] # "reorder" =>
                           cur'[q] \in Tasks /\ to'[q][cur'[q]] \in Statuses
    BY DEF Steps
  <1>1. CASE q = r
    BY <1>1 DEF Forget, Goto, RequestTypes
  <1>2. CASE q # r
    BY <1>2 DEF Forget, Goto, RequestTypes, Steps
  <1>3. QED
    BY <1>1, <1>2

\* The same of a request that goes on, and of the other requests.
LEMMA OthersSteps ==
  ASSUME RequestTypes, Steps, NEW r \in Requests,
         \A q \in Requests : q # r => /\ pc'[q] = pc[q] /\ kind'[q] = kind[q] /\ todo'[q] = todo[q]
                                      /\ to'[q] = to[q] /\ cur'[q] = cur[q],
         /\ pc'[r] = "gate" => kind'[r] \in {"update", "batch"}
         /\ pc'[r] = "gateAll" => kind'[r] = "reorder"
         /\ pc'[r] = "next" => kind'[r] = "batch"
         /\ pc'[r] \in {"idle", "rows", "spawn"} => todo'[r] = {}
         /\ \A t \in todo'[r] : to'[r][t] \in Statuses
         /\ pc'[r] \in {"gate", "write"} /\ kind'[r] # "reorder" =>
              cur'[r] \in Tasks /\ to'[r][cur'[r]] \in Statuses
  PROVE  Steps'
  BY DEF Steps

LEMMA StartSteps ==
  ASSUME RequestTypes, Steps, NEW r \in Requests, Start(r) PROVE Steps'
  <1>1. ASSUME NEW t \in Tasks, NEW s \in Statuses, NEW f \in BOOLEAN, StartUpdate(r, t, s, f)
        PROVE  Steps'
    <2>1. /\ pc'[r] \in {"gate", "write"} /\ kind'[r] = "update" /\ todo'[r] = {} /\ cur'[r] = t
          /\ to'[r][t] = s
      BY <1>1 DEF StartUpdate, Begin, Goto, RequestTypes, Steps
    <2>2. QED
      BY <1>1, <2>1, OthersSteps DEF StartUpdate, Begin, Goto, RequestTypes
  <1>2. ASSUME NEW T \in SUBSET Tasks, NEW s \in Statuses, StartBatch(r, T, s) PROVE Steps'
    <2>1. /\ pc'[r] = "next" /\ kind'[r] = "batch" /\ todo'[r] = T
          /\ \A t \in T : to'[r][t] = s
      BY <1>2 DEF StartBatch, Begin, Goto, RequestTypes
    <2>2. QED
      BY <1>2, <2>1, OthersSteps DEF StartBatch, Begin, Goto, RequestTypes
  <1>3. ASSUME NEW T \in SUBSET Tasks, NEW s \in [T -> Statuses], StartReorder(r, T, s) PROVE Steps'
    <2>1. /\ pc'[r] = "gateAll" /\ kind'[r] = "reorder" /\ todo'[r] = T
          /\ \A t \in T : to'[r][t] = s[t]
      BY <1>3 DEF StartReorder, Begin, Goto, RequestTypes
    <2>2. QED
      BY <1>3, <2>1, OthersSteps DEF StartReorder, Begin, Goto, RequestTypes
  <1>4. QED
    BY <1>1, <1>2, <1>3 DEF Start

LEMMA StepSteps ==
  ASSUME RequestTypes, Steps, NEW r \in Requests, Step(r) PROVE Steps'
  <1>1. ASSUME Throw(r) PROVE Steps'
    BY <1>1, EndSteps DEF Throw
  <1>2. CASE Gate(r)
    <2>1. CASE OpenBlockers(cur[r]) = {} \/ force[r]
      BY <1>2, <2>1 DEF Gate, Goto, RequestTypes, Steps
    <2>2. CASE ~(OpenBlockers(cur[r]) = {} \/ force[r]) /\ kind[r] # "update"
      <3>1. kind[r] = "batch"
        BY <1>2, <2>2 DEF Gate, Steps
      <3>2. QED
        BY <1>2, <2>2, <3>1 DEF Gate, Goto, RequestTypes, Steps
    <2>3. QED
      BY <1>1, <1>2, <2>1, <2>2 DEF Gate
  <1>3. CASE GateAll(r)
    <2>1. CASE Throw(r)
      BY <1>1, <2>1
    <2>2. CASE ~Throw(r)
      <3>1. kind[r] = "reorder"
        BY <1>3 DEF GateAll, Steps
      <3>2. QED
        BY <1>3, <2>2, <3>1 DEF GateAll, Goto, RequestTypes, Steps
    <2>3. QED
      BY <2>1, <2>2
  <1>4. CASE Write(r)
    <2>1. CASE Target(r) \subseteq exists /\ kind[r] = "batch"
      BY <1>4, <2>1 DEF Write, AfterWrite, Goto, RequestTypes, Steps
    <2>2. CASE Target(r) \subseteq exists /\ kind[r] # "batch"
      BY <1>4, <2>2, EndSteps DEF Write, AfterWrite
    <2>3. QED
      BY <1>1, <1>4, <2>1, <2>2 DEF Write
  <1>5. CASE ReadRows(r)
    BY <1>5, EndSteps DEF ReadRows
  <1>6. CASE Answer(r)
    BY <1>6 DEF Answer, Goto, RequestTypes, Steps
  <1>7. ASSUME NEW t \in Tasks, TakeTask(r, t) PROVE Steps'
    <2>1. CASE old[r][t] = to[r][t]
      BY <1>7, <2>1 DEF TakeTask, RequestTypes, Steps
    <2>2. CASE old[r][t] # to[r][t]
      <3>1. /\ pc'[r] \in {"gate", "write"} /\ kind'[r] = "batch" /\ cur'[r] = t
            /\ todo'[r] = todo[r] \ {t} /\ to' = to /\ to[r][t] \in Statuses
        BY <1>7, <2>2 DEF TakeTask, Goto, RequestTypes, Steps
      <3>2. QED
        BY <1>7, <2>2, <3>1, OthersSteps DEF TakeTask, Goto, RequestTypes, Steps
    <2>3. QED
      BY <2>1, <2>2
  <1>8. ASSUME NEW t \in Tasks, NEW n \in Tasks, Spawn(r, t, n) PROVE Steps'
    BY <1>8 DEF Spawn, Steps
  <1>9. QED
    BY <1>2, <1>3, <1>4, <1>5, <1>6, <1>7, <1>8 DEF Step

-----------------------------------------------------------------------------
\* The other requests are where they were, ...
OthersSame(r) ==
  \A q \in Requests \ {r} : /\ pc'[q] = pc[q] /\ kind'[q] = kind[q] /\ todo'[q] = todo[q]
                            /\ to'[q] = to[q] /\ cur'[q] = cur[q]
                            /\ force'[q] = force[q] /\ old'[q] = old[q]

\* ... and B are the tasks that a step opens, which come after their gates.
Opens(B)        == \A t : OpenBlockers(t)' \subseteq OpenBlockers(t) \cup B
LateWith(r, B)  == \A q \in Requests \ {r} : pc[q] = "write" => late[q] \cup B \subseteq late'[q]

\* What a step opens is late for every request that is about to write, and a request
\* that comes to its write has passed its gate.
LEMMA StillGated ==
  ASSUME Gated, NEW r, NEW B, OthersSame(r), Opens(B), LateWith(r, B),
         r \in Requests => Through(r)'
  PROVE  Gated'
  <1> SUFFICES ASSUME NEW q \in Requests PROVE Through(q)'
    BY DEF Gated
  <1>1. CASE q = r
    BY <1>1
  <1>2. CASE q # r
    <2> SUFFICES ASSUME pc'[q] = "write", NEW t \in Target(q)', to'[q][t] = "done"
                 PROVE  force'[q] \/ old'[q][t] = "done" \/ OpenBlockers(t)' \subseteq late'[q]
      BY DEF Through
    <2>1. t \in Target(q) /\ to[q][t] = "done" /\ pc[q] = "write"
      BY <1>2 DEF Target, OthersSame
    <2>2. force[q] \/ old[q][t] = "done" \/ OpenBlockers(t) \subseteq late[q]
      BY <2>1 DEF Gated, Through
    <2>3. late[q] \cup B \subseteq late'[q] /\ OpenBlockers(t)' \subseteq OpenBlockers(t) \cup B
      BY <1>2, <2>1 DEF LateWith, Opens
    <2>4. QED
      BY <1>2, <2>2, <2>3 DEF OthersSame
  <1>3. QED
    BY <1>1, <1>2

\* A request that ends, or goes on without touching a row.
LEMMA ThrowGated ==
  ASSUME TypeOK, Gated, NEW r \in Requests, Throw(r) PROVE Gated'
  <1>1. Opens({}) /\ LateWith(r, {})
    BY DEF Throw, OpenBlockers, Late, rowVars, Opens, LateWith, TypeOK
  <1>2. OthersSame(r)
    BY DEF Throw, Forget, Goto, TypeOK, OthersSame
  <1>3. Through(r)'
    BY DEF Throw, Goto, TypeOK, Through
  <1>4. QED
    BY <1>1, <1>2, <1>3, StillGated

LEMMA StartGated ==
  ASSUME TypeOK, Gated, NEW r \in Requests, Start(r) PROVE Gated'
  <1>1. UNCHANGED <<rowVars, deps, late>>
    BY DEF Start, StartUpdate, StartBatch, StartReorder, Begin
  <1>2. Opens({}) /\ LateWith(r, {})
    BY <1>1 DEF OpenBlockers, rowVars, Opens, LateWith
  <1>3. ASSUME NEW t \in Tasks, NEW st \in Statuses, NEW fo \in BOOLEAN, StartUpdate(r, t, st, fo)
        PROVE  Gated'
    <2>1. /\ cur'[r] = t /\ to'[r][t] = st /\ old'[r][t] = status[t] /\ kind'[r] = "update"
          /\ pc'[r] = IF st = "done" /\ status[t] # st THEN "gate" ELSE "write"
      BY <1>3 DEF StartUpdate, Begin, Goto, TypeOK
    <2>2. Through(r)'
      BY <2>1 DEF Through, Target
    <2>3. OthersSame(r)
      BY <1>3 DEF StartUpdate, Begin, Goto, TypeOK, OthersSame
    <2>4. QED
      BY <1>2, <2>2, <2>3, StillGated
  <1>4. ASSUME NEW U \in SUBSET Tasks, NEW st,
               StartBatch(r, U, st) \/ StartReorder(r, U, st)
        PROVE  Gated'
    <2>1. Through(r)'
      BY <1>4 DEF StartBatch, StartReorder, Goto, TypeOK, Through
    <2>2. OthersSame(r)
      BY <1>4 DEF StartBatch, StartReorder, Begin, Goto, TypeOK, OthersSame
    <2>3. QED
      BY <1>2, <2>1, <2>2, StillGated
  <1>5. QED
    BY <1>3, <1>4 DEF Start

LEMMA StepGated ==
  ASSUME TypeOK, Steps, Gated, NEW r \in Requests, Step(r) PROVE Gated'
  <1>1. CASE Throw(r)
    BY <1>1, ThrowGated
  <1>2. CASE Gate(r) /\ ~Throw(r)
    <2>1. Opens({}) /\ LateWith(r, {})
      BY <1>2 DEF Gate, OpenBlockers, rowVars, Opens, LateWith
    <2>2. OthersSame(r)
      BY <1>2 DEF Gate, Goto, TypeOK, OthersSame
    <2>3. Through(r)'
      <3>1. Target(r)' = {cur[r]} /\ \A t : OpenBlockers(t)' = OpenBlockers(t)
        BY <1>2 DEF Gate, Steps, Target, OpenBlockers, rowVars
      <3>2. pc'[r] = "write" => OpenBlockers(cur[r]) = {} \/ force'[r]
        BY <1>2 DEF Gate, Goto, TypeOK
      <3>3. QED
        BY <3>1, <3>2 DEF Through
    <2>4. QED
      BY <2>1, <2>2, <2>3, StillGated
  <1>3. CASE GateAll(r) /\ ~Throw(r)
    <2>1. Opens({}) /\ LateWith(r, {})
      BY <1>3 DEF GateAll, OpenBlockers, rowVars, Opens, LateWith
    <2>2. OthersSame(r)
      BY <1>3 DEF GateAll, Goto, TypeOK, OthersSame
    <2>3. Through(r)'
      <3>1. Target(r)' = todo[r] /\ \A t : OpenBlockers(t)' = OpenBlockers(t)
        BY <1>3 DEF GateAll, Steps, Target, OpenBlockers, rowVars
      <3>2. \A t \in todo[r] : to[r][t] = "done" /\ status[t] = "open" => OpenBlockers(t) = {}
        BY <1>3 DEF GateAll
      <3>3. \A t \in todo[r] : old'[r][t] = status[t] /\ status[t] \in {"open", "done"}
        BY <1>3 DEF GateAll, TypeOK, Statuses
      <3>4. to' = to
        BY <1>3 DEF GateAll
      <3>5. QED
        BY <3>1, <3>2, <3>3, <3>4 DEF Through
    <2>4. QED
      BY <2>1, <2>2, <2>3, StillGated
  <1>4. CASE Write(r) /\ ~Throw(r)
    <2> DEFINE B == {t \in Target(r) : status[t] = "done" /\ to[r][t] = "open"}
    <2>0. Target(r) \subseteq exists
      BY <1>4 DEF Write
    <2>1. Opens(B)
      BY <1>4, <2>0 DEF Write, OpenBlockers, TypeOK, Statuses, Opens
    <2>2. OthersSame(r)
      BY <1>4, <2>0 DEF Write, AfterWrite, Forget, Goto, TypeOK, OthersSame
    <2>3. LateWith(r, B)
      BY <1>4, <2>0 DEF Write, Late, LateWith
    <2>4. Through(r)'
      BY <1>4, <2>0 DEF Write, AfterWrite, Goto, TypeOK, Through
    <2> HIDE DEF B
    <2>5. QED
      BY <2>1, <2>2, <2>3, <2>4, StillGated
  <1>5. CASE ReadRows(r) \/ Answer(r)
    <2>1. Opens({}) /\ LateWith(r, {})
      BY <1>5 DEF ReadRows, Answer, OpenBlockers, rowVars, Opens, LateWith
    <2>2. OthersSame(r)
      BY <1>5 DEF ReadRows, Answer, Forget, Goto, TypeOK, OthersSame
    <2>3. Through(r)'
      BY <1>5 DEF ReadRows, Answer, Goto, TypeOK, Through
    <2>4. QED
      BY <2>1, <2>2, <2>3, StillGated
  <1>6. ASSUME NEW t \in Tasks, TakeTask(r, t) PROVE Gated'
    <2>1. Opens({}) /\ LateWith(r, {})
      BY <1>6 DEF TakeTask, OpenBlockers, rowVars, Opens, LateWith
    <2>2. OthersSame(r)
      BY <1>6 DEF TakeTask, Goto, TypeOK, OthersSame
    <2>3. Through(r)'
      BY <1>6 DEF TakeTask, Goto, TypeOK, Steps, Target, Through
    <2>4. QED
      BY <2>1, <2>2, <2>3, StillGated
  <1>7. ASSUME NEW t \in Tasks, NEW n \in Tasks, Spawn(r, t, n) PROVE Gated'
    <2>1. \A u : OpenBlockers(u)' \subseteq OpenBlockers(u)
      BY <1>7 DEF Spawn, OpenBlockers, TypeOK
    <2>2. QED
      BY <1>7, <2>1 DEF Spawn, Gated, Through, Target
  <1>8. QED
    BY <1>1, <1>2, <1>3, <1>4, <1>5, <1>6, <1>7 DEF Step

LEMMA OwnerGated ==
  ASSUME TypeOK, Gated, Owner PROVE Gated'
  <1>1. ASSUME NEW t \in Tasks, NEW s \in Statuses, NEW rule \in BOOLEAN, Create(t, s, rule)
        PROVE  Gated'
    <2>1. \A u : OpenBlockers(u)' \subseteq OpenBlockers(u)
      BY <1>1 DEF Create, OpenBlockers, TypeOK
    <2>2. QED
      BY <1>1, <2>1 DEF Create, Gated, Through, Target, requestVars
  <1>2. CASE \E t \in Tasks, rule \in BOOLEAN : SetRepeats(t, rule)
    BY <1>2 DEF SetRepeats, Gated, Through, Target, OpenBlockers, requestVars
  <1>3. ASSUME NEW t \in Tasks, Delete(t) PROVE Gated'
    <2>1. \A u : OpenBlockers(u)' \subseteq OpenBlockers(u)
      BY <1>3 DEF Delete, OpenBlockers, TypeOK
    <2>2. QED
      BY <1>3, <2>1 DEF Delete, Gated, Through, Target, requestVars
  <1>4. ASSUME NEW b \in Tasks, NEW t \in Tasks, Block(b, t) PROVE Gated'
    <2>1. Opens({b})
      BY <1>4 DEF Block, OpenBlockers, rowVars, Opens
    <2>2. LateWith(None, {b})
      BY <1>4, NoneNotTask DEF Block, Late, LateWith
    <2>3. OthersSame(None)
      BY <1>4 DEF Block, requestVars, OthersSame
    <2>4. QED
      BY <2>1, <2>2, <2>3, StillGated, NoneNotTask
  <1>5. CASE \E b, t \in Tasks : Unblock(b, t)
    BY <1>5 DEF Unblock, Gated, Through, Target, OpenBlockers, rowVars, requestVars
  <1>6. QED
    BY <1>1, <1>2, <1>3, <1>4, <1>5 DEF Owner

-----------------------------------------------------------------------------
\* Of the requests only the write and the spawn touch the rows, ...
LEMMA RowsUntouched ==
  ASSUME NEW r \in Requests, Start(r) \/ Step(r),
         ~(Write(r) /\ Target(r) \subseteq exists), \A t, n \in Tasks : ~Spawn(r, t, n)
  PROVE  UNCHANGED <<rowVars, deps>>
  <1>1. CASE Start(r)
    BY <1>1 DEF Start, StartUpdate, StartBatch, StartReorder, Begin
  <1>2. CASE Step(r)
    BY <1>2 DEF Step, Gate, GateAll, Write, ReadRows, Answer, TakeTask, Throw
  <1>3. QED
    BY <1>1, <1>2

\* ... and none of them drops an occurrence it is to spawn, unless it is excused.
NothingDropped ==
  \A t \in exists \cap repeats :
    /\ status[t] = "done" /\ next[t] = None
    /\ t \in excused \/ \E q \in Requests : t \in due[q]
    => t \in excused' \/ \E q \in Requests : t \in due'[q]

LEMMA DueKept ==
  ASSUME TypeOK, NEW r \in Requests, Start(r) \/ Step(r) \/ Throw(r),
         ~(Write(r) /\ Target(r) \subseteq exists), \A t, n \in Tasks : ~Spawn(r, t, n)
  PROVE  NothingDropped
  <1>1. CASE Throw(r)
    BY <1>1 DEF Throw, TypeOK, NothingDropped
  <1>2. CASE Start(r)
    BY <1>2 DEF Start, StartUpdate, StartBatch, StartReorder, Begin, NothingDropped
  <1>3. CASE ReadRows(r)
    BY <1>3 DEF ReadRows, TypeOK, NothingDropped
  <1>4. CASE \E t \in Tasks : TakeTask(r, t)
    <2>1. PICK t \in Tasks : TakeTask(r, t)
      BY <1>4
    <2>2. excused' = excused /\ (due' = due \/ due' = [due EXCEPT ![r] = @ \cup {t}])
      BY <2>1 DEF TakeTask
    <2>3. \A q \in Requests : due[q] \subseteq due'[q]
      BY <2>2 DEF TypeOK
    <2>4. QED
      BY <2>2, <2>3 DEF NothingDropped
  <1>5. CASE (Gate(r) \/ GateAll(r) \/ Write(r) \/ Answer(r)) /\ ~Throw(r)
    BY <1>5 DEF Gate, GateAll, Write, Answer, NothingDropped
  <1>6. QED
    BY <1>1, <1>2, <1>3, <1>4, <1>5 DEF Step

RowInv == Fresh /\ Claimed /\ NoOccurrenceLost

\* A step that leaves the rows alone.
LEMMA QuietRows ==
  ASSUME RowInv, UNCHANGED rowVars, NothingDropped PROVE RowInv'
  BY DEF RowInv, Fresh, Claimed, NoOccurrenceLost, NothingDropped, rowVars

\* The write: what it finishes it is to spawn, or it did not notice.
LEMMA WriteRows ==
  ASSUME TypeOK, RowInv, NEW r \in Requests, Write(r), Target(r) \subseteq exists PROVE RowInv'
  <1>1. Fresh' /\ Claimed'
    BY DEF Write, TypeOK, RowInv, Fresh, Claimed
  <1>2. NoOccurrenceLost'
    <2> SUFFICES ASSUME NEW t \in exists \cap repeats, status'[t] = "done", next[t] = None
                 PROVE  t \in excused' \/ \E q \in Requests : t \in due'[q]
      BY DEF NoOccurrenceLost, Write
    <2>0. /\ due' = [due EXCEPT ![r] = @ \cup ToSpawn(r)] /\ due \in [Requests -> SUBSET Tasks]
          /\ excused' = (excused \ ToSpawn(r)) \cup Unnoticed(r)
      BY DEF Write, TypeOK
    <2>1. due'[r] = due[r] \cup ToSpawn(r) /\ \A q \in Requests : due[q] \subseteq due'[q]
      BY <2>0
    <2>2. CASE t \in ToSpawn(r)
      BY <2>0, <2>1, <2>2
    <2>3. CASE t \notin ToSpawn(r) /\ status[t] = "done"
      BY <2>0, <2>1, <2>3 DEF RowInv, NoOccurrenceLost
    <2>4. CASE t \notin ToSpawn(r) /\ status[t] # "done"
      <3>1. t \in Target(r) /\ to[r][t] = "done" /\ status[t] = "open"
        BY <2>4 DEF Write, TypeOK, Statuses
      <3>2. t \in Unnoticed(r)
        BY <2>4, <3>1 DEF Unnoticed
      <3>3. QED
        BY <2>0, <3>2
    <2>5. QED
      BY <2>2, <2>3, <2>4
  <1>3. QED
    BY <1>1, <1>2 DEF RowInv

\* The spawn: an occurrence that has no successor gets this one.
LEMMA SpawnRows ==
  ASSUME TypeOK, RowInv, NEW r \in Requests, NEW t \in Tasks, NEW n \in Tasks, Spawn(r, t, n)
  PROVE  RowInv'
  <1>1. CASE t \in exists /\ next[t] = None
    <2>1. /\ used' = used \cup {n} /\ exists' = exists \cup {n} /\ repeats' = repeats \cup {n}
          /\ next' = [next EXCEPT ![t] = n] /\ from' = [from EXCEPT ![n] = t]
          /\ status' = status /\ excused' = excused /\ n \notin used
          /\ due' = [due EXCEPT ![r] = @ \ {t}]
      BY <1>1 DEF Spawn
    <2>2. Fresh'
      BY <2>1 DEF RowInv, Fresh
    <2>3. Claimed'
      <3>1. next \in [Tasks -> exists \cup {None}] /\ from \in [Tasks -> Tasks \cup {None}]
            /\ exists \subseteq Tasks
        BY DEF TypeOK
      <3> SUFFICES ASSUME NEW u \in Tasks, from'[u] # None PROVE next'[from'[u]] = u
        BY DEF Claimed
      <3>2. CASE u = n
        BY <2>1, <3>1, <3>2
      <3>3. CASE u # n
        <4>1. from'[u] = from[u] /\ from[u] \in Tasks /\ next[from[u]] = u
          BY <2>1, <3>1, <3>3 DEF RowInv, Claimed
        <4>2. from[u] # t
          BY <1>1, <4>1, NoneNotTask
        <4>3. QED
          BY <2>1, <3>1, <4>1, <4>2
      <3>4. QED
        BY <3>2, <3>3
    <2>4. NoOccurrenceLost'
      <3> SUFFICES ASSUME NEW u \in exists' \cap repeats', status'[u] = "done", next'[u] = None
                   PROVE  u \in excused' \/ \E q \in Requests : u \in due'[q]
        BY DEF NoOccurrenceLost
      <3>1. u # n
        BY <2>1 DEF TypeOK, RowInv, Fresh
      <3>2. u # t
        BY <2>1, NoneNotTask DEF TypeOK
      <3>3. u \in exists \cap repeats /\ status[u] = "done" /\ next[u] = None
        BY <2>1, <3>1, <3>2 DEF TypeOK
      <3>4. u \in excused \/ \E q \in Requests : u \in due[q]
        BY <3>3 DEF RowInv, NoOccurrenceLost
      <3>5. QED
        BY <2>1, <3>2, <3>4 DEF TypeOK
    <2>5. QED
      BY <2>2, <2>3, <2>4 DEF RowInv
  <1>2. CASE ~(t \in exists /\ next[t] = None)
    <2>1. UNCHANGED rowVars /\ excused' = excused /\ due' = [due EXCEPT ![r] = @ \ {t}]
      BY <1>2 DEF Spawn, rowVars
    <2>2. NothingDropped
      BY <1>2, <2>1 DEF NothingDropped, TypeOK
    <2>3. QED
      BY <2>1, <2>2, QuietRows
  <1>3. QED
    BY <1>1, <1>2

\* The owner's calls, of which Delete lets an occurrence spawn once more.
LEMMA OwnerRows ==
  ASSUME TypeOK, RowInv, Owner PROVE RowInv'
  <1>1. ASSUME NEW t \in Tasks, NEW s \in Statuses, NEW rule \in BOOLEAN, Create(t, s, rule)
        PROVE  RowInv'
    <2>1. Fresh' /\ Claimed'
      BY <1>1 DEF Create, TypeOK, RowInv, Fresh, Claimed
    <2>2. NoOccurrenceLost'
      <3> SUFFICES ASSUME NEW u \in exists' \cap repeats', status'[u] = "done", next'[u] = None
                   PROVE  u \in excused' \/ \E q \in Requests : u \in due'[q]
        BY DEF NoOccurrenceLost
      <3>1. CASE u = t
        BY <1>1, <3>1 DEF Create, TypeOK
      <3>2. CASE u # t
        BY <1>1, <3>2 DEF Create, TypeOK, RowInv, NoOccurrenceLost, requestVars
      <3>3. QED
        BY <3>1, <3>2
    <2>3. QED
      BY <2>1, <2>2 DEF RowInv
  <1>2. ASSUME NEW t \in Tasks, NEW rule \in BOOLEAN, SetRepeats(t, rule) PROVE RowInv'
    BY <1>2 DEF SetRepeats, RowInv, Fresh, Claimed, NoOccurrenceLost, requestVars
  <1>3. ASSUME NEW t \in Tasks, Delete(t) PROVE RowInv'
    <2>1. Fresh'
      BY <1>3 DEF Delete, TypeOK, RowInv, Fresh
    <2>2. Claimed'
      BY <1>3, NoneNotTask DEF Delete, TypeOK, RowInv, Claimed
    <2>3. NoOccurrenceLost'
      BY <1>3, NoneNotTask DEF Delete, TypeOK, RowInv, NoOccurrenceLost, requestVars
    <2>4. QED
      BY <2>1, <2>2, <2>3 DEF RowInv
  <1>4. CASE \E b, t \in Tasks : Block(b, t) \/ Unblock(b, t)
    <2>1. UNCHANGED <<rowVars, requestVars, excused>>
      BY <1>4 DEF Block, Unblock
    <2>2. NothingDropped
      BY <2>1 DEF NothingDropped, requestVars
    <2>3. QED
      BY <2>1, <2>2, QuietRows
  <1>5. QED
    BY <1>1, <1>2, <1>3, <1>4 DEF Owner

-----------------------------------------------------------------------------
LEMMA InitInv == Init => Inv
  <1> SUFFICES ASSUME Init PROVE Inv
    OBVIOUS
  <1>1. RowTypes
    BY ExistingTasks DEF Init, RowTypes, Statuses
  <1>2. RequestTypes
    BY DEF Init, RequestTypes, NoStatus
  <1>3. TypeOK
    BY <1>1, <1>2, Parts, BoundAssumption DEF Init, GhostTypes
  <1>4. Fresh /\ Claimed /\ NoOccurrenceLost
    <2>1. \A t \in Tasks : status[t] = "open" /\ from[t] = None
      BY DEF Init
    <2>2. exists \subseteq Tasks
      BY <1>1 DEF RowTypes
    <2>3. QED
      BY <2>1, <2>2 DEF Fresh, Claimed, NoOccurrenceLost
  <1>5. \A r \in Requests : pc[r] = "idle" /\ todo[r] = {}
    BY DEF Init
  <1>6. Steps /\ Gated
    BY <1>5 DEF Steps, Gated, Through
  <1>7. QED
    BY <1>3, <1>4, <1>6 DEF Inv

LEMMA NextInv == Inv /\ [Next]_vars => Inv'
  <1> SUFFICES ASSUME Inv, [Next]_vars PROVE Inv'
    OBVIOUS
  <1>0. RowTypes /\ RequestTypes /\ GhostTypes /\ Steps /\ Gated /\ RowInv /\ TypeOK
        /\ faults \in 0..MaxFaults /\ calls \in 0..MaxCalls
    BY Parts DEF Inv, RowInv
  <1>1. ASSUME NEW r \in Requests, Start(r), calls' \in 0..MaxCalls PROVE Inv'
    <2>1. TypeOK'
      BY <1>0, <1>1, StartTypes DEF TypeOK, RowTypes, RequestTypes, GhostTypes
    <2>2. UNCHANGED rowVars /\ due' = due /\ excused' = excused
      BY <1>1 DEF Start, StartUpdate, StartBatch, StartReorder, Begin
    <2>3. RowInv'
      BY <1>0, <2>2, QuietRows DEF NothingDropped
    <2>4. QED
      BY <1>0, <1>1, <2>1, <2>3, StartSteps, StartGated DEF Inv, RowInv
  <1>2. ASSUME NEW r \in Requests, Step(r), calls' = calls PROVE Inv'
    <2>1. TypeOK'
      BY <1>0, <1>2, StepTypes DEF TypeOK, RowTypes, RequestTypes, GhostTypes
    <2>2. RowInv'
      <3>1. CASE Write(r) /\ Target(r) \subseteq exists
        BY <1>0, <3>1, WriteRows
      <3>2. CASE \E t, n \in Tasks : Spawn(r, t, n)
        BY <1>0, <3>2, SpawnRows
      <3>3. CASE ~(Write(r) /\ Target(r) \subseteq exists) /\ \A t, n \in Tasks : ~Spawn(r, t, n)
        BY <1>0, <1>2, <3>3, RowsUntouched, DueKept, QuietRows
      <3>4. QED
        BY <3>1, <3>2, <3>3
    <2>3. QED
      BY <1>0, <1>2, <2>1, <2>2, StepSteps, StepGated DEF Inv, RowInv
  <1>3. ASSUME NEW r \in Requests, Die(r), calls' = calls PROVE Inv'
    <2>1. Throw(r) /\ faults' \in 0..MaxFaults
      BY <1>0, <1>3, BoundAssumption DEF Die
    <2>2. TypeOK'
      BY <1>0, <1>3, <2>1, ThrowTypes DEF TypeOK, RowTypes, RequestTypes, GhostTypes
    <2>3. Steps'
      BY <1>0, <2>1, EndSteps DEF Throw
    <2>4. UNCHANGED rowVars /\ NothingDropped
      BY <1>0, <2>1 DEF Throw, TypeOK, NothingDropped
    <2>5. QED
      BY <1>0, <2>1, <2>2, <2>3, <2>4, ThrowGated, QuietRows DEF Inv, RowInv
  <1>4. ASSUME Owner, calls' \in 0..MaxCalls PROVE Inv'
    <2>1. TypeOK'
      BY <1>0, <1>4, OwnerTypes DEF TypeOK, RowTypes, RequestTypes, GhostTypes
    <2>2. UNCHANGED requestVars
      BY <1>4 DEF Owner, Create, SetRepeats, Delete, Block, Unblock
    <2>3. Steps'
      BY <1>0, <2>2 DEF Steps, requestVars
    <2>4. QED
      BY <1>0, <1>4, <2>1, <2>3, OwnerGated, OwnerRows DEF Inv, RowInv
  <1>5. CASE UNCHANGED vars
    BY <1>5 DEF vars, rowVars, requestVars, Inv, TypeOK, Fresh, Claimed, Steps, Gated, Through,
       Target, OpenBlockers, NoOccurrenceLost
  <1>6. calls < MaxCalls /\ calls' = calls + 1 => calls' \in 0..MaxCalls
    BY <1>0, BoundAssumption
  <1>7. QED
    BY <1>1, <1>2, <1>3, <1>4, <1>5, <1>6 DEF Next

\* The types hold in every reachable state.
THEOREM TypeCorrect == Spec => []TypeOK
  <1>1. Inv => TypeOK
    BY DEF Inv
  <1>2. QED
    BY InitInv, NextInv, <1>1, PTL DEF Spec

\* However often an occurrence is finished, by whatever calls at once, it has one
\* successor.
THEOREM OneSuccessorEach == Spec => []OneSuccessor
  <1>1. Inv => OneSuccessor
    BY DEF Inv, TypeOK, Claimed, OneSuccessor
  <1>2. QED
    BY InitInv, NextInv, <1>1, PTL DEF Spec

\* A finished occurrence has its successor, or a request that is to spawn it, but for
\* what NoOccurrenceLost names.
THEOREM OccurrencesKept == Spec => []NoOccurrenceLost
  <1>1. Inv => NoOccurrenceLost
    BY DEF Inv
  <1>2. QED
    BY InitInv, NextInv, <1>1, PTL DEF Spec

\* No task is finished over an open blocker that its gate could see, but by force.
THEOREM GateHolds == Spec => NoFinishOverBlocker
  <1> DEFINE P == \A t \in exists :
       status[t] = "open" /\ status'[t] = "done" =>
         \E r \in Requests :
           /\ pc[r] = "write" /\ pc'[r] # "write" /\ t \in Target(r)
           /\ force[r] \/ old[r][t] = "done" \/ OpenBlockers(t) \subseteq late[r]
  <1>1. Inv /\ [Next]_vars => [P]_vars
    <2> SUFFICES ASSUME Inv, Next, NEW t \in exists, status[t] = "open", status'[t] = "done"
                 PROVE  \E r \in Requests :
                          /\ pc[r] = "write" /\ pc'[r] # "write" /\ t \in Target(r)
                          /\ force[r] \/ old[r][t] = "done" \/ OpenBlockers(t) \subseteq late[r]
      OBVIOUS
    <2>1. ~Owner
      BY DEF Inv, TypeOK, Owner, Create, SetRepeats, Delete, Block, Unblock, rowVars
    <2>2. PICK r \in Requests : Start(r) \/ Step(r) \/ Die(r)
      BY <2>1 DEF Next
    <2>3. ~Throw(r) /\ ~Start(r) /\ \A u, n \in Tasks : ~Spawn(r, u, n)
      BY DEF Throw, rowVars, Start, StartUpdate, StartBatch, StartReorder, Begin, Spawn
    <2>4. Write(r) /\ Target(r) \subseteq exists
      BY <2>2, <2>3, RowsUntouched DEF Die, rowVars
    <2>5. pc[r] = "write" /\ pc'[r] # "write" /\ t \in Target(r) /\ to[r][t] = "done"
      BY <2>4 DEF Write, AfterWrite, Goto, Inv, TypeOK
    <2>6. QED
      BY <2>5 DEF Inv, Gated, Through
  <1>2. QED
    BY InitInv, NextInv, <1>1, PTL DEF Spec, NoFinishOverBlocker
=============================================================================
