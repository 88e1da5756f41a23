--------------------------- MODULE TaskCompletion ---------------------------
(***************************************************************************)
(* services/taskService.ts: finishing tasks. A status is written by update, *)
(* batchStatus or reorder; each first asks the dependency gate (TaskGraph   *)
(* keeps that graph) and afterwards spawns the next occurrence of every     *)
(* repeating task it finished. A step is one query or one transaction, so   *)
(* other requests run between the gate, the write and the spawn.            *)
(***************************************************************************)
EXTENDS Naturals, FiniteSets

CONSTANTS
  Tasks,     \* task ids, used and not yet used
  Existing,  \* the tasks there are at the start
  Requests,  \* bound: requests in progress at once
  MaxFaults, \* bound: requests that die half-way
  MaxCalls,  \* bound: calls the clients make
  MaxBatch,  \* bound: tasks in one batch or drag
  None

ASSUME ExistingTasks   == Existing \subseteq Tasks
ASSUME NoneNotTask     == None \notin Tasks \cup Requests
ASSUME BoundAssumption == MaxFaults \in Nat /\ MaxCalls \in Nat /\ MaxBatch \in Nat

VARIABLES
  used, exists,  \* ids given out; the task rows
  status,        \* "open" or "done", which is all a terminal status means here
  repeats,       \* tasks with a recurrence rule and a due date
  next,          \* recurrenceNextId
  deps,          \* <<blocker, blocked>>
  pc, kind,      \* of each request: its next step, and which call it is
  to,            \* the statuses it is to write
  force,         \* "complete anyway"
  old,           \* the statuses it read before the gate
  todo,          \* tasks it has still to gate and write
  cur,           \* the task it is at
  due,           \* tasks whose next occurrence it has still to spawn
  from,          \* history: the occurrence a task was spawned from
  late,          \* history: blockers that opened or were added since the gate
  excused,       \* history: tasks that lost their spawn, see Excuse
  faults, calls

rowVars     == <<used, exists, status, repeats, next, from>>
requestVars == <<pc, kind, to, force, old, todo, cur, due>>
vars        == <<rowVars, deps, requestVars, late, excused, faults, calls>>

Statuses == {"open", "done"}
NoStatus == [t \in Tasks |-> None]

Init ==
  /\ used = Existing /\ exists = Existing
  /\ repeats \in SUBSET Existing
  /\ deps = {}
  /\ status = [t \in Tasks |-> "open"]
  /\ next = [t \in Tasks |-> None]
  /\ from = [t \in Tasks |-> None]
  /\ pc = [r \in Requests |-> "idle"]
  /\ kind = [r \in Requests |-> None]
  /\ to = [r \in Requests |-> NoStatus]
  /\ force = [r \in Requests |-> FALSE]
  /\ old = [r \in Requests |-> NoStatus]
  /\ todo = [r \in Requests |-> {}]
  /\ cur = [r \in Requests |-> None]
  /\ due = [r \in Requests |-> {}]
  /\ late = [r \in Requests |-> {}]
  /\ excused = {}
  /\ faults = 0
  /\ calls = 0

OpenBlockers(t) == {b \in exists : <<b, t>> \in deps /\ status[b] = "open"}

Goto(r, step) == pc' = [pc EXCEPT ![r] = step]

\* Blockers that open or are added now, by r or by nobody, come after the gate of
\* the other requests that are about to write.
Late(r, B) ==
  late' = [q \in Requests |-> IF q # r /\ pc[q] = "write" THEN late[q] \cup B ELSE {}]

\* Nothing is left to gate or write.
Forget(r) ==
  /\ kind' = [kind EXCEPT ![r] = None]
  /\ to' = [to EXCEPT ![r] = NoStatus]
  /\ force' = [force EXCEPT ![r] = FALSE]
  /\ old' = [old EXCEPT ![r] = NoStatus]
  /\ todo' = [todo EXCEPT ![r] = {}]
  /\ cur' = [cur EXCEPT ![r] = None]

\* The request ends in an error: what it had still to spawn is never spawned.
Throw(r) ==
  /\ Goto(r, "idle") /\ Forget(r)
  /\ due' = [due EXCEPT ![r] = {}]
  /\ Late(r, {})
  /\ excused' = excused \cup due[r]
  /\ UNCHANGED <<rowVars, deps>>

-----------------------------------------------------------------------------
(* update: one task, with force if the caller insists.                       *)

Begin(r, k, T, s, f) ==
  /\ pc[r] = "idle"
  /\ kind' = [kind EXCEPT ![r] = k]
  /\ to' = [to EXCEPT ![r] = [t \in Tasks |-> IF t \in T THEN s[t] ELSE None]]
  /\ old' = [old EXCEPT ![r] = [t \in Tasks |-> IF t \in T THEN status[t] ELSE None]]
  /\ force' = [force EXCEPT ![r] = f]
  /\ UNCHANGED <<rowVars, deps, due, late, excused, faults>>

StartUpdate(r, t, s, f) ==
  /\ t \in exists /\ (f => s = "done")
  /\ Begin(r, "update", {t}, [u \in Tasks |-> s], f)
  /\ cur' = [cur EXCEPT ![r] = t]
  /\ Goto(r, IF s = "done" /\ status[t] # s THEN "gate" ELSE "write")
  /\ UNCHANGED todo

\* batchStatus: the tasks one after the other, with the statuses all were read
\* with at the start.
StartBatch(r, T, s) ==
  /\ T \subseteq exists
  /\ Begin(r, "batch", T, [u \in Tasks |-> s], FALSE)
  /\ todo' = [todo EXCEPT ![r] = T]
  /\ Goto(r, "next")
  /\ UNCHANGED cur

\* A task that has the status already is not gated or written, but is among
\* those that are spawned from.
TakeTask(r, t) ==
  /\ pc[r] = "next" /\ t \in todo[r]
  /\ todo' = [todo EXCEPT ![r] = @ \ {t}]
  /\ IF old[r][t] = to[r][t]
       THEN /\ due' = [due EXCEPT ![r] = @ \cup {t}]
            /\ UNCHANGED <<pc, cur>>
       ELSE /\ cur' = [cur EXCEPT ![r] = t]
            /\ Goto(r, IF to[r][t] = "done" THEN "gate" ELSE "write")
            /\ UNCHANGED due
  /\ UNCHANGED <<rowVars, deps, kind, to, force, old, late, excused, faults>>

\* Mutated: a batch is not gated.
GateSingle(r) ==
  /\ pc[r] = "gate"
  /\ IF OpenBlockers(cur[r]) = {} \/ force[r] \/ kind[r] = "batch"
       THEN /\ Goto(r, "write")
            /\ UNCHANGED <<rowVars, deps, kind, to, force, old, todo, cur, due, late, excused>>
       ELSE Throw(r)
  /\ UNCHANGED faults

\* openBlockers. A blocked task is a 409 for update, and skipped by a batch.
Gate(r) ==
  /\ pc[r] = "gate"
  /\ IF OpenBlockers(cur[r]) = {} \/ force[r]
       THEN /\ Goto(r, "write")
            /\ UNCHANGED <<rowVars, deps, kind, to, force, old, todo, cur, due, late, excused>>
       ELSE IF kind[r] = "update"
         THEN Throw(r)
         ELSE /\ Goto(r, "next")
              /\ UNCHANGED <<rowVars, deps, kind, to, force, old, todo, cur, due, late, excused>>
  /\ UNCHANGED faults

\* reorder: a drag writes the statuses the board shows, of several tasks in one
\* transaction, gated by one query.
StartReorder(r, T, s) ==
  /\ T \subseteq exists
  /\ Begin(r, "reorder", T, s, FALSE)
  /\ todo' = [todo EXCEPT ![r] = T]
  /\ Goto(r, "gateAll")
  /\ UNCHANGED cur

GateAll(r) ==
  /\ pc[r] = "gateAll"
  /\ IF \E t \in todo[r] : to[r][t] = "done" /\ status[t] = "open" /\ OpenBlockers(t) # {}
       THEN Throw(r)
       ELSE /\ old' = [old EXCEPT ![r] = [t \in Tasks |-> IF t \in todo[r] THEN status[t] ELSE None]]
            /\ Goto(r, "write")
            /\ UNCHANGED <<rowVars, deps, kind, to, force, todo, cur, due, late, excused>>
  /\ UNCHANGED faults

-----------------------------------------------------------------------------
\* What one write step of r writes: a batch or an update one task, a drag all.
Target(r) == IF kind[r] = "reorder" THEN todo[r] ELSE {cur[r]}

\* Of those, the tasks it will spawn from. An update spawns only when the status
\* it read was another.
ToSpawn(r) ==
  CASE kind[r] = "update"  -> {t \in Target(r) : old[r][t] # to[r][t]}
    [] kind[r] = "batch"   -> Target(r)
    [] OTHER               -> {t \in Target(r) : to[r][t] = "done"}

\* A write of "done" over a status that was reopened since it was read, by a call
\* that then sees no change: nobody will spawn.
Unnoticed(r) ==
  {t \in Target(r) : to[r][t] = "done" /\ status[t] = "open"} \ ToSpawn(r)

AfterWrite(r) ==
  IF kind[r] = "batch"
    THEN Goto(r, "next") /\ UNCHANGED <<kind, to, force, old, todo, cur>>
    ELSE Goto(r, "rows") /\ Forget(r)

\* Mutated: finishing tasks by a drag does not spawn.
WriteDragOnly(r) ==
  /\ pc[r] = "write" /\ Target(r) \subseteq exists
  /\ status' = [t \in Tasks |-> IF t \in Target(r) THEN to[r][t] ELSE status[t]]
  /\ Late(r, {t \in Target(r) : status[t] = "done" /\ to[r][t] = "open"})
  /\ due' = [due EXCEPT ![r] = IF kind[r] = "reorder" THEN {} ELSE @ \cup ToSpawn(r)]
  /\ excused' = (excused \ ToSpawn(r)) \cup Unnoticed(r)
  /\ AfterWrite(r)
  /\ UNCHANGED <<used, exists, repeats, next, from, deps, faults>>

\* The write. A task deleted in the meantime fails it (P2025), and with it the
\* whole call, whatever a batch has written before.
Write(r) ==
  /\ pc[r] = "write"
  /\ IF Target(r) \subseteq exists
       THEN /\ status' = [t \in Tasks |-> IF t \in Target(r) THEN to[r][t] ELSE status[t]]
            /\ Late(r, {t \in Target(r) : status[t] = "done" /\ to[r][t] = "open"})
            /\ due' = [due EXCEPT ![r] = @ \cup ToSpawn(r)]
            /\ excused' = (excused \ ToSpawn(r)) \cup Unnoticed(r)
            /\ AfterWrite(r)
            /\ UNCHANGED <<used, exists, repeats, next, from, deps>>
       ELSE Throw(r)
  /\ UNCHANGED faults

-----------------------------------------------------------------------------
(* spawnNextOccurrences.                                                     *)

\* The rows that repeat, have no successor and are finished, as of this read.
ReadRows(r) ==
  /\ pc[r] = "rows" \/ (pc[r] = "next" /\ todo[r] = {})
  /\ due' = [due EXCEPT ![r] = {t \in @ \cap exists :
       t \in repeats /\ next[t] = None /\ status[t] = "done"}]
  /\ Goto(r, "spawn") /\ Forget(r)
  /\ UNCHANGED <<rowVars, deps, late, excused, faults>>

\* Mutated: the successor is stored without looking whether there is one.
SpawnUnclaimed(r, t, n) ==
  /\ pc[r] = "spawn" /\ t \in due[r] /\ n \notin used
  /\ due' = [due EXCEPT ![r] = @ \ {t}]
  /\ used' = used \cup {n} /\ exists' = exists \cup {n}
  /\ repeats' = repeats \cup {n}
  /\ next' = [next EXCEPT ![t] = n]
  /\ from' = [from EXCEPT ![n] = t]
  /\ UNCHANGED <<late, status, deps, pc, kind, to, force, old, todo, cur, excused, faults>>

\* One transaction: create the candidate n, claim the occurrence with it if it
\* is unclaimed, remove the candidate if not.
Spawn(r, t, n) ==
  /\ pc[r] = "spawn" /\ t \in due[r] /\ n \notin used
  /\ due' = [due EXCEPT ![r] = @ \ {t}]
  /\ IF t \in exists /\ next[t] = None
       THEN /\ used' = used \cup {n} /\ exists' = exists \cup {n}
            /\ repeats' = repeats \cup {n}
            /\ next' = [next EXCEPT ![t] = n]
            /\ from' = [from EXCEPT ![n] = t]
       ELSE UNCHANGED <<used, exists, repeats, next, from>>
  /\ UNCHANGED <<late, status, deps, pc, kind, to, force, old, todo, cur, excused, faults>>

Answer(r) ==
  /\ pc[r] = "spawn" /\ due[r] = {}
  /\ Goto(r, "idle")
  /\ UNCHANGED <<rowVars, deps, kind, to, force, old, todo, cur, due, late, excused, faults>>

\* The process dies, or the database does not answer: the rest of the request
\* does not happen.
Die(r) ==
  /\ pc[r] # "idle" /\ faults < MaxFaults
  /\ faults' = faults + 1
  /\ Throw(r)
-----------------------------------------------------------------------------
(* The owner's other calls, each one write.                                  *)

\* create, in any status, repeating or not. A repeating task that is created
\* finished spawns nothing.
Create(t, s, rule) ==
  /\ t \notin used
  /\ used' = used \cup {t} /\ exists' = exists \cup {t}
  /\ status' = [status EXCEPT ![t] = s]
  /\ repeats' = IF rule THEN repeats \cup {t} ELSE repeats
  /\ excused' = IF s = "done" THEN excused \cup {t} ELSE excused
  /\ UNCHANGED <<next, from, deps, requestVars, late, faults>>

\* The recurrence of update, with no status: it spawns nothing either.
SetRepeats(t, rule) ==
  /\ t \in exists
  /\ repeats' = IF rule THEN repeats \cup {t} ELSE repeats \ {t}
  /\ excused' = IF rule /\ t \notin repeats THEN excused \cup {t} ELSE excused
  /\ UNCHANGED <<used, exists, status, next, from, deps, requestVars, late, faults>>

\* Mutated: the foreign key leaves recurrenceNextId as it was.
DeleteDangling(t) ==
  /\ t \in exists
  /\ exists' = exists \ {t}
  /\ repeats' = repeats \ {t}
  /\ deps' = {e \in deps : t \notin {e[1], e[2]}}
  /\ excused' = excused \ {t}
  /\ UNCHANGED <<used, status, next, from, requestVars, late, faults>>

\* delete. The key on recurrenceNextId is ON DELETE SET NULL, so the occurrence
\* before it may spawn once more.
Delete(t) ==
  /\ t \in exists
  /\ exists' = exists \ {t}
  /\ repeats' = repeats \ {t}
  /\ deps' = {e \in deps : t \notin {e[1], e[2]}}
  /\ next' = [u \in Tasks |-> IF u = t \/ next[u] = t THEN None ELSE next[u]]
  /\ excused' = (excused \ {t}) \cup {u \in exists \ {t} : next[u] = t}
  /\ status' = [status EXCEPT ![t] = "open"]
  /\ from' = [u \in Tasks |-> IF u = t \/ from[u] = t THEN None ELSE from[u]]
  /\ UNCHANGED <<used, requestVars, late, faults>>

Block(b, t) ==
  /\ b \in exists /\ t \in exists /\ b # t
  /\ deps' = deps \cup {<<b, t>>}
  /\ Late(None, {b})
  /\ UNCHANGED <<rowVars, requestVars, excused, faults>>

Unblock(b, t) ==
  /\ <<b, t>> \in deps
  /\ deps' = deps \ {<<b, t>>}
  /\ UNCHANGED <<rowVars, requestVars, late, excused, faults>>

-----------------------------------------------------------------------------
Start(r) ==
  \/ \E t \in Tasks, s \in Statuses, f \in BOOLEAN : StartUpdate(r, t, s, f)
  \/ \E T \in SUBSET Tasks : Cardinality(T) \in 1..MaxBatch /\
       \/ \E s \in Statuses : StartBatch(r, T, s)
       \/ \E s \in [T -> Statuses] : StartReorder(r, T, s)

Step(r) ==
  \/ Gate(r) \/ GateAll(r) \/ Write(r) \/ ReadRows(r) \/ Answer(r)
  \/ \E t \in Tasks : TakeTask(r, t)
  \/ \E t, n \in Tasks : Spawn(r, t, n)

Owner ==
  \/ \E t \in Tasks, s \in Statuses, rule \in BOOLEAN : Create(t, s, rule)
  \/ \E t \in Tasks, rule \in BOOLEAN : SetRepeats(t, rule)
  \/ \E t \in Tasks : Delete(t)
  \/ \E b, t \in Tasks : Block(b, t) \/ Unblock(b, t)

Next ==
  \/ /\ calls < MaxCalls
     /\ calls' = calls + 1
     /\ Owner \/ \E r \in Requests : Start(r)
  \/ \E r \in Requests : (Step(r) \/ Die(r)) /\ UNCHANGED calls

Spec == Init /\ [][Next]_vars

-----------------------------------------------------------------------------
(* Properties.                                                               *)

\* Every variable has its type; a successor named by a row is a row.
TypeOK ==
  /\ exists \subseteq used /\ used \subseteq Tasks
  /\ status \in [Tasks -> Statuses]
  /\ repeats \subseteq exists
  /\ next \in [Tasks -> exists \cup {None}]
  /\ from \in [Tasks -> Tasks \cup {None}]
  /\ deps \subseteq exists \X exists
  /\ pc \in [Requests -> {"idle", "gate", "gateAll", "next", "write", "rows", "spawn"}]
  /\ kind \in [Requests -> {"update", "batch", "reorder", None}]
  /\ to \in [Requests -> [Tasks -> Statuses \cup {None}]]
  /\ old \in [Requests -> [Tasks -> Statuses \cup {None}]]
  /\ force \in [Requests -> BOOLEAN]
  /\ todo \in [Requests -> SUBSET Tasks]
  /\ cur \in [Requests -> Tasks \cup {None}]
  /\ due \in [Requests -> SUBSET Tasks]
  /\ late \in [Requests -> SUBSET Tasks]
  /\ excused \subseteq Tasks
  /\ faults \in 0..MaxFaults /\ calls \in 0..MaxCalls

\* "Two completions racing both create a candidate; the loser's claim matches
\* nothing and its candidate is removed": however often an occurrence is finished,
\* reopened and finished again, by whatever calls at once, it has one successor.
OneSuccessor ==
  \A t, u \in exists : from[t] = from[u] /\ from[t] # None => t = u

\* "Called after the status write, never inside it": a finished repeating task has
\* its successor, or some request is still going to spawn it. Excused are tasks
\* whose request died or failed, whose successor was deleted, that were given
\* their rule when they were finished, and that a stale update finished.
NoOccurrenceLost ==
  \A t \in exists \cap repeats :
    status[t] = "done" /\ next[t] = None =>
      t \in excused \/ \E r \in Requests : t \in due[r]

\* "Moving to a terminal status while a blocker is unfinished is refused": an
\* unfinished task is finished over an open blocker by force alone, but for a
\* blocker that came after the gate and a task reopened since the request read it.
NoFinishOverBlocker ==
  [][\A t \in exists :
       status[t] = "open" /\ status'[t] = "done" =>
         \E r \in Requests :
           /\ pc[r] = "write" /\ pc'[r] # "write" /\ t \in Target(r)
           /\ force[r] \/ old[r][t] = "done" \/ OpenBlockers(t) \subseteq late[r]]_vars
=============================================================================
