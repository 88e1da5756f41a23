----------------------------- MODULE TaskGraph -----------------------------
(***************************************************************************)
(* services/taskService.ts: the two graphs over one owner's tasks, "blocker *)
(* must finish before blocked" and "subtask of". The foreign keys accept    *)
(* any pair of ids, so both rules are kept by requests that read first and  *)
(* write later, with other requests in between. A step is one query.        *)
(***************************************************************************)
EXTENDS Naturals

CONSTANTS
  Tasks,     \* task ids, used and not yet used
  Requests,  \* bound: requests in progress at once
  MaxCalls,  \* bound: requests
  MaxHops,   \* queries a dependency check may make (50 in the code)
  None

ASSUME NoneNotTask    == None \notin Tasks
ASSUME BoundAssumption == MaxCalls \in Nat /\ MaxHops \in Nat

VARIABLES
  used,     \* ids that were ever given to a task
  exists,   \* the task rows
  deps,     \* the task_dependency rows, <<blocker, blocked>>
  parent,   \* parentId of each task
  pc,       \* what each request does next
  subject,  \* the task a request is about
  object,   \* its blocker or parent to be
  seen, frontier, hops,  \* the breadth-first search of a dependency check
  stale,    \* history: requests that an addition of another has escaped
  unchecked,  \* history: dependencies whose check was cut short, or missed one
  misplaced,  \* history: tasks whose parent was written after such a check
  calls      \* requests so far

checkVars == <<seen, frontier, hops>>
history   == <<stale, unchecked, misplaced>>
vars == <<used, exists, deps, parent, pc, subject, object, checkVars, history, calls>>

Init ==
  /\ used = {} /\ exists = {} /\ deps = {}
  /\ parent = [t \in Tasks |-> None]
  /\ pc = [r \in Requests |-> "idle"]
  /\ subject = [r \in Requests |-> None]
  /\ object = [r \in Requests |-> None]
  /\ seen = [r \in Requests |-> {}]
  /\ frontier = [r \in Requests |-> {}]
  /\ hops = [r \in Requests |-> 0]
  /\ stale = {} /\ unchecked = {} /\ misplaced = {}
  /\ calls = 0

BlockersOf(T) == {b \in Tasks : \E t \in T : <<b, t>> \in deps}
SubtasksOf(t) == {c \in Tasks : parent[c] = t}

\* The request is answered, well or badly.
Finish(r) ==
  /\ pc' = [pc EXCEPT ![r] = "idle"]
  /\ subject' = [subject EXCEPT ![r] = None]
  /\ object' = [object EXCEPT ![r] = None]
  /\ seen' = [seen EXCEPT ![r] = {}]
  /\ frontier' = [frontier EXCEPT ![r] = {}]
  /\ hops' = [hops EXCEPT ![r] = 0]

Refuse(r) ==
  /\ Finish(r)
  /\ stale' = stale \ {r}
  /\ UNCHANGED <<used, exists, deps, parent, unchecked, misplaced>>

-----------------------------------------------------------------------------
(* addDependency: t is to wait for b.                                        *)

StartBlock(r, t, b) ==
  /\ pc[r] = "idle"
  /\ t # b /\ t \in exists /\ b \in exists
  /\ pc' = [pc EXCEPT ![r] = "searching"]
  /\ subject' = [subject EXCEPT ![r] = t]
  /\ object' = [object EXCEPT ![r] = b]
  /\ seen' = [seen EXCEPT ![r] = {b}]
  /\ frontier' = [frontier EXCEPT ![r] = {b}]
  /\ hops' = [hops EXCEPT ![r] = 0]
  /\ UNCHANGED <<used, exists, deps, parent, history>>

\* Mutated: the direct blockers only.
HopOnce(r) ==
  /\ pc[r] = "searching" /\ frontier[r] # {} /\ hops[r] < MaxHops
  /\ IF subject[r] \in BlockersOf(frontier[r])
       THEN Refuse(r)
       ELSE /\ seen' = [seen EXCEPT ![r] = @ \cup BlockersOf(frontier[r])]
            /\ frontier' = [frontier EXCEPT ![r] = {}]
            /\ hops' = [hops EXCEPT ![r] = @ + 1]
            /\ UNCHANGED <<used, exists, deps, parent, pc, subject, object, history>>

\* One query: what the frontier waits on. Meeting the subject is a cycle.
Hop(r) ==
  /\ pc[r] = "searching" /\ frontier[r] # {} /\ hops[r] < MaxHops
  /\ IF subject[r] \in BlockersOf(frontier[r])
       THEN Refuse(r)
       ELSE /\ seen' = [seen EXCEPT ![r] = @ \cup BlockersOf(frontier[r])]
            /\ frontier' = [frontier EXCEPT ![r] = BlockersOf(@) \ seen[r]]
            /\ hops' = [hops EXCEPT ![r] = @ + 1]
            /\ UNCHANGED <<used, exists, deps, parent, pc, subject, object, history>>

\* Searches that have looked at t already and not seen b.
Passed(t, b) == {q \in Requests : pc[q] = "searching" /\ t \in seen[q] \ frontier[q] /\ b \notin seen[q]}

\* The upsert, once the search has ended or made its last hop. The foreign keys
\* refuse it when either task is gone by now.
Block(r) ==
  /\ pc[r] = "searching"
  /\ frontier[r] = {} \/ hops[r] >= MaxHops
  /\ LET edge == <<object[r], subject[r]>>
     IN  IF {subject[r], object[r]} \subseteq exists
           THEN /\ deps' = deps \cup {edge}
                /\ unchecked' = IF r \in stale \/ frontier[r] # {}
                                  THEN unchecked \cup ({edge} \ deps) ELSE unchecked \ {edge}
                /\ stale' = (stale \cup Passed(subject[r], object[r])) \ {r}
                /\ Finish(r)
                /\ UNCHANGED <<used, exists, parent, misplaced>>
           ELSE Refuse(r)

Unblock(b, t) ==
  /\ <<b, t>> \in deps
  /\ deps' = deps \ {<<b, t>>}
  /\ unchecked' = unchecked \ {<<b, t>>}
  /\ UNCHANGED <<used, exists, parent, pc, subject, object, checkVars, stale, misplaced>>

-----------------------------------------------------------------------------
(* create, and the parentId of update: c is to be a subtask of p.            *)

Create(t) ==
  /\ t \notin used
  /\ used' = used \cup {t}
  /\ exists' = exists \cup {t}
  /\ UNCHANGED <<deps, parent, pc, subject, object, checkVars, history>>

\* Mutated: the parent may be a subtask itself.
StartNestAnywhere(r, c, p) ==
  /\ pc[r] = "idle"
  /\ c # p /\ p \in exists
  /\ c \in exists \/ c \notin used
  /\ pc' = [pc EXCEPT ![r] = IF c \in exists THEN "counting" ELSE "creating"]
  /\ used' = used \cup {c}
  /\ subject' = [subject EXCEPT ![r] = c]
  /\ object' = [object EXCEPT ![r] = p]
  /\ UNCHANGED <<exists, deps, parent, checkVars, history>>

\* assertParentAllowed reads the parent, which must not be a subtask itself. A
\* task that is yet to be created has no subtasks to count.
StartNest(r, c, p) ==
  /\ pc[r] = "idle"
  /\ c # p /\ p \in exists /\ parent[p] = None
  /\ c \in exists \/ c \notin used
  /\ pc' = [pc EXCEPT ![r] = IF c \in exists THEN "counting" ELSE "creating"]
  /\ used' = used \cup {c}
  /\ subject' = [subject EXCEPT ![r] = c]
  /\ object' = [object EXCEPT ![r] = p]
  /\ UNCHANGED <<exists, deps, parent, checkVars, history>>

CountSubtasks(r) ==
  /\ pc[r] = "counting"
  /\ IF SubtasksOf(subject[r]) # {}
       THEN Refuse(r)
       ELSE /\ pc' = [pc EXCEPT ![r] = "placing"]
            /\ UNCHANGED <<used, exists, deps, parent, subject, object, checkVars, history>>

\* spawnNextOccurrences copies the parentId of the row it read, unchecked, to a
\* task it then creates: a third level too, if the row is on one.
StartSpawn(r, t, n) ==
  /\ pc[r] = "idle"
  /\ t \in exists /\ parent[t] # None
  /\ n \notin used
  /\ pc' = [pc EXCEPT ![r] = "creating"]
  /\ used' = used \cup {n}
  /\ subject' = [subject EXCEPT ![r] = n]
  /\ object' = [object EXCEPT ![r] = parent[t]]
  /\ stale' = IF {t, parent[t]} \cap misplaced # {} THEN stale \cup {r} ELSE stale
  /\ UNCHANGED <<exists, deps, parent, checkVars, unchecked, misplaced>>

\* Requests that have found c to be no subtask, or p to have none.
Relied(c, p) ==
  {q \in Requests : \/ pc[q] \in {"counting", "placing", "creating"} /\ object[q] = c
                    \/ pc[q] = "placing" /\ subject[q] = p}

\* The write: an update needs the row, and the foreign key needs the parent.
Place(r) ==
  /\ pc[r] \in {"placing", "creating"}
  /\ IF object[r] \in exists /\ (pc[r] = "placing" => subject[r] \in exists)
       THEN /\ exists' = exists \cup {subject[r]}
            /\ parent' = [parent EXCEPT ![subject[r]] = object[r]]
            /\ misplaced' = IF r \in stale THEN misplaced \cup {subject[r]} ELSE misplaced \ {subject[r]}
            /\ stale' = (stale \cup Relied(subject[r], object[r])) \ {r}
            /\ Finish(r)
            /\ UNCHANGED <<used, deps, unchecked>>
       ELSE Refuse(r)

\* update with parentId null.
Unnest(t) ==
  /\ parent[t] # None
  /\ parent' = [parent EXCEPT ![t] = None]
  /\ misplaced' = misplaced \ {t}
  /\ UNCHANGED <<used, exists, deps, pc, subject, object, checkVars, stale, unchecked>>

\* The rows the foreign key's cascade takes with t.
Doomed(t) ==
  {u \in Tasks : \A S \in SUBSET Tasks :
     (t \in S /\ \A v \in Tasks : parent[v] \in S => v \in S) => u \in S}

\* Mutated: a key without the cascade, which only clears the parent.
DeleteAlone(t) ==
  /\ t \in exists
  /\ exists' = exists \ {t}
  /\ parent' = [parent EXCEPT ![t] = None]
  /\ deps' = {e \in deps : t \notin {e[1], e[2]}}
  /\ unchecked' = unchecked \cap deps'
  /\ misplaced' = misplaced \ {t}
  /\ UNCHANGED <<used, pc, subject, object, checkVars, stale>>

Delete(t) ==
  /\ t \in exists
  /\ exists' = exists \ Doomed(t)
  /\ parent' = [u \in Tasks |-> IF u \in Doomed(t) THEN None ELSE parent[u]]
  /\ deps' = {e \in deps : e[1] \notin Doomed(t) /\ e[2] \notin Doomed(t)}
  /\ unchecked' = unchecked \cap deps'
  /\ misplaced' = misplaced \ Doomed(t)
  /\ UNCHANGED <<used, pc, subject, object, checkVars, stale>>

-----------------------------------------------------------------------------
Start(r) ==
  /\ calls < MaxCalls
  /\ calls' = calls + 1
  /\ \E t, u \in Tasks : StartBlock(r, t, u) \/ StartNest(r, t, u) \/ StartSpawn(r, t, u)

Step(r) == Hop(r) \/ Block(r) \/ CountSubtasks(r) \/ Place(r)

\* What is a single query.
Write ==
  \/ \E t \in Tasks : Create(t) \/ Unnest(t) \/ Delete(t)
  \/ \E b, t \in Tasks : Unblock(b, t)

Next ==
  \/ \E r \in Requests : Start(r) \/ (Step(r) /\ UNCHANGED calls)
  \/ Write /\ UNCHANGED calls

Spec == Init /\ [][Next]_vars

-----------------------------------------------------------------------------
(* Properties.                                                               *)

\* Every variable has its type. No edge and no parent names a task without a row.
TypeOK ==
  /\ exists \subseteq used /\ used \subseteq Tasks
  /\ deps \subseteq exists \X exists
  /\ parent \in [Tasks -> exists \cup {None}]
  /\ \A t \in Tasks : parent[t] # None => t \in exists
  /\ pc \in [Requests -> {"idle", "searching", "counting", "placing", "creating"}]
  /\ subject \in [Requests -> Tasks \cup {None}]
  /\ object \in [Requests -> Tasks \cup {None}]
  /\ seen \in [Requests -> SUBSET Tasks]
  /\ frontier \in [Requests -> SUBSET Tasks]
  /\ hops \in [Requests -> 0..MaxHops]
  /\ calls \in 0..MaxCalls /\ stale \subseteq Requests
  /\ unchecked \subseteq deps
  /\ \A t \in misplaced : t \in Tasks /\ parent[t] # None

\* "The graph must stay acyclic -- a cycle is a set of tasks none of which can
\* ever be finished": no set of tasks in which each waits for another of the
\* set, whatever is removed, deleted or moved while the check walks the graph.
\* A cycle goes through a dependency whose check was cut at its last hop, or had
\* passed the task that another addition made wait for more, and through no other.
NoDeadlock ==
  \A S \in (SUBSET Tasks) \ {{}} : \E t \in S : \A b \in S : <<b, t>> \notin deps \ unchecked

\* "Two levels only": a subtask has no subtasks, though three requests that
\* write a parent check different things, and the one for a repeating task
\* checks nothing. A third level has a task that was placed after the check was
\* overtaken by another placing, or copied from such a task.
TwoLevels ==
  \A t \in Tasks : parent[t] # None /\ {t, parent[t]} \cap misplaced = {} => parent[parent[t]] = None

=============================================================================
