-------------------------- MODULE TaskGraphProofs --------------------------
(***************************************************************************)
(* Proofs about TaskGraph for any tasks and requests and any limit of hops: *)
(* the graphs keep their shape whatever overlaps, but for what an addition *)
(* wrote after a check that was cut short or that another one escaped.     *)
(***************************************************************************)
EXTENDS TaskGraph, TLAPS, FiniteSets, FiniteSetTheorems

Nesting == {"counting", "placing", "creating"}

\* A search that no addition has escaped: what it has left behind waits only for
\* what it has seen. No search has met its subject.
SearchOK(r) ==
  /\ subject[r] \in Tasks /\ object[r] \in seen[r]
  /\ frontier[r] \subseteq seen[r]
  /\ subject[r] \notin seen[r]
  /\ r \notin stale => BlockersOf(seen[r] \ frontier[r]) \subseteq seen[r]
SearchInv == \A r \in Requests : pc[r] = "searching" => SearchOK(r)

\* A parent that was checked is still no subtask and its subtask to be still has
\* none, unless another placing has made it so since.
NestOK(r) ==
  /\ subject[r] \in used /\ object[r] \in used /\ subject[r] # object[r]
  /\ r \notin stale => parent[object[r]] = None
  /\ pc[r] = "placing" /\ r \notin stale => SubtasksOf(subject[r]) = {}
NestInv == \A r \in Requests : pc[r] \in Nesting => NestOK(r)

\* A task that is about to be created has an id of its own.
FreshInv ==
  \A r \in Requests : pc[r] = "creating" =>
    /\ subject[r] \in used \ exists
    /\ \A q \in Requests \ {r} : pc[q] = "creating" => subject[q] # subject[r]

IInv == TypeOK /\ SearchInv /\ NestInv /\ FreshInv /\ NoDeadlock /\ TwoLevels

-----------------------------------------------------------------------------
\* What is deleted with a task holds the task and every subtask of its members.
LEMMA DoomedClosed ==
  ASSUME NEW t \in Tasks
  PROVE  /\ Doomed(t) \subseteq Tasks /\ t \in Doomed(t)
         /\ \A v \in Tasks : parent[v] \in Doomed(t) => v \in Doomed(t)
<1>1. Doomed(t) \subseteq Tasks /\ t \in Doomed(t)
  BY DEF Doomed
<1>2. ASSUME NEW v \in Tasks, parent[v] \in Doomed(t) PROVE v \in Doomed(t)
  <2>1. ASSUME NEW S \in SUBSET Tasks, t \in S,
               \A u \in Tasks : parent[u] \in S => u \in S
        PROVE  v \in S
    <3>1. parent[v] \in S
      BY <1>2, <2>1 DEF Doomed
    <3> QED BY <3>1, <2>1
  <2> QED BY <2>1 DEF Doomed
<1> QED BY <1>1, <1>2

\* The edge of a search that ended, and that nothing escaped, closes no cycle: the
\* tasks it has seen wait only for one another, and the subject is not among them.
LEMMA BlockSafe ==
  ASSUME IInv, NEW r \in Requests, Block(r)
  PROVE  NoDeadlock'
<1>1. CASE ~ ({subject[r], object[r]} \subseteq exists)
  BY <1>1 DEF IInv, Block, Refuse, NoDeadlock
<1>2. CASE {subject[r], object[r]} \subseteq exists
  <2> DEFINE s == subject[r]
             o == object[r]
             free == deps \ unchecked
  <2>1. /\ pc[r] = "searching" /\ deps' = deps \cup {<<o, s>>}
        /\ unchecked' = IF r \in stale \/ frontier[r] # {}
                         THEN unchecked \cup ({<<o, s>>} \ deps) ELSE unchecked \ {<<o, s>>}
    BY <1>2 DEF Block
  <2>2. CASE r \in stale \/ frontier[r] # {}
    <3>1. (deps \ unchecked)' = free
      BY <2>1, <2>2 DEF IInv, TypeOK
    <3> QED BY <3>1 DEF IInv, NoDeadlock
  <2>3. CASE r \notin stale /\ frontier[r] = {}
    <3>1. (deps \ unchecked)' = free \cup {<<o, s>>}
      BY <2>1, <2>3
    <3> SUFFICES ASSUME NEW S \in (SUBSET Tasks) \ {{}},
                        \A t \in S : \E b \in S : <<b, t>> \in free \cup {<<o, s>>}
                 PROVE  FALSE
      BY <3>1 DEF NoDeadlock
    <3>2. BlockersOf(seen[r]) \subseteq seen[r] /\ s \notin seen[r] /\ o \in seen[r]
      <4>1. seen[r] \ frontier[r] = seen[r]
        BY <2>3
      <4> QED BY <2>1, <2>3, <4>1 DEF IInv, SearchInv, SearchOK
    <3>3. PICK t0 \in S : \A b \in S : <<b, t0>> \notin free
      BY DEF IInv, NoDeadlock
    <3>4. o \in S
      BY <3>3
    <3> DEFINE U == S \cap seen[r]
    <3>5. U \in (SUBSET Tasks) \ {{}}
      BY <3>2, <3>4
    <3>6. PICK t1 \in U : \A b \in U : <<b, t1>> \notin free
      BY <3>5 DEF IInv, NoDeadlock
    <3>7. PICK b \in S : <<b, t1>> \in free \cup {<<o, s>>}
      BY <3>6
    <3>8. <<b, t1>> \in free
      BY <3>2, <3>6, <3>7
    <3>9. b \in BlockersOf(seen[r])
      BY <3>6, <3>7, <3>8 DEF BlockersOf
    <3> QED BY <3>2, <3>6, <3>7, <3>8, <3>9
  <2> QED BY <2>2, <2>3
<1> QED BY <1>1, <1>2

-----------------------------------------------------------------------------
\* Fewer edges and the same tasks close no cycle and keep what a search knows.
LEMMA FewerEdges ==
  ASSUME deps' \subseteq deps, unchecked \cap deps' \subseteq unchecked'
  PROVE  /\ NoDeadlock => NoDeadlock'
         /\ SearchInv /\ UNCHANGED <<pc, subject, object, checkVars, stale>> => SearchInv'
<1>1. NoDeadlock => NoDeadlock'
  BY DEF NoDeadlock
<1>2. ASSUME NEW S PROVE BlockersOf(S)' \subseteq BlockersOf(S)
  BY DEF BlockersOf
<1>3. SearchInv /\ UNCHANGED <<pc, subject, object, checkVars, stale>> => SearchInv'
  BY <1>2 DEF SearchInv, SearchOK, checkVars, BlockersOf
<1> QED BY <1>1, <1>3

\* A request that is answered leaves the others as they were.
LEMMA RefuseSafe ==
  ASSUME IInv, calls' \in 0..MaxCalls, NEW r \in Requests, Refuse(r)
  PROVE  IInv'
<1> USE DEF IInv, Refuse, Finish
<1>1. TypeOK'
  <2>1. /\ pc' \in [Requests -> {"idle", "searching", "counting", "placing", "creating"}]
        /\ subject' \in [Requests -> Tasks \cup {None}]
        /\ object' \in [Requests -> Tasks \cup {None}]
    BY DEF TypeOK
  <2>2. /\ seen' \in [Requests -> SUBSET Tasks]
        /\ frontier' \in [Requests -> SUBSET Tasks]
        /\ hops' \in [Requests -> 0..MaxHops]
    BY BoundAssumption DEF TypeOK
  <2> QED BY <2>1, <2>2 DEF TypeOK
<1>2. SearchInv'
  BY DEF SearchInv, SearchOK, TypeOK, BlockersOf
<1>3. NestInv'
  BY DEF NestInv, NestOK, TypeOK, Nesting, SubtasksOf
<1>4. FreshInv'
  BY DEF FreshInv, TypeOK
<1>5. NoDeadlock' /\ TwoLevels'
  BY DEF NoDeadlock, TwoLevels
<1> QED BY <1>1, <1>2, <1>3, <1>4, <1>5

\* What Finish leaves behind has its type, wherever it appears.
LEMMA FinishTyped ==
  ASSUME TypeOK, NEW r \in Requests, Finish(r)
  PROVE  /\ pc' \in [Requests -> {"idle", "searching", "counting", "placing", "creating"}]
         /\ subject' \in [Requests -> Tasks \cup {None}]
         /\ object' \in [Requests -> Tasks \cup {None}]
         /\ seen' \in [Requests -> SUBSET Tasks]
         /\ frontier' \in [Requests -> SUBSET Tasks]
         /\ hops' \in [Requests -> 0..MaxHops]
<1>1. 0 \in 0..MaxHops
  BY BoundAssumption
<1> QED BY <1>1 DEF TypeOK, Finish

LEMMA InitInv == Init => IInv
<1> SUFFICES ASSUME Init PROVE IInv
  OBVIOUS
<1> USE DEF Init
<1>1. TypeOK
  BY BoundAssumption DEF TypeOK
<1>2. SearchInv /\ NestInv /\ FreshInv
  BY DEF SearchInv, NestInv, FreshInv, Nesting
<1>3. NoDeadlock
  <2> SUFFICES ASSUME NEW S \in (SUBSET Tasks) \ {{}} PROVE \E t \in S : \A b \in S : <<b, t>> \notin deps
    BY DEF NoDeadlock
  <2>1. PICK t \in S : TRUE
    OBVIOUS
  <2> QED BY <2>1
<1>4. TwoLevels
  BY DEF TwoLevels
<1> QED BY <1>1, <1>2, <1>3, <1>4 DEF IInv

-----------------------------------------------------------------------------
(* One lemma for each step of a request.                                     *)

LEMMA StartBlockSafe ==
  ASSUME IInv, calls' \in 0..MaxCalls, NEW r \in Requests, NEW t \in Tasks, NEW b \in Tasks, StartBlock(r, t, b)
  PROVE  IInv'
<1> USE DEF IInv, StartBlock, history
<1>1. TypeOK'
  <2>1. 0 \in 0..MaxHops
    BY BoundAssumption
  <2> QED BY <2>1 DEF TypeOK
<1>2. SearchInv'
  <2>1. SearchOK(r)'
    <3>2. seen'[r] = {b} /\ frontier'[r] = {b} /\ hops'[r] = 0 /\ subject'[r] = t /\ object'[r] = b
      BY DEF TypeOK
    <3>3. seen'[r] \ frontier'[r] = {}
      BY <3>2
    <3>4. BlockersOf(seen[r] \ frontier[r])' = {}
      BY <3>3 DEF BlockersOf
    <3>5. subject'[r] \notin seen'[r] /\ object'[r] \in seen'[r] /\ frontier'[r] \subseteq seen'[r]
      BY <3>2
    <3> HIDE DEF StartBlock
    <3> QED BY <3>2, <3>4, <3>5 DEF SearchOK
  <2>2. ASSUME NEW q \in Requests, q # r, pc'[q] = "searching" PROVE SearchOK(q)'
    BY <2>2 DEF TypeOK, SearchInv, SearchOK, BlockersOf
  <2> QED BY <2>1, <2>2 DEF SearchInv
<1>3. NestInv'
  BY DEF NestInv, NestOK, TypeOK, Nesting, SubtasksOf
<1>4. FreshInv'
  BY DEF FreshInv, TypeOK
<1>5. NoDeadlock' /\ TwoLevels'
  BY DEF NoDeadlock, TwoLevels
<1> QED BY <1>1, <1>2, <1>3, <1>4, <1>5

LEMMA HopSafe ==
  ASSUME IInv, calls' \in 0..MaxCalls, NEW r \in Requests, Hop(r)
  PROVE  IInv'
<1>1. CASE subject[r] \in BlockersOf(frontier[r])
  BY <1>1, RefuseSafe DEF Hop
<1>2. CASE subject[r] \notin BlockersOf(frontier[r])
  <2> DEFINE B == BlockersOf(frontier[r])
  <2> USE DEF IInv, history
  <2>1. /\ pc[r] = "searching" /\ frontier[r] # {} /\ hops[r] < MaxHops
        /\ seen' = [seen EXCEPT ![r] = @ \cup B]
        /\ frontier' = [frontier EXCEPT ![r] = B \ seen[r]]
        /\ hops' = [hops EXCEPT ![r] = @ + 1]
        /\ UNCHANGED <<used, exists, deps, parent, pc, subject, object, history>>
    BY <1>2 DEF Hop, TypeOK
  <2>2. B \subseteq Tasks
    BY DEF BlockersOf
  <2>3. TypeOK'
    <3>1. hops[r] + 1 \in 0..MaxHops
      BY <2>1, BoundAssumption DEF TypeOK
    <3> QED BY <2>1, <2>2, <3>1 DEF TypeOK
  <2>4. SearchOK(r)'
    <3>1. /\ seen'[r] = seen[r] \cup B /\ frontier'[r] = B \ seen[r] /\ hops'[r] = hops[r] + 1
          /\ seen[r] \subseteq Tasks
      BY <2>1 DEF TypeOK
    <3>2. SearchOK(r)
      BY <2>1 DEF SearchInv
    <3>4. r \notin stale' => BlockersOf(seen[r] \ frontier[r])' \subseteq seen'[r]
      <4>1. r \notin stale => BlockersOf(seen[r] \ frontier[r]) \subseteq seen[r]
        BY <3>2 DEF SearchOK
      <4>2. seen'[r] \ frontier'[r] \subseteq (seen[r] \ frontier[r]) \cup frontier[r]
        BY <3>1
      <4>3. BlockersOf(seen[r] \ frontier[r])' \subseteq BlockersOf(seen[r] \ frontier[r]) \cup B
        BY <4>2, <2>1 DEF BlockersOf
      <4> QED BY <4>1, <4>3, <3>1, <2>1
    <3> QED BY <3>1, <3>2, <3>4, <2>1, <1>2 DEF SearchOK
  <2>5. ASSUME NEW q \in Requests, q # r, pc'[q] = "searching" PROVE SearchOK(q)'
    BY <2>1, <2>5 DEF TypeOK, SearchInv, SearchOK, BlockersOf
  <2>6. SearchInv'
    BY <2>4, <2>5 DEF SearchInv
  <2>7. NestInv' /\ FreshInv' /\ NoDeadlock' /\ TwoLevels'
    BY <2>1 DEF history, NestInv, NestOK, SubtasksOf, FreshInv, NoDeadlock, TwoLevels
  <2> QED BY <2>3, <2>6, <2>7
<1> QED BY <1>1, <1>2

LEMMA BlockStepSafe ==
  ASSUME IInv, calls' \in 0..MaxCalls, NEW r \in Requests, Block(r)
  PROVE  IInv'
<1>1. CASE ~ ({subject[r], object[r]} \subseteq exists)
  BY <1>1, RefuseSafe DEF Block
<1>2. CASE {subject[r], object[r]} \subseteq exists
  <2> USE DEF IInv
  <2>1. /\ pc[r] = "searching" /\ deps' = deps \cup {<<object[r], subject[r]>>}
        /\ unchecked' \subseteq unchecked \cup {<<object[r], subject[r]>>}
        /\ stale' = (stale \cup Passed(subject[r], object[r])) \ {r}
        /\ Finish(r) /\ UNCHANGED <<used, exists, parent, misplaced>>
    BY <1>2 DEF Block
  <2>2. TypeOK'
    <3>1. deps' \subseteq exists \X exists /\ unchecked' \subseteq deps' /\ stale' \subseteq Requests
      BY <2>1, <1>2 DEF TypeOK, Passed, Block
    <3> QED BY <2>1, <3>1, FinishTyped DEF TypeOK
  <2>3. SearchInv'
    <3> SUFFICES ASSUME NEW q \in Requests, pc'[q] = "searching" PROVE SearchOK(q)'
      BY DEF SearchInv
    <3>1. /\ q # r /\ SearchOK(q) /\ pc[q] = "searching" /\ subject'[q] = subject[q] /\ object'[q] = object[q]
          /\ seen'[q] = seen[q] /\ frontier'[q] = frontier[q]
      BY <2>1 DEF SearchInv, TypeOK, Finish
    <3>2. ASSUME q \notin stale' PROVE BlockersOf(seen[q] \ frontier[q])' \subseteq seen[q]
      <4>1. q \notin stale /\ q \notin Passed(subject[r], object[r])
        BY <2>1, <3>1, <3>2
      <4>2. BlockersOf(seen[q] \ frontier[q]) \subseteq seen[q]
        BY <3>1, <4>1 DEF SearchOK
      <4>3. subject[r] \in seen[q] \ frontier[q] => object[r] \in seen[q]
        BY <3>1, <4>1 DEF Passed
      <4> QED BY <2>1, <3>1, <4>2, <4>3 DEF BlockersOf
    <3> QED BY <3>1, <3>2 DEF SearchOK
  <2>4. NestInv' /\ FreshInv'
    BY <2>1 DEF NestInv, NestOK, FreshInv, Nesting, SubtasksOf, TypeOK, Finish
  <2>5. TwoLevels'
    BY <2>1 DEF TwoLevels
  <2>6. NoDeadlock'
    BY BlockSafe
  <2> QED BY <2>2, <2>3, <2>4, <2>5, <2>6
<1> QED BY <1>1, <1>2

LEMMA StartNestSafe ==
  ASSUME IInv, calls' \in 0..MaxCalls, NEW r \in Requests, NEW c \in Tasks, NEW p \in Tasks, StartNest(r, c, p)
  PROVE  IInv'
<1> USE DEF IInv, StartNest, checkVars, history
<1>1. TypeOK'
  BY DEF TypeOK
<1>2. SearchInv'
  BY DEF SearchInv, SearchOK, TypeOK, BlockersOf
<1>3. NestInv'
  BY DEF NestInv, NestOK, Nesting, SubtasksOf, TypeOK
<1>4. FreshInv'
  BY DEF FreshInv, TypeOK
<1>5. NoDeadlock' /\ TwoLevels'
  BY DEF NoDeadlock, TwoLevels
<1> QED BY <1>1, <1>2, <1>3, <1>4, <1>5

LEMMA CountSubtasksSafe ==
  ASSUME IInv, calls' \in 0..MaxCalls, NEW r \in Requests, CountSubtasks(r)
  PROVE  IInv'
<1>1. CASE SubtasksOf(subject[r]) # {}
  BY <1>1, RefuseSafe DEF CountSubtasks
<1>2. CASE SubtasksOf(subject[r]) = {}
  <2> USE DEF IInv, CountSubtasks, checkVars, history
  <2>1. TypeOK'
    BY <1>2 DEF TypeOK
  <2>2. SearchInv'
    BY <1>2 DEF SearchInv, SearchOK, BlockersOf, TypeOK
  <2>3. NestInv'
    BY <1>2 DEF NestInv, NestOK, Nesting, SubtasksOf, TypeOK
  <2>4. FreshInv'
    BY <1>2 DEF FreshInv, TypeOK
  <2>5. NoDeadlock' /\ TwoLevels'
    BY <1>2 DEF NoDeadlock, TwoLevels
  <2> QED BY <2>1, <2>2, <2>3, <2>4, <2>5
<1> QED BY <1>1, <1>2

LEMMA StartSpawnSafe ==
  ASSUME IInv, calls' \in 0..MaxCalls, NEW r \in Requests, NEW t \in Tasks, NEW n \in Tasks, StartSpawn(r, t, n)
  PROVE  IInv'
<1> USE DEF IInv, StartSpawn, checkVars, history
<1>1. TypeOK'
  BY DEF TypeOK
<1>2. SearchInv'
  BY DEF SearchInv, SearchOK, TypeOK, BlockersOf
<1>3. NestInv'
  BY DEF NestInv, NestOK, Nesting, SubtasksOf, TypeOK, TwoLevels
<1>4. FreshInv'
  BY DEF FreshInv, TypeOK
<1>5. NoDeadlock' /\ TwoLevels'
  BY DEF NoDeadlock, TwoLevels
<1> QED BY <1>1, <1>2, <1>3, <1>4, <1>5

LEMMA PlaceSafe ==
  ASSUME IInv, calls' \in 0..MaxCalls, NEW r \in Requests, Place(r)
  PROVE  IInv'
<1> DEFINE lands == object[r] \in exists /\ (pc[r] = "placing" => subject[r] \in exists)
<1>1. CASE ~ lands
  BY <1>1, RefuseSafe DEF Place
<1>2. CASE lands
  <2> USE DEF IInv
  <2>1. /\ exists' = exists \cup {subject[r]}
        /\ parent' = [parent EXCEPT ![subject[r]] = object[r]]
        /\ misplaced' = IF r \in stale THEN misplaced \cup {subject[r]} ELSE misplaced \ {subject[r]}
        /\ stale' = (stale \cup Relied(subject[r], object[r])) \ {r}
        /\ Finish(r) /\ UNCHANGED <<used, deps, unchecked>>
        /\ pc[r] \in Nesting \ {"counting"}
    BY <1>2 DEF Place, Nesting
  <2>2. subject[r] \in used /\ object[r] \in used /\ subject[r] # object[r] /\ subject[r] # None
    BY <2>1, NoneNotTask DEF NestInv, NestOK, TypeOK
  <2>3. TypeOK'
    <3>1. /\ exists' \subseteq used' /\ used' \subseteq Tasks
          /\ deps' \subseteq exists' \X exists'
          /\ parent' \in [Tasks -> exists' \cup {None}]
          /\ stale' \subseteq Requests
      BY <2>1, <2>2, <1>2 DEF TypeOK, Relied
    <3>3. \A t \in misplaced' : t \in Tasks /\ parent'[t] # None
      BY <2>1, <2>2, NoneNotTask DEF TypeOK
    <3>2. \A t \in Tasks : parent'[t] # None => t \in exists'
      BY <2>1, <2>2 DEF TypeOK
    <3> QED BY <3>1, <3>2, <3>3, <2>1, FinishTyped DEF TypeOK
  <2>4. SearchInv'
    BY <2>1 DEF SearchInv, SearchOK, TypeOK, BlockersOf, Finish, Nesting, Relied
  <2>5. NestInv'
    <3> SUFFICES ASSUME NEW q \in Requests, pc'[q] \in Nesting PROVE NestOK(q)'
      BY DEF NestInv
    <3>1. /\ q # r /\ NestOK(q) /\ pc'[q] = pc[q] /\ subject'[q] = subject[q] /\ object'[q] = object[q]
      BY <2>1 DEF NestInv, Nesting, TypeOK, Finish
    <3>2. ASSUME q \notin stale'
          PROVE  /\ q \notin stale /\ object[q] # subject[r]
                 /\ pc[q] = "placing" => subject[q] # object[r]
      BY <2>1, <3>1, <3>2 DEF Relied, Nesting
    <3>3. q \notin stale' => parent'[object[q]] = None
      BY <2>1, <2>2, <3>1, <3>2 DEF NestOK, TypeOK
    <3>4. pc[q] = "placing" /\ q \notin stale' => SubtasksOf(subject[q])' = {}
      BY <2>1, <2>2, <3>1, <3>2 DEF NestOK, TypeOK, SubtasksOf
    <3> QED BY <2>1, <3>1, <3>3, <3>4 DEF NestOK, SubtasksOf
  <2>6. FreshInv'
    BY <2>1, <1>2 DEF FreshInv, TypeOK, Finish, Nesting
  <2>7. NoDeadlock'
    BY <2>1 DEF NoDeadlock
  <2>8. TwoLevels'
    <3> SUFFICES ASSUME NEW t \in Tasks, parent'[t] # None, {t, parent'[t]} \cap misplaced' = {}
                 PROVE  parent'[parent'[t]] = None
      BY DEF TwoLevels
    <3>1. CASE t = subject[r]
      <4>1. r \notin stale /\ parent'[t] = object[r] /\ parent'[object[r]] = parent[object[r]]
        BY <3>1, <2>1, <2>2 DEF TypeOK
      <4> QED BY <4>1, <2>1 DEF NestInv, NestOK
    <3>2. CASE t # subject[r] /\ parent[t] = subject[r]
      <4>1. parent'[t] = subject[r] /\ r \notin stale /\ t \in SubtasksOf(subject[r])
        BY <3>2, <2>1, <2>2 DEF TypeOK, SubtasksOf
      <4>2. pc[r] = "creating"
        BY <4>1, <2>1 DEF NestInv, NestOK, Nesting
      <4> QED BY <3>2, <4>2, <2>2 DEF FreshInv, TypeOK
    <3>3. CASE t # subject[r] /\ parent[t] # subject[r]
      <4>1. parent'[t] = parent[t] /\ parent'[parent[t]] = parent[parent[t]] /\ parent[t] \in Tasks
        BY <3>3, <2>1 DEF TypeOK
      <4> QED BY <3>3, <4>1, <2>1 DEF TwoLevels
    <3> QED BY <3>1, <3>2, <3>3
  <2> QED BY <2>3, <2>4, <2>5, <2>6, <2>7, <2>8
<1> QED BY <1>1, <1>2

-----------------------------------------------------------------------------
(* The steps that are one query.                                             *)

LEMMA CreateSafe ==
  ASSUME IInv, calls' \in 0..MaxCalls, NEW t \in Tasks, Create(t)
  PROVE  IInv'
<1> USE DEF IInv, Create, checkVars, history
<1>1. TypeOK'
  BY DEF TypeOK
<1>2. SearchInv' /\ NestInv'
  BY DEF SearchInv, SearchOK, NestInv, NestOK, SubtasksOf, BlockersOf, checkVars, history
<1>3. FreshInv'
  BY DEF FreshInv
<1>4. NoDeadlock' /\ TwoLevels'
  BY DEF NoDeadlock, TwoLevels
<1> QED BY <1>1, <1>2, <1>3, <1>4

LEMMA UnblockSafe ==
  ASSUME IInv, calls' \in 0..MaxCalls, NEW b \in Tasks, NEW t \in Tasks, Unblock(b, t)
  PROVE  IInv'
<1> USE DEF IInv, Unblock, checkVars, history
<1>1. TypeOK'
  BY DEF TypeOK
<1>2. SearchInv' /\ NoDeadlock'
  BY FewerEdges
<1>3. NestInv' /\ FreshInv' /\ TwoLevels'
  BY DEF NestInv, NestOK, SubtasksOf, FreshInv, TwoLevels
<1> QED BY <1>1, <1>2, <1>3

\* Clearing parents, of whatever tasks, adds no level.
LEMMA FewerParents ==
  ASSUME TypeOK, NestInv, TwoLevels,
         \A t \in Tasks : parent'[t] = None \/ (parent'[t] = parent[t] /\ (t \in misplaced => t \in misplaced')),
         UNCHANGED <<used, pc, subject, object, stale>>
  PROVE  NestInv' /\ TwoLevels'
<1>1. TwoLevels'
  BY DEF TwoLevels, TypeOK
<1>2. ASSUME NEW t \in Tasks PROVE SubtasksOf(t)' \subseteq SubtasksOf(t)
  BY NoneNotTask, <1>2 DEF SubtasksOf
<1>3. NestInv'
  BY <1>2 DEF NestInv, NestOK, TypeOK
<1> QED BY <1>1, <1>3

LEMMA UnnestSafe ==
  ASSUME IInv, calls' \in 0..MaxCalls, NEW t \in Tasks, Unnest(t)
  PROVE  IInv'
<1> USE DEF IInv, Unnest, checkVars, history
<1>1. TypeOK'
  BY DEF TypeOK
<1>2. NestInv' /\ TwoLevels'
  <2>1. \A u \in Tasks : parent'[u] = None \/ (parent'[u] = parent[u] /\ (u \in misplaced => u \in misplaced'))
    BY DEF TypeOK
  <2> QED BY <2>1, FewerParents
<1>3. SearchInv' /\ FreshInv' /\ NoDeadlock'
  BY DEF SearchInv, SearchOK, BlockersOf, FreshInv, NoDeadlock
<1> QED BY <1>1, <1>2, <1>3

LEMMA DeleteSafe ==
  ASSUME IInv, calls' \in 0..MaxCalls, NEW t \in Tasks, Delete(t)
  PROVE  IInv'
<1> USE DEF IInv, checkVars, history
<1> DEFINE D == Doomed(t)
<1>1. D \subseteq Tasks /\ \A v \in Tasks : parent[v] \in D => v \in D
  BY DoomedClosed
<1>2. /\ exists' = exists \ D
      /\ parent' = [u \in Tasks |-> IF u \in D THEN None ELSE parent[u]]
      /\ deps' = {e \in deps : e[1] \notin D /\ e[2] \notin D}
      /\ unchecked' = unchecked \cap deps' /\ misplaced' = misplaced \ D
      /\ UNCHANGED <<used, pc, subject, object, checkVars, stale>>
  BY DEF Delete
<1> HIDE DEF D
<1>3. TypeOK'
  <2>1. deps' \subseteq exists' \X exists'
    BY <1>2 DEF TypeOK
  <2>2. parent' \in [Tasks -> exists' \cup {None}]
    BY <1>1, <1>2 DEF TypeOK
  <2>3. \A u \in Tasks : parent'[u] # None => u \in exists'
    BY <1>2 DEF TypeOK
  <2> QED BY <2>1, <2>2, <2>3, <1>2 DEF TypeOK
<1>4. NestInv' /\ TwoLevels'
  BY <1>2, FewerParents
<1>5. SearchInv' /\ NoDeadlock'
  BY <1>2, FewerEdges
<1>6. FreshInv'
  BY <1>2 DEF FreshInv
<1> QED BY <1>3, <1>4, <1>5, <1>6

-----------------------------------------------------------------------------
LEMMA StutterSafe == IInv /\ UNCHANGED vars => IInv'
<1> SUFFICES ASSUME IInv, UNCHANGED vars PROVE IInv'
  OBVIOUS
<1> USE DEF IInv, vars, checkVars, history
<1>1. TypeOK'
  BY DEF TypeOK
<1>2. SearchInv' /\ NestInv' /\ FreshInv'
  BY DEF SearchInv, SearchOK, BlockersOf, NestInv, NestOK, SubtasksOf, FreshInv
<1>3. NoDeadlock' /\ TwoLevels'
  BY DEF NoDeadlock, TwoLevels
<1> QED BY <1>1, <1>2, <1>3

\* Every step keeps the invariant.
LEMMA StepInv == IInv /\ [Next]_vars => IInv'
<1> SUFFICES ASSUME IInv, [Next]_vars PROVE IInv'
  OBVIOUS
<1>1. calls \in 0..MaxCalls
  BY DEF IInv, TypeOK
<1>2. ASSUME NEW r \in Requests, Start(r) PROVE IInv'
  <2>1. calls' \in 0..MaxCalls
    BY <1>1, <1>2, BoundAssumption DEF Start
  <2> QED BY <1>2, <2>1, StartBlockSafe, StartNestSafe, StartSpawnSafe DEF Start
<1>3. ASSUME NEW r \in Requests, Step(r), UNCHANGED calls PROVE IInv'
  BY <1>1, <1>3, HopSafe, BlockStepSafe, CountSubtasksSafe, PlaceSafe DEF Step
<1>4. ASSUME Write, UNCHANGED calls PROVE IInv'
  BY <1>1, <1>4, CreateSafe, UnnestSafe, DeleteSafe, UnblockSafe DEF Write
<1> QED BY <1>2, <1>3, <1>4, StutterSafe DEF Next

LEMMA Invariance == Spec => []IInv
  BY InitInv, StepInv, PTL DEF Spec

\* "The graph must stay acyclic": whatever requests overlap, whatever is deleted
\* or removed while a check walks the graph, every cycle goes through a dependency
\* whose check was cut at its last hop or had passed where another was added.
THEOREM NoDeadlockedTasks == Spec => []NoDeadlock
<1>1. IInv => NoDeadlock
  BY DEF IInv
<1> QED BY Invariance, <1>1, PTL

\* "Two levels only", though each writer of a parent checks something else: a third
\* level has a task placed after another placing overtook its check, or its copy.
THEOREM SubtasksHaveNoSubtasks == Spec => []TwoLevels
<1>1. IInv => TwoLevels
  BY DEF IInv
<1> QED BY Invariance, <1>1, PTL

\* Type correctness, and that no edge and no parent outlives its task.
THEOREM TypeCorrect == Spec => []TypeOK
<1>1. IInv => TypeOK
  BY DEF IInv
<1> QED BY Invariance, <1>1, PTL

-----------------------------------------------------------------------------
(* The limit of hops: it cuts no check of as many tasks as it has hops.      *)

\* Each hop of a search that goes on has seen a task more.
HopsInv == \A r \in Requests : pc[r] = "searching" /\ frontier[r] # {} => hops[r] < Cardinality(seen[r])

\* Sets of tasks are finite, and a larger one has more members.
LEMMA SeenGrows ==
  ASSUME IsFiniteSet(Tasks), NEW S \in SUBSET Tasks
  PROVE  /\ Cardinality(S) \in Nat /\ Cardinality(S) <= Cardinality(Tasks) /\ Cardinality(Tasks) \in Nat
         /\ \A T \in SUBSET S : T # S => Cardinality(T) < Cardinality(S)
<1>1. IsFiniteSet(S) /\ Cardinality(S) <= Cardinality(Tasks)
  BY FS_Subset
<1>2. Cardinality(S) \in Nat /\ Cardinality(Tasks) \in Nat
  BY <1>1, FS_CardinalityType
<1>3. ASSUME NEW T \in SUBSET S, T # S PROVE Cardinality(T) < Cardinality(S)
  <2>1. /\ IsFiniteSet(T) /\ Cardinality(T) <= Cardinality(S)
        /\ Cardinality(S) = Cardinality(T) => S = T
    BY <1>1, FS_Subset
  <2>2. Cardinality(T) \in Nat
    BY <2>1, FS_CardinalityType
  <2> QED BY <2>1, <2>2, <1>2, <1>3
<1> QED BY <1>1, <1>2, <1>3

\* A search starts with one task seen and none behind it.
LEMMA StartBlockHops ==
  ASSUME TypeOK, HopsInv, NEW r \in Requests, NEW t \in Tasks, NEW b \in Tasks, StartBlock(r, t, b)
  PROVE  HopsInv'
<1>1. seen' = [seen EXCEPT ![r] = {b}] /\ hops' = [hops EXCEPT ![r] = 0]
      /\ frontier' = [frontier EXCEPT ![r] = {b}] /\ pc' = [pc EXCEPT ![r] = "searching"]
  BY DEF StartBlock
<1>2. Cardinality({b}) = 1
  BY FS_Singleton
<1>3. seen'[r] = {b} /\ hops'[r] = 0
  BY <1>1 DEF TypeOK
<1>4. Cardinality(seen'[r]) = 1
  BY <1>2, <1>3, Zenon
<1>5. hops'[r] < Cardinality(seen'[r])
  BY <1>3, <1>4
<1>6. ASSUME NEW q \in Requests, q # r, pc'[q] = "searching", frontier'[q] # {}
      PROVE  hops'[q] < Cardinality(seen'[q])
  <2>1. seen'[q] = seen[q] /\ hops'[q] = hops[q] /\ frontier'[q] = frontier[q] /\ pc'[q] = pc[q]
    BY <1>1, <1>6 DEF TypeOK
  <2>2. hops[q] < Cardinality(seen[q])
    BY <1>6, <2>1 DEF HopsInv
  <2> QED BY <2>1, <2>2
<1> QED BY <1>5, <1>6 DEF HopsInv

\* A hop that leaves something to look at has seen it for the first time.
LEMMA HopHops ==
  ASSUME IsFiniteSet(Tasks), IInv, HopsInv, NEW r \in Requests, Hop(r),
         subject[r] \notin BlockersOf(frontier[r])
  PROVE  HopsInv'
<1> DEFINE B == BlockersOf(frontier[r])
<1>1. /\ pc[r] = "searching" /\ frontier[r] # {} /\ pc' = pc
      /\ seen'[r] = seen[r] \cup B /\ frontier'[r] = B \ seen[r] /\ hops'[r] = hops[r] + 1
      /\ seen[r] \subseteq Tasks /\ hops[r] \in Nat
      /\ \A q \in Requests \ {r} : seen'[q] = seen[q] /\ frontier'[q] = frontier[q] /\ hops'[q] = hops[q]
  BY DEF Hop, IInv, TypeOK
<1>2. B \subseteq Tasks
  BY DEF BlockersOf
<1>3. ASSUME frontier'[r] # {} PROVE hops'[r] < Cardinality(seen'[r])
  <2>1. seen[r] \in SUBSET seen'[r] /\ seen[r] # seen'[r] /\ seen'[r] \in SUBSET Tasks
    BY <1>1, <1>2, <1>3
  <2>2. Cardinality(seen[r]) < Cardinality(seen'[r]) /\ Cardinality(seen'[r]) \in Nat
    BY <2>1, SeenGrows
  <2>3. Cardinality(seen[r]) \in Nat
    BY <1>1, SeenGrows
  <2>4. hops[r] < Cardinality(seen[r])
    BY <1>1 DEF HopsInv
  <2> QED BY <1>1, <2>2, <2>3, <2>4
<1>4. ASSUME NEW q \in Requests \ {r}, pc'[q] = "searching", frontier'[q] # {}
      PROVE  hops'[q] < Cardinality(seen'[q])
  <2>1. hops[q] < Cardinality(seen[q])
    BY <1>1, <1>4 DEF HopsInv
  <2> QED BY <1>1, <2>1
<1> QED BY <1>3, <1>4 DEF HopsInv

\* A step after which no search is new and the others have not moved.
LEMMA QuietHops ==
  ASSUME HopsInv,
         \A q \in Requests : pc'[q] = "searching" =>
           pc[q] = "searching" /\ seen'[q] = seen[q] /\ frontier'[q] = frontier[q] /\ hops'[q] = hops[q]
  PROVE  HopsInv'
<1> SUFFICES ASSUME NEW q \in Requests, pc'[q] = "searching", frontier'[q] # {}
             PROVE  hops'[q] < Cardinality(seen'[q])
  BY DEF HopsInv
<1>1. pc[q] = "searching" /\ seen'[q] = seen[q] /\ frontier'[q] = frontier[q] /\ hops'[q] = hops[q]
  OBVIOUS
<1>2. hops[q] < Cardinality(seen[q])
  BY <1>1 DEF HopsInv
<1> QED BY <1>1, <1>2

LEMMA HopsStep ==
  ASSUME IsFiniteSet(Tasks)
  PROVE  IInv /\ HopsInv /\ [Next]_vars => HopsInv'
<1> SUFFICES ASSUME IInv, HopsInv, [Next]_vars PROVE HopsInv'
  OBVIOUS
<1> DEFINE quiet == \A q \in Requests : pc'[q] = "searching" =>
             pc[q] = "searching" /\ seen'[q] = seen[q] /\ frontier'[q] = frontier[q] /\ hops'[q] = hops[q]
<1>0. TypeOK
  BY DEF IInv
<1>1. ASSUME NEW r \in Requests, Finish(r) PROVE quiet
  BY <1>0, <1>1 DEF Finish, TypeOK
<1>2. ASSUME UNCHANGED <<pc, checkVars>> PROVE quiet
  BY <1>2 DEF checkVars
<1>3. ASSUME NEW r \in Requests, Start(r) PROVE HopsInv'
  <2>1. ASSUME NEW t \in Tasks, NEW u \in Tasks, StartNest(r, t, u) \/ StartSpawn(r, t, u) PROVE quiet
    BY <1>0, <2>1 DEF StartNest, StartSpawn, TypeOK, checkVars
  <2> QED BY <1>0, <1>3, <2>1, StartBlockHops, QuietHops DEF Start
<1>4. ASSUME NEW r \in Requests, Step(r) PROVE HopsInv'
  <2>1. CASE Hop(r) /\ subject[r] \notin BlockersOf(frontier[r])
    BY <2>1, HopHops
  <2>2. CASE Hop(r) /\ subject[r] \in BlockersOf(frontier[r])
    <3>1. Finish(r)
      BY <2>2 DEF Hop, Refuse
    <3> QED BY <1>1, <3>1, QuietHops
  <2>3. CASE Block(r) \/ Place(r)
    <3>1. Finish(r)
      BY <2>3 DEF Block, Place, Refuse
    <3> QED BY <1>1, <3>1, QuietHops
  <2>4. CASE CountSubtasks(r)
    <3>1. quiet
      BY <1>0, <1>1, <2>4 DEF CountSubtasks, Refuse, checkVars, TypeOK
    <3> QED BY <3>1, QuietHops
  <2> QED BY <1>4, <2>1, <2>2, <2>3, <2>4 DEF Step
<1>5. CASE Write
  <2>1. UNCHANGED <<pc, checkVars>>
    BY <1>5 DEF Write, Create, Unnest, Delete, Unblock
  <2> QED BY <1>2, <2>1, QuietHops
<1>6. CASE UNCHANGED vars
  BY <1>2, <1>6, QuietHops DEF vars
<1> QED BY <1>3, <1>4, <1>5, <1>6 DEF Next

\* An owner of no more tasks than the check has hops (50) has none of his checks
\* cut: each that adds a dependency has looked at everything it reached.
THEOREM ChecksComplete ==
  ASSUME IsFiniteSet(Tasks), Cardinality(Tasks) <= MaxHops
  PROVE  Spec => [][\A r \in Requests : Block(r) => frontier[r] = {}]_vars
<1>1. Init => HopsInv
  BY DEF Init, HopsInv
<1>2. IInv /\ HopsInv /\ [Next]_vars => HopsInv'
  BY HopsStep
<1>3. IInv /\ HopsInv => \A r \in Requests : Block(r) => frontier[r] = {}
  <2> SUFFICES ASSUME IInv, HopsInv, NEW r \in Requests, Block(r), frontier[r] # {} PROVE FALSE
    OBVIOUS
  <2>1. pc[r] = "searching" /\ hops[r] >= MaxHops /\ seen[r] \in SUBSET Tasks /\ hops[r] \in Nat
    BY DEF Block, IInv, TypeOK
  <2>2. hops[r] < Cardinality(seen[r])
    BY <2>1 DEF HopsInv
  <2>3. Cardinality(seen[r]) \in Nat /\ Cardinality(seen[r]) <= Cardinality(Tasks) /\ Cardinality(Tasks) \in Nat
    BY <2>1, SeenGrows
  <2> QED BY <2>1, <2>2, <2>3, BoundAssumption
<1> QED BY Invariance, <1>1, <1>2, <1>3, PTL DEF Spec
=============================================================================
