------------------------- MODULE CalendarPushProofs -------------------------
(***************************************************************************)
(* Proofs about CalendarPush for any rows, events, requests, edits and     *)
(* faults: while nothing is done to an event that is being pushed, an      *)
(* edit Google has not had is marked, shown, and spared by every pull.     *)
(***************************************************************************)
EXTENDS CalendarPush, TLAPS

Calm == ~Overlap

\* The push of q may carry the owner's last save of its row.
Carries(q) == act[q] \in {"create", "update"}

\* One push at a row, and none at a row the sweep still has on its list.
Exclusive ==
  /\ \A p, q \in Pushers :
       pc[p] # "idle" /\ pc[q] # "idle" /\ at[p] = at[q] => p = q
  /\ \A q \in Pushers : pc[q] # "idle" => at[q] \in Rows /\ at[q] \notin queue
  /\ phase # "sweep" => pc[Sweeper] = "idle" /\ queue = {}

\* A request's row is not one the sweep would pick.
RequestsYoung ==
  \A s \in Savers : pc[s] # "idle" /\ at[s] \in pending => at[s] \in young

Edits == \A r \in Rows : owed[r] # 0 =>
           r \in rows /\ r \in pending /\ local[r] = Both(owed[r])

\* What a push still holds of its row is the owner's last save, until Google has it.
Faithful ==
  /\ \A q \in Pushers :
       /\ pc[q] = "read" /\ Carries(q) => owed[at[q]] \in {0, extras[q]}
       /\ pc[q] = "call" /\ Carries(q) =>
            owed[at[q]] = 0 \/ body[q] = Both(owed[at[q]])
       /\ pc[q] \in {"back", "settle"} => owed[at[q]] = 0
       /\ pc[q] # "idle" /\ act[q] = "respond" => owed[at[q]] = 0
       /\ pc[q] = "get" => act[q] = "respond"
  /\ \A r \in queue : owed[r] \in {0, snapshot[r].guests}

Inv == TypeOK /\ Exclusive /\ RequestsYoung /\ Edits /\ Faithful

Rest == Exclusive /\ RequestsYoung /\ Edits /\ Faithful

\* Initially there are no rows, no events and no pushes.
LEMMA InitInv == Init => Inv
  <1> SUFFICES ASSUME Init PROVE Inv
    OBVIOUS
  <1>1. TypeOK
    BY VersionAssumption, FaultsAssumption DEF Init, TypeOK, Content, Both, Pushers
  <1>2. Exclusive /\ RequestsYoung /\ Edits /\ Faithful
    BY DEF Init, Exclusive, RequestsYoung, Edits, Faithful, Pushers
  <1>3. QED
    BY <1>1, <1>2 DEF Inv

\* The content of one save is a content, and an edit keeps a content one.
LEMMA ContentFacts ==
  /\ 0 \in 0 .. MaxVersion
  /\ \A v \in 0 .. MaxVersion : Both(v) \in Content
  /\ \A c \in Content : c.title \in 0 .. MaxVersion /\ c.guests \in 0 .. MaxVersion
  /\ \A t, v \in 0 .. MaxVersion : [title |-> t, guests |-> v] \in Content
  /\ \A c \in Content, v \in 0 .. MaxVersion : [c EXCEPT !.guests = v] \in Content
  BY VersionAssumption DEF Content, Both

\* The locals of a push that starts, goes on or ends keep their types.
LEMMA OwnerTypes ==
  ASSUME TypeOK, NEW s \in Savers, Owner(s) PROVE TypeOK'
  <1> USE DEF TypeOK, rowVars, googleVars, pushVars, sweepVars, syncVars,
          Pushers
  <1>1. ASSUME NEW r \in Rows, NEW what \in {"create", "update"},
               SaveRow(s, r, what, pending \cup {r})
        PROVE  TypeOK'
    <2>1. version' \in 0 .. MaxVersion
      BY <1>1, VersionAssumption DEF SaveRow, NextVersion
    <2>2. QED
      BY <1>1, <2>1, ContentFacts DEF SaveRow, Enter
  <1>2. ASSUME NEW r \in Rows, Delete(s, r) PROVE TypeOK'
    BY <1>2, ContentFacts DEF Delete, Enter
  <1>3. ASSUME NEW r \in Rows, Respond(s, r) PROVE TypeOK'
    BY <1>3, ContentFacts DEF Respond, Enter
  <1>4. QED
    BY <1>1, <1>2, <1>3 DEF Owner, Create, Update

PushersOK ==
  /\ pc \in [Pushers -> {"idle", "read", "get", "call", "back", "settle", "remove"}]
  /\ at \in [Pushers -> Rows \cup {None}]
  /\ act \in [Pushers -> {"create", "update", "delete", "respond"}]
  /\ extras \in [Pushers -> 0 .. MaxVersion]
  /\ target \in [Pushers -> Events \cup {None}]
  /\ body \in [Pushers -> Content]

\* A push that ends resets its locals to values of their types.
LEMMA LeaveTypes ==
  ASSUME PushersOK, NEW q \in Pushers, Leave(q) PROVE PushersOK'
  BY ContentFacts DEF PushersOK, Leave

\* The steps of a push keep the types.
LEMMA PushTypes ==
  ASSUME TypeOK, Exclusive,
         NEW q \in Pushers, Push(q) \/ PushFails(q) \/ AnswerLost(q)
  PROVE  TypeOK'
  <1>0. /\ PushersOK /\ (Leave(q) => PushersOK')
        /\ pc[q] # "idle" => at[q] \in Rows
    BY LeaveTypes DEF TypeOK, PushersOK, Exclusive
  <1> USE ContentFacts, FaultsAssumption
      DEF TypeOK, PushersOK, rowVars, googleVars, pushVars, sweepVars, syncVars,
          Changed, Fault
  <1>1. CASE ReadRow(q)
    <2>1. PushersOK'
      <3>1. at[q] \in Rows
        BY <1>0, <1>1 DEF ReadRow
      <3>2. [title |-> local[at[q]].title, guests |-> extras[q]] \in Content
        BY <3>1
      <3>3. \/ Leave(q)
            \/ /\ \E c \in {"remove", "call"} : pc' = [pc EXCEPT ![q] = c]
               /\ target' = [target EXCEPT ![q] = gid[at[q]]]
               /\ body' = [body EXCEPT ![q] =
                            [title |-> local[at[q]].title, guests |-> extras[q]]]
               /\ UNCHANGED <<at, act, extras>>
        BY <1>1 DEF ReadRow
      <3>4. CASE Leave(q)
        BY <1>0, <3>4
      <3>5. CASE ~Leave(q)
        <4>1. gid[at[q]] \in Events \cup {None}
          BY <3>1
        <4>2. pc' \in [Pushers -> {"idle", "read", "get", "call", "back",
                                   "settle", "remove"}]
          BY <3>3, <3>5
        <4>3. target' \in [Pushers -> Events \cup {None}]
          BY <3>3, <3>5, <4>1
        <4>4. \E c \in Content : body' = [body EXCEPT ![q] = c]
          BY <3>2, <3>3, <3>5
        <4>5. body' \in [Pushers -> Content]
          BY <4>4
        <4>6. QED
          BY <3>3, <3>5, <4>2, <4>3, <4>5
      <3>6. QED
        BY <3>4, <3>5
    <2>2. QED
      BY <1>1, <2>1 DEF ReadRow
  <1>2. CASE GetInvitation(q)
    BY <1>2 DEF GetInvitation
  <1>a. ASSUME NEW g \in Events, Carried(q, g), pc[q] = "call"
        PROVE  /\ live' \subseteq Events /\ dead' \subseteq Events
               /\ copy' \in [Events -> Content]
               /\ since' \subseteq Events /\ fresh' \subseteq Events
               /\ owed' \in [Rows -> 0 .. MaxVersion]
    BY <1>0, <1>a DEF Carried
  <1>3. CASE GoogleAnswers(q)
    BY <1>3, <1>a DEF GoogleAnswers
  <1>4. CASE NotFound(q)
    <2>1. CASE Leave(q)
      BY <1>0, <1>4, <2>1 DEF NotFound
    <2>2. CASE ~Leave(q)
      BY <1>4, <2>2 DEF NotFound
    <2>3. QED
      BY <2>1, <2>2
  <1>5. CASE OutOfEvents(q)
    BY <1>0, <1>5 DEF OutOfEvents
  <1>6. CASE ReadBack(q)
    <2>1. PushersOK'
      <3>1. \/ Leave(q)
            \/ /\ pc' = [pc EXCEPT ![q] = "settle"]
               /\ UNCHANGED <<at, act, extras, target, body>>
        BY <1>6 DEF ReadBack
      <3>2. QED
        BY <1>0, <3>1
    <2>2. gid' \in [Rows -> Events \cup {None}]
      BY <1>6 DEF ReadBack
    <2>3. local' \in [Rows -> Content]
      <3>1. local' = local \/ local' = [local EXCEPT ![at[q]] =
                                 [local[at[q]] EXCEPT !.guests = body[q].guests]]
        BY <1>6 DEF ReadBack
      <3>2. at[q] \in Rows
        BY <1>0, <1>6 DEF ReadBack
      <3>3. [local[at[q]] EXCEPT !.guests = body[q].guests] \in Content
        BY <3>2
      <3>4. QED
        BY <3>1, <3>2, <3>3
    <2>4. QED
      BY <1>6, <2>1, <2>2, <2>3 DEF ReadBack
  <1>7. CASE Settle(q)
    BY <1>0, <1>7 DEF Settle
  <1>8. CASE RemoveRow(q)
    BY <1>0, <1>8 DEF RemoveRow, Remove
  <1>9. CASE PushFails(q)
    BY <1>0, <1>9 DEF PushFails
  <1>10. CASE AnswerLost(q)
    BY <1>0, <1>10, <1>a DEF AnswerLost
  <1>11. QED
    BY <1>1, <1>2, <1>3, <1>4, <1>5, <1>6, <1>7, <1>8, <1>9, <1>10 DEF Push

\* The steps of the scheduled run, its failure and a crash keep the types.
LEMMA RunTypes == TypeOK /\ (Run \/ RunFails \/ Crash) => TypeOK'
  <1> SUFFICES ASSUME TypeOK, Run \/ RunFails \/ Crash PROVE TypeOK'
    OBVIOUS
  <1> USE ContentFacts, FaultsAssumption
      DEF TypeOK, rowVars, googleVars, pushVars, sweepVars, syncVars,
          RunAt, Fault
  <1>1. CASE StartRun
    BY <1>1 DEF StartRun
  <1>2. CASE FetchToken \/ StoreToken \/ Expire
    BY <1>2 DEF FetchToken, StoreToken, Stored, Expire, Expired
  <1>3. CASE List
    BY <1>3 DEF List
  <1>4. CASE Reconcile
    BY <1>4 DEF Reconcile, Remove
  <1>5. ASSUME NEW r \in Rows, SweepNext(r) PROVE TypeOK'
    BY <1>5 DEF SweepNext, Retry, Enter, Pushers
  <1>6. ASSUME NEW g \in Events, ApplyEvent(g) PROVE TypeOK'
    <2>1. /\ page' \subseteq Events /\ listed' \subseteq page'
          /\ listing' \in [Events -> Content]
      BY <1>6 DEF ApplyEvent, Apply
    <2>2. CASE g \notin listed
      <3>1. Remove({r \in rows : gid[r] = g})
        BY <1>6, <2>2 DEF ApplyEvent, Apply
      <3>2. /\ rows' \subseteq Rows /\ local' \in [Rows -> Content]
            /\ gid' \in [Rows -> Events \cup {None}]
            /\ pending' \subseteq rows' /\ young' \subseteq pending'
            /\ old' \subseteq pending'
            /\ owed' \in [Rows -> 0 .. MaxVersion]
        BY <3>1 DEF Remove
      <3>3. QED
        BY <1>6, <2>1, <3>2 DEF ApplyEvent, Apply
    <2>3. CASE g \in listed
      <3>1. /\ rows' \subseteq Rows /\ rows \subseteq rows'
            /\ gid' \in [Rows -> Events \cup {None}]
            /\ UNCHANGED <<pending, young, old, owed>>
        BY <1>6, <2>3 DEF ApplyEvent, Apply
      <3>2. local' \in [Rows -> Content]
        BY <1>6, <2>3 DEF ApplyEvent, Apply
      <3>3. QED
        BY <1>6, <2>1, <3>1, <3>2 DEF ApplyEvent, Apply
    <2>4. QED
      BY <2>2, <2>3
  <1>7. CASE RunFails \/ Crash
    BY <1>7 DEF RunFails, Crash
  <1>8. QED
    BY <1>1, <1>2, <1>3, <1>4, <1>5, <1>6, <1>7 DEF Run

\* Every step keeps the types.
LEMMA TypeStep == TypeOK /\ Exclusive /\ [Next]_vars => TypeOK'
  <1> SUFFICES ASSUME TypeOK, Exclusive, [Next]_vars PROVE TypeOK'
    OBVIOUS
  <1> USE DEF rowVars, googleVars, pushVars, sweepVars, syncVars
  <1>1. ASSUME NEW r \in Rows, BecomeRipe(r) \/ BecomeOld(r) PROVE TypeOK'
    BY <1>1 DEF TypeOK, BecomeRipe, BecomeOld
  <1>2. ASSUME NEW g \in Events, EditAtGoogle(g) PROVE TypeOK'
    <2>1. version' \in 0 .. MaxVersion
      BY <1>2, VersionAssumption DEF EditAtGoogle, NextVersion, TypeOK
    <2>2. QED
      <3>1. copy' \in [Events -> Content]
        <4>1. Both(version') \in Content /\ Both(0) \in Content
          BY <2>1, ContentFacts
        <4>2. \/ copy' = [copy EXCEPT ![g] = Both(version')]
              \/ copy' = [copy EXCEPT ![g] = Both(0)]
          BY <1>2 DEF EditAtGoogle
        <4>3. QED
          BY <4>1, <4>2 DEF TypeOK
      <3>2. live' \subseteq Events /\ dead' \subseteq Events
        BY <1>2 DEF TypeOK, EditAtGoogle
      <3>3. QED
        BY <1>2, <2>1, <3>1, <3>2 DEF TypeOK, EditAtGoogle, Changed
  <1>3. CASE UNCHANGED vars
    BY <1>3 DEF TypeOK, vars
  <1>4. QED
    BY <1>1, <1>2, <1>3, OwnerTypes, PushTypes, RunTypes DEF Next

-----------------------------------------------------------------------------
\* A step of the pull or of time that touches no row, push or sweep.
LEMMA QuietStep ==
  ASSUME Rest, UNCHANGED <<rows, local, pending, pc, at, act, extras, body, queue,
                           snapshot, owed>>,
         young \subseteq young',
         phase' # "sweep" => pc[Sweeper] = "idle" /\ queue = {}
  PROVE  Rest'
  BY DEF Rest, Exclusive, RequestsYoung, Edits, Faithful, Carries

\* A push that ends, whatever has become of it, gives its row free.
LEMMA LeaveStep ==
  ASSUME TypeOK, Rest, NEW q \in Pushers, pc[q] # "idle", Leave(q),
         UNCHANGED <<phase, queue, snapshot>>,
         \A x \in Rows : x # at[q] =>
           /\ owed'[x] = owed[x] /\ local'[x] = local[x]
           /\ x \in rows => x \in rows'
           /\ x \in pending' <=> x \in pending
           /\ x \in young => x \in young',
         owed'[at[q]] # 0 => /\ at[q] \in rows' /\ at[q] \in pending'
                             /\ local'[at[q]] = Both(owed'[at[q]])
  PROVE  Rest'
  <1>1. /\ pc'[q] = "idle"
        /\ \A p \in Pushers : p # q => /\ pc'[p] = pc[p] /\ at'[p] = at[p]
                                      /\ act'[p] = act[p] /\ extras'[p] = extras[p]
                                      /\ body'[p] = body[p]
    BY DEF Leave, TypeOK
  <1>2. /\ \A p \in Pushers : p # q /\ pc[p] # "idle" =>
             at[p] # at[q] /\ at[p] \in Rows
        /\ at[q] \in Rows /\ at[q] \notin queue
    BY DEF Rest, Exclusive
  <1>3. Exclusive' /\ RequestsYoung'
    BY <1>1, <1>2 DEF Rest, Exclusive, RequestsYoung, Pushers
  <1>4. Edits'
    BY DEF Rest, Edits
  <1>5. Faithful'
    <2>1. \A p \in Pushers : p # q /\ pc[p] # "idle" =>
            pc'[p] = pc[p] /\ owed'[at'[p]] = owed[at[p]]
      BY <1>1, <1>2
    <2>2. \A x \in queue : owed'[x] = owed[x]
      BY <1>2 DEF TypeOK
    <2>3. QED
      BY <1>1, <2>1, <2>2 DEF Rest, Faithful, Carries
  <1>6. QED
    BY <1>3, <1>4, <1>5 DEF Rest

\* A request that starts finds nobody at its row, nor in the sweep's list.
LEMMA EnterStep ==
  ASSUME TypeOK, Rest, NEW s \in Savers, NEW r \in Rows, ~Busy(r),
         NEW where \in {"read", "get", "remove"},
         NEW what \in {"create", "update", "delete", "respond"},
         NEW v, Enter(s, where, r, what, v),
         UNCHANGED <<body, phase, queue, snapshot>>,
         \A x \in Rows : x # r =>
           /\ owed'[x] = owed[x] /\ local'[x] = local[x]
           /\ x \in rows' <=> x \in rows
           /\ x \in pending' <=> x \in pending
           /\ x \in young' <=> x \in young,
         r \in pending' => r \in young',
         owed'[r] # 0 => r \in rows' /\ r \in pending' /\ local'[r] = Both(owed'[r]),
         what = "respond" => owed'[r] = 0, where = "get" => what = "respond",
         where = "read" /\ what # "delete" => owed'[r] \in {0, v}
  PROVE  Rest'
  <1>1. /\ pc[s] = "idle" /\ pc'[s] = where /\ at'[s] = r
        /\ act'[s] = what /\ extras'[s] = v /\ s # Sweeper
        /\ \A p \in Pushers : p # s => /\ pc'[p] = pc[p] /\ at'[p] = at[p]
                                      /\ act'[p] = act[p] /\ extras'[p] = extras[p]
    BY NamesAssumption DEF Enter, TypeOK, Pushers
  <1>2. r \notin queue /\ \A p \in Pushers : pc[p] # "idle" => at[p] # r
    BY DEF Busy
  <1>3. Exclusive'
    BY <1>1, <1>2 DEF Rest, Exclusive, Pushers
  <1>4. RequestsYoung'
    BY <1>1, <1>2 DEF Rest, RequestsYoung, Exclusive, Pushers
  <1>5. Edits'
    BY DEF Rest, Edits
  <1>6. Faithful'
    <2>1. ASSUME NEW q \in Pushers, pc[q] # "idle", q # s
          PROVE  /\ pc'[q] = pc[q] /\ act'[q] = act[q] /\ extras'[q] = extras[q]
                 /\ body'[q] = body[q] /\ at'[q] = at[q]
                 /\ owed'[at'[q]] = owed[at[q]]
      BY <1>1, <1>2, <2>1 DEF Rest, Exclusive
    <2>2. \A x \in queue' : x \in queue /\ x \in Rows /\ owed'[x] = owed[x]
                            /\ snapshot'[x] = snapshot[x]
      BY <1>2 DEF TypeOK
    <2>3. QED
      BY <1>1, <2>1, <2>2 DEF Rest, Faithful, Carries
  <1>7. QED
    BY <1>3, <1>4, <1>5, <1>6 DEF Rest

\* A request of the owner keeps the invariant: what it saves it also marks.
LEMMA OwnerStep ==
  ASSUME Calm, TypeOK, Rest, NEW s \in Savers, Owner(s) PROVE Rest'
  <1> USE DEF Calm, MayTouch, rowVars, sweepVars
  <1>1. ASSUME NEW r \in Rows, NEW what \in {"create", "update"}, ~Busy(r),
               SaveRow(s, r, what, pending \cup {r})
        PROVE  Rest'
    <2>1. /\ Enter(s, "read", r, what, version')
          /\ rows' = rows \cup {r} /\ pending' = pending \cup {r}
          /\ young' = young \cup {r}
          /\ local' = [local EXCEPT ![r] = Both(version')]
          /\ owed' = [owed EXCEPT ![r] = version']
          /\ UNCHANGED <<body, phase, queue, snapshot>>
      BY <1>1 DEF SaveRow
    <2>2. /\ owed'[r] = version' /\ local'[r] = Both(version')
          /\ \A x \in Rows : x # r => owed'[x] = owed[x] /\ local'[x] = local[x]
      BY <2>1 DEF TypeOK
    <2>3. QED
      BY <1>1, <2>1, <2>2, EnterStep
  <1>2. ASSUME NEW r \in Rows, Delete(s, r) PROVE Rest'
    <2>1. /\ ~Busy(r) /\ r \notin pending \ young
          /\ UNCHANGED <<rows, local, pending, young, owed, body, phase, queue, snapshot>>
          /\ \E w \in {"remove", "read"} : Enter(s, w, r, "delete", 0)
      BY <1>2 DEF Delete
    <2>2. QED
      BY <2>1, EnterStep DEF Rest, Edits
  <1>3. ASSUME NEW r \in Rows, Respond(s, r) PROVE Rest'
    <2>1. /\ ~Busy(r) /\ r \notin pending
          /\ UNCHANGED <<rows, local, pending, young, owed, body, phase, queue, snapshot>>
          /\ Enter(s, "get", r, "respond", 0)
      BY <1>3 DEF Respond
    <2>2. QED
      BY <2>1, EnterStep DEF Rest, Edits
  <1>4. QED
    BY <1>1, <1>2, <1>3 DEF Owner, Create, Update, NewRow, Unborn

-----------------------------------------------------------------------------
\* A push that goes on keeps its row to itself.
LEMMA MoveStep ==
  ASSUME TypeOK, Rest, NEW q \in Pushers, pc[q] # "idle",
         NEW to \in {"call", "back", "settle", "remove"},
         pc' = [pc EXCEPT ![q] = to],
         UNCHANGED <<at, act, extras, rows, pending, young, phase, queue, snapshot>>,
         \A p \in Pushers : p # q => body'[p] = body[p],
         \A x \in Rows : x # at[q] => owed'[x] = owed[x] /\ local'[x] = local[x],
         owed'[at[q]] \in {0, owed[at[q]]},
         owed'[at[q]] # 0 => local'[at[q]] = local[at[q]],
         to = "call" /\ Carries(q) =>
           owed'[at[q]] = 0 \/ body'[q] = Both(owed'[at[q]]),
         to \in {"back", "settle"} => owed'[at[q]] = 0
  PROVE  Rest'
  <1>1. /\ pc'[q] = to /\ at[q] \in Rows /\ at[q] \notin queue
        /\ \A p \in Pushers : p # q =>
             pc'[p] = pc[p] /\ (pc[p] # "idle" => at[p] # at[q] /\ at[p] \in Rows)
    BY DEF TypeOK, Rest, Exclusive
  <1>2. Exclusive' /\ RequestsYoung'
    BY <1>1 DEF Rest, Exclusive, RequestsYoung, Pushers
  <1>3. Edits'
    BY <1>1 DEF Rest, Edits
  <1>4. Faithful'
    <2>1. \A p \in Pushers : p # q /\ pc[p] # "idle" =>
            /\ pc'[p] = pc[p] /\ body'[p] = body[p]
            /\ owed'[at[p]] = owed[at[p]]
      BY <1>1
    <2>2. \A x \in queue : owed'[x] = owed[x]
      BY <1>1 DEF TypeOK
    <2>3. QED
      BY <1>1, <2>1, <2>2 DEF Rest, Faithful, Carries
  <1>5. QED
    BY <1>2, <1>3, <1>4 DEF Rest

\* A row that goes takes its marker and the claim on it along.
LEMMA RemoveStep ==
  ASSUME TypeOK, Rest, NEW S, Remove(S),
         UNCHANGED <<pc, at, act, extras, body, queue, snapshot>>,
         phase' # "sweep" => pc[Sweeper] = "idle" /\ queue = {}
  PROVE  Rest'
  <1>1. /\ \A x \in Rows : /\ owed'[x] = IF x \in S THEN 0 ELSE owed[x]
                         /\ local'[x] = IF x \in S THEN Both(0) ELSE local[x]
        /\ rows' = rows \ S /\ pending' = pending \ S /\ young' = young \ S
    BY DEF Remove
  <1>2. \A q \in Pushers : pc[q] # "idle" => at[q] \in Rows
    BY DEF Rest, Exclusive
  <1>3. Exclusive' /\ RequestsYoung'
    BY <1>1 DEF Rest, Exclusive, RequestsYoung, Pushers
  <1>4. Edits'
    BY <1>1 DEF Rest, Edits
  <1>5. Faithful'
    BY <1>1, <1>2 DEF Rest, Faithful, Carries, TypeOK
  <1>6. QED
    BY <1>3, <1>4, <1>5 DEF Rest

\* Google carries a request out: only the row at hand can have its claim met.
LEMMA CarriedStep ==
  ASSUME TypeOK, Rest, NEW q \in Pushers, pc[q] = "call", NEW g \in Events,
         Carried(q, g)
  PROVE  /\ \A x \in Rows : x # at[q] => owed'[x] = owed[x]
         /\ owed'[at[q]] \in {0, owed[at[q]]}
         /\ act[q] # "delete" => owed'[at[q]] = 0
  <1>1. at[q] \in Rows
    BY DEF Rest, Exclusive
  <1>2. owed'[at[q]] = IF Carries(q) /\ body[q] = Both(owed[at[q]])
                         THEN 0 ELSE owed[at[q]]
    BY <1>1 DEF Carried, Carries, TypeOK
  <1>3. Carries(q) => owed[at[q]] = 0 \/ body[q] = Both(owed[at[q]])
    BY DEF Rest, Faithful
  <1>4. act[q] = "respond" => owed[at[q]] = 0
    BY DEF Rest, Faithful
  <1>5. act[q] \in {"create", "update", "delete", "respond"}
    BY DEF TypeOK
  <1>6. QED
    BY <1>1, <1>2, <1>3, <1>4, <1>5 DEF Carried, Carries, TypeOK

\* A push clears a marker only once Google has what the marker stood for.
LEMMA PushStep ==
  ASSUME TypeOK, Rest, NEW q \in Pushers, Push(q) \/ PushFails(q) \/ AnswerLost(q)
  PROVE  Rest'
  <1> USE DEF rowVars, sweepVars
  <1>1. CASE ReadRow(q)
    <2>1. CASE Leave(q)
      BY <1>1, <2>1, LeaveStep DEF ReadRow, Rest, Edits, Exclusive
    <2>2. CASE ~Leave(q)
      <3>1. /\ at[q] \in Rows /\ pc[q] = "read"
            /\ \E w \in {"call", "remove"} :
                 /\ pc' = [pc EXCEPT ![q] = w]
                 /\ w = "remove" => act[q] = "delete"
                 /\ w = "call" /\ act[q] # "delete" => at[q] \in rows
            /\ body' = [body EXCEPT ![q] =
                         [title |-> local[at[q]].title, guests |-> extras[q]]]
            /\ UNCHANGED <<at, act, extras, rows, local, pending, young, phase,
                           queue, snapshot, owed>>
        BY <1>1, <2>2 DEF ReadRow, Rest, Exclusive
      <3>2. /\ body'[q] = [title |-> local[at[q]].title, guests |-> extras[q]]
            /\ \A p \in Pushers : p # q => body'[p] = body[p]
        BY <3>1 DEF TypeOK
      <3>3. Carries(q) /\ owed[at[q]] # 0 => body'[q] = Both(owed[at[q]])
        BY <3>1, <3>2 DEF Rest, Faithful, Edits, Both
      <3>4. QED
        BY <3>1, <3>2, <3>3, MoveStep
    <2>3. QED
      BY <2>1, <2>2
  <1>2. CASE GetInvitation(q)
    <2>1. /\ act[q] = "respond" \/ Carries(q) \/ act[q] = "delete"
          /\ pc[q] = "get" /\ pc' = [pc EXCEPT ![q] = "call"]
          /\ body' = [body EXCEPT ![q] = copy[target[q]]]
          /\ UNCHANGED <<at, act, extras, rows, local, pending, young, phase,
                         queue, snapshot, owed>>
      BY <1>2 DEF GetInvitation, Carries, TypeOK
    <2>2. QED
      BY <2>1, MoveStep DEF TypeOK, Carries, Rest, Faithful
  <1>3. CASE GoogleAnswers(q)
    <2>1. PICK g \in Events : Carried(q, g)
      BY <1>3 DEF GoogleAnswers
    <2>2. /\ pc[q] = "call"
          /\ pc' = [pc EXCEPT ![q] = IF act[q] = "delete" THEN "remove" ELSE "back"]
          /\ UNCHANGED <<at, act, extras, body, rows, local, pending, young, phase,
                         queue, snapshot>>
      BY <1>3 DEF GoogleAnswers
    <2>3. QED
      BY <2>1, <2>2, CarriedStep, MoveStep
  <1>4. CASE NotFound(q)
    <2>1. CASE Leave(q)
      BY <1>4, <2>1, LeaveStep DEF NotFound, Rest, Edits, Exclusive
    <2>2. CASE ~Leave(q)
      BY <1>4, <2>2, MoveStep DEF NotFound
    <2>3. QED
      BY <2>1, <2>2
  <1>5. CASE OutOfEvents(q) \/ PushFails(q)
    BY <1>5, LeaveStep DEF OutOfEvents, PushFails, Rest, Edits, Exclusive
  <1>6. CASE ReadBack(q)
    <2>1. /\ pc[q] = "back" /\ at[q] \in Rows /\ owed[at[q]] = 0
          /\ UNCHANGED <<rows, pending, young, phase, queue, snapshot, owed>>
          /\ \A x \in Rows : x # at[q] => local'[x] = local[x]
          /\ \/ Leave(q)
             \/ /\ pc' = [pc EXCEPT ![q] = "settle"]
                /\ UNCHANGED <<at, act, extras, body>>
      BY <1>6 DEF ReadBack, Rest, Exclusive, Faithful, TypeOK
    <2>2. QED
      BY <2>1, LeaveStep, MoveStep
  <1>7. CASE Settle(q)
    <2>1. /\ pc[q] = "settle" /\ at[q] \in Rows /\ owed[at[q]] = 0
          /\ pending' = pending \ {at[q]} /\ young' = young \ {at[q]} /\ Leave(q)
          /\ UNCHANGED <<rows, local, phase, queue, snapshot, owed>>
      BY <1>7 DEF Settle, Rest, Exclusive, Faithful
    <2>2. QED
      BY <2>1, LeaveStep
  <1>8. CASE RemoveRow(q)
    <2>1. /\ pc[q] # "idle" /\ at[q] \in Rows /\ Leave(q)
          /\ Remove({at[q]}) /\ UNCHANGED <<phase, queue, snapshot>>
      BY <1>8 DEF RemoveRow, Rest, Exclusive
    <2>2. /\ \A x \in Rows : x # at[q] => owed'[x] = owed[x] /\ local'[x] = local[x]
          /\ owed'[at[q]] = 0
          /\ rows' = rows \ {at[q]} /\ pending' = pending \ {at[q]}
          /\ young' = young \ {at[q]}
      BY <2>1 DEF Remove
    <2>3. QED
      BY <2>1, <2>2, LeaveStep
  <1>9. CASE AnswerLost(q)
    <2>1. PICK g \in Events : Carried(q, g)
      BY <1>9 DEF AnswerLost
    <2>2. /\ pc[q] = "call" /\ at[q] \in Rows /\ Leave(q)
          /\ UNCHANGED <<rows, local, pending, young, phase, queue, snapshot>>
      BY <1>9 DEF AnswerLost, Rest, Exclusive
    <2>3. QED
      BY <2>1, <2>2, CarriedStep, LeaveStep DEF Rest, Edits
  <1>10. QED
    BY <1>1, <1>2, <1>3, <1>4, <1>5, <1>6, <1>7, <1>8, <1>9 DEF Push

-----------------------------------------------------------------------------
\* The sweep reads rows nobody has in hand: a request's row is young or unmarked.
LEMMA StartRunStep == TypeOK /\ Rest /\ StartRun => Rest'
  <1> SUFFICES ASSUME TypeOK, Rest, StartRun PROVE Rest'
    OBVIOUS
  <1>1. /\ phase = "idle" /\ phase' = "sweep"
        /\ queue' = {r \in pending : r \notin young \cup old}
        /\ \A r \in queue' : snapshot'[r].guests = local[r].guests
        /\ UNCHANGED <<rows, local, pending, young, pc, at, act, extras, body, owed>>
    <2>1. queue' \subseteq Rows
      BY DEF StartRun, TypeOK
    <2>2. QED
      BY <2>1 DEF StartRun, RunAt, rowVars, pushVars
  <1>2. Exclusive'
    <2>1. ASSUME NEW q \in Pushers, pc[q] # "idle" PROVE at[q] \notin queue'
      BY <1>1, <2>1 DEF Rest, Exclusive, RequestsYoung, Pushers
    <2>2. QED
      BY <1>1, <2>1 DEF Rest, Exclusive
  <1>3. \A r \in queue' : r \in Rows /\ owed[r] \in {0, local[r].guests}
    BY <1>1 DEF Rest, Edits, TypeOK, Both
  <1>4. RequestsYoung' /\ Edits' /\ Faithful'
    BY <1>1, <1>3 DEF Rest, RequestsYoung, Edits, Faithful, Carries
  <1>5. QED
    BY <1>2, <1>4 DEF Rest

\* The sweep hands a row over from its list to a push.
LEMMA SweepNextStep ==
  ASSUME TypeOK, Rest, NEW r \in Rows, SweepNext(r) PROVE Rest'
  <1>1. /\ phase = "sweep" /\ phase' = phase /\ r \in queue
        /\ pc[Sweeper] = "idle" /\ pc'[Sweeper] = "read" /\ at'[Sweeper] = r
        /\ act'[Sweeper] \in {"create", "update"}
        /\ extras'[Sweeper] = snapshot[r].guests
        /\ \A p \in Pushers : p # Sweeper => /\ pc'[p] = pc[p] /\ at'[p] = at[p]
                                      /\ act'[p] = act[p] /\ extras'[p] = extras[p]
        /\ queue' = queue \ {r}
        /\ \A x \in queue' : snapshot'[x] = snapshot[x]
        /\ UNCHANGED <<rows, local, pending, young, body, owed>>
    BY DEF SweepNext, Retry, Enter, TypeOK, rowVars, Pushers
  <1>2. Exclusive'
    BY <1>1 DEF Rest, Exclusive, Pushers
  <1>3. RequestsYoung' /\ Edits'
    BY <1>1, NamesAssumption DEF Rest, RequestsYoung, Edits, Pushers
  <1>4. Faithful'
    BY <1>1 DEF Rest, Faithful, Carries, Pushers
  <1>5. QED
    BY <1>2, <1>3, <1>4 DEF Rest

\* The pull rewrites unmarked rows only, and the row of a new event is a new one.
LEMMA ApplyStep ==
  ASSUME TypeOK, Rest, NEW g \in Events, ApplyEvent(g) PROVE Rest'
  <1> USE DEF pushVars, sweepVars
  <1>1. /\ phase = "apply" /\ pc[Sweeper] = "idle" /\ queue = {}
        /\ UNCHANGED <<phase, pc, at, act, extras, body, queue, snapshot>>
    BY DEF ApplyEvent, Apply, Rest, Exclusive
  <1>2. CASE g \notin listed
    <2>1. Remove({r \in rows : gid[r] = g})
      BY <1>2 DEF ApplyEvent, Apply
    <2>2. QED
      BY <1>1, <2>1, RemoveStep
  <1>3. CASE g \in listed
    <2>1. /\ UNCHANGED <<pending, young, owed>> /\ rows \subseteq rows'
          /\ \A r \in Rows : r \in pending => local'[r] = local[r]
      BY <1>3 DEF ApplyEvent, Apply, NewRow, Unborn, TypeOK
    <2>2. QED
      BY <1>1, <2>1
         DEF Rest, Exclusive, RequestsYoung, Edits, Faithful, Carries
  <1>4. QED
    BY <1>2, <1>3

\* The scheduled run keeps the invariant: it leaves marked rows alone.
LEMMA RunStep == TypeOK /\ Rest /\ (Run \/ RunFails \/ Crash) => Rest'
  <1> SUFFICES ASSUME TypeOK, Rest, Run \/ RunFails \/ Crash PROVE Rest'
    OBVIOUS
  <1> USE DEF rowVars, pushVars, sweepVars, RunAt
  <1>1. CASE FetchToken \/ StoreToken \/ Expire \/ List \/ RunFails
    <2>1. /\ UNCHANGED <<rows, local, pending, young, pc, at, act, extras, body,
                         queue, snapshot, owed>>
          /\ phase' # "sweep" => pc[Sweeper] = "idle" /\ queue = {}
      BY <1>1 DEF FetchToken, StoreToken, Stored, Expire, Expired, Swept, Listed,
                  List, RunFails, Rest, Exclusive
    <2>2. QED
      BY <2>1, QuietStep
  <1>2. CASE Reconcile
    <2>1. /\ Remove({r \in rows \ pending : gid[r] # None /\ gid[r] \notin seen})
          /\ UNCHANGED <<pc, at, act, extras, body, queue, snapshot>>
          /\ pc[Sweeper] = "idle" /\ queue = {}
      BY <1>2 DEF Reconcile, Rest, Exclusive
    <2>2. QED
      BY <2>1, RemoveStep
  <1>3. CASE Crash
    <2>1. /\ \A q \in Pushers : pc'[q] = "idle"
          /\ queue' = {} /\ UNCHANGED <<rows, local, pending, young, owed>>
      BY <1>3 DEF Crash
    <2>2. QED
      BY <2>1 DEF Rest, Exclusive, RequestsYoung, Edits, Faithful, Pushers
  <1>4. QED
    BY <1>1, <1>2, <1>3, StartRunStep, SweepNextStep, ApplyStep DEF Run

\* Every step keeps the invariant.
LEMMA InvStep == Calm /\ Inv /\ [Next]_vars => Inv'
  <1> SUFFICES ASSUME Calm, Inv, [Next]_vars PROVE Inv'
    OBVIOUS
  <1>1. TypeOK /\ Rest /\ TypeOK'
    BY TypeStep DEF Inv, Rest
  <1> SUFFICES Rest'
    BY <1>1 DEF Inv, Rest
  <1> USE DEF rowVars, pushVars, sweepVars
  <1>2. ASSUME NEW r \in Rows, BecomeRipe(r) PROVE Rest'
    <2>1. /\ ~Busy(r) /\ young' = young \ {r}
          /\ UNCHANGED <<rows, local, pending, pc, at, act, extras, body, phase,
                         queue, snapshot, owed>>
      BY <1>2 DEF BecomeRipe, Calm
    <2>2. QED
      BY <1>1, <2>1 DEF Rest, Exclusive, RequestsYoung, Edits, Faithful, Carries,
                        Busy, Pushers
  <1>3. ASSUME NEW r \in Rows, BecomeOld(r) PROVE Rest'
    BY <1>1, <1>3, QuietStep DEF BecomeOld, Rest, Exclusive
  <1>4. ASSUME NEW g \in Events, EditAtGoogle(g) PROVE Rest'
    BY <1>1, <1>4, QuietStep DEF EditAtGoogle, Rest, Exclusive
  <1>5. CASE UNCHANGED vars
    <2>1. UNCHANGED <<rows, local, pending, young, pc, at, act, extras, body, phase,
                      queue, snapshot, owed>>
      BY <1>5 DEF vars
    <2>2. phase' # "sweep" => pc[Sweeper] = "idle" /\ queue = {}
      BY <1>1, <2>1 DEF Rest, Exclusive
    <2>3. young \subseteq young'
      BY <2>1
    <2>4. QED
      BY <1>1, <2>1, <2>2, <2>3, QuietStep
  <1>6. CASE Next
    <2>1. ASSUME NEW s \in Savers, Owner(s) PROVE Rest'
      BY <1>1, <2>1, OwnerStep
    <2>2. ASSUME NEW q \in Pushers, Push(q) \/ PushFails(q) \/ AnswerLost(q)
          PROVE  Rest'
      BY <1>1, <2>2, PushStep
    <2>3. CASE Run \/ RunFails \/ Crash
      BY <1>1, <2>3, RunStep
    <2>4. QED
      BY <1>2, <1>3, <1>4, <1>6, <2>1, <2>2, <2>3 DEF Next
  <1>7. QED
    BY <1>5, <1>6

\* The pull leaves the contents of a row alone that Google owes nothing to.
LEMMA SpareStep ==
  ASSUME Inv, [Next]_vars, page' # page, NEW r \in rows \cap rows', owed[r] # 0
  PROVE  local'[r] = local[r]
  <1> USE DEF rowVars, syncVars
  <1>1. TypeOK /\ r \in Rows /\ r \in pending
    BY DEF Inv, TypeOK, Edits
  <1>2. ASSUME NEW s \in Savers, Owner(s) PROVE FALSE
    BY <1>2 DEF Owner, Create, Update, SaveRow, Delete, Respond
  <1>3. ASSUME NEW q \in Pushers, Push(q) \/ PushFails(q) \/ AnswerLost(q)
        PROVE  FALSE
    BY <1>3 DEF Push, ReadRow, GetInvitation, GoogleAnswers, NotFound, OutOfEvents,
                ReadBack, Settle, RemoveRow, PushFails, AnswerLost
  <1>4. CASE RunFails \/ Crash \/ List
    BY <1>4 DEF RunFails, Crash, List
  <1>5. CASE StartRun \/ Expire \/ Reconcile \/ FetchToken
             \/ StoreToken \/ \E x \in Rows : SweepNext(x)
    BY <1>5 DEF StartRun, Expire, Expired, Reconcile, FetchToken,
                StoreToken, Stored, SweepNext, Retry
  <1>6. ASSUME NEW g \in Events, ApplyEvent(g) PROVE local'[r] = local[r]
    <2>1. CASE g \notin listed
      <3>1. Remove({x \in rows : gid[x] = g})
        BY <1>6, <2>1 DEF ApplyEvent, Apply
      <3>2. QED
        BY <1>1, <3>1 DEF Remove
    <2>2. CASE g \in listed
      BY <1>1, <1>6, <2>2 DEF ApplyEvent, Apply, NewRow, Unborn, TypeOK
    <2>3. QED
      BY <2>1, <2>2
  <1>7. ASSUME NEW x \in Rows, BecomeRipe(x) \/ BecomeOld(x) PROVE FALSE
    BY <1>7 DEF BecomeRipe, BecomeOld
  <1>8. ASSUME NEW g \in Events, EditAtGoogle(g) PROVE FALSE
    BY <1>8 DEF EditAtGoogle
  <1>9. CASE UNCHANGED vars
    BY <1>9 DEF vars
  <1>10. QED
    BY <1>2, <1>3, <1>4, <1>5, <1>6, <1>7, <1>8, <1>9 DEF Next, Run

\* The types of all variables hold in every state of every behaviour in which
\* nothing is done to an event that is being pushed.
THEOREM TypeCorrect == Calm => (Spec => []TypeOK)
  <1> SUFFICES ASSUME Calm PROVE Spec => []TypeOK
    OBVIOUS
  <1>1. Inv /\ [Next]_vars => Inv'
    BY InvStep
  <1>2. Inv => TypeOK
    BY DEF Inv
  <1>3. QED
    BY InitInv, <1>1, <1>2, PTL DEF Spec

\* While nothing is done to an event that is being pushed, an edit stays marked
\* and shown until Google has had it.
THEOREM EditsSafe == Calm => (Spec => []EditStaysUntilItLands)
  <1> SUFFICES ASSUME Calm PROVE Spec => []EditStaysUntilItLands
    OBVIOUS
  <1>1. Inv /\ [Next]_vars => Inv'
    BY InvStep
  <1>2. Inv => EditStaysUntilItLands
    BY DEF Inv, TypeOK, Edits, EditStaysUntilItLands
  <1>3. QED
    BY <1>1, <1>2, InitInv, PTL DEF Spec

\* Under the same condition no pull reverts an edit Google has not had.
THEOREM PullsSpareEdits == Calm => (Spec => SyncSparesUnpushedEdits)
  <1> SUFFICES ASSUME Calm PROVE Spec => SyncSparesUnpushedEdits
    OBVIOUS
  <1>1. Inv /\ [Next]_vars => Inv'
    BY InvStep
  <1>2. Inv /\ [Next]_vars =>
          [\A r \in rows \cap rows' :
             page' # page /\ owed[r] # 0 => local'[r] = local[r]]_vars
    BY SpareStep
  <1>3. QED
    BY <1>1, <1>2, InitInv, PTL DEF Spec, SyncSparesUnpushedEdits
=============================================================================
