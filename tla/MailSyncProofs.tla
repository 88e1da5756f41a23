--------------------------- MODULE MailSyncProofs ---------------------------
(***************************************************************************)
(* Proofs about MailSync for any messages, labels, batch size, feed and    *)
(* faults: the database always has enough to bring every message in, but   *)
(* for those that arrive while a catch-up runs or find the retry list      *)
(* full; and a row that is wrong, because its message is gone or a label   *)
(* differs, has what corrects it still to come.                            *)
(*                                                                         *)
(* MailSync models one sync of the account at a time. That the runner      *)
(* admits no second one is proved first, for every set of accounts and     *)
(* any number of overlapping batches and requests.                         *)
(***************************************************************************)
EXTENDS MailSync, PerUserRunner, FiniteSetTheorems, TLAPS

-----------------------------------------------------------------------------
(* The runner's guard.                                                       *)

RunnerInv ==
  /\ RunnerTypeOK /\ OneSyncPerAccount /\ GuardExact
  /\ \A b \in Batches : IsFiniteSet(active[b])
  /\ BatchWithinCap

\* Initially nothing runs and the guard is empty.
LEMMA RunnerInitInv == RunnerInit => RunnerInv
  <1> SUFFICES ASSUME RunnerInit PROVE RunnerInv
    OBVIOUS
  <1> USE DEF RunnerInit
  <1>1. RunnerTypeOK
    BY DEF RunnerTypeOK
  <1>2. OneSyncPerAccount /\ GuardExact
    BY NoAccountAssumption DEF OneSyncPerAccount, GuardExact, RunnersOf
  <1>3. \A b \in Batches : IsFiniteSet(active[b]) /\ Cardinality(active[b]) <= Concurrency
    BY FS_EmptySet, ConcurrencyAssumption
  <1>4. QED
    BY <1>1, <1>2, <1>3 DEF RunnerInv, BatchWithinCap

\* Every step keeps the types.
LEMMA RunnerTypeStep == RunnerTypeOK /\ [RunnerNext]_runnerVars => RunnerTypeOK'
  <1> SUFFICES ASSUME RunnerTypeOK, [RunnerNext]_runnerVars PROVE RunnerTypeOK'
    OBVIOUS
  <1> USE DEF RunnerTypeOK, batchVars, requestVars
  <1>1. ASSUME NEW b \in Batches, BatchStep(b) PROVE RunnerTypeOK'
    BY <1>1 DEF BatchStep, StartBatch, FilterAccounts, EndBatch, Pull, Settle
  <1>2. ASSUME NEW r \in Requests, Answer(r) PROVE RunnerTypeOK'
    BY <1>2 DEF Answer
  <1>3. ASSUME NEW r \in Requests, NEW a \in connected, Request(r, a) PROVE RunnerTypeOK'
    BY <1>3 DEF Request
  <1>4. ASSUME NEW a \in Accounts, Connect(a) \/ Disconnect(a) PROVE RunnerTypeOK'
    BY <1>4 DEF Connect, Disconnect
  <1>5. CASE UNCHANGED runnerVars
    BY <1>5 DEF runnerVars
  <1>6. QED
    BY <1>1, <1>2, <1>3, <1>4, <1>5 DEF RunnerNext

\* A step that starts and settles nothing keeps the rest of the invariant.
LEMMA RunnerQuietStep ==
  ASSUME RunnerInv, RunnerTypeOK', UNCHANGED <<inFlight, active, serves>> PROVE RunnerInv'
  BY DEF RunnerInv, OneSyncPerAccount, GuardExact, RunnersOf, BatchWithinCap

\* A worker that starts an account found it outside the guard, so nobody runs it.
LEMMA PullStep ==
  ASSUME RunnerInv, RunnerTypeOK', NEW b \in Batches, NEW a \in Accounts, Pull(b, a)
  PROVE  RunnerInv'
  <1>1. CASE a \in inFlight
    BY <1>1, RunnerQuietStep DEF Pull, requestVars
  <1>2. CASE a \notin inFlight
    <2>1. /\ inFlight' = inFlight \cup {a} /\ serves' = serves
          /\ active' = [active EXCEPT ![b] = @ \cup {a}]
          /\ Cardinality(active[b]) < Concurrency
      BY <1>2 DEF Pull, requestVars
    <2>2. RunnersOf(a) = {}
      BY <1>2 DEF RunnerInv, GuardExact
    <2>3. RunnersOf(a)' = {b}
      BY <2>1, <2>2 DEF RunnersOf, RunnerInv, RunnerTypeOK
    <2>4. \A c \in Accounts : c # a => RunnersOf(c)' = RunnersOf(c)
      BY <2>1 DEF RunnersOf, RunnerInv, RunnerTypeOK
    <2>5. OneSyncPerAccount' /\ GuardExact'
      BY <2>1, <2>3, <2>4 DEF RunnerInv, OneSyncPerAccount, GuardExact
    <2>6. ASSUME NEW c \in Batches
          PROVE  IsFiniteSet(active'[c]) /\ Cardinality(active'[c]) <= Concurrency
      <3>1. CASE c # b
        BY <2>1, <3>1 DEF RunnerInv, BatchWithinCap, RunnerTypeOK
      <3>2. CASE c = b
        <4>1. active'[c] = active[b] \cup {a} /\ a \notin active[b]
          BY <2>1, <2>2, <3>2 DEF RunnersOf, RunnerInv, RunnerTypeOK
        <4>2. /\ IsFiniteSet(active[b]) /\ IsFiniteSet(active'[c])
              /\ Cardinality(active'[c]) = Cardinality(active[b]) + 1
          BY <4>1, FS_AddElement DEF RunnerInv
        <4>3. Cardinality(active[b]) \in Nat
          BY <4>2, FS_CardinalityType
        <4>4. QED
          BY <2>1, <4>2, <4>3, ConcurrencyAssumption
      <3>3. QED
        BY <3>1, <3>2
    <2>7. QED
      BY <2>5, <2>6 DEF RunnerInv, BatchWithinCap
  <1>3. QED
    BY <1>1, <1>2

\* The only run of an account releases the guard it entered.
LEMMA SettleStep ==
  ASSUME RunnerInv, RunnerTypeOK', NEW b \in Batches, NEW a \in Accounts, Settle(b, a)
  PROVE  RunnerInv'
  <1>1. /\ inFlight' = inFlight \ {a} /\ serves' = serves /\ a \in active[b]
        /\ active' = [active EXCEPT ![b] = @ \ {a}]
    BY DEF Settle, requestVars
  <1>2. RunnersOf(a) = {b}
    BY <1>1 DEF RunnerInv, OneSyncPerAccount, RunnersOf
  <1>3. RunnersOf(a)' = {}
    BY <1>1, <1>2, CallersDistinct DEF RunnersOf, RunnerInv, RunnerTypeOK
  <1>4. \A c \in Accounts : c # a => RunnersOf(c)' = RunnersOf(c)
    BY <1>1 DEF RunnersOf, RunnerInv, RunnerTypeOK
  <1>5. OneSyncPerAccount' /\ GuardExact'
    BY <1>1, <1>3, <1>4 DEF RunnerInv, OneSyncPerAccount, GuardExact
  <1>6. ASSUME NEW c \in Batches
        PROVE  IsFiniteSet(active'[c]) /\ Cardinality(active'[c]) <= Concurrency
    <2>1. active'[c] \subseteq active[c] /\ IsFiniteSet(active[c])
      BY <1>1 DEF RunnerInv, RunnerTypeOK
    <2>2. /\ IsFiniteSet(active'[c])
          /\ Cardinality(active'[c]) <= Cardinality(active[c])
      BY <2>1, FS_Subset
    <2>3. /\ Cardinality(active'[c]) \in Nat /\ Cardinality(active[c]) \in Nat
          /\ Cardinality(active[c]) <= Concurrency
      BY <2>1, <2>2, FS_CardinalityType DEF RunnerInv, BatchWithinCap
    <2>4. QED
      BY <2>2, <2>3, ConcurrencyAssumption
  <1>7. QED
    BY <1>5, <1>6 DEF RunnerInv, BatchWithinCap

\* The same for a request: it enters and leaves the guard by itself.
LEMMA RequestStep ==
  ASSUME RunnerInv, RunnerTypeOK', NEW r \in Requests, NEW a \in Accounts, Request(r, a)
  PROVE  RunnerInv'
  <1>1. CASE a \in inFlight
    BY <1>1, RunnerQuietStep DEF Request, batchVars
  <1>2. CASE a \notin inFlight
    <2>1. /\ inFlight' = inFlight \cup {a} /\ active' = active
          /\ serves[r] = NoAccount /\ serves' = [serves EXCEPT ![r] = a]
      BY <1>2 DEF Request, batchVars
    <2>2. RunnersOf(a) = {}
      BY <1>2 DEF RunnerInv, GuardExact
    <2>3. RunnersOf(a)' = {r}
      BY <2>1, <2>2 DEF RunnersOf, RunnerInv, RunnerTypeOK
    <2>4. \A c \in Accounts : c # a => RunnersOf(c)' = RunnersOf(c)
      BY <2>1, NoAccountAssumption DEF RunnersOf, RunnerInv, RunnerTypeOK
    <2>5. OneSyncPerAccount' /\ GuardExact'
      BY <2>1, <2>3, <2>4 DEF RunnerInv, OneSyncPerAccount, GuardExact
    <2>6. QED
      BY <2>1, <2>5 DEF RunnerInv, BatchWithinCap
  <1>3. QED
    BY <1>1, <1>2

\* The only run of an account, a request this time, releases the guard it entered.
LEMMA AnswerStep ==
  ASSUME RunnerInv, RunnerTypeOK', NEW r \in Requests, Answer(r) PROVE RunnerInv'
  <1> DEFINE a == serves[r]
  <1>1. /\ a \in Accounts /\ inFlight' = inFlight \ {a} /\ active' = active
        /\ serves' = [serves EXCEPT ![r] = NoAccount]
    BY DEF Answer, batchVars, RunnerInv, RunnerTypeOK
  <1>2. RunnersOf(a) = {r}
    BY <1>1 DEF RunnerInv, OneSyncPerAccount, RunnersOf
  <1>3. \A c \in Accounts : RunnersOf(c)' = RunnersOf(c) \ {r}
    BY <1>1, NoAccountAssumption, CallersDistinct DEF RunnersOf, RunnerInv, RunnerTypeOK
  <1>4. \A c \in Accounts : c # a => r \notin RunnersOf(c)
    BY CallersDistinct DEF RunnersOf
  <1>5. OneSyncPerAccount' /\ GuardExact'
    BY <1>1, <1>2, <1>3, <1>4 DEF RunnerInv, OneSyncPerAccount, GuardExact
  <1>6. QED
    BY <1>1, <1>5 DEF RunnerInv, BatchWithinCap

\* The invariant is inductive.
LEMMA RunnerNextInv == RunnerInv /\ [RunnerNext]_runnerVars => RunnerInv'
  <1> SUFFICES ASSUME RunnerInv, [RunnerNext]_runnerVars PROVE RunnerInv'
    OBVIOUS
  <1>0. RunnerTypeOK /\ RunnerTypeOK'
    BY RunnerTypeStep DEF RunnerInv
  <1>1. ASSUME NEW b \in Batches, BatchStep(b) PROVE RunnerInv'
    <2>1. CASE StartBatch(b) \/ FilterAccounts(b) \/ EndBatch(b)
      BY <1>0, <2>1, RunnerQuietStep DEF StartBatch, FilterAccounts, EndBatch, requestVars
    <2>2. CASE \E a \in Accounts : Pull(b, a) \/ Settle(b, a)
      BY <1>0, <2>2, PullStep, SettleStep
    <2>3. QED
      BY <1>1, <2>1, <2>2 DEF BatchStep
  <1>2. ASSUME NEW r \in Requests, Answer(r) PROVE RunnerInv'
    BY <1>0, <1>2, AnswerStep
  <1>3. ASSUME NEW r \in Requests, NEW a \in connected, Request(r, a) PROVE RunnerInv'
    BY <1>0, <1>3, RequestStep DEF RunnerTypeOK
  <1>4. ASSUME NEW a \in Accounts, Connect(a) \/ Disconnect(a) PROVE RunnerInv'
    BY <1>0, <1>4, RunnerQuietStep DEF Connect, Disconnect, batchVars, requestVars
  <1>5. CASE UNCHANGED runnerVars
    BY <1>0, <1>5, RunnerQuietStep DEF runnerVars, batchVars, requestVars
  <1>6. QED
    BY <1>1, <1>2, <1>3, <1>4, <1>5 DEF RunnerNext

-----------------------------------------------------------------------------
\* What the guard is for, for any number of accounts and callers: one sync per
\* account, a guard that is exactly the set of running syncs, and the cap of a
\* batch.
THEOREM GuardSafe == RunnerSpec => [](RunnerTypeOK /\ OneSyncPerAccount /\ GuardExact /\ BatchWithinCap)
  <1>1. RunnerInv => RunnerTypeOK /\ OneSyncPerAccount /\ GuardExact /\ BatchWithinCap
    BY DEF RunnerInv
  <1>2. QED
    BY <1>1, RunnerInitInv, RunnerNextInv, PTL DEF RunnerSpec

\* The runner's variables keep their types: the guard, the queues and the
\* requests only ever hold known accounts.
THEOREM RunnerTypeCorrect == RunnerSpec => []RunnerTypeOK
  <1>1. RunnerInv => RunnerTypeOK
    BY DEF RunnerInv
  <1>2. QED
    BY <1>1, RunnerInitInv, RunnerNextInv, PTL DEF RunnerSpec

-----------------------------------------------------------------------------
(* The sync.                                                                 *)

\* What the run has of the messages it must bring in, or has given up, ...
Hand == rows \cup dropped \cup todo \cup batch \cup held \cup failing

\* ... with the list in the database while that still counts, ...
Found ==
  CASE phase = "retry" -> Hand
    [] phase = "store" -> rows \cup failed \cup dropped
    [] OTHER           -> Hand \cup failed

\* ... and the position up to which it has read the feed.
Mark ==
  CASE phase \in {"history", "page"} -> pos - 1
    [] phase \in {"fetch", "profile"} /\ historyId = None -> listedAt
    [] OTHER -> historyId

Running == {"history", "page", "fetch", "profile", "reread", "retry", "store"}

\* Message m is in S, or its arrival is recorded after position p or was skipped.
Owed(m, S, p) ==
  m \in S \/ \E i \in At({"added"}, m) : i > p \/ i \in skipped

\* Gmail never gives back a message it has deleted.
DeletedGone ==
  \A i \in 1 .. Len(feed) : feed[i].kind = "deleted" => feed[i].msg \notin mailbox

\* Which positions a run has in each of its phases.
Shape ==
  /\ phase \in {"history", "page"} => cursor # None
  /\ phase = "page" => historyId # None /\ upto <= historyId /\ pos <= upto + 1
  /\ phase = "fetch" /\ historyId = None => listedAt # None
  /\ phase = "profile" => historyId = None /\ listedAt # None
  /\ phase \in {"reread", "retry", "store"} => historyId # None
  /\ phase \notin {"fetch", "retry"} => todo = {}
  /\ historyId # None /\ cursor # None => cursor <= historyId

Rest ==
  cursor # None => \A m \in mailbox : Owed(m, rows \cup failed \cup dropped, cursor)
OnTheWay == phase \in Running => \A m \in mailbox : Owed(m, Found, Mark)

Inv == TypeOK /\ DeletedGone /\ Shape /\ Rest /\ OnTheWay

-----------------------------------------------------------------------------
\* None is no position.
LEMMA NoneFacts == \A n \in Nat : n # None
  BY NoneAssumption

\* A feed that grows keeps its records.
LEMMA FeedGrows ==
  ASSUME feed \in Seq(Record), NEW r \in Record, feed' = Append(feed, r)
  PROVE  /\ feed' \in Seq(Record) /\ Len(feed') = Len(feed) + 1
         /\ Len(feed) \in Nat
         /\ \A i \in 1 .. Len(feed) : feed'[i] = feed[i]
         /\ feed'[Len(feed) + 1] = r
  OBVIOUS

\* What TypeOK says of the feed.
LEMMA FeedFacts ==
  ASSUME feed \in Seq(Record)
  PROVE  /\ Len(feed) \in Nat
         /\ \A i \in 1 .. Len(feed) : feed[i] \in Record /\ feed[i].msg \in Messages
              /\ (feed[i].kind = "labelAdded" => feed[i].label \in Labels)
  <1>1. Len(feed) \in Nat /\ \A i \in 1 .. Len(feed) : feed[i] \in Record
    OBVIOUS
  <1>2. QED
    BY <1>1 DEF Record

-----------------------------------------------------------------------------
\* The sync starts from nothing.
LEMMA InitInv == Init => Inv
  <1> SUFFICES ASSUME Init PROVE Inv
    OBVIOUS
  <1>1. Len(feed) = 0 /\ feed \in Seq(Record)
    BY DEF Init
  <1>2. TypeOK
    BY <1>1, BoundsAssumption DEF Init, TypeOK, Blank
  <1>3. DeletedGone /\ Shape /\ Rest /\ OnTheWay
    BY <1>1 DEF Init, DeletedGone, Shape, Rest, OnTheWay, Running
  <1>4. QED
    BY <1>2, <1>3 DEF Inv

\* The parts of TypeOK about the run: what a step of the sync must keep.
RunTypes ==
  /\ phase \in {"idle", "baseline", "list", "history", "page", "fetch", "profile",
                "reread", "retry", "store"}
  /\ historyId \in 0 .. Len(feed) \cup {None}
  /\ pos \in 1 .. Len(feed) + 1 /\ upto \in 0 .. Len(feed)
  /\ cursor \in 0 .. Len(feed) \cup {None}
  /\ base \in 0 .. Len(feed) /\ listedAt \in 0 .. Len(feed) \cup {None}
  /\ skipped \subseteq 1 .. Len(feed)

MailTypes ==
  /\ mailbox \subseteq Messages /\ labels \in [Messages -> SUBSET Labels]
  /\ feed \in Seq(Record)

DataTypes ==
  /\ rows \subseteq Messages /\ rowLabels \in [Messages -> SUBSET Labels]
  /\ failed \subseteq Messages /\ dropped \subseteq Messages
  /\ todo \subseteq Messages /\ batch \subseteq Messages /\ held \subseteq Messages
  /\ fetched \in [Messages -> SUBSET Labels] /\ failing \subseteq Messages
  /\ faults \in 0 .. MaxFaults

\* What Gmail does keeps the types: the feed only grows.
LEMMA GmailTypes ==
  ASSUME TypeOK, NEW m \in Messages,
         Arrive(m) \/ DeleteAtGmail(m) \/ \E l \in Labels : Relabel(m, l)
  PROVE  TypeOK'
  <1>1. PICK k, x : /\ Recorded(k, m, x)
                    /\ [kind |-> k, msg |-> m, label |-> x] \in Record
    BY DEF Arrive, DeleteAtGmail, Relabel, Record
  <1>3. /\ feed' \in Seq(Record) /\ Len(feed') = Len(feed) + 1 /\ Len(feed) \in Nat
    BY <1>1, FeedGrows DEF TypeOK, Recorded
  <1>4. RunTypes'
    BY <1>1, <1>3 DEF Recorded, TypeOK, RunTypes, history, catchUp
  <1>5. DataTypes'
    BY <1>1 DEF Recorded, TypeOK, DataTypes, rowVars, fetchVars, history
  <1>6. mailbox' \subseteq Messages
    BY DEF TypeOK, Arrive, DeleteAtGmail, Relabel
  <1>7. labels' \in [Messages -> SUBSET Labels]
    BY DEF TypeOK, Arrive, DeleteAtGmail, Relabel
  <1>8. QED
    BY <1>3, <1>4, <1>5, <1>6, <1>7 DEF TypeOK, RunTypes, DataTypes

\* The steps of the sync keep the types.
LEMMA SyncTypes ==
  ASSUME TypeOK, Shape, Sync PROVE TypeOK'
  <1>1. MailTypes'
    BY DEF TypeOK, MailTypes, Sync, StartSync, Baseline, ListAll, ListHistory,
       HistoryExpired, ProcessRecord, EndPage, TakeBatch, EndFetch, Fetched, Track,
       ReadProfile, Reread, Retrying, EndRetry, Store, Stored, Got, Upsert, Written,
       gmailVars
  <1>2. Len(feed) \in Nat /\ feed' = feed
    BY FeedFacts DEF TypeOK, Sync, StartSync, Baseline, ListAll, ListHistory,
       HistoryExpired, ProcessRecord, EndPage, TakeBatch, EndFetch, Fetched, Track,
       ReadProfile, Reread, Retrying, EndRetry, Store, Stored, Got, Upsert, Written,
       gmailVars
  <1>3. RunTypes'
    <2> USE <1>2, NoneFacts DEF RunTypes
    <2>0. RunTypes /\ feed \in Seq(Record)
      BY DEF TypeOK
    <2>1. CASE StartSync
      <3>1. CASE cursor = None
        BY <2>0, <2>1, <3>1 DEF StartSync, Phase, history, catchUp
      <3>2. CASE cursor # None
        <4>1. cursor \in 0 .. Len(feed)
          BY <2>0, <3>2
        <4>2. pos' = cursor + 1 /\ upto' = pos' - 1
          BY <2>1, <3>2 DEF StartSync
        <4>3. pos' \in 1 .. Len(feed) + 1 /\ upto' \in 0 .. Len(feed)
          BY <4>1, <4>2
        <4>4. QED
          BY <2>0, <2>1, <3>2, <4>3 DEF StartSync, Phase, history, catchUp
      <3>3. QED
        BY <3>1, <3>2
    <2>2. CASE Baseline
      <3>1. historyId' \in 0 .. Len(feed)
        BY <2>2 DEF Baseline
      <3>2. QED
        BY <2>0, <2>2, <3>1 DEF Baseline, Phase, history, catchUp
    <2>12. CASE HistoryExpired
      BY <2>0, <2>12 DEF HistoryExpired, Phase, history, catchUp
    <2>11. CASE ListAll
      BY <2>0, <2>11 DEF ListAll, Phase
    <2>3. CASE ListHistory
      <3>1. upto' \in 0 .. Len(feed)
        BY <2>0, <2>3 DEF ListHistory
      <3>2. QED
        BY <2>0, <2>3, <3>1 DEF ListHistory, Phase, history, catchUp
    <2>4. CASE ProcessRecord
      <3>1. pos' \in 1 .. Len(feed) + 1
        BY <2>0, <2>4 DEF ProcessRecord
      <3>2. QED
        BY <2>0, <2>4, <3>1 DEF ProcessRecord, history, catchUp
    <2>5. CASE EndPage \/ TakeBatch
      BY <2>0, <2>5 DEF EndPage, Track, TakeBatch, history, catchUp
    <2>6. CASE EndFetch \/ Reread \/ EndRetry
      BY <2>0, <2>6 DEF EndFetch, Fetched, Track, Reread, Retrying, EndRetry, Phase,
         history, catchUp
    <2>7. CASE ReadProfile
      <3>1. listedAt \in 0 .. Len(feed)
        BY <2>0, <2>7 DEF Shape, ReadProfile, Phase
      <3>2. skipped' \subseteq 1 .. Len(feed)
        <4>1. skipped' = skipped \cup (listedAt + 1 .. Len(feed))
          BY <2>7 DEF ReadProfile
        <4>2. \A i \in listedAt + 1 .. Len(feed) : i \in 1 .. Len(feed)
          BY <3>1
        <4>3. QED
          BY <2>0, <4>1, <4>2
      <3>3. QED
        BY <2>0, <2>7, <3>2 DEF ReadProfile, Phase
    <2>8. CASE Store
      <3>1. historyId \in 0 .. Len(feed)
        BY <2>0, <2>8 DEF Shape, Store, Stored, Phase
      <3>2. QED
        BY <2>0, <2>8, <3>1 DEF Store, Stored, Phase
    <2>9. CASE \E m \in Messages : Got(m) \/ Upsert(m)
      BY <2>0, <2>9 DEF Got, Upsert, Written, history, catchUp
    <2>10. QED
      BY <2>1, <2>2, <2>3, <2>4, <2>5, <2>6, <2>7, <2>8, <2>9, <2>11, <2>12 DEF Sync
  <1>4. DataTypes'
    <2>1. CASE StartSync \/ Baseline \/ ListHistory \/ HistoryExpired \/ ReadProfile
      BY <2>1 DEF TypeOK, DataTypes, StartSync, Baseline, ListHistory,
         HistoryExpired, ReadProfile, rowVars, fetchVars, history
    <2>2. CASE ListAll \/ TakeBatch
      BY <2>2 DEF TypeOK, DataTypes, ListAll, TakeBatch, rowVars, history
    <2>3. CASE EndPage \/ EndFetch \/ Reread \/ EndRetry \/ Store
      BY <2>3 DEF TypeOK, DataTypes, EndPage, EndFetch, Fetched, Track, Reread, Retrying,
         EndRetry, Store, Stored, rowVars, fetchVars, history
    <2>4. CASE ProcessRecord
      <3>1. /\ feed[pos].msg \in Messages
            /\ feed[pos].kind = "labelAdded" => feed[pos].label \in Labels
        BY <2>4, FeedFacts DEF TypeOK, ProcessRecord
      <3>2. QED
        <4>0. DataTypes
          BY DEF TypeOK, DataTypes
        <4>1. rows' \subseteq Messages /\ batch' \subseteq Messages
          BY <2>4, <3>1, <4>0 DEF DataTypes, ProcessRecord, DeleteRow, rowVars
        <4>2. CASE feed[pos].kind = "labelAdded"
          <5>1. rowLabels' \in [Messages -> SUBSET Labels]
            BY <2>4, <3>1, <4>0, <4>2 DEF DataTypes, ProcessRecord
          <5>2. QED
            BY <2>4, <4>0, <4>1, <5>1 DEF DataTypes, ProcessRecord, history
        <4>3. CASE feed[pos].kind # "labelAdded"
          BY <2>4, <3>1, <4>0, <4>1, <4>3 DEF DataTypes, ProcessRecord, DeleteRow,
             rowVars, history
        <4>4. QED
          BY <4>2, <4>3
    <2>5. CASE \E m \in Messages : Got(m) \/ Upsert(m)
      BY <2>5 DEF TypeOK, DataTypes, Got, Upsert, Written, rowVars, history
    <2>6. QED
      BY <2>1, <2>2, <2>3, <2>4, <2>5 DEF Sync
  <1>5. QED
    BY <1>1, <1>3, <1>4 DEF TypeOK, RunTypes, MailTypes, DataTypes

\* Faults keep the types.
LEMMA FaultTypes ==
  ASSUME TypeOK, RunAborts \/ \E m \in Messages : GetFails(m) \/ UpsertFails(m)
  PROVE  TypeOK'
  <1>1. Len(feed) \in Nat
    BY FeedFacts DEF TypeOK
  <1>2. faults' \in 0 .. MaxFaults
    BY BoundsAssumption DEF TypeOK, Fault, RunAborts, GetFails, UpsertFails
  <1>3. CASE RunAborts
    BY <1>1, <1>2, <1>3 DEF TypeOK, RunAborts, Blank, gmailVars, rowVars
  <1>4. CASE \E m \in Messages : GetFails(m) \/ UpsertFails(m)
    BY <1>2, <1>4 DEF TypeOK, GetFails, UpsertFails, gmailVars, rowVars, history, catchUp
  <1>5. QED
    BY <1>3, <1>4

-----------------------------------------------------------------------------
\* Who is owed what, when the feed, the set or the position changes.
LEMMA OwedStays ==
  ASSUME NEW m, NEW S, NEW T, NEW p, UNCHANGED feed, skipped \subseteq skipped',
         m \in S => m \in T, Owed(m, S, p)
  PROVE  m \in T \/ \E i \in At({"added"}, m)' : i > p \/ i \in skipped'
  BY DEF Owed, At

\* What is owed to a message stays owed when Gmail records something more.
LEMMA OwedGrows ==
  ASSUME feed \in Seq(Record), NEW r \in Record, feed' = Append(feed, r),
         UNCHANGED skipped, NEW m, NEW S, NEW p, Owed(m, S, p)
  PROVE  m \in S \/ \E i \in At({"added"}, m)' : i > p \/ i \in skipped'
  <1>1. /\ Len(feed') = Len(feed) + 1 /\ Len(feed) \in Nat
        /\ \A i \in 1 .. Len(feed) : feed'[i] = feed[i]
    BY FeedGrows
  <1>2. \A i \in At({"added"}, m) : i \in At({"added"}, m)'
    BY <1>1 DEF At
  <1>3. QED
    BY <1>2 DEF Owed

\* Gmail's changes: only an arrival adds a message, and the feed announces it
\* after every position there is.
LEMMA GmailStep ==
  ASSUME Inv, NEW m \in Messages,
         Arrive(m) \/ DeleteAtGmail(m) \/ \E l \in Labels : Relabel(m, l)
  PROVE  DeletedGone' /\ Shape' /\ Rest' /\ OnTheWay'
  <1>1. PICK k, x : /\ Recorded(k, m, x)
                    /\ [kind |-> k, msg |-> m, label |-> x] \in Record
                    /\ k = "deleted" => m \notin mailbox'
                    /\ mailbox' \subseteq mailbox \/ (~WasThere(m) /\ k = "added"
                                                      /\ mailbox' = mailbox \cup {m})
    BY DEF Arrive, DeleteAtGmail, Relabel, Record
  <1> DEFINE r == [kind |-> k, msg |-> m, label |-> x]
  <1>2. feed \in Seq(Record) /\ feed' = Append(feed, r) /\ r \in Record
    BY <1>1 DEF Inv, TypeOK, Recorded
  <1>3. /\ Len(feed') = Len(feed) + 1 /\ Len(feed) \in Nat
        /\ \A i \in 1 .. Len(feed) : feed'[i] = feed[i]
        /\ feed'[Len(feed) + 1] = r
    BY <1>2, FeedGrows
  <1>4. UNCHANGED <<rows, failed, dropped, cursor, phase, historyId, pos, upto, todo, batch,
                    held, failing, base, listedAt, skipped>>
    BY <1>1 DEF Recorded, rowVars, fetchVars, history, catchUp
  <1>5. DeletedGone'
    BY <1>1, <1>3 DEF Inv, DeletedGone, WasThere
  <1>6. Shape'
    BY <1>4 DEF Inv, Shape
  <1>7. ASSUME NEW y \in mailbox', NEW S, NEW p \in Nat, p <= Len(feed),
               y \in mailbox => Owed(y, S, p)
        PROVE  y \in S \/ \E i \in At({"added"}, y)' : i > p \/ i \in skipped'
    <2>1. CASE y \in mailbox
      BY <1>2, <1>4, <1>7, <2>1, OwedGrows
    <2>2. CASE y \notin mailbox
      <3>1. y = m /\ k = "added"
        BY <1>1, <1>7, <2>2
      <3>2. Len(feed) + 1 \in At({"added"}, y)' /\ Len(feed) + 1 > p
        BY <1>3, <1>7, <3>1 DEF At
      <3>3. QED
        BY <3>2
    <2>3. QED
      BY <2>1, <2>2
  <1>8. Rest'
    <2> SUFFICES ASSUME cursor' # None, NEW y \in mailbox'
                 PROVE Owed(y, rows \cup failed \cup dropped, cursor)'
      BY DEF Rest
    <2>1. cursor \in Nat /\ cursor <= Len(feed) /\ cursor # None
      BY <1>3, <1>4 DEF Inv, TypeOK
    <2>2. y \in mailbox => Owed(y, rows \cup failed \cup dropped, cursor)
      BY <2>1 DEF Inv, Rest
    <2>3. QED
      BY <1>4, <1>7, <2>1, <2>2 DEF Owed
  <1>9. OnTheWay'
    <2> SUFFICES ASSUME phase' \in Running, NEW y \in mailbox' PROVE Owed(y, Found, Mark)'
      BY DEF OnTheWay
    <2>1. Mark \in Nat /\ Mark <= Len(feed)
      BY <1>3, <1>4 DEF Inv, TypeOK, Shape, Mark, Running
    <2>2. Found' = Found /\ Mark' = Mark
      BY <1>4 DEF Found, Hand, Mark
    <2>3. y \in mailbox => Owed(y, Found, Mark)
      BY <1>4 DEF Inv, OnTheWay
    <2>4. QED
      BY <1>7, <2>1, <2>2, <2>3 DEF Owed
  <1>10. QED
    BY <1>5, <1>6, <1>8, <1>9

-----------------------------------------------------------------------------
\* The positions through a step of the sync.
LEMMA SyncShape ==
  ASSUME TypeOK, Shape, Sync PROVE Shape'
  <1>0. /\ Len(feed) \in Nat /\ cursor \in 0 .. Len(feed) \cup {None}
        /\ historyId \in 0 .. Len(feed) \cup {None}
        /\ pos \in 1 .. Len(feed) + 1 /\ upto \in 0 .. Len(feed)
    BY FeedFacts DEF TypeOK
  <1> USE <1>0, NoneFacts DEF Shape
  <1>1. CASE StartSync
    BY <1>1 DEF StartSync, Phase, fetchVars
  <1>2. CASE Baseline \/ HistoryExpired
    BY <1>2 DEF Baseline, HistoryExpired, Phase, fetchVars
  <1>3. CASE ListAll
    BY <1>3 DEF ListAll, Phase
  <1>4. CASE ListHistory
    BY <1>4 DEF ListHistory, Phase, fetchVars
  <1>5. CASE ProcessRecord \/ EndPage
    BY <1>5 DEF ProcessRecord, EndPage, history, catchUp
  <1>6. CASE TakeBatch \/ EndFetch
    BY <1>6 DEF TakeBatch, EndFetch, Fetched, Track, history, catchUp
  <1>7. CASE ReadProfile
    BY <1>7 DEF ReadProfile, Phase, fetchVars
  <1>8. CASE Reread \/ EndRetry
    BY <1>8 DEF Reread, Retrying, EndRetry, Phase, history, catchUp
  <1>9. CASE Store
    BY <1>9 DEF Store, Stored, Phase, fetchVars
  <1>10. CASE \E m \in Messages : Got(m) \/ Upsert(m)
    BY <1>10 DEF Got, Upsert, Written, history, catchUp
  <1>11. QED
    BY <1>1, <1>2, <1>3, <1>4, <1>5, <1>6, <1>7, <1>8, <1>9, <1>10 DEF Sync

\* No step of the sync touches Gmail.
LEMMA SyncReads ==
  ASSUME Sync PROVE UNCHANGED gmailVars
  BY DEF Sync, StartSync, Baseline, ListAll, ListHistory, HistoryExpired,
     ProcessRecord, EndPage, TakeBatch, EndFetch, Fetched, Track, ReadProfile, Reread,
     Retrying, EndRetry, Store, Stored, Got, Upsert, Written

\* What a run owes it still owes, when nobody at Gmail falls out of its hands.
LEMMA Carry ==
  ASSUME UNCHANGED gmailVars, skipped \subseteq skipped', NEW S, NEW p, Mark' = p,
         \A m \in mailbox : Owed(m, S, p) /\ (m \in S => m \in Found')
  PROVE  OnTheWay'
  <1> SUFFICES ASSUME NEW m \in mailbox' PROVE Owed(m, Found, Mark)'
    BY DEF OnTheWay
  <1>1. m \in Found' \/ \E i \in At({"added"}, m)' : i > p \/ i \in skipped'
    BY OwedStays DEF gmailVars
  <1>2. QED
    BY <1>1 DEF Owed

\* The same for what is in the database, which a step changes only so far.
LEMMA CarryRest ==
  ASSUME UNCHANGED gmailVars, UNCHANGED cursor, skipped \subseteq skipped', Rest,
         cursor # None =>
           \A m \in mailbox :
             m \in rows \cup failed \cup dropped => m \in rows' \cup failed' \cup dropped'
  PROVE  Rest'
  <1> SUFFICES ASSUME cursor # None, NEW m \in mailbox
               PROVE  Owed(m, rows \cup failed \cup dropped, cursor)'
    BY DEF Rest, gmailVars
  <1>1. \/ m \in rows' \cup failed' \cup dropped'
        \/ \E i \in At({"added"}, m)' : i > cursor \/ i \in skipped'
    BY OwedStays DEF Rest, gmailVars
  <1>2. QED
    BY <1>1 DEF Owed

\* A step of the sync that is not the processing of a record keeps what is owed.
LEMMA SyncStep ==
  ASSUME Inv, Sync, ~ProcessRecord PROVE Rest' /\ OnTheWay'
  <1>0. /\ UNCHANGED gmailVars /\ Len(feed) \in Nat
        /\ cursor \in 0 .. Len(feed) \cup {None}
        /\ historyId \in 0 .. Len(feed) \cup {None}
        /\ pos \in 1 .. Len(feed) + 1 /\ upto \in 0 .. Len(feed)
        /\ listedAt \in 0 .. Len(feed) \cup {None}
        /\ TypeOK /\ Shape /\ Rest /\ OnTheWay
    BY SyncReads, FeedFacts DEF Inv, TypeOK
  <1>1. CASE StartSync
    <2>1. Rest'
      BY <1>0, <1>1, CarryRest DEF StartSync, rowVars, history, catchUp
    <2>2. CASE cursor = None
      BY <1>1, <2>1, <2>2 DEF StartSync, Phase, OnTheWay, Running
    <2>3. CASE cursor # None
      <3>1. Mark' = cursor
        BY <1>0, <1>1, <2>3 DEF StartSync, Phase, Mark
      <3>2. \A m \in mailbox : m \in rows \cup failed \cup dropped => m \in Found'
        BY <1>1, <2>3 DEF StartSync, Phase, Found, Hand, rowVars, fetchVars, history
      <3>3. OnTheWay'
        BY <1>0, <1>1, <2>3, <3>1, <3>2, Carry DEF Rest, StartSync, history, catchUp
      <3>4. QED
        BY <2>1, <3>3
    <2>4. QED
      BY <2>2, <2>3
  <1>2. CASE Baseline \/ HistoryExpired
    <2>1. Rest'
      BY <1>0, <1>2, CarryRest DEF Baseline, HistoryExpired, rowVars, history, catchUp
    <2>2. QED
      BY <1>2, <2>1 DEF Baseline, HistoryExpired, Phase, OnTheWay, Running
  <1>3. CASE ListAll
    <2>1. Rest'
      BY <1>0, <1>3, CarryRest DEF ListAll, rowVars
    <2>2. \A m \in mailbox' : m \in Found'
      BY <1>0, <1>3 DEF ListAll, Phase, Found, Hand, gmailVars
    <2>3. QED
      BY <2>1, <2>2 DEF OnTheWay, Owed
  <1>4. CASE ListHistory
    <2>1. Rest'
      BY <1>0, <1>4, CarryRest DEF ListHistory, rowVars, history, catchUp
    <2>2. Mark' = Mark /\ Found' = Found /\ phase \in Running
      BY <1>4 DEF ListHistory, Phase, Mark, Found, Hand, Running, rowVars, fetchVars,
         history
    <2>3. QED
      BY <1>0, <1>4, <2>1, <2>2, Carry DEF ListHistory, OnTheWay, history, catchUp
  <1>5. CASE EndPage
    <2>1. /\ failed \cup dropped \subseteq failed' \cup dropped'
          /\ UNCHANGED <<rows, cursor, skipped>>
      BY <1>5 DEF EndPage, Track, rowVars, history, catchUp
    <2>2. Rest'
      BY <1>0, <2>1, CarryRest
    <2>3. Mark' = Mark
      BY <1>0, <1>5 DEF EndPage, Track, Mark, Shape
    <2>4. Found \subseteq Found' /\ phase \in Running
      BY <1>5 DEF EndPage, Track, Found, Hand, Running, rowVars
    <2>5. QED
      BY <1>0, <2>1, <2>2, <2>3, <2>4, Carry DEF OnTheWay
  <1>6. CASE TakeBatch
    <2>1. Rest'
      BY <1>0, <1>6, CarryRest DEF TakeBatch, rowVars, history, catchUp
    <2>2. Mark' = Mark
      BY <1>6 DEF TakeBatch, Mark, history, catchUp
    <2>3. Found \subseteq Found' /\ phase \in Running
      BY <1>6 DEF TakeBatch, Settled, Found, Hand, Running, rowVars, history
    <2>4. QED
      BY <1>0, <1>6, <2>1, <2>2, <2>3, Carry DEF OnTheWay, TakeBatch, history, catchUp
  <1>7. CASE EndFetch
    <2>1. /\ failed \cup dropped \subseteq failed' \cup dropped'
          /\ UNCHANGED <<rows, cursor, skipped>>
      BY <1>7 DEF EndFetch, Fetched, Track, rowVars, history, catchUp
    <2>2. Rest'
      BY <1>0, <2>1, CarryRest
    <2>3. Mark' = Mark
      BY <1>7 DEF EndFetch, Fetched, Track, Mark, history, catchUp
    <2>4. Found \subseteq Found' /\ phase \in Running
      BY <1>7 DEF EndFetch, Fetched, Track, Found, Hand, Running, rowVars
    <2>5. QED
      BY <1>0, <2>1, <2>2, <2>3, <2>4, Carry DEF OnTheWay
  <1>8. CASE ReadProfile
    <2>1. Rest'
      BY <1>0, <1>8, CarryRest DEF ReadProfile, rowVars
    <2>2. Mark = listedAt /\ listedAt \in Nat /\ listedAt <= Len(feed) /\ phase \in Running
      BY <1>0, <1>8 DEF ReadProfile, Phase, Shape, Mark, Running
    <2>3. Found' = Found
      BY <1>8 DEF ReadProfile, Phase, Found, Hand, rowVars, fetchVars
    <2>4. SUFFICES ASSUME NEW m \in mailbox PROVE Owed(m, Found, Mark)'
      BY <1>0, <2>1 DEF OnTheWay, gmailVars
    <2>5. CASE m \in Found
      BY <2>3, <2>5 DEF Owed
    <2>6. CASE m \notin Found
      <3>1. PICK i \in At({"added"}, m) : i > listedAt \/ i \in skipped
        BY <1>0, <2>2, <2>6 DEF OnTheWay, Owed
      <3>2. i \in listedAt + 1 .. Len(feed) \/ i \in skipped
        BY <2>2, <3>1 DEF At
      <3>3. i \in skipped'
        BY <1>8, <3>2 DEF ReadProfile
      <3>4. i \in At({"added"}, m)'
        BY <1>0, <3>1 DEF At, gmailVars
      <3>5. QED
        BY <3>3, <3>4 DEF Owed
    <2>7. QED
      BY <2>5, <2>6
  <1>9. CASE Reread
    <2>1. Rest'
      BY <1>0, <1>9, CarryRest DEF Reread, Retrying, rowVars, history, catchUp
    <2>2. Mark' = Mark
      BY <1>9 DEF Reread, Retrying, Phase, Mark, history, catchUp
    <2>3. Found \subseteq Found' /\ phase \in Running
      BY <1>0, <1>9 DEF Reread, Retrying, Phase, Shape, Found, Hand, Running, rowVars,
         history
    <2>4. QED
      BY <1>0, <1>9, <2>1, <2>2, <2>3, Carry DEF OnTheWay, Reread, Retrying, history,
         catchUp
  <1>10. CASE EndRetry
    <2>1. Mark = historyId /\ Mark' = historyId /\ historyId # None /\ phase \in Running
      BY <1>0, <1>10 DEF EndRetry, Phase, Shape, Mark, Running, history, catchUp
    <2>2. /\ Found = rows \cup dropped \cup failing
          /\ Found' = rows' \cup failed' \cup dropped'
          /\ rows' = rows /\ dropped' = dropped /\ failed' = failing
      BY <1>10 DEF EndRetry, Phase, Settled, Found, Hand, rowVars, history
    <2>3. OnTheWay'
      BY <1>0, <1>10, <2>1, <2>2, Carry DEF OnTheWay, EndRetry, history, catchUp
    <2>4. Rest'
      <3> SUFFICES ASSUME cursor # None, NEW m \in mailbox
                   PROVE  Owed(m, rows \cup failed \cup dropped, cursor)'
        BY <1>0, <1>10 DEF Rest, EndRetry, gmailVars
      <3>1. cursor' = cursor /\ cursor \in Nat /\ historyId \in Nat /\ cursor <= historyId
        BY <1>0, <1>10, <2>1 DEF EndRetry, Shape
      <3>2. Owed(m, Found, historyId)
        BY <1>0, <2>1 DEF OnTheWay
      <3>3. Owed(m, Found, cursor)
        <4>1. \A i \in At({"added"}, m) : i > historyId => i > cursor
          BY <1>0, <3>1 DEF At
        <4>2. QED
          BY <3>2, <4>1 DEF Owed
      <3>4. QED
        BY <1>0, <1>10, <2>2, <3>1, <3>3, OwedStays DEF Owed, EndRetry, history, catchUp,
           gmailVars
    <2>5. QED
      BY <2>3, <2>4
  <1>11. CASE Store
    <2>1. OnTheWay'
      BY <1>11 DEF Store, Stored, Phase, OnTheWay, Running
    <2>2. Mark = historyId /\ Found = rows \cup failed \cup dropped /\ phase \in Running
      BY <1>11 DEF Store, Stored, Phase, Mark, Found, Running
    <2>3. \A m \in mailbox : Owed(m, rows \cup failed \cup dropped, historyId)
      BY <1>0, <2>2 DEF OnTheWay
    <2>4. cursor' = historyId /\ UNCHANGED <<rows, failed, dropped, skipped>>
      BY <1>11 DEF Store, Stored, rowVars
    <2>5. Rest'
      BY <1>0, <2>3, <2>4 DEF Rest, Owed, At, gmailVars
    <2>6. QED
      BY <2>1, <2>5
  <1>12. CASE \E m \in Messages : Got(m) \/ Upsert(m)
    <2>1. PICK m \in Messages : Got(m) \/ Upsert(m)
      BY <1>12
    <2>2. rows \subseteq rows' /\ UNCHANGED <<failed, dropped, cursor, skipped, phase,
                                              historyId, pos, listedAt>>
      BY <2>1 DEF Got, Upsert, Written, rowVars, history, catchUp
    <2>3. Rest'
      BY <1>0, <2>2, CarryRest
    <2>4. Mark' = Mark
      BY <2>2 DEF Mark
    <2>5. \A y \in mailbox : y \in Hand => y \in Hand'
      BY <2>1 DEF Got, Upsert, Written, Hand, rowVars, history
    <2>7. \A y \in mailbox : y \in Found => y \in Found'
      BY <2>2, <2>5 DEF Found
    <2>8. QED
      BY <1>0, <2>2, <2>3, <2>4, <2>7, Carry DEF OnTheWay
  <1>13. QED
    BY <1>1, <1>2, <1>3, <1>4, <1>5, <1>6, <1>7, <1>8, <1>9, <1>10, <1>11, <1>12 DEF Sync

\* A record is only behind the run once its message is in hand.
LEMMA RecordStep ==
  ASSUME Inv, ProcessRecord PROVE Rest' /\ OnTheWay'
  <1>0. /\ UNCHANGED <<gmailVars, cursor, failed, dropped, phase, todo, held, failing,
                       skipped>>
        /\ mailbox \subseteq Messages /\ Len(feed) \in Nat
        /\ pos \in 1 .. Len(feed) /\ pos' = pos + 1 /\ phase = "page" /\ batch = {}
        /\ skipped \subseteq skipped'
    BY FeedFacts DEF Inv, TypeOK, ProcessRecord, Settled, history, catchUp
  <1>1. \A m \in mailbox : m \in rows => m \in rows'
    <2>1. CASE feed[pos].kind = "deleted"
      <3>1. feed[pos].msg \notin mailbox
        BY <1>0, <2>1 DEF Inv, DeletedGone
      <3>2. rows' = rows \ {feed[pos].msg}
        BY <2>1 DEF ProcessRecord, DeleteRow
      <3>3. QED
        BY <3>1, <3>2
    <2>2. CASE feed[pos].kind # "deleted"
      BY <2>2 DEF ProcessRecord, rowVars
    <2>3. QED
      BY <2>1, <2>2
  <1>2. Rest'
    BY <1>0, <1>1, CarryRest DEF Inv
  <1>3. OnTheWay'
    <2>1. Mark = pos - 1 /\ Mark' = pos /\ phase \in Running
          /\ Found = Hand \cup failed /\ Found' = Hand' \cup failed
      BY <1>0 DEF Mark, Found, Running
    <2>2. \A m \in mailbox : m \in Found => m \in Found'
      BY <1>0, <1>1, <2>1 DEF Hand
    <2> SUFFICES ASSUME NEW m \in mailbox PROVE Owed(m, Found, Mark)'
      BY <1>0 DEF OnTheWay, gmailVars
    <2>3. CASE m \in Found
      BY <2>2, <2>3 DEF Owed
    <2>4. CASE m \notin Found
      <3>1. PICK i \in At({"added"}, m) : i > pos - 1 \/ i \in skipped
        BY <2>1, <2>4 DEF Inv, OnTheWay, Owed
      <3>2. i \in At({"added"}, m)' /\ i \in Nat /\ feed[i].kind = "added" /\ feed[i].msg = m
        BY <1>0, <3>1 DEF At, gmailVars
      <3>3. CASE i = pos
        <4>1. m \in batch'
          BY <3>2, <3>3 DEF ProcessRecord
        <4>2. QED
          BY <2>1, <4>1 DEF Owed, Hand
      <3>4. CASE i # pos
        <4>1. i > pos \/ i \in skipped'
          BY <1>0, <3>1, <3>2, <3>4
        <4>2. QED
          BY <2>1, <3>2, <4>1 DEF Owed
      <3>5. QED
        BY <3>3, <3>4
    <2>5. QED
      BY <2>3, <2>4
  <1>4. QED
    BY <1>2, <1>3

\* A fault loses nothing that is not on its way again.
LEMMA FaultStep ==
  ASSUME Inv, RunAborts \/ \E m \in Messages : GetFails(m) \/ UpsertFails(m)
  PROVE  DeletedGone' /\ Shape' /\ Rest' /\ OnTheWay'
  <1>0. UNCHANGED <<gmailVars, rowVars, cursor, failed, dropped, skipped>>
    BY DEF RunAborts, GetFails, UpsertFails, history, catchUp
  <1>1. DeletedGone' /\ Rest'
    BY <1>0 DEF Inv, DeletedGone, Rest, Owed, At, gmailVars, rowVars
  <1>2. CASE RunAborts
    BY <1>1, <1>2, NoneFacts DEF RunAborts, Shape, OnTheWay, Running
  <1>3. CASE \E m \in Messages : GetFails(m) \/ UpsertFails(m)
    <2>1. PICK m \in Messages : GetFails(m) \/ UpsertFails(m)
      BY <1>3
    <2>2. UNCHANGED <<phase, historyId, pos, upto, todo, listedAt>>
      BY <2>1 DEF GetFails, UpsertFails, history, catchUp
    <2>3. Shape'
      BY <1>0, <2>2 DEF Inv, Shape
    <2>4. \A y \in mailbox : y \in Hand => y \in Hand'
      BY <1>0, <2>1 DEF GetFails, UpsertFails, Hand, rowVars
    <2>5. Mark' = Mark /\ \A y \in mailbox : y \in Found => y \in Found'
      BY <1>0, <2>2, <2>4 DEF Mark, Found, rowVars
    <2>6. phase' \in Running => phase \in Running
      BY <2>2
    <2>7. CASE phase \in Running
      BY <1>0, <1>1, <2>3, <2>5, <2>7, Carry DEF Inv, OnTheWay
    <2>8. CASE phase \notin Running
      BY <1>1, <2>2, <2>3, <2>8 DEF OnTheWay
    <2>9. QED
      BY <2>7, <2>8
  <1>4. QED
    BY <1>2, <1>3

-----------------------------------------------------------------------------
\* Every step keeps the invariant.
LEMMA NextInv == Inv /\ [Next]_vars => Inv'
  <1> SUFFICES ASSUME Inv, [Next]_vars PROVE Inv'
    OBVIOUS
  <1>1. CASE Sync
    <2>1. TypeOK' /\ Shape'
      BY <1>1, SyncTypes, SyncShape DEF Inv
    <2>2. DeletedGone'
      BY <1>1, SyncReads DEF Inv, DeletedGone, gmailVars
    <2>3. Rest' /\ OnTheWay'
      BY <1>1, SyncStep, RecordStep
    <2>4. QED
      BY <2>1, <2>2, <2>3 DEF Inv
  <1>2. CASE RunAborts \/ \E m \in Messages : GetFails(m) \/ UpsertFails(m)
    BY <1>2, FaultTypes, FaultStep DEF Inv
  <1>3. CASE \E m \in Messages : Arrive(m) \/ DeleteAtGmail(m) \/ \E l \in Labels : Relabel(m, l)
    <2>1. PICK m \in Messages : Arrive(m) \/ DeleteAtGmail(m) \/ \E l \in Labels : Relabel(m, l)
      BY <1>3
    <2>2. QED
      BY <2>1, GmailTypes, GmailStep DEF Inv
  <1>4. CASE UNCHANGED vars
    BY <1>4 DEF vars, gmailVars, rowVars, fetchVars, history, catchUp, Inv, TypeOK,
       DeletedGone,
       Shape, Rest, OnTheWay, Owed, At, Found, Mark, Hand
  <1>5. QED
    BY <1>1, <1>2, <1>3, <1>4 DEF Next

\* The types hold in every reachable state.
THEOREM TypeCorrect == Spec => []TypeOK
  <1>1. Inv => TypeOK
    BY DEF Inv
  <1>2. QED
    BY InitInv, NextInv, <1>1, PTL DEF Spec

\* Whatever fails, and wherever a sync is cut off: a message at Gmail has a row, or
\* the database knows how to get it, unless it arrived while a catch-up ran or failed
\* when the retry list was full.
THEOREM NoMessageLost == Spec => []NothingForgotten
  <1>1. Inv => NothingForgotten
    BY DEF Inv, Rest, Owed, NothingForgotten
  <1>2. QED
    BY InitInv, NextInv, <1>1, PTL DEF Spec

-----------------------------------------------------------------------------
(* What the rows say of Gmail. Inv says where a run is in the feed; the      *)
(* invariants of this part say how far behind it the rows may be.            *)

\* More on where a run is: only the first run lists from a baseline, a position
\* is never before the cursor, and messages are in hand only where they are taken.
Course ==
  /\ phase = "baseline" => cursor = None
  /\ phase \in {"list", "fetch"} /\ historyId # None => cursor = None
  /\ phase \notin {"page", "fetch", "retry"} => batch = {} /\ held = {}
  /\ cursor # None => /\ phase \in {"history", "page"} => cursor < pos
                      /\ phase \in {"fetch", "profile"} => cursor <= listedAt

\* The messages Gmail no longer has and a row has, or will have.
Gone == (rows \cup held) \ mailbox

\* The deletion of m is after position p, or the last listing was later.
Buried(m, p) == \E i \in At({"deleted"}, m) : i > p \/ i <= base

Announced    == \A m \in Gone : At({"deleted"}, m) # {}
GhostsRest   == cursor # None => \A m \in Gone : Buried(m, cursor)
GhostsAhead  ==
  phase \in {"history", "page", "reread", "retry", "store"} /\ cursor # None
  /\ listedAt = None => \A m \in Gone : Buried(m, Mark)

GhostInv == Inv /\ Course /\ Announced /\ GhostsRest /\ GhostsAhead

\* The messages that the run is still to write, or the next one to fetch, or that
\* had no place on the retry list.
Pending ==
  dropped \cup
  CASE phase = "retry" -> todo \cup batch \cup held \cup failing
    [] phase = "store" -> failed
    [] OTHER           -> todo \cup batch \cup held \cup failing \cup failed

\* On label l of m, the labels ls are those at Gmail or a change of it is after p.
Follows(m, l, ls, p) ==
  (l \in ls <=> l \in labels[m]) \/ \E i \in LabelChanges(m, l) : i > p \/ i \in skipped

\* A change of a label is what Gmail has, or a later one is.
LastChange ==
  \A m \in mailbox, l \in Labels : \A i \in LabelChanges(m, l) :
    (l \in labels[m] <=> feed[i].kind = "labelAdded") \/ \E j \in LabelChanges(m, l) : j > i

LabelsRest ==
  cursor # None =>
    \A m \in (rows \cap mailbox) \ (failed \cup dropped), l \in Labels :
      Follows(m, l, rowLabels[m], cursor)

LabelsAhead ==
  phase \in Running =>
    \A m \in mailbox, l \in Labels :
      /\ m \in rows \ Pending => Follows(m, l, rowLabels[m], Mark)
      /\ m \in held => Follows(m, l, fetched[m], Mark)

LabelInv == GhostInv /\ LastChange /\ LabelsRest /\ LabelsAhead

-----------------------------------------------------------------------------
\* What TypeOK says of the positions.
LEMMA Positions ==
  ASSUME TypeOK
  PROVE  /\ Len(feed) \in Nat /\ feed \in Seq(Record)
         /\ cursor \in 0 .. Len(feed) \cup {None}
         /\ historyId \in 0 .. Len(feed) \cup {None}
         /\ pos \in 1 .. Len(feed) + 1 /\ upto \in 0 .. Len(feed)
         /\ base \in 0 .. Len(feed) /\ listedAt \in 0 .. Len(feed) \cup {None}
  BY FeedFacts DEF TypeOK

\* A step of the sync keeps its course.
LEMMA SyncCourse ==
  ASSUME Inv, Course, Sync PROVE Course'
  <1>0. Shape /\ TypeOK
    BY DEF Inv
  <1> USE <1>0, Positions, NoneFacts DEF Shape, Course
  <1>1. CASE StartSync
    BY <1>1 DEF StartSync, Phase, fetchVars
  <1>2. CASE Baseline \/ HistoryExpired
    BY <1>2 DEF Baseline, HistoryExpired, Phase, fetchVars
  <1>3. CASE ListAll
    BY <1>3 DEF ListAll, Phase
  <1>4. CASE ListHistory
    BY <1>4 DEF ListHistory, Phase, fetchVars, history, catchUp
  <1>5. CASE ProcessRecord \/ EndPage
    BY <1>5 DEF ProcessRecord, EndPage, Settled, history, catchUp
  <1>6. CASE TakeBatch \/ EndFetch
    BY <1>6 DEF TakeBatch, EndFetch, Fetched, Track, Settled, history, catchUp
  <1>7. CASE ReadProfile
    BY <1>7 DEF ReadProfile, Phase, fetchVars
  <1>8. CASE Reread \/ EndRetry
    BY <1>8 DEF Reread, Retrying, EndRetry, Phase, Settled, history, catchUp
  <1>9. CASE Store
    BY <1>9 DEF Store, Stored, Phase, fetchVars
  <1>10. CASE \E m \in Messages : Got(m) \/ Upsert(m)
    BY <1>10 DEF Got, Upsert, Written, history, catchUp
  <1>11. QED
    BY <1>1, <1>2, <1>3, <1>4, <1>5, <1>6, <1>7, <1>8, <1>9, <1>10 DEF Sync

\* So does a fault, ...
LEMMA FaultCourse ==
  ASSUME Inv, Course, RunAborts \/ \E m \in Messages : GetFails(m) \/ UpsertFails(m)
  PROVE  Course'
  <1>1. CASE RunAborts
    BY <1>1, NoneFacts DEF RunAborts, Course
  <1>2. CASE \E m \in Messages : GetFails(m) \/ UpsertFails(m)
    BY <1>2 DEF GetFails, UpsertFails, Course, history, catchUp
  <1>3. QED
    BY <1>1, <1>2

\* ... and what happens at Gmail touches only the mailbox and the feed.
LEMMA GmailLeaves ==
  ASSUME NEW m \in Messages,
         Arrive(m) \/ DeleteAtGmail(m) \/ \E l \in Labels : Relabel(m, l)
  PROVE  UNCHANGED <<rows, rowLabels, cursor, failed, dropped, phase, historyId, pos,
                     upto, todo,
                     batch, held, fetched, failing, base, listedAt, skipped>>
  BY DEF Arrive, DeleteAtGmail, Relabel, Recorded, rowVars, fetchVars, history, catchUp

\* The position of a run that is under way is one of the feed, and not before
\* the cursor.
LEMMA MarkFacts ==
  ASSUME Inv, Course, phase \in Running
  PROVE  /\ Mark \in Nat /\ Mark <= Len(feed)
         /\ cursor # None => cursor \in Nat /\ cursor <= Mark
  <1>1. TypeOK /\ Shape
    BY DEF Inv
  <1>2. QED
    BY <1>1, Positions, NoneFacts DEF Shape, Course, Mark, Running

-----------------------------------------------------------------------------
\* A message becomes a ghost when its deletion is recorded, after every position.
LEMMA GmailGhosts ==
  ASSUME GhostInv, NEW m \in Messages,
         Arrive(m) \/ DeleteAtGmail(m) \/ \E l \in Labels : Relabel(m, l)
  PROVE  Announced' /\ GhostsRest' /\ GhostsAhead'
  <1>1. PICK k, x : /\ Recorded(k, m, x)
                    /\ [kind |-> k, msg |-> m, label |-> x] \in Record
                    /\ \A y \in mailbox \ mailbox' : k = "deleted" /\ y = m
    BY DEF Arrive, DeleteAtGmail, Relabel, Record
  <1> DEFINE r == [kind |-> k, msg |-> m, label |-> x]
  <1>2. feed \in Seq(Record) /\ feed' = Append(feed, r) /\ r \in Record /\ Inv /\ Course
    BY <1>1 DEF GhostInv, Inv, TypeOK, Recorded
  <1>3. /\ Len(feed') = Len(feed) + 1 /\ Len(feed) \in Nat
        /\ \A i \in 1 .. Len(feed) : feed'[i] = feed[i]
        /\ feed'[Len(feed) + 1] = r
    BY <1>2, FeedGrows
  <1>4. UNCHANGED <<rows, cursor, phase, historyId, pos, held, base, listedAt>>
    BY GmailLeaves
  <1>5. ASSUME NEW y \in Gone'
        PROVE  \/ y \in Gone
               \/ Len(feed) + 1 \in At({"deleted"}, y)'
    <2>1. CASE y \in mailbox
      <3>1. k = "deleted" /\ y = m
        BY <1>1, <1>4, <1>5, <2>1 DEF Gone
      <3>2. QED
        BY <1>3, <3>1 DEF At
    <2>2. CASE y \notin mailbox
      BY <1>4, <1>5, <2>2 DEF Gone
    <2>3. QED
      BY <2>1, <2>2
  <1>6. \A y : \A i \in At({"deleted"}, y) : i \in At({"deleted"}, y)'
    BY <1>3 DEF At
  <1>7. Announced'
    BY <1>5, <1>6 DEF GhostInv, Announced
  <1>8. ASSUME NEW y \in Gone', NEW p \in Nat, p <= Len(feed), y \in Gone => Buried(y, p)
        PROVE  \E i \in At({"deleted"}, y)' : i > p \/ i <= base
    <2>1. CASE y \in Gone
      BY <1>6, <1>8, <2>1 DEF Buried
    <2>2. CASE y \notin Gone
      BY <1>3, <1>5, <1>8, <2>2
    <2>3. QED
      BY <2>1, <2>2
  <1>9. GhostsRest'
    <2> SUFFICES ASSUME cursor' # None, NEW y \in Gone' PROVE Buried(y, cursor)'
      BY DEF GhostsRest
    <2>1. cursor \in Nat /\ cursor <= Len(feed) /\ cursor # None
      BY <1>2, <1>4, Positions DEF Inv
    <2>2. y \in Gone => Buried(y, cursor)
      BY <2>1 DEF GhostInv, GhostsRest
    <2>3. QED
      BY <1>4, <1>8, <2>1, <2>2 DEF Buried
  <1>10. GhostsAhead'
    <2> SUFFICES ASSUME phase' \in {"history", "page", "reread", "retry", "store"},
                        cursor' # None, listedAt' = None, NEW y \in Gone'
                 PROVE  Buried(y, Mark)'
      BY DEF GhostsAhead
    <2>1. Mark \in Nat /\ Mark <= Len(feed) /\ Mark' = Mark
      BY <1>2, <1>4, MarkFacts DEF Mark, Running
    <2>2. y \in Gone => Buried(y, Mark)
      BY <1>4 DEF GhostInv, GhostsAhead
    <2>3. QED
      BY <1>4, <1>8, <2>1, <2>2 DEF Buried
  <1>11. QED
    BY <1>7, <1>9, <1>10

\* What the sync has of the dead it had before.
LEMMA SyncGone ==
  ASSUME Sync PROVE Gone' \subseteq Gone /\ UNCHANGED feed
  <1>1. UNCHANGED gmailVars
    BY SyncReads
  <1>2. CASE ProcessRecord
    BY <1>1, <1>2 DEF ProcessRecord, DeleteRow, Gone, gmailVars, rowVars
  <1>3. CASE \E m \in Messages : Got(m) \/ Upsert(m)
    BY <1>1, <1>3 DEF Got, Upsert, Written, Gone, gmailVars, rowVars
  <1>4. CASE ~ProcessRecord /\ ~\E m \in Messages : Got(m) \/ Upsert(m)
    BY <1>1, <1>4 DEF Sync, StartSync, Baseline, ListAll, ListHistory, HistoryExpired,
       EndPage, TakeBatch, EndFetch, Fetched, Track, ReadProfile, Reread, Retrying,
       EndRetry,
       Store, Stored, Gone, gmailVars, rowVars, fetchVars
  <1>5. QED
    BY <1>1, <1>2, <1>3, <1>4 DEF gmailVars

\* A step that goes on from the same position keeps the ghosts ahead of it.
LEMMA GhostsCarry ==
  ASSUME Gone' \subseteq Gone, UNCHANGED <<feed, base>>, NEW p, Mark' = p,
         \A y \in Gone : Buried(y, p)
  PROVE  GhostsAhead'
  <1>1. \A y \in Gone' : Buried(y, p)'
    BY DEF Buried, At
  <1>2. QED
    BY <1>1 DEF GhostsAhead, Buried, At

\* Every step of the sync keeps the ghosts in front of the run: one that is read
\* loses its row, and after a listing the base is past them all.
LEMMA SyncGhosts ==
  ASSUME GhostInv, Sync PROVE Announced' /\ GhostsRest' /\ GhostsAhead'
  <1>0. /\ TypeOK /\ Shape /\ Course /\ Inv
        /\ Gone' \subseteq Gone /\ UNCHANGED feed
        /\ Announced /\ GhostsRest /\ GhostsAhead
    BY SyncGone DEF GhostInv, Inv
  <1>1. Announced'
    BY <1>0 DEF Announced, At
  <1>2. ASSUME UNCHANGED <<cursor, base>> PROVE GhostsRest'
    BY <1>0, <1>2 DEF GhostsRest, Buried, At
  <1>3. CASE StartSync
    <2>1. GhostsRest'
      BY <1>2, <1>3 DEF StartSync, history, catchUp
    <2>2. CASE cursor = None
      BY <1>1, <1>3, <2>1, <2>2 DEF StartSync, Phase, GhostsAhead
    <2>3. CASE cursor # None
      <3>1. Mark' = cursor
        BY <1>0, <1>3, <2>3, Positions DEF StartSync, Phase, Mark
      <3>2. GhostsAhead'
        BY <1>0, <1>3, <2>3, <3>1, GhostsCarry DEF StartSync, GhostsRest, history, catchUp
      <3>3. QED
        BY <1>1, <2>1, <3>2
    <2>4. QED
      BY <1>1, <2>1, <2>2, <2>3
  <1>4. CASE Baseline \/ ListAll \/ HistoryExpired
    <2>1. UNCHANGED <<cursor, base>> /\ phase' \in {"list", "fetch"}
      BY <1>4 DEF Baseline, ListAll, HistoryExpired, Phase, history, catchUp
    <2>2. QED
      BY <1>1, <1>2, <2>1 DEF GhostsAhead
  <1>5. CASE ListHistory \/ Reread
    <2>1. /\ phase \in {"history", "reread"} /\ UNCHANGED <<cursor, listedAt, base>>
          /\ Mark' = Mark
      BY <1>5 DEF ListHistory, Reread, Retrying, Phase, Mark, history, catchUp
    <2>2. QED
      BY <1>0, <1>1, <1>2, <2>1, GhostsCarry DEF GhostsAhead
  <1>6. CASE TakeBatch \/ \E m \in Messages : Got(m) \/ Upsert(m)
    <2>1. UNCHANGED <<phase, historyId, pos, cursor, listedAt, base>>
      BY <1>6 DEF TakeBatch, Got, Upsert, Written, history, catchUp
    <2>2. Mark' = Mark
      BY <2>1 DEF Mark
    <2>3. QED
      BY <1>0, <1>1, <1>2, <2>1, <2>2, GhostsCarry DEF GhostsAhead
  <1>7. CASE EndPage
    <2>1. /\ phase = "page" /\ UNCHANGED <<cursor, listedAt, base>> /\ Mark' = Mark
      BY <1>0, <1>7, Positions DEF EndPage, Track, Mark, Shape, history, catchUp
    <2>2. QED
      BY <1>0, <1>1, <1>2, <2>1, GhostsCarry DEF GhostsAhead
  <1>8. CASE EndFetch
    <2>1. UNCHANGED <<cursor, listedAt, base, historyId>> /\ phase = "fetch"
      BY <1>8 DEF EndFetch, Fetched, Track, history, catchUp
    <2>2. phase' = "profile" \/ cursor = None
      BY <1>0, <1>8 DEF EndFetch, Fetched, Track, Course
    <2>3. QED
      BY <1>1, <1>2, <2>1, <2>2 DEF GhostsAhead
  <1>9. CASE ReadProfile
    <2>1. UNCHANGED <<cursor, listedAt, base>> /\ listedAt # None
      BY <1>0, <1>9 DEF ReadProfile, Phase, Shape
    <2>2. QED
      BY <1>1, <1>2, <2>1 DEF GhostsAhead
  <1>10. CASE EndRetry
    <2>1. /\ phase = "retry" /\ UNCHANGED <<cursor, listedAt, base>>
          /\ Mark' = Mark
      BY <1>10 DEF EndRetry, Phase, Mark, history, catchUp
    <2>2. QED
      BY <1>0, <1>1, <1>2, <2>1, GhostsCarry DEF GhostsAhead
  <1>11. CASE Store
    <2>1. /\ phase = "store" /\ phase' = "idle" /\ cursor' = historyId
          /\ base' = IF cursor = None \/ listedAt # None THEN historyId ELSE base
      BY <1>11 DEF Store, Stored, Phase
    <2>2. Mark = historyId /\ historyId \in Nat
      BY <1>0, <2>1, Positions DEF Mark, Shape
    <2>3. SUFFICES ASSUME NEW y \in Gone'
                   PROVE \E i \in At({"deleted"}, y)' : i > historyId \/ i <= base'
      BY <1>1, <2>1 DEF GhostsRest, GhostsAhead, Buried
    <2>4. CASE cursor = None \/ listedAt # None
      <3>1. PICK i : i \in At({"deleted"}, y)'
        BY <1>1, <2>3 DEF Announced
      <3>2. i \in Nat
        BY <1>0, <3>1, Positions DEF At
      <3>3. i > historyId \/ i <= base'
        BY <2>1, <2>2, <2>4, <3>2
      <3>4. QED
        BY <3>1, <3>3
    <2>5. CASE cursor # None /\ listedAt = None
      BY <1>0, <2>1, <2>2, <2>3, <2>5 DEF GhostsAhead, Buried, At
    <2>6. QED
      BY <2>4, <2>5
  <1>12. CASE ProcessRecord
    <2>0. /\ UNCHANGED <<mailbox, cursor, base, listedAt, phase, held>>
          /\ phase = "page" /\ held = {} /\ pos' = pos + 1 /\ pos \in Nat
      BY <1>0, <1>12, Positions DEF ProcessRecord, Settled, gmailVars, history, catchUp
    <2>1. Mark = pos - 1 /\ Mark' = pos
      BY <2>0 DEF Mark
    <2> SUFFICES ASSUME cursor # None, listedAt = None, NEW y \in Gone'
                 PROVE  \E i \in At({"deleted"}, y)' : i > pos \/ i <= base
      BY <1>1, <1>2, <2>0, <2>1 DEF GhostsAhead, Buried
    <2>2. PICK i \in At({"deleted"}, y) : i > pos - 1 \/ i <= base
      BY <1>0, <2>0, <2>1 DEF GhostsAhead, Buried
    <2>3. i \in Nat /\ feed[i].kind = "deleted" /\ feed[i].msg = y
      BY <1>0, <2>2, Positions DEF At
    <2>4. i # pos
      <3>1. SUFFICES ASSUME i = pos PROVE FALSE
        OBVIOUS
      <3>2. rows' = rows \ {y}
        BY <1>12, <2>3, <3>1 DEF ProcessRecord, DeleteRow
      <3>3. QED
        BY <2>0, <3>2 DEF Gone
    <2>5. i \in At({"deleted"}, y)'
      BY <1>0, <2>2 DEF At
    <2>6. i > pos \/ i <= base
      BY <2>0, <2>2, <2>3, <2>4
    <2>7. QED
      BY <2>5, <2>6
  <1>13. QED
    BY <1>3, <1>4, <1>5, <1>6, <1>7, <1>8, <1>9, <1>10, <1>11, <1>12 DEF Sync

\* A fault leaves fewer of them.
LEMMA FaultGhosts ==
  ASSUME GhostInv, RunAborts \/ \E m \in Messages : GetFails(m) \/ UpsertFails(m)
  PROVE  Announced' /\ GhostsRest' /\ GhostsAhead'
  <1>1. Gone' \subseteq Gone /\ UNCHANGED <<feed, cursor, base>>
    BY DEF RunAborts, GetFails, UpsertFails, Gone, gmailVars, rowVars, history, catchUp
  <1>2. Announced' /\ GhostsRest'
    BY <1>1 DEF GhostInv, Announced, GhostsRest, Buried, At
  <1>3. CASE RunAborts
    BY <1>2, <1>3 DEF RunAborts, GhostsAhead
  <1>4. CASE \E m \in Messages : GetFails(m) \/ UpsertFails(m)
    <2>1. UNCHANGED <<phase, historyId, pos, listedAt>>
      BY <1>4 DEF GetFails, UpsertFails, history, catchUp
    <2>2. Mark' = Mark
      BY <2>1 DEF Mark
    <2>3. QED
      BY <1>1, <1>2, <2>1, <2>2, GhostsCarry DEF GhostInv, GhostsAhead
  <1>5. QED
    BY <1>3, <1>4

LEMMA GhostInit == Init => GhostInv
  BY InitInv DEF Init, GhostInv, Course, Announced, GhostsRest, GhostsAhead, Gone

LEMMA GhostNext == GhostInv /\ [Next]_vars => GhostInv'
  <1> SUFFICES ASSUME GhostInv, [Next]_vars PROVE GhostInv'
    OBVIOUS
  <1>0. Inv /\ Course /\ Inv'
    BY NextInv DEF GhostInv
  <1>1. CASE Sync
    BY <1>0, <1>1, SyncCourse, SyncGhosts DEF GhostInv
  <1>2. CASE RunAborts \/ \E m \in Messages : GetFails(m) \/ UpsertFails(m)
    BY <1>0, <1>2, FaultCourse, FaultGhosts DEF GhostInv
  <1>3. CASE \E m \in Messages : Arrive(m) \/ DeleteAtGmail(m) \/ \E l \in Labels : Relabel(m, l)
    <2>1. PICK m \in Messages : Arrive(m) \/ DeleteAtGmail(m) \/ \E l \in Labels : Relabel(m, l)
      BY <1>3
    <2>2. Course'
      BY <1>0, <2>1, GmailLeaves DEF Course
    <2>3. QED
      BY <1>0, <2>1, <2>2, GmailGhosts DEF GhostInv
  <1>4. CASE UNCHANGED vars
    BY <1>0, <1>4 DEF vars, gmailVars, rowVars, fetchVars, history, catchUp, GhostInv,
       Course,
       Announced, GhostsRest, GhostsAhead, Gone, Buried, At, Mark
  <1>5. QED
    BY <1>1, <1>2, <1>3, <1>4 DEF Next

\* A row whose message Gmail has deleted goes with a record that is still to be
\* read, unless a listing came after the deletion.
THEOREM NoGhostsStay == Spec => []NoGhosts
  <1>1. GhostInv => NoGhosts
    BY DEF GhostInv, GhostsRest, Gone, Buried, NoGhosts
  <1>2. QED
    BY GhostInit, GhostNext, <1>1, PTL DEF Spec

-----------------------------------------------------------------------------
\* A label that Gmail changes is recorded after every position, and a message
\* that arrives has no row yet.
LEMMA GmailLabels ==
  ASSUME LabelInv, NEW m \in Messages,
         Arrive(m) \/ DeleteAtGmail(m) \/ \E l \in Labels : Relabel(m, l)
  PROVE  LastChange' /\ LabelsRest' /\ LabelsAhead'
  <1> DEFINE Changed(y, l, k, x) ==
               k \in {"labelAdded", "labelRemoved"} /\ y = m /\ l = x
  <1>0. Inv /\ Course /\ Announced /\ TypeOK
    BY DEF LabelInv, GhostInv, Inv
  <1>1. PICK k, x :
          /\ Recorded(k, m, x) /\ [kind |-> k, msg |-> m, label |-> x] \in Record
          /\ \A y \in mailbox', l \in Labels :
               /\ Changed(y, l, k, x) => (l \in labels'[y] <=> k = "labelAdded")
               /\ ~Changed(y, l, k, x) =>
                    ~WasThere(y) \/ (y \in mailbox /\ (l \in labels'[y] <=> l \in labels[y]))
    <2>0. mailbox \subseteq Messages /\ labels \in [Messages -> SUBSET Labels]
      BY <1>0 DEF TypeOK
    <2>1. CASE Arrive(m)
      <3>1. /\ Recorded("added", m, None)
            /\ [kind |-> "added", msg |-> m, label |-> None] \in Record
        BY <2>1 DEF Arrive, Record
      <3>2. \A y \in mailbox' : ~WasThere(y) \/ (y \in mailbox /\ labels'[y] = labels[y])
        BY <2>0, <2>1 DEF Arrive
      <3>3. QED
        BY <3>1, <3>2
    <2>2. CASE DeleteAtGmail(m)
      <3>1. /\ Recorded("deleted", m, None)
            /\ [kind |-> "deleted", msg |-> m, label |-> None] \in Record
        BY <2>2 DEF DeleteAtGmail, Record
      <3>2. \A y \in mailbox' : y \in mailbox /\ labels'[y] = labels[y]
        BY <2>0, <2>2 DEF DeleteAtGmail
      <3>3. QED
        BY <3>1, <3>2
    <2>3. CASE \E l \in Labels : Relabel(m, l)
      <3>1. PICK x \in Labels : Relabel(m, x)
        BY <2>3
      <3>2. CASE x \in labels[m]
        <4>1. /\ Recorded("labelRemoved", m, x)
              /\ [kind |-> "labelRemoved", msg |-> m, label |-> x] \in Record
          BY <3>1, <3>2 DEF Relabel, Record
        <4>2. labels' = [labels EXCEPT ![m] = @ \ {x}] /\ mailbox' = mailbox
          BY <3>1, <3>2 DEF Relabel
        <4>3. QED
          BY <2>0, <4>1, <4>2
      <3>3. CASE x \notin labels[m]
        <4>1. /\ Recorded("labelAdded", m, x)
              /\ [kind |-> "labelAdded", msg |-> m, label |-> x] \in Record
          BY <3>1, <3>3 DEF Relabel, Record
        <4>2. labels' = [labels EXCEPT ![m] = @ \cup {x}] /\ mailbox' = mailbox
          BY <3>1, <3>3 DEF Relabel
        <4>3. QED
          BY <2>0, <4>1, <4>2
      <3>4. QED
        BY <3>2, <3>3
    <2>4. QED
      BY <2>1, <2>2, <2>3
  <1> DEFINE r == [kind |-> k, msg |-> m, label |-> x]
  <1>2. feed \in Seq(Record) /\ feed' = Append(feed, r) /\ r \in Record
    BY <1>0, <1>1 DEF TypeOK, Recorded
  <1>3. /\ Len(feed') = Len(feed) + 1 /\ Len(feed) \in Nat
        /\ \A i \in 1 .. Len(feed) : feed'[i] = feed[i]
        /\ feed'[Len(feed) + 1] = r
    BY <1>2, FeedGrows
  <1>4. UNCHANGED <<rows, rowLabels, cursor, failed, dropped, phase, historyId, pos,
                    todo, batch,
                    held, fetched, failing, listedAt, skipped>>
    BY GmailLeaves
  <1>5. \A y, l : /\ \A i \in LabelChanges(y, l) : i \in LabelChanges(y, l)'
                  /\ Changed(y, l, k, x) => Len(feed) + 1 \in LabelChanges(y, l)'
    BY <1>3 DEF LabelChanges, At
  <1>6. \A y : WasThere(y) \/ (y \notin rows /\ y \notin held /\ \A l : LabelChanges(y, l) = {})
    BY <1>0 DEF WasThere, Announced, Gone, LabelChanges, At
  <1>7. LastChange'
    <2> SUFFICES ASSUME NEW y \in mailbox', NEW l \in Labels, NEW i \in LabelChanges(y, l)'
                 PROVE  \/ l \in labels'[y] <=> feed'[i].kind = "labelAdded"
                        \/ \E j \in LabelChanges(y, l)' : j > i
      BY DEF LastChange
    <2>1. /\ i \in 1 .. Len(feed) + 1 /\ feed'[i].msg = y /\ feed'[i].label = l
          /\ feed'[i].kind \in {"labelAdded", "labelRemoved"}
      BY <1>3 DEF LabelChanges, At
    <2>2. CASE i = Len(feed) + 1
      BY <1>1, <1>3, <2>1, <2>2
    <2>3. CASE i # Len(feed) + 1
      <3>1. i \in 1 .. Len(feed) /\ i \in LabelChanges(y, l) /\ feed'[i] = feed[i]
        BY <1>3, <2>1, <2>3 DEF LabelChanges, At
      <3>2. CASE Changed(y, l, k, x)
        BY <1>3, <1>5, <3>1, <3>2
      <3>3. CASE ~Changed(y, l, k, x)
        <4>1. y \in mailbox /\ (l \in labels'[y] <=> l \in labels[y])
          BY <1>1, <1>6, <3>1, <3>3
        <4>2. (l \in labels[y] <=> feed[i].kind = "labelAdded") \/ \E j \in LabelChanges(y, l) : j > i
          BY <3>1, <4>1 DEF LabelInv, LastChange
        <4>3. QED
          BY <1>5, <3>1, <4>1, <4>2
      <3>4. QED
        BY <3>2, <3>3
    <2>4. QED
      BY <2>2, <2>3
  <1>8. ASSUME NEW y \in mailbox', WasThere(y), NEW l \in Labels, NEW ls, NEW p \in Nat,
               p <= Len(feed), y \in mailbox => Follows(y, l, ls, p)

        PROVE  (l \in ls <=> l \in labels'[y]) \/ \E i \in LabelChanges(y, l)' : i > p \/ i \in skipped'
    <2>1. CASE Changed(y, l, k, x)
      BY <1>3, <1>5, <1>8, <2>1
    <2>2. CASE ~Changed(y, l, k, x)
      <3>1. y \in mailbox /\ (l \in labels'[y] <=> l \in labels[y])
        BY <1>1, <1>8, <2>2
      <3>2. QED
        BY <1>4, <1>5, <1>8, <3>1 DEF Follows
    <2>3. QED
      BY <2>1, <2>2
  <1>9. LabelsRest'
    <2> SUFFICES ASSUME cursor' # None, NEW y \in mailbox', y \in rows' \ (failed' \cup dropped'),
                        NEW l \in Labels
                 PROVE  Follows(y, l, rowLabels[y], cursor)'
      BY DEF LabelsRest
    <2>1. cursor \in Nat /\ cursor <= Len(feed) /\ cursor # None /\ WasThere(y)
      BY <1>0, <1>4, <1>6, Positions
    <2>2. y \in mailbox => Follows(y, l, rowLabels[y], cursor)
      BY <1>4, <2>1 DEF LabelInv, LabelsRest
    <2>3. QED
      BY <1>4, <1>8, <2>1, <2>2 DEF Follows
  <1>10. LabelsAhead'
    <2> SUFFICES ASSUME phase' \in Running, NEW y \in mailbox', NEW l \in Labels
                 PROVE  /\ y \in rows' \ Pending' => Follows(y, l, rowLabels[y], Mark)'
                        /\ y \in held' => Follows(y, l, fetched[y], Mark)'
      BY DEF LabelsAhead
    <2>1. Mark \in Nat /\ Mark <= Len(feed) /\ Mark' = Mark /\ Pending' = Pending
      BY <1>0, <1>4, MarkFacts DEF Mark, Pending
    <2>2. ASSUME y \in rows' \ Pending' PROVE Follows(y, l, rowLabels[y], Mark)'
      <3>1. WasThere(y) /\ (y \in mailbox => Follows(y, l, rowLabels[y], Mark))
        BY <1>4, <1>6, <2>1, <2>2 DEF LabelInv, LabelsAhead
      <3>2. QED
        BY <1>4, <1>8, <2>1, <3>1 DEF Follows
    <2>3. ASSUME y \in held' PROVE Follows(y, l, fetched[y], Mark)'
      <3>1. WasThere(y) /\ (y \in mailbox => Follows(y, l, fetched[y], Mark))
        BY <1>4, <1>6, <2>1, <2>3 DEF LabelInv, LabelsAhead
      <3>2. QED
        BY <1>4, <1>8, <2>1, <3>1 DEF Follows
    <2>4. QED
      BY <2>2, <2>3
  <1>11. QED
    BY <1>7, <1>9, <1>10

-----------------------------------------------------------------------------
\* What follows Gmail, does so from any earlier position, ...
LEMMA FollowsEarlier ==
  ASSUME feed \in Seq(Record), NEW m, NEW l, NEW ls, NEW p \in Nat, NEW q \in Nat, q <= p,
         Follows(m, l, ls, p)
  PROVE  Follows(m, l, ls, q)
  <1>1. \A i \in LabelChanges(m, l) : i \in Nat
    BY FeedFacts DEF LabelChanges, At
  <1>2. QED
    BY <1>1 DEF Follows

\* ... and through every step of the sync.
LEMMA FollowsStays ==
  ASSUME UNCHANGED gmailVars, skipped \subseteq skipped', NEW m, NEW l, NEW ls, NEW p,
         Follows(m, l, ls, p)

  PROVE  (l \in ls <=> l \in labels'[m]) \/ \E i \in LabelChanges(m, l)' : i > p \/ i \in skipped'
  BY DEF Follows, LabelChanges, At, gmailVars

\* A step of the sync after which the rows and what is held follow from p, ...
LEMMA LabelsCarry ==
  ASSUME UNCHANGED gmailVars, skipped \subseteq skipped', NEW p, Mark' = p,
         \A m \in mailbox, l \in Labels :
           /\ m \in rows' \ Pending' => Follows(m, l, rowLabels'[m], p)
           /\ m \in held' => Follows(m, l, fetched'[m], p)
  PROVE  LabelsAhead'
  <1> SUFFICES ASSUME NEW m \in mailbox', NEW l \in Labels
               PROVE  /\ m \in rows' \ Pending' => Follows(m, l, rowLabels[m], Mark)'
                      /\ m \in held' => Follows(m, l, fetched[m], Mark)'
    BY DEF LabelsAhead
  <1>1. m \in mailbox
    BY DEF gmailVars
  <1>2. ASSUME m \in rows' \ Pending' PROVE Follows(m, l, rowLabels[m], Mark)'
    <2>1. Follows(m, l, rowLabels'[m], p)
      BY <1>1, <1>2
    <2>2. QED
      BY <2>1, FollowsStays DEF Follows
  <1>3. ASSUME m \in held' PROVE Follows(m, l, fetched[m], Mark)'
    <2>1. Follows(m, l, fetched'[m], p)
      BY <1>1, <1>3
    <2>2. QED
      BY <2>1, FollowsStays DEF Follows
  <1>4. QED
    BY <1>2, <1>3

\* ... among them one that writes nothing, forgets nothing and stays where it is.
LEMMA LabelsKeep ==
  ASSUME LabelsAhead, phase \in Running, UNCHANGED gmailVars, skipped \subseteq skipped',
         UNCHANGED <<rowVars, held, fetched>>, Mark' = Mark,
         \A m \in mailbox : m \in Pending => m \in Pending'
  PROVE  LabelsAhead'
  <1>1. \A m \in mailbox, l \in Labels :
           /\ m \in rows' \ Pending' => Follows(m, l, rowLabels'[m], Mark)
           /\ m \in held' => Follows(m, l, fetched'[m], Mark)
    BY DEF LabelsAhead, rowVars
  <1>2. QED
    BY <1>1, LabelsCarry

\* The rows on disk, whose labels and cursor a step leaves alone.
LEMMA LabelsStored ==
  ASSUME LabelsRest, UNCHANGED gmailVars, skipped \subseteq skipped',
         UNCHANGED <<rowVars, cursor>>, failed \cup dropped \subseteq failed' \cup dropped'
  PROVE  LabelsRest'
  <1> SUFFICES ASSUME cursor # None, NEW m \in (rows \cap mailbox) \ (failed' \cup dropped'),
                      NEW l \in Labels
               PROVE  Follows(m, l, rowLabels[m], cursor)'
    BY DEF LabelsRest, gmailVars, rowVars
  <1>1. Follows(m, l, rowLabels[m], cursor)
    BY DEF LabelsRest
  <1>2. QED
    BY <1>1, FollowsStays DEF Follows, rowVars

\* The history of a label is Gmail's alone.
LEMMA SyncChange ==
  ASSUME LastChange, Sync PROVE LastChange'
  BY SyncReads DEF LastChange, LabelChanges, At, gmailVars

-----------------------------------------------------------------------------
\* The steps of the sync that write no row.
LEMMA QuietLabels ==
  ASSUME LabelInv, Sync, ~ProcessRecord, \A m \in Messages : ~Got(m) /\ ~Upsert(m)
  PROVE  LabelsRest' /\ LabelsAhead'
  <1>0. /\ UNCHANGED gmailVars /\ Len(feed) \in Nat /\ feed \in Seq(Record)
        /\ TypeOK /\ Shape /\ Course /\ Inv /\ LabelsRest /\ LabelsAhead
    BY SyncReads, Positions DEF LabelInv, GhostInv, Inv
  <1>1. CASE StartSync
    <2>1. LabelsRest'
      BY <1>0, <1>1, LabelsStored DEF StartSync, history, catchUp
    <2>2. CASE cursor = None
      BY <1>1, <2>1, <2>2 DEF StartSync, Phase, LabelsAhead, Running
    <2>3. CASE cursor # None
      <3>1. Mark' = cursor
        BY <1>0, <1>1, <2>3, Positions DEF StartSync, Phase, Mark
      <3>2. failed \cup dropped \subseteq Pending' /\ held' = {} /\ UNCHANGED <<rowVars,
                                                                                skipped>>
        BY <1>0, <1>1, <2>3 DEF StartSync, Phase, Pending, Course, fetchVars, history,
           catchUp
      <3>3. \A m \in mailbox, l \in Labels :
              m \in rows' \ Pending' => Follows(m, l, rowLabels'[m], cursor)
        BY <1>0, <2>3, <3>2 DEF LabelsRest, rowVars
      <3>4. LabelsAhead'
        BY <1>0, <3>1, <3>2, <3>3, LabelsCarry
      <3>5. QED
        BY <2>1, <3>4
    <2>4. QED
      BY <2>2, <2>3
  <1>2. CASE Baseline \/ HistoryExpired
    <2>1. LabelsRest'
      BY <1>0, <1>2, LabelsStored DEF Baseline, HistoryExpired, history, catchUp
    <2>2. QED
      BY <1>2, <2>1 DEF Baseline, HistoryExpired, Phase, LabelsAhead, Running
  <1>3. CASE ListAll
    <2>1. LabelsRest'
      BY <1>0, <1>3, LabelsStored DEF ListAll
    <2>2. mailbox' \subseteq Pending' /\ held' = {}
      BY <1>0, <1>3 DEF ListAll, Phase, Pending, Course, gmailVars
    <2>3. QED
      BY <2>1, <2>2 DEF LabelsAhead
  <1>4. CASE ListHistory
    <2>1. LabelsRest'
      BY <1>0, <1>4, LabelsStored DEF ListHistory, history, catchUp
    <2>2. Mark' = Mark /\ Pending' = Pending /\ phase \in Running
          /\ UNCHANGED <<rowVars, held, fetched, skipped>>
      BY <1>4 DEF ListHistory, Phase, Mark, Pending, Running, fetchVars, history, catchUp
    <2>3. QED
      BY <1>0, <2>1, <2>2, LabelsKeep
  <1>5. CASE EndPage
    <2>1. /\ failed \cup dropped \subseteq failed' \cup dropped'
          /\ UNCHANGED <<rowVars, cursor, skipped, held, fetched>>
      BY <1>5 DEF EndPage, Track, history, catchUp
    <2>2. LabelsRest'
      BY <1>0, <2>1, LabelsStored
    <2>3. Mark' = Mark /\ Pending \subseteq Pending' /\ phase \in Running
      BY <1>0, <1>5, Positions DEF EndPage, Track, Mark, Shape, Pending, Running
    <2>4. QED
      BY <1>0, <2>1, <2>2, <2>3, LabelsKeep
  <1>6. CASE TakeBatch
    <2>1. LabelsRest'
      BY <1>0, <1>6, LabelsStored DEF TakeBatch, history, catchUp
    <2>2. Mark' = Mark /\ Pending \subseteq Pending' /\ phase \in Running
          /\ UNCHANGED <<rowVars, held, fetched, skipped>>
      BY <1>6 DEF TakeBatch, Mark, Pending, Running, Settled, history, catchUp
    <2>3. QED
      BY <1>0, <2>1, <2>2, LabelsKeep
  <1>7. CASE EndFetch
    <2>1. /\ failed \cup dropped \subseteq failed' \cup dropped'
          /\ UNCHANGED <<rowVars, cursor, skipped, held, fetched>>
      BY <1>7 DEF EndFetch, Fetched, Track, history, catchUp
    <2>2. LabelsRest'
      BY <1>0, <2>1, LabelsStored
    <2>3. Mark' = Mark /\ Pending \subseteq Pending' /\ phase \in Running
      BY <1>7 DEF EndFetch, Fetched, Track, Mark, Pending, Running, history, catchUp
    <2>4. QED
      BY <1>0, <2>1, <2>2, <2>3, LabelsKeep
  <1>8. CASE ReadProfile
    <2>1. LabelsRest'
      BY <1>0, <1>8, LabelsStored DEF ReadProfile
    <2>2. /\ Mark = listedAt /\ listedAt \in Nat /\ phase \in Running
          /\ Pending' = Pending /\ UNCHANGED <<rowVars, held, fetched>>
          /\ Mark' = Len(feed) /\ skipped' = skipped \cup (listedAt + 1 .. Len(feed))
      BY <1>0, <1>8, Positions DEF ReadProfile, Phase, Shape, Mark, Running, Pending,
         fetchVars
    <2>3. \A m, l : \A i \in LabelChanges(m, l)' :
            i \in LabelChanges(m, l) /\ (i > listedAt \/ i \in skipped => i \in skipped')
      BY <1>0, <2>2 DEF LabelChanges, At, gmailVars
    <2>4. SUFFICES ASSUME NEW m \in mailbox, NEW l \in Labels
                   PROVE  /\ m \in rows \ Pending => Follows(m, l, rowLabels[m], Mark)'
                          /\ m \in held => Follows(m, l, fetched[m], Mark)'
      BY <1>0, <2>1, <2>2 DEF LabelsAhead, gmailVars, rowVars
    <2>5. LabelChanges(m, l)' = LabelChanges(m, l)
      BY <1>0 DEF LabelChanges, At, gmailVars
    <2>6. ASSUME m \in rows \ Pending PROVE Follows(m, l, rowLabels[m], Mark)'
      <3>1. Follows(m, l, rowLabels[m], listedAt)
        BY <1>0, <2>2, <2>6 DEF LabelsAhead
      <3>2. QED
        BY <1>0, <2>2, <2>3, <2>5, <3>1 DEF Follows, gmailVars, rowVars
    <2>7. ASSUME m \in held PROVE Follows(m, l, fetched[m], Mark)'
      <3>1. Follows(m, l, fetched[m], listedAt)
        BY <1>0, <2>2, <2>7 DEF LabelsAhead
      <3>2. QED
        BY <1>0, <2>2, <2>3, <2>5, <3>1 DEF Follows, gmailVars
    <2>8. QED
      BY <2>6, <2>7
  <1>9. CASE Reread
    <2>1. LabelsRest'
      BY <1>0, <1>9, LabelsStored DEF Reread, Retrying, history, catchUp
    <2>2. Mark' = Mark /\ Pending \subseteq Pending' /\ phase \in Running
          /\ UNCHANGED <<rowVars, held, fetched, skipped>>
      BY <1>0, <1>9 DEF Reread, Retrying, Phase, Shape, Mark, Pending, Running, history,
         catchUp
    <2>3. QED
      BY <1>0, <2>1, <2>2, LabelsKeep
  <1>10. CASE EndRetry
    <2>1. /\ Mark' = Mark /\ Mark = historyId /\ phase \in Running /\ historyId # None
          /\ Pending = dropped \cup failing /\ Pending' = dropped' \cup failed'
          /\ failed' = failing /\ dropped' = dropped
          /\ UNCHANGED <<rowVars, held, fetched, skipped, cursor>>
      BY <1>0, <1>10 DEF EndRetry, Phase, Settled, Shape, Mark, Pending, Running,
         history, catchUp
    <2>2. LabelsAhead'
      BY <1>0, <2>1, LabelsKeep
    <2>3. LabelsRest'
      <3> SUFFICES ASSUME cursor # None, NEW m \in (rows \cap mailbox) \ (failed' \cup dropped'),
                          NEW l \in Labels
                   PROVE  Follows(m, l, rowLabels[m], cursor)'
        BY <1>0, <2>1 DEF LabelsRest, gmailVars, rowVars
      <3>1. historyId \in Nat /\ cursor \in Nat /\ cursor <= historyId
        BY <1>0, <2>1, Positions DEF Shape
      <3>2. Follows(m, l, rowLabels[m], historyId)
        BY <1>0, <2>1 DEF LabelsAhead
      <3>3. Follows(m, l, rowLabels[m], cursor)
        BY <1>0, <3>1, <3>2, FollowsEarlier
      <3>4. QED
        BY <1>0, <2>1, <3>3, FollowsStays DEF Follows, rowVars
    <2>4. QED
      BY <2>2, <2>3
  <1>11. CASE Store
    <2>1. /\ phase = "store" /\ phase' = "idle" /\ cursor' = historyId
          /\ UNCHANGED <<rowVars, failed, dropped, skipped>>
      BY <1>11 DEF Store, Stored, Phase
    <2>2. Mark = historyId /\ Pending = dropped \cup failed /\ phase \in Running
      BY <2>1 DEF Mark, Pending, Running
    <2>3. LabelsAhead'
      BY <2>1 DEF LabelsAhead, Running
    <2>4. SUFFICES ASSUME NEW m \in (rows \cap mailbox) \ (failed \cup dropped),
                          NEW l \in Labels
                   PROVE  Follows(m, l, rowLabels[m], cursor)'
      BY <1>0, <2>1, <2>3 DEF LabelsRest, gmailVars, rowVars
    <2>5. Follows(m, l, rowLabels[m], historyId)
      BY <1>0, <2>2 DEF LabelsAhead
    <2>6. QED
      BY <1>0, <2>1, <2>5, FollowsStays DEF Follows, rowVars
  <1>12. QED
    BY <1>1, <1>2, <1>3, <1>4, <1>5, <1>6, <1>7, <1>8, <1>9, <1>10, <1>11 DEF Sync

\* A fetched message has Gmail's labels, and so has the row it is written to, but
\* for what changed meanwhile.
LEMMA WriteLabels ==
  ASSUME LabelInv, NEW m \in Messages, Got(m) \/ Upsert(m)
  PROVE  LabelsRest' /\ LabelsAhead'
  <1>0. /\ UNCHANGED gmailVars /\ feed \in Seq(Record) /\ mailbox \subseteq Messages
        /\ rowLabels \in [Messages -> SUBSET Labels] /\ fetched \in [Messages -> SUBSET Labels]
        /\ TypeOK /\ Shape /\ Course /\ Inv /\ LabelsRest /\ LabelsAhead
        /\ UNCHANGED <<phase, historyId, pos, listedAt, skipped, cursor, failed, dropped,
                       todo, failing>>
    BY DEF LabelInv, GhostInv, Inv, TypeOK, Got, Upsert, Written, history, catchUp
  <1>1. Mark' = Mark
    BY <1>0 DEF Mark
  <1>2. phase \in Running
    BY <1>0 DEF Course, Got, Upsert, Written, Running
  <1>3. phase # "store"
    BY <1>0 DEF Course, Got, Upsert, Written
  <1>4. CASE Got(m)
    <2>1. \A y \in mailbox : y \in Pending => y \in Pending'
      BY <1>0, <1>3, <1>4 DEF Got, Pending
    <2>2. LabelsRest'
      BY <1>0, <1>4, LabelsStored DEF Got
    <2>3. \A y \in mailbox, l \in Labels :
            /\ y \in rows' \ Pending' => Follows(y, l, rowLabels'[y], Mark)
            /\ y \in held' => Follows(y, l, fetched'[y], Mark)
      <3> SUFFICES ASSUME NEW y \in mailbox, NEW l \in Labels
                   PROVE  /\ y \in rows' \ Pending' => Follows(y, l, rowLabels'[y], Mark)
                          /\ y \in held' => Follows(y, l, fetched'[y], Mark)
        OBVIOUS
      <3>1. y \in rows' \ Pending' => Follows(y, l, rowLabels'[y], Mark)
        BY <1>0, <1>2, <1>4, <2>1 DEF LabelsAhead, Got, rowVars
      <3>2. CASE y = m
        <4>1. fetched'[y] = labels[y]
          BY <1>0, <1>4, <3>2 DEF Got
        <4>2. QED
          BY <3>1, <4>1 DEF Follows
      <3>3. CASE y # m
        <4>1. fetched'[y] = fetched[y] /\ (y \in held' => y \in held)
          BY <1>0, <1>4, <3>3 DEF Got
        <4>2. QED
          BY <1>0, <1>2, <3>1, <4>1 DEF LabelsAhead
      <3>4. QED
        BY <3>2, <3>3
    <2>4. QED
      BY <1>0, <1>1, <2>2, <2>3, LabelsCarry
  <1>5. CASE Upsert(m)
    <2>1. /\ m \in held /\ held' = held \ {m} /\ rows' = rows \cup {m} /\ batch' = batch
          /\ rowLabels'[m] = fetched[m]
          /\ \A y \in mailbox : y # m => rowLabels'[y] = rowLabels[y] /\ fetched'[y] = fetched[y]
      BY <1>0, <1>5 DEF Upsert, Written
    <2>2. \A y \in mailbox : y # m /\ y \in Pending => y \in Pending'
      BY <1>0, <1>3, <2>1 DEF Pending
    <2>3. \A y \in mailbox, l \in Labels :
            /\ y \in rows' \ Pending' => Follows(y, l, rowLabels'[y], Mark)
            /\ y \in held' => Follows(y, l, fetched'[y], Mark)
      BY <1>0, <1>2, <2>1, <2>2 DEF LabelsAhead
    <2>4. LabelsAhead'
      BY <1>0, <1>1, <2>3, LabelsCarry
    <2>5. LabelsRest'
      <3> SUFFICES ASSUME cursor # None, NEW y \in (rows' \cap mailbox) \ (failed \cup dropped),
                          NEW l \in Labels
                   PROVE  Follows(y, l, rowLabels[y], cursor)'
        BY <1>0 DEF LabelsRest, gmailVars
      <3>1. Follows(y, l, rowLabels'[y], cursor)
        <4>1. CASE y = m
          <5>1. Mark \in Nat /\ cursor \in Nat /\ cursor <= Mark
            BY <1>0, <1>2, MarkFacts
          <5>2. Follows(y, l, fetched[y], Mark)
            BY <1>0, <1>2, <2>1, <4>1 DEF LabelsAhead
          <5>3. Follows(y, l, fetched[y], cursor)
            BY <1>0, <5>1, <5>2, FollowsEarlier
          <5>4. QED
            BY <2>1, <4>1, <5>3
        <4>2. CASE y # m
          BY <1>0, <2>1, <4>2 DEF LabelsRest
        <4>3. QED
          BY <4>1, <4>2
      <3>2. QED
        BY <1>0, <3>1, FollowsStays DEF Follows
    <2>6. QED
      BY <2>4, <2>5
  <1>6. QED
    BY <1>4, <1>5

\* A label that a record changes is Gmail's, or a later record changes it again.
LEMMA RecordLabels ==
  ASSUME LabelInv, ProcessRecord PROVE LabelsRest' /\ LabelsAhead'
  <1>0. /\ UNCHANGED <<gmailVars, cursor, failed, dropped, phase, held, fetched, todo,
                       failing, skipped>>
        /\ phase = "page" /\ held = {} /\ pos' = pos + 1
        /\ pos \in Nat /\ pos \in 1 .. Len(feed) /\ feed \in Seq(Record)
        /\ mailbox \subseteq Messages /\ rowLabels \in [Messages -> SUBSET Labels]
        /\ cursor \in 0 .. Len(feed) \cup {None} /\ (cursor # None => cursor < pos)
        /\ DeletedGone /\ LastChange /\ LabelsRest /\ LabelsAhead /\ batch = {}
    BY Positions DEF LabelInv, GhostInv, Inv, TypeOK, Course, ProcessRecord, Settled,
       history, catchUp
  <1>1. Mark = pos - 1 /\ Mark' = pos /\ phase \in Running
    BY <1>0 DEF Mark, Running
  <1>2. rows' \subseteq rows /\ Pending \subseteq Pending'
    BY <1>0 DEF ProcessRecord, DeleteRow, Pending, rowVars
  \* A row that followed from a position before the record follows from it after the
  \* record, and from the record when the position was the one before.
  <1>3. ASSUME NEW m \in rows' \cap mailbox, NEW l \in Labels, NEW p \in Nat, NEW q \in Nat,
               p < pos, q = p \/ (p = pos - 1 /\ q = pos), Follows(m, l, rowLabels[m], p)
        PROVE  Follows(m, l, rowLabels'[m], q)
    <2>0. feed[pos].kind \in {"added", "deleted", "labelAdded", "labelRemoved"}
      BY <1>0, FeedFacts DEF Record
    <2>1. CASE pos \in LabelChanges(m, l)
      <3>1. /\ feed[pos].msg = m /\ feed[pos].label = l
            /\ feed[pos].kind \in {"labelAdded", "labelRemoved"}
        BY <2>1 DEF LabelChanges, At
      <3>2. l \in rowLabels'[m] <=> feed[pos].kind = "labelAdded"
        BY <1>0, <1>2, <1>3, <3>1 DEF ProcessRecord
      <3>3. CASE l \in labels[m] <=> feed[pos].kind = "labelAdded"
        BY <3>2, <3>3 DEF Follows
      <3>4. CASE \E j \in LabelChanges(m, l) : j > pos
        <4>1. PICK j \in LabelChanges(m, l) : j > pos
          BY <3>4
        <4>2. j \in Nat
          BY <1>0, <4>1 DEF LabelChanges, At
        <4>3. j > q
          BY <1>0, <1>3, <4>1, <4>2
        <4>4. QED
          BY <4>1, <4>3 DEF Follows
      <3>5. QED
        BY <1>0, <1>3, <2>1, <3>3, <3>4 DEF LastChange
    <2>2. CASE pos \notin LabelChanges(m, l)
      <3>1. l \in rowLabels'[m] <=> l \in rowLabels[m]
        <4>1. CASE feed[pos].kind = "added"
          BY <1>0, <4>1 DEF ProcessRecord, rowVars
        <4>2. CASE feed[pos].kind = "deleted"
          <5>1. feed[pos].msg # m
            BY <1>0, <1>3, <4>2 DEF DeletedGone
          <5>2. QED
            BY <1>0, <1>3, <4>2, <5>1 DEF ProcessRecord, DeleteRow
        <4>3. CASE feed[pos].kind \in {"labelAdded", "labelRemoved"}
          <5>1. feed[pos].msg # m \/ feed[pos].label # l
            BY <1>0, <2>2, <4>3 DEF LabelChanges, At
          <5>2. QED
            BY <1>0, <1>3, <4>3, <5>1 DEF ProcessRecord
        <4>4. QED
          BY <2>0, <4>1, <4>2, <4>3
      <3>2. CASE l \in rowLabels[m] <=> l \in labels[m]
        BY <3>1, <3>2 DEF Follows
      <3>3. CASE \E i \in LabelChanges(m, l) : i > p \/ i \in skipped
        <4>1. PICK i \in LabelChanges(m, l) : i > p \/ i \in skipped
          BY <3>3
        <4>2. i \in Nat /\ i # pos
          BY <1>0, <2>2, <4>1 DEF LabelChanges, At
        <4>3. i > q \/ i \in skipped
          BY <1>0, <1>3, <4>1, <4>2
        <4>4. QED
          BY <4>1, <4>3 DEF Follows
      <3>4. QED
        BY <1>3, <3>2, <3>3 DEF Follows
    <2>3. QED
      BY <2>1, <2>2
  <1>4. LabelsAhead'
    <2>1. \A m \in mailbox, l \in Labels :
            /\ m \in rows' \ Pending' => Follows(m, l, rowLabels'[m], pos)
            /\ m \in held' => Follows(m, l, fetched'[m], pos)
      <3> SUFFICES ASSUME NEW m \in mailbox, NEW l \in Labels, m \in rows' \ Pending'
                   PROVE  Follows(m, l, rowLabels'[m], pos)
        BY <1>0
      <3>1. Follows(m, l, rowLabels[m], pos - 1)
        BY <1>0, <1>1, <1>2 DEF LabelsAhead
      <3>2. pos - 1 \in Nat
        BY <1>0
      <3>3. QED
        BY <1>0, <1>3, <3>1, <3>2
    <2>2. QED
      BY <1>0, <1>1, <2>1, LabelsCarry
  <1>5. LabelsRest'
    <2> SUFFICES ASSUME cursor # None, NEW m \in (rows' \cap mailbox) \ (failed \cup dropped),
                        NEW l \in Labels
                 PROVE  Follows(m, l, rowLabels[m], cursor)'
      BY <1>0 DEF LabelsRest, gmailVars
    <2>1. Follows(m, l, rowLabels[m], cursor) /\ cursor \in Nat /\ cursor < pos
      BY <1>0, <1>2 DEF LabelsRest
    <2>2. Follows(m, l, rowLabels'[m], cursor)
      BY <1>0, <1>3, <2>1
    <2>3. QED
      BY <1>0, <2>2, FollowsStays DEF Follows
  <1>6. QED
    BY <1>4, <1>5

\* A fault writes no row, and leaves what it loses to be fetched again.
LEMMA FaultLabels ==
  ASSUME LabelInv, RunAborts \/ \E m \in Messages : GetFails(m) \/ UpsertFails(m)
  PROVE  LastChange' /\ LabelsRest' /\ LabelsAhead'
  <1>0. UNCHANGED <<gmailVars, rowVars, cursor, failed, dropped, skipped>>
        /\ LastChange /\ LabelsRest /\ LabelsAhead /\ Course /\ TypeOK
    BY DEF RunAborts, GetFails, UpsertFails, history, catchUp, LabelInv, GhostInv, Inv
  <1>1. LastChange' /\ LabelsRest'
    BY <1>0, LabelsStored DEF LastChange, LabelChanges, At, gmailVars
  <1>2. CASE RunAborts
    BY <1>1, <1>2 DEF RunAborts, LabelsAhead, Running
  <1>3. CASE \E m \in Messages : GetFails(m) \/ UpsertFails(m)
    <2>1. PICK m \in Messages : GetFails(m) \/ UpsertFails(m)
      BY <1>3
    <2>2. UNCHANGED <<phase, historyId, pos, todo, listedAt>>
      BY <2>1 DEF GetFails, UpsertFails, history, catchUp
    <2>3. phase \in Running /\ phase # "store"
      BY <1>0, <2>1 DEF GetFails, UpsertFails, Course, Running
    <2>4. Mark' = Mark /\ Pending \subseteq Pending' /\ held' \subseteq held
      BY <1>0, <2>1, <2>2, <2>3 DEF Mark, Pending, GetFails, UpsertFails
    <2>5. \A y \in held' : fetched'[y] = fetched[y]
      BY <1>0, <2>1 DEF TypeOK, GetFails, UpsertFails
    <2>6. \A y \in mailbox, l \in Labels :
            /\ y \in rows' \ Pending' => Follows(y, l, rowLabels'[y], Mark)
            /\ y \in held' => Follows(y, l, fetched'[y], Mark)
      BY <1>0, <2>3, <2>4, <2>5 DEF LabelsAhead, rowVars
    <2>7. QED
      BY <1>0, <1>1, <2>4, <2>6, LabelsCarry
  <1>4. QED
    BY <1>2, <1>3

LEMMA LabelInit == Init => LabelInv
  <1> SUFFICES ASSUME Init PROVE LabelInv
    OBVIOUS
  <1>1. \A m, l : LabelChanges(m, l) = {}
    BY DEF Init, LabelChanges, At
  <1>2. QED
    BY <1>1, GhostInit DEF Init, LabelInv, LastChange, LabelsRest, LabelsAhead, Running

LEMMA LabelNext == LabelInv /\ [Next]_vars => LabelInv'
  <1> SUFFICES ASSUME LabelInv, [Next]_vars PROVE LabelInv'
    OBVIOUS
  <1>0. GhostInv'
    BY GhostNext DEF LabelInv
  <1>1. CASE Sync
    <2>1. LastChange'
      BY <1>1, SyncChange DEF LabelInv
    <2>2. LabelsRest' /\ LabelsAhead'
      BY <1>1, QuietLabels, WriteLabels, RecordLabels
    <2>3. QED
      BY <1>0, <2>1, <2>2 DEF LabelInv
  <1>2. CASE RunAborts \/ \E m \in Messages : GetFails(m) \/ UpsertFails(m)
    BY <1>0, <1>2, FaultLabels DEF LabelInv
  <1>3. CASE \E m \in Messages : Arrive(m) \/ DeleteAtGmail(m) \/ \E l \in Labels : Relabel(m, l)
    <2>1. PICK m \in Messages : Arrive(m) \/ DeleteAtGmail(m) \/ \E l \in Labels : Relabel(m, l)
      BY <1>3
    <2>2. QED
      BY <1>0, <2>1, GmailLabels DEF LabelInv
  <1>4. CASE UNCHANGED vars
    BY <1>0, <1>4 DEF vars, gmailVars, rowVars, fetchVars, history, catchUp, LabelInv,
       LastChange,
       LabelsRest, LabelsAhead, LabelChanges, At, Follows, Mark, Pending
  <1>5. QED
    BY <1>1, <1>2, <1>3, <1>4 DEF Next

\* A label on which a row and its message disagree has a change still to be read, or
\* the message is to be fetched again, unless it changed while a catch-up ran or
\* failed when the retry list was full.
THEOREM LabelsAreFollowed == Spec => []LabelsFollow
  <1>1. LabelInv => LabelsFollow
    BY DEF LabelInv, LabelsRest, Follows, LabelsFollow
  <1>2. QED
    BY LabelInit, LabelNext, <1>1, PTL DEF Spec
=============================================================================
