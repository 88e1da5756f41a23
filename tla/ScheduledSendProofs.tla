------------------------ MODULE ScheduledSendProofs ------------------------
(***************************************************************************)
(* Proofs about ScheduledSend for every set of rows and processes and every*)
(* number of faults: the inductive invariant IInv, the safety properties it*)
(* implies, the action properties, and the refinement of SendPromise.      *)
(***************************************************************************)
EXTENDS ScheduledSend, TLAPS

\* The initial states satisfy the invariant: no row exists, no process holds one.
LEMMA InitInv == Init => IInv
  BY MaxTriesAssumption, FaultsAssumption
  DEF Init, IInv, TypeOK, OneSender, RowInv, HolderInv, Holds, Statuses, PCs

\* A step that leaves rows, holders and mail alone preserves the invariant.
LEMMA QuietStep ==
  ASSUME IInv, TypeOK',
         UNCHANGED <<status, retryCount, accepted, lost>>,
         \A r \in Rows : due[r] => due'[r],
         \A p \in Procs :
           \/ UNCHANGED <<pc[p], cur[p], snapRetry[p]>>
           \/ pc'[p] \in PCs \ {"claim", "send", "accepted", "threw"}
           \/ pc'[p] = "claim" /\ cur'[p] \in Rows
  PROVE  IInv'
  <1>1. OneSender'
    BY DEF IInv, OneSender, Holds, PCs
  <1>2. \A r \in Rows : RowInv(r)'
    BY DEF IInv, RowInv
  <1>3. \A p \in Procs : HolderInv(p)'
    BY DEF IInv, HolderInv, Holds, PCs
  <1>4. QED
    BY <1>1, <1>2, <1>3 DEF IInv

-----------------------------------------------------------------------------
\* Counting one more message keeps a counter of messages one.
LEMMA Bump ==
  ASSUME NEW f \in [Rows -> Nat], NEW x \in Rows
  PROVE  [f EXCEPT ![x] = @ + 1] \in [Rows -> Nat]
  OBVIOUS

\* A process that goes down loses its locals and keeps the types.
LEMMA DownType ==
  ASSUME TypeOK, faults' \in 0 .. MaxFaults, NEW p \in Procs, Down(p)
  PROVE  TypeOK'
  <1> USE DEF TypeOK, Down, NextRow, rowVars, mailVars
  <1>1. pc' \in [Procs -> PCs] /\ draining' \in [Procs -> BOOLEAN]
    BY DEF PCs
  <1>2. cur' \in [Procs -> Rows \cup {None}] /\ snapRetry' \in [Procs -> Nat]
    OBVIOUS
  <1>3. queue' \in [Procs -> SUBSET Rows]
    OBVIOUS
  <1>4. QED
    BY <1>1, <1>2, <1>3

\* Type correctness of every step. A process past TakeNext is at a row, so what it
\* reads of the row is typed: IInv is needed, TypeOK alone is not inductive.
LEMMA TypeStep == IInv /\ [Next]_vars => TypeOK'
  <1> SUFFICES ASSUME IInv, [Next]_vars PROVE TypeOK'
    OBVIOUS
  <1>0. /\ TypeOK
        /\ \A p \in Procs : pc[p] \in {"claim", "send", "accepted", "threw"} => cur[p] \in Rows
    BY DEF IInv, HolderInv
  <1> USE MaxTriesAssumption, FaultsAssumption, NoneAssumption
      DEF TypeOK, vars, rowVars, procVars, mailVars, Statuses, PCs, Goto, NextRow
  <1>1. ASSUME NEW r \in Rows, Owner(r) \/ Time(r) PROVE TypeOK'
    BY <1>0, <1>1 DEF Owner, Time, Schedule, Reschedule, Cancel, BecomeDue, BecomeStale
  <1>2. ASSUME NEW p \in Procs, Tick(p) PROVE TypeOK'
    <2>1. CASE StartTick(p) \/ FinishTick(p) \/ TakeNext(p) \/ ClaimMissed(p)
      BY <1>0, <2>1 DEF StartTick, FinishTick, TakeNext, ClaimMissed
    <2>2. CASE FailInterruptedSends(p) \/ ListDue(p)
      BY <1>0, <2>2 DEF FailInterruptedSends, Sweep, ListDue, List
    <2>3. CASE Claim(p)
      <3>1. snapRetry' \in [Procs -> Nat]
        BY <1>0, <2>3 DEF Claim, Claimable
      <3>2. status' \in [Rows -> Statuses] /\ stale' \in [Rows -> BOOLEAN]
        BY <1>0, <2>3 DEF Claim
      <3>3. QED
        BY <1>0, <2>3, <3>1, <3>2 DEF Claim
    <2>4. CASE GmailAccepts(p)
      <3>1. accepted' \in [Rows -> Nat]
        BY <1>0, <2>4, Bump DEF GmailAccepts
      <3>2. QED
        BY <1>0, <2>4, <3>1 DEF GmailAccepts
    <2>4a. CASE SendRefused(p)
      BY <1>0, <2>4a DEF SendRefused
    <2>4b. CASE AnswerLost(p)
      <3>1. accepted' \in [Rows -> Nat] /\ lost' \in [Rows -> Nat]
        BY <1>0, <2>4b, Bump DEF AnswerLost
      <3>2. QED
        BY <1>0, <2>4b, <3>1 DEF AnswerLost
    <2>5. CASE RecordFailure(p) \/ RecordSent(p)
      BY <1>0, <2>5 DEF RecordFailure, Fails, RecordSent
    <2>6. QED
      BY <1>2, <2>1, <2>2, <2>3, <2>4, <2>4a, <2>4b, <2>5 DEF Tick
  <1>3. ASSUME NEW p \in Procs, Failure(p) \/ Exit(p) \/ Restart(p) PROVE TypeOK'
    <2>0. faults' = faults \/ (faults < MaxFaults /\ faults' = faults + 1)
      BY <1>3, Zenon DEF Failure, Fault, SentNotRecorded, TickThrows, Sigterm, Crash,
                         Exit, Restart
    <2>1. faults' \in 0 .. MaxFaults
      BY <1>0, <2>0
    <2>2. CASE SentNotRecorded(p)
      BY <1>0, <2>1, <2>2 DEF SentNotRecorded
    <2>3. CASE TickThrows(p)
      BY <1>0, <2>1, <2>3 DEF TickThrows
    <2>4. CASE Sigterm(p)
      BY <1>0, <2>1, <2>4 DEF Sigterm
    <2>5. CASE Crash(p) \/ Exit(p)
      BY <1>0, <2>1, <2>5, DownType DEF Crash, Exit
    <2>6. CASE Restart(p)
      BY <1>0, <2>1, <2>6 DEF Restart
    <2>7. QED
      BY <1>3, <2>2, <2>3, <2>4, <2>5, <2>6 DEF Failure
  <1>4. CASE UNCHANGED vars
    BY <1>0, <1>4
  <1>5. QED
    BY <1>1, <1>2, <1>3, <1>4 DEF Next

-----------------------------------------------------------------------------
\* A step of an owner changes only a row that is not there or pending, and such
\* a row has no holder.
LEMMA OwnerStep ==
  ASSUME IInv, TypeOK', NEW r \in Rows, Owner(r) PROVE IInv'
  <1> USE DEF Owner, Schedule, Reschedule, Cancel, procVars, mailVars
  <1>1. OneSender'
    BY DEF IInv, OneSender, Holds
  <1>2. \A q \in Rows : RowInv(q)'
    BY DEF IInv, RowInv, TypeOK, Statuses
  <1>3. \A p \in Procs : HolderInv(p)'
    BY DEF IInv, HolderInv, Holds, TypeOK
  <1>4. QED
    BY <1>1, <1>2, <1>3 DEF IInv

\* The sweep moves rows from sending to failed, and a failed row may have a
\* holder, whose late answer is then the last word on it.
LEMMA SweepStep ==
  ASSUME IInv, TypeOK', NEW p \in Procs, FailInterruptedSends(p) PROVE IInv'
  <1> USE DEF FailInterruptedSends, Sweep, Goto, mailVars
  <1>1. OneSender'
    BY DEF IInv, OneSender, Holds, TypeOK
  <1>2. \A q \in Rows : RowInv(q)'
    BY DEF IInv, RowInv, TypeOK
  <1>3. \A q \in Procs : HolderInv(q)'
    BY DEF IInv, HolderInv, Holds, TypeOK
  <1>4. QED
    BY <1>1, <1>2, <1>3 DEF IInv

\* A claim finds the row pending, so nobody holds it, and every message Gmail
\* accepted for it so far was reported as an error.
LEMMA ClaimStep ==
  ASSUME IInv, TypeOK', NEW p \in Procs, Claim(p) PROVE IInv'
  <1> USE DEF Claim, Claimable, Goto, mailVars
  <1> DEFINE r == cur[p]
  <1>0. r \in Rows /\ \A q \in Procs : Holds(q) => cur[q] # r
    BY DEF IInv, HolderInv, TypeOK
  <1>1. OneSender'
    BY <1>0 DEF IInv, OneSender, Holds, TypeOK
  <1>2. \A q \in Rows : RowInv(q)'
    BY <1>0 DEF IInv, RowInv, TypeOK
  <1>3. \A q \in Procs : HolderInv(q)'
    <2> SUFFICES ASSUME NEW q \in Procs PROVE HolderInv(q)'
      OBVIOUS
    <2>1. CASE q = p
      BY <1>0, <2>1 DEF IInv, HolderInv, RowInv, Holds, TypeOK
    <2>2. CASE q # p
      BY <1>0, <2>2 DEF IInv, HolderInv, Holds, TypeOK
    <2>3. QED
      BY <2>1, <2>2
  <1>4. QED
    BY <1>1, <1>2, <1>3 DEF IInv

\* The send itself: an accepted message is the first since the last lost answer.
LEMMA SendStep ==
  ASSUME IInv, TypeOK', NEW p \in Procs,
         GmailAccepts(p) \/ SendRefused(p) \/ AnswerLost(p)
  PROVE  IInv'
  <1> USE DEF GmailAccepts, SendRefused, AnswerLost, Goto, rowVars, mailVars
  <1>0. /\ cur[p] \in Rows /\ pc[p] = "send" /\ Holds(p)
        /\ HolderInv(p) /\ RowInv(cur[p])
        /\ \A q \in Procs : Holds(q) /\ q # p => cur[q] # cur[p]
    BY DEF IInv, HolderInv, Holds, OneSender, TypeOK
  <1>1. OneSender'
    BY <1>0 DEF IInv, OneSender, Holds, TypeOK
  <1>2. \A q \in Rows : RowInv(q)'
    <2> SUFFICES ASSUME NEW q \in Rows PROVE RowInv(q)'
      OBVIOUS
    <2>1. CASE q = cur[p]
      BY <1>0, <2>1, MaxTriesAssumption DEF IInv, HolderInv, RowInv, TypeOK
    <2>2. CASE q # cur[p]
      BY <1>0, <2>2 DEF IInv, RowInv, TypeOK
    <2>3. QED
      BY <2>1, <2>2
  <1>3. \A q \in Procs : HolderInv(q)'
    <2> SUFFICES ASSUME NEW q \in Procs PROVE HolderInv(q)'
      OBVIOUS
    <2>1. CASE q = p
      <3>1. CASE GmailAccepts(p)
        <4>1. pc'[p] = "accepted" /\ cur' = cur /\ status' = status
              /\ retryCount' = retryCount /\ snapRetry' = snapRetry /\ lost' = lost
              /\ accepted'[cur[p]] = accepted[cur[p]] + 1
          BY <1>0, <3>1 DEF IInv, TypeOK
        <4>2. accepted[cur[p]] \in Nat /\ lost[cur[p]] \in Nat
          BY <1>0 DEF IInv, TypeOK
        <4>3. QED
          BY <1>0, <2>1, <4>1, <4>2 DEF HolderInv, Holds, RowInv
      <3>2. CASE SendRefused(p)
        BY <1>0, <2>1, <3>2 DEF HolderInv, IInv, Holds, TypeOK
      <3>3. CASE AnswerLost(p)
        BY <1>0, <2>1, <3>3 DEF HolderInv, IInv, Holds, TypeOK
      <3>4. QED
        BY <3>1, <3>2, <3>3
    <2>2. CASE q # p
      BY <1>0, <2>2 DEF IInv, HolderInv, Holds, TypeOK
    <2>3. QED
      BY <2>1, <2>2
  <1>4. QED
    BY <1>1, <1>2, <1>3 DEF IInv

\* Writing the outcome: the row is still this process's alone, and a failure
\* counts the try that the next one will be bounded by.
LEMMA RecordStep ==
  ASSUME IInv, TypeOK', NEW p \in Procs, RecordFailure(p) \/ RecordSent(p)
  PROVE  IInv'
  <1> USE DEF RecordFailure, Fails, RecordSent, Goto, NextRow, mailVars
  <1>0. /\ cur[p] \in Rows /\ Holds(p) /\ HolderInv(p) /\ RowInv(cur[p])
        /\ \A q \in Procs : Holds(q) /\ q # p => cur[q] # cur[p]
    BY DEF IInv, HolderInv, Holds, OneSender, TypeOK
  <1>1. OneSender'
    BY <1>0 DEF IInv, OneSender, Holds, TypeOK
  <1>2. \A q \in Rows : RowInv(q)'
    <2> SUFFICES ASSUME NEW q \in Rows PROVE RowInv(q)'
      OBVIOUS
    <2>1. CASE q = cur[p]
      BY <1>0, <2>1, MaxTriesAssumption DEF IInv, HolderInv, Holds, RowInv, TypeOK
    <2>2. CASE q # cur[p]
      BY <1>0, <2>2 DEF IInv, RowInv, TypeOK
    <2>3. QED
      BY <2>1, <2>2
  <1>3. \A q \in Procs : HolderInv(q)'
    <2> SUFFICES ASSUME NEW q \in Procs PROVE HolderInv(q)'
      OBVIOUS
    <2>1. CASE q = p
      BY <1>0, <2>1 DEF IInv, HolderInv, Holds, TypeOK
    <2>2. CASE q # p
      BY <1>0, <2>2 DEF IInv, HolderInv, Holds, TypeOK
    <2>3. QED
      BY <2>1, <2>2
  <1>4. QED
    BY <1>1, <1>2, <1>3 DEF IInv

\* The invariant is inductive.
LEMMA NextInv == IInv /\ [Next]_vars => IInv'
  <1> SUFFICES ASSUME IInv, [Next]_vars PROVE IInv'
    OBVIOUS
  <1>0. TypeOK /\ TypeOK'
    BY TypeStep DEF IInv
  <1>1. ASSUME NEW r \in Rows, Owner(r) PROVE IInv'
    BY <1>0, <1>1, OwnerStep
  <1>2. ASSUME NEW r \in Rows, Time(r) PROVE IInv'
    <2>1. \A q \in Rows : due[q] => due'[q]
      BY <1>0, <1>2 DEF Time, BecomeDue, BecomeStale, TypeOK
    <2>2. UNCHANGED <<status, retryCount, accepted, lost, pc, cur, snapRetry>>
      BY <1>2 DEF Time, BecomeDue, BecomeStale, procVars, mailVars
    <2>3. QED
      BY <1>0, <2>1, <2>2, QuietStep
  <1>3. ASSUME NEW p \in Procs, Tick(p) PROVE IInv'
    <2>1. CASE StartTick(p) \/ ListDue(p) \/ FinishTick(p) \/ TakeNext(p)
               \/ ClaimMissed(p)
      BY <1>0, <2>1, QuietStep
      DEF StartTick, ListDue, List, FinishTick, TakeNext, ClaimMissed, NextRow, Goto,
          rowVars, mailVars, TypeOK, PCs
    <2>2. CASE FailInterruptedSends(p)
      BY <1>0, <2>2, SweepStep
    <2>3. CASE Claim(p)
      BY <1>0, <2>3, ClaimStep
    <2>4. CASE GmailAccepts(p) \/ SendRefused(p) \/ AnswerLost(p)
      BY <1>0, <2>4, SendStep
    <2>5. CASE RecordFailure(p) \/ RecordSent(p)
      BY <1>0, <2>5, RecordStep
    <2>6. QED
      BY <1>3, <2>1, <2>2, <2>3, <2>4, <2>5 DEF Tick
  <1>4. ASSUME NEW p \in Procs, Failure(p) \/ Exit(p) \/ Restart(p) PROVE IInv'
    BY <1>0, <1>4, QuietStep
    DEF Failure, SentNotRecorded, TickThrows, Sigterm, Crash, Exit, Down, Restart,
        NextRow, Goto, rowVars, mailVars, TypeOK, PCs
  <1>5. CASE UNCHANGED vars
    BY <1>0, <1>5, QuietStep DEF vars, rowVars, procVars, mailVars
  <1>6. QED
    BY <1>1, <1>2, <1>3, <1>4, <1>5 DEF Next

-----------------------------------------------------------------------------
\* The inductive invariant holds in every state of every behaviour.
THEOREM Invariance == Spec => []IInv
  BY InitInv, NextInv, PTL DEF Spec

\* The types of all variables hold in every state of every behaviour.
THEOREM TypeCorrect == Spec => []TypeOK
  <1>1. IInv => TypeOK
    BY DEF IInv
  <1>2. QED
    BY <1>1, Invariance, PTL

\* What the owner relies on, for any number of rows, processes and faults: one
\* sender per row, no duplicate but after a lost answer, never more than MaxTries
\* messages, a cancelled row not sent, a sent row accepted.
THEOREM SendSafety ==
  Spec => [](OneSender /\ NoDuplicateSend /\ DuplicatesBounded
               /\ CancelledNotSent /\ SentWasAccepted)
  <1>1. IInv => OneSender /\ NoDuplicateSend /\ DuplicatesBounded
                  /\ CancelledNotSent /\ SentWasAccepted
    BY DEF IInv, RowInv, NoDuplicateSend, DuplicatesBounded, CancelledNotSent,
           SentWasAccepted
  <1>2. QED
    BY <1>1, Invariance, PTL

\* However often answers are lost, a message goes out at most MaxTries times.
THEOREM TriesBoundDuplicates == Spec => []DuplicatesBounded
  BY SendSafety, PTL

\* A row the owner was told is cancelled did not go out, lost answers aside.
THEOREM CancelHolds == Spec => []CancelledNotSent
  BY SendSafety, PTL

-----------------------------------------------------------------------------
\* Only a claimed, due row is sent; a claimed row cannot be rescheduled.
LEMMA OutcomeStep ==
  IInv /\ [Next]_vars =>
    [\A r \in Rows :
       /\ status[r] \in {"sent", "cancelled"} => status'[r] = status[r]
       /\ status[r] = "failed" => status'[r] \in {"failed", "sent"}]_vars
  <1> SUFFICES ASSUME IInv, Next, NEW r \in Rows
               PROVE  /\ status[r] \in {"sent", "cancelled"} => status'[r] = status[r]
                      /\ status[r] = "failed" => status'[r] \in {"failed", "sent"}
    OBVIOUS
  <1> USE DEF IInv, TypeOK
  <1>1. CASE \E q \in Rows : Owner(q) \/ Time(q)
    BY <1>1 DEF Owner, Time, Schedule, Reschedule, Cancel, BecomeDue, BecomeStale
  <1>2. CASE \E p \in Procs : Tick(p)
    <2> SUFFICES ASSUME NEW p \in Procs, Tick(p)
                 PROVE  /\ status[r] \in {"sent", "cancelled"} => status'[r] = status[r]
                        /\ status[r] = "failed" => status'[r] \in {"failed", "sent"}
      BY <1>2
    <2>1. CASE status' = status
      BY <2>1
    <2>2. CASE FailInterruptedSends(p)
      BY <2>2 DEF FailInterruptedSends, Sweep
    <2>3. CASE Claim(p)
      BY <2>3 DEF Claim, Claimable
    <2>4. CASE RecordFailure(p)
      BY <2>4 DEF RecordFailure, Fails
    <2>5. CASE RecordSent(p)
      <3>1. status[cur[p]] \in {"sending", "failed"}
        BY <2>5 DEF RecordSent, Goto, HolderInv, Holds
      <3>2. QED
        BY <2>5, <3>1 DEF RecordSent
    <2>6. QED
      BY <2>1, <2>2, <2>3, <2>4, <2>5, Zenon
      DEF Tick, StartTick, ListDue, List, FinishTick, TakeNext, ClaimMissed,
          GmailAccepts, SendRefused, AnswerLost, rowVars
  <1>3. CASE \E p \in Procs : Failure(p) \/ Exit(p) \/ Restart(p)
    BY <1>3 DEF Failure, SentNotRecorded, TickThrows, Sigterm, Crash, Exit, Down,
                Restart, rowVars
  <1>4. QED
    BY <1>1, <1>2, <1>3 DEF Next

\* What the owner was told stands: sent and cancelled are final, and failed can
\* only be corrected to sent.
THEOREM OutcomesStand == Spec => OutcomeStands
  BY Invariance, OutcomeStep, PTL DEF Spec, OutcomeStands

\* Only the two send steps hand a message to Gmail, and both hold a due row.
LEMMA MailStep ==
  ASSUME IInv, Next, NEW r \in Rows, accepted'[r] # accepted[r]
  PROVE  \E p \in Procs : /\ GmailAccepts(p) \/ AnswerLost(p)
                          /\ cur[p] = r
  <1>1. \E p \in Procs : GmailAccepts(p) \/ AnswerLost(p)
    <2>1. ASSUME NEW q \in Rows, Owner(q) \/ Time(q) PROVE accepted' = accepted
      BY <2>1 DEF Owner, Time, Schedule, Reschedule, Cancel, BecomeDue, BecomeStale,
                  mailVars
    <2>2. ASSUME NEW p \in Procs, Tick(p), ~(GmailAccepts(p) \/ AnswerLost(p))
          PROVE  accepted' = accepted
      BY <2>2 DEF Tick, StartTick, FailInterruptedSends, Sweep, ListDue, List,
                  FinishTick, TakeNext, Claim, ClaimMissed, SendRefused,
                  RecordFailure, Fails, RecordSent, mailVars
    <2>3. ASSUME NEW p \in Procs, Failure(p) \/ Exit(p) \/ Restart(p)
          PROVE  accepted' = accepted
      BY <2>3 DEF Failure, SentNotRecorded, TickThrows, Sigterm, Crash, Exit, Down,
                  Restart, mailVars
    <2>4. QED
      BY <2>1, <2>2, <2>3 DEF Next
  <1>2. PICK p \in Procs : GmailAccepts(p) \/ AnswerLost(p)
    BY <1>1
  <1>3. cur[p] = r
    BY <1>2 DEF GmailAccepts, AnswerLost, IInv, TypeOK
  <1>4. QED
    BY <1>2, <1>3

\* Nothing is sent before its time, whatever reschedules race the tick's list.
THEOREM SentWhenDue == Spec => NeverEarly
  <1>1. IInv /\ [Next]_vars =>
          [\A r \in Rows : accepted'[r] # accepted[r] => due[r]]_vars
    <2> SUFFICES ASSUME IInv, Next, NEW r \in Rows, accepted'[r] # accepted[r]
                 PROVE  due[r]
      OBVIOUS
    <2>1. PICK p \in Procs : (GmailAccepts(p) \/ AnswerLost(p)) /\ cur[p] = r
      BY MailStep
    <2>2. pc[p] = "send"
      BY <2>1 DEF GmailAccepts, AnswerLost, Goto
    <2>3. QED
      BY <2>1, <2>2 DEF IInv, HolderInv
  <1>2. QED
    BY <1>1, Invariance, PTL DEF Spec, NeverEarly

-----------------------------------------------------------------------------
(* Refinement of SendPromise, when no answer of Gmail to an accepted message *)
(* is lost.                                                                  *)

NoLoss == \A r \in Rows : lost[r] = 0

\* Without lost answers no row ever counts one.
LEMMA NoLossStep ==
  ASSUME ~LossPossible, TypeOK, NoLoss, [Next]_vars PROVE NoLoss'
  <1>1. ASSUME NEW r \in Rows, Owner(r) \/ Time(r) PROVE lost' = lost
    BY <1>1 DEF Owner, Time, Schedule, Reschedule, Cancel, BecomeDue, BecomeStale,
                mailVars
  <1>2. ASSUME NEW p \in Procs, Tick(p) PROVE lost' = lost
    BY <1>2 DEF Tick, StartTick, FailInterruptedSends, Sweep, ListDue, List,
                FinishTick, TakeNext, Claim, ClaimMissed, GmailAccepts, SendRefused,
                AnswerLost, RecordFailure, Fails, RecordSent, mailVars
  <1>3. ASSUME NEW p \in Procs, Failure(p) \/ Exit(p) \/ Restart(p)
        PROVE  lost' = lost
    BY <1>3 DEF Failure, SentNotRecorded, TickThrows, Sigterm, Crash, Exit, Down,
                Restart, mailVars
  <1>4. lost' = lost
    BY <1>1, <1>2, <1>3 DEF Next, vars, mailVars
  <1>5. QED
    BY <1>4 DEF NoLoss

PInv == IInv /\ NoLoss

\* Every step of the job is a step of the promise, or changes nothing it shows.
LEMMA PromiseStep ==
  ASSUME ~LossPossible, PInv, [Next]_vars PROVE [Promise!Next]_(Promise!vars)
  <1> DEFINE out == {r \in Rows : accepted[r] > 0}
  <1> USE DEF Promise!vars, PInv
  <1>0. TypeOK
    BY DEF IInv
  <1>1. ASSUME status' = status, accepted' = accepted
        PROVE  UNCHANGED Promise!vars
    BY <1>1
  <1>2. ASSUME NEW r \in Rows, Schedule(r) PROVE Promise!Enqueue(r)
    BY <1>0, <1>2 DEF Schedule, mailVars, Promise!Enqueue, Promise!Say, Outcome, TypeOK
  <1>3. ASSUME NEW r \in Rows, Cancel(r) PROVE Promise!Withdraw(r)
    <2>1. r \notin out
      BY <1>3 DEF Cancel, NoLoss, IInv, RowInv, TypeOK
    <2>2. QED
      BY <1>0, <1>3, <2>1
      DEF Cancel, mailVars, Promise!Withdraw, Promise!Say, Outcome, TypeOK
  <1>4. ASSUME NEW p \in Procs, FailInterruptedSends(p) PROVE Promise!Next
    <2> DEFINE S == {r \in Rows : status[r] = "sending" /\ stale[r]}
    <2>1. Promise!GiveUpOn(S)
      BY <1>0, <1>4
      DEF FailInterruptedSends, Sweep, mailVars, Promise!GiveUpOn, Outcome, TypeOK
    <2>2. S \in SUBSET Rows
      OBVIOUS
    <2>3. QED
      BY <2>1, <2>2 DEF Promise!Next
  <1>5. ASSUME NEW p \in Procs, Claim(p) PROVE UNCHANGED Promise!vars
    BY <1>0, <1>5 DEF Claim, Claimable, mailVars, Outcome, TypeOK
  <1>6. ASSUME NEW p \in Procs, NEW r \in Rows, cur[p] = r, GmailAccepts(p)
        PROVE  Promise!Mail(r)
    <2>1. r \notin out /\ status[r] \in {"sending", "failed"}
      BY <1>6 DEF GmailAccepts, Goto, NoLoss, IInv, HolderInv, Holds, TypeOK
    <2>2. status' = status /\ accepted' = [accepted EXCEPT ![r] = @ + 1]
      BY <1>6 DEF GmailAccepts, rowVars
    <2>3. out' = out \cup {r}
      BY <1>0, <2>1, <2>2 DEF TypeOK
    <2>4. QED
      BY <2>1, <2>2, <2>3 DEF Promise!Mail, Outcome
  <1>7. ASSUME NEW p \in Procs, RecordSent(p) PROVE cur[p] \in Rows /\ Promise!Confirm(cur[p])
    <2>1. /\ cur[p] \in Rows /\ cur[p] \in out
          /\ status[cur[p]] \in {"sending", "failed"}
      BY <1>7 DEF RecordSent, Goto, NoLoss, IInv, HolderInv, Holds, TypeOK
    <2>2. QED
      BY <1>0, <1>7, <2>1
      DEF RecordSent, mailVars, Promise!Confirm, Promise!Say, Outcome, TypeOK
  <1>8. ASSUME NEW p \in Procs, RecordFailure(p) PROVE [Promise!Next]_(Promise!vars)
    <2>1. cur[p] \in Rows
      BY <1>8 DEF RecordFailure, Fails, Goto, IInv, HolderInv, Holds
    <2>2. accepted' = accepted
      BY <1>8 DEF RecordFailure, Fails, mailVars
    <2>3. CASE status' = status
      BY <1>1, <2>2, <2>3
    <2>4. CASE status[cur[p]] = "sending" /\ status' = [status EXCEPT ![cur[p]] = "pending"]
      BY <1>0, <2>2, <2>4 DEF Outcome, TypeOK
    <2>5. CASE status[cur[p]] = "sending" /\ status' = [status EXCEPT ![cur[p]] = "failed"]
      <3>1. Promise!GiveUpOn({cur[p]})
        BY <1>0, <2>1, <2>2, <2>5 DEF Promise!GiveUpOn, Outcome, TypeOK
      <3>2. {cur[p]} \in SUBSET Rows
        BY <2>1
      <3>3. QED
        BY <3>1, <3>2 DEF Promise!Next
    <2>6. QED
      BY <1>8, <2>3, <2>4, <2>5 DEF RecordFailure, Fails
  <1>9. CASE \E r \in Rows : Owner(r) \/ Time(r)
    BY <1>1, <1>2, <1>3, <1>9
    DEF Owner, Time, Reschedule, BecomeDue, BecomeStale, mailVars, Promise!Next
  <1>10. CASE \E p \in Procs : Tick(p)
    <2> SUFFICES ASSUME NEW p \in Procs, Tick(p) PROVE [Promise!Next]_(Promise!vars)
      BY <1>10
    <2>1. CASE status' = status /\ accepted' = accepted
      BY <1>1, <2>1
    <2>2. CASE FailInterruptedSends(p) \/ Claim(p)
      BY <1>4, <1>5, <2>2
    <2>3. CASE GmailAccepts(p)
      <3>1. PICK r \in Rows : cur[p] = r
        BY <2>3 DEF GmailAccepts, Goto, IInv, HolderInv
      <3>2. Promise!Mail(r)
        BY <1>6, <2>3, <3>1
      <3>3. QED
        BY <3>2 DEF Promise!Next
    <2>4. CASE RecordSent(p)
      BY <1>7, <2>4, Zenon DEF Promise!Next
    <2>5. CASE RecordFailure(p)
      BY <1>8, <2>5
    <2>6. QED
      BY <2>1, <2>2, <2>3, <2>4, <2>5, Zenon
      DEF Tick, StartTick, ListDue, List, FinishTick, TakeNext, ClaimMissed,
          SendRefused, AnswerLost, rowVars, mailVars
  <1>11. CASE \E p \in Procs : Failure(p) \/ Exit(p) \/ Restart(p)
    BY <1>1, <1>11
    DEF Failure, SentNotRecorded, TickThrows, Sigterm, Crash, Exit, Down, Restart,
        rowVars, mailVars
  <1>12. CASE UNCHANGED vars
    BY <1>1, <1>12 DEF vars, rowVars, mailVars
  <1>13. QED
    BY <1>9, <1>10, <1>11, <1>12 DEF Next

\* When no answer is lost the job keeps the promise of SendPromise: at most one
\* message per row, none for a withdrawn one, no false "delivered".
THEOREM PromiseKept == ~LossPossible => (Spec => ImplementsPromise)
  <1> SUFFICES ASSUME ~LossPossible PROVE Spec => ImplementsPromise
    OBVIOUS
  <1>1. Init => Promise!Init
    BY DEF Init, Promise!Init, Outcome
  <1>2. Init => NoLoss
    BY DEF Init, NoLoss
  <1>3. PInv /\ [Next]_vars => PInv'
    BY NextInv, NoLossStep DEF PInv, IInv
  <1>4. PInv /\ [Next]_vars => [Promise!Next]_(Promise!vars)
    BY PromiseStep
  <1>5. Init => PInv
    BY <1>2, InitInv DEF PInv
  <1>6. QED
    BY <1>1, <1>3, <1>4, <1>5, PTL DEF Spec, ImplementsPromise, Promise!Spec
=============================================================================
