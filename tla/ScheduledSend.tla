--------------------------- MODULE ScheduledSend ---------------------------
(***************************************************************************)
(* The scheduled-send job of the server: rows of scheduled_emails, the     *)
(* requests of their owners (schedule, reschedule, cancel), and any number *)
(* of processes that run the job every 30 seconds over the same table      *)
(* (emailService.processScheduledEmails, jobs/scheduledSendScheduler.ts).  *)
(*                                                                         *)
(* A step of a process is what it does between two awaits: one database    *)
(* statement or one Gmail call. Time is abstracted to the two comparisons  *)
(* the code makes: sendAt <= now (due) and updatedAt < now - 10 min        *)
(* (stale). Any send may take any time, so a sweep may overtake a live one.*)
(***************************************************************************)
EXTENDS Naturals

CONSTANTS
  Rows,          \* ids of scheduled_emails rows
  Procs,         \* server processes that run the schedulers
  MaxTries,      \* a row that failed this often is failed for good: 3
  LossPossible,  \* may an answer of Gmail to an accepted message be lost?
  MaxFaults,     \* bound: crashes, SIGTERMs and database errors of a behaviour
  None           \* no row

ASSUME MaxTriesAssumption == MaxTries \in Nat \ {0}
ASSUME LossAssumption     == LossPossible \in BOOLEAN
ASSUME FaultsAssumption   == MaxFaults \in Nat
ASSUME NoneAssumption     == None \notin Rows

VARIABLES
  status,      \* the column, or "none" before the row exists
  due,         \* sendAt <= now
  stale,       \* updatedAt (the claim time) is past SCHEDULED_SEND_STUCK_MS
  retryCount,  \* the column
  pc,          \* where each process is in its tick
  queue,       \* the due ids a tick has read and not yet reached
  cur,         \* the row the loop body is at
  snapRetry,   \* scheduled.retryCount of the row the claim returned
  draining,    \* lifecycle.isDraining() of each process
  accepted,    \* history: how often Gmail has accepted the row's message
  lost,        \* history: how many of these the process was told had failed
  faults       \* crashes, SIGTERMs and database errors so far

rowVars  == <<status, due, stale, retryCount>>
procVars == <<pc, queue, cur, snapRetry, draining>>
mailVars == <<accepted, lost>>
vars     == <<rowVars, procVars, mailVars, faults>>

Statuses == {"none", "pending", "sending", "sent", "failed", "cancelled"}
PCs      == {"down", "idle", "sweep", "list", "loop", "claim", "send",
             "accepted", "threw"}

Init ==
  /\ status = [r \in Rows |-> "none"]
  /\ due = [r \in Rows |-> FALSE]
  /\ stale = [r \in Rows |-> FALSE]
  /\ retryCount = [r \in Rows |-> 0]
  /\ pc = [p \in Procs |-> "idle"]
  /\ queue = [p \in Procs |-> {}]
  /\ cur = [p \in Procs |-> None]
  /\ snapRetry = [p \in Procs |-> 0]
  /\ draining = [p \in Procs |-> FALSE]
  /\ accepted = [r \in Rows |-> 0]
  /\ lost = [r \in Rows |-> 0]
  /\ faults = 0

-----------------------------------------------------------------------------
(* The owner's requests. The validator takes only a sendAt in the future.   *)

Schedule(r) ==
  /\ status[r] = "none"
  /\ status' = [status EXCEPT ![r] = "pending"]
  /\ UNCHANGED <<due, stale, retryCount, procVars, mailVars, faults>>

\* A refused request changes nothing: only updateIfPending's write is a step.
Reschedule(r) ==
  /\ status[r] = "pending"
  /\ due' = [due EXCEPT ![r] = FALSE]
  /\ UNCHANGED <<status, stale, retryCount, procVars, mailVars, faults>>

\* Mutated: read first, write by id alone, as the code once did.
CancelUnconditional(r) ==
  /\ status[r] \in {"pending", "sending"}
  /\ status' = [status EXCEPT ![r] = "cancelled"]
  /\ UNCHANGED <<due, stale, retryCount, procVars, mailVars, faults>>

\* Mutated: a status no reader of the table knows.
CancelMisspelt(r) ==
  /\ status[r] = "pending"
  /\ status' = [status EXCEPT ![r] = "canceled"]
  /\ UNCHANGED <<due, stale, retryCount, procVars, mailVars, faults>>

Cancel(r) ==
  /\ status[r] = "pending"
  /\ status' = [status EXCEPT ![r] = "cancelled"]
  /\ UNCHANGED <<due, stale, retryCount, procVars, mailVars, faults>>

-----------------------------------------------------------------------------
(* Time.                                                                     *)

BecomeDue(r) ==
  /\ status[r] = "pending"
  /\ due' = [due EXCEPT ![r] = TRUE]
  /\ UNCHANGED <<status, stale, retryCount, procVars, mailVars, faults>>

BecomeStale(r) ==
  /\ status[r] = "sending"
  /\ stale' = [stale EXCEPT ![r] = TRUE]
  /\ UNCHANGED <<status, due, retryCount, procVars, mailVars, faults>>

-----------------------------------------------------------------------------
(* One tick of process p.                                                    *)

\* The loop body is over: its locals are gone.
NextRow(p) == /\ cur' = [cur EXCEPT ![p] = None]
              /\ snapRetry' = [snapRetry EXCEPT ![p] = 0]

Goto(p, from, to) ==
  /\ pc[p] = from
  /\ pc' = [pc EXCEPT ![p] = to]

\* runJob starts nothing while draining; isProcessing admits one tick at once.
StartTick(p) ==
  /\ ~draining[p]
  /\ Goto(p, "idle", "sweep")
  /\ UNCHANGED <<rowVars, queue, cur, snapRetry, draining, mailVars, faults>>

Sweep(p, to) ==
  /\ Goto(p, "sweep", "list")
  /\ status' = [r \in Rows |-> IF status[r] = "sending" /\ stale[r]
                                 THEN to ELSE status[r]]
  /\ UNCHANGED <<due, stale, retryCount, queue, cur, snapRetry, draining,
                 mailVars, faults>>

\* Mutated: the sweep requeues.
SweepRequeues(p) == Sweep(p, "pending")

FailInterruptedSends(p) == Sweep(p, "failed")

List(p, S) ==
  /\ Goto(p, "list", "loop")
  /\ queue' = [queue EXCEPT ![p] = S]
  /\ UNCHANGED <<rowVars, cur, snapRetry, draining, mailVars, faults>>

\* Mutated: a row that has failed once is not listed again.
ListFirstTries(p) ==
  List(p, {r \in Rows : status[r] = "pending" /\ due[r] /\ retryCount[r] = 0})

ListDue(p) == List(p, {r \in Rows : status[r] = "pending" /\ due[r]})

\* The loop ends when the list is used up, or at the first look at isDraining.
FinishTick(p) ==
  /\ queue[p] = {} \/ draining[p]
  /\ Goto(p, "loop", "idle")
  /\ queue' = [queue EXCEPT ![p] = {}]
  /\ UNCHANGED <<rowVars, cur, snapRetry, draining, mailVars, faults>>

TakeNext(p) ==
  /\ ~draining[p]
  /\ Goto(p, "loop", "claim")
  /\ \E r \in queue[p] : /\ cur' = [cur EXCEPT ![p] = r]
                         /\ queue' = [queue EXCEPT ![p] = @ \ {r}]
  /\ UNCHANGED <<rowVars, snapRetry, draining, mailVars, faults>>

\* The conditional UPDATE: it moves the row to sending, or matches nothing.
\* Mutated: the due time is not looked at again.
ClaimableEarly(r) == status[r] = "pending"

Claimable(r) == status[r] = "pending" /\ due[r]

Claim(p) ==
  /\ Goto(p, "claim", "send")
  /\ Claimable(cur[p])
  /\ status' = [status EXCEPT ![cur[p]] = "sending"]
  /\ stale' = [stale EXCEPT ![cur[p]] = FALSE]
  /\ snapRetry' = [snapRetry EXCEPT ![p] = retryCount[cur[p]]]
  /\ UNCHANGED <<due, retryCount, queue, cur, draining, mailVars, faults>>

ClaimMissed(p) ==
  /\ pc[p] = "claim"
  /\ ~Claimable(cur[p])
  /\ pc' = [pc EXCEPT ![p] = "loop"]
  /\ NextRow(p)
  /\ UNCHANGED <<rowVars, queue, draining, mailVars, faults>>

\* sendScheduledEmail resolves: what follows Gmail's answer never throws.
GmailAccepts(p) ==
  /\ Goto(p, "send", "accepted")
  /\ accepted' = [accepted EXCEPT ![cur[p]] = @ + 1]
  /\ UNCHANGED <<rowVars, queue, cur, snapRetry, draining, lost, faults>>

\* It throws before the message went out: no grant, a quota, an answer "no".
SendRefused(p) ==
  /\ Goto(p, "send", "threw")
  /\ UNCHANGED <<rowVars, queue, cur, snapRetry, draining, mailVars, faults>>

\* It throws although Gmail has the message: the connection broke first.
AnswerLost(p) ==
  /\ LossPossible
  /\ Goto(p, "send", "threw")
  /\ accepted' = [accepted EXCEPT ![cur[p]] = @ + 1]
  /\ lost' = [lost EXCEPT ![cur[p]] = @ + 1]
  /\ UNCHANGED <<rowVars, queue, cur, snapRetry, draining, faults>>

Fails(p, limit, only) ==
  /\ Goto(p, "threw", "loop")
  /\ IF status[cur[p]] \in only
       THEN /\ status' = [status EXCEPT ![cur[p]] =
                 IF snapRetry[p] + 1 >= limit THEN "failed" ELSE "pending"]
            /\ retryCount' = [retryCount EXCEPT ![cur[p]] = snapRetry[p] + 1]
       ELSE UNCHANGED <<status, retryCount>>
  /\ NextRow(p)
  /\ UNCHANGED <<due, stale, queue, draining, mailVars, faults>>

\* Mutated: whatever the row has become meanwhile, or one try too many.
RecordFailureAnyway(p) == Fails(p, MaxTries, Statuses)
RecordFailureLate(p)   == Fails(p, MaxTries + 1, {"sending"})

\* The catch block: an UPDATE of the row only if it is still sending.
RecordFailure(p) == Fails(p, MaxTries, {"sending"})

\* The write after an accepted send is unconditional.
RecordSent(p) ==
  /\ Goto(p, "accepted", "loop")
  /\ status' = [status EXCEPT ![cur[p]] = "sent"]
  /\ NextRow(p)
  /\ UNCHANGED <<due, stale, retryCount, queue, draining, mailVars,
                 faults>>

-----------------------------------------------------------------------------
(* Failures and restarts.                                                    *)

Fault == /\ faults < MaxFaults
         /\ faults' = faults + 1

\* The sent write fails: caught, logged, and the row is left sending.
SentNotRecorded(p) ==
  /\ Fault
  /\ Goto(p, "accepted", "loop")
  /\ NextRow(p)
  /\ UNCHANGED <<rowVars, queue, draining, mailVars>>

\* Any other statement fails: the error leaves processScheduledEmails and the
\* scheduler's finally clears isProcessing.
TickThrows(p) ==
  /\ Fault
  /\ pc[p] \in {"sweep", "list", "claim", "threw"}
  /\ pc' = [pc EXCEPT ![p] = "idle"]
  /\ queue' = [queue EXCEPT ![p] = {}]
  /\ NextRow(p)
  /\ UNCHANGED <<rowVars, draining, mailVars>>

\* SIGTERM: shutdown() starts draining and stops the crons.
Sigterm(p) ==
  /\ Fault
  /\ pc[p] # "down" /\ ~draining[p]
  /\ draining' = [draining EXCEPT ![p] = TRUE]
  /\ UNCHANGED <<rowVars, pc, queue, cur, snapRetry, mailVars>>

Down(p) ==
  /\ pc' = [pc EXCEPT ![p] = "down"]
  /\ queue' = [queue EXCEPT ![p] = {}]
  /\ NextRow(p)
  /\ draining' = [draining EXCEPT ![p] = FALSE]
  /\ UNCHANGED <<rowVars, mailVars>>

\* drain() saw the tick settle, and the process exits.
Exit(p) ==
  /\ draining[p] /\ pc[p] = "idle"
  /\ Down(p)
  /\ UNCHANGED faults

\* Killed wherever it stands: out of memory, or the drain deadline passed.
Crash(p) ==
  /\ Fault
  /\ pc[p] # "down"
  /\ Down(p)

Restart(p) ==
  /\ Goto(p, "down", "idle")
  /\ UNCHANGED <<rowVars, queue, cur, snapRetry, draining, mailVars, faults>>

-----------------------------------------------------------------------------
Owner(r) == Schedule(r) \/ Reschedule(r) \/ Cancel(r)
Time(r)  == BecomeDue(r) \/ BecomeStale(r)

Tick(p) ==
  \/ StartTick(p) \/ FailInterruptedSends(p) \/ ListDue(p) \/ FinishTick(p)
  \/ TakeNext(p) \/ Claim(p) \/ ClaimMissed(p)
  \/ GmailAccepts(p) \/ SendRefused(p) \/ AnswerLost(p)
  \/ RecordFailure(p) \/ RecordSent(p)

Failure(p) == SentNotRecorded(p) \/ TickThrows(p) \/ Sigterm(p) \/ Crash(p)

Next ==
  \/ \E r \in Rows : Owner(r) \/ Time(r)
  \/ \E p \in Procs : Tick(p) \/ Failure(p) \/ Exit(p) \/ Restart(p)

Spec == Init /\ [][Next]_vars

\* The cron fires every 30 seconds, an awaited statement or request settles,
\* the platform restarts a process that is gone, and time passes. Nobody has to
\* schedule, cancel or fail anything.
Fairness ==
  /\ \A r \in Rows : WF_vars(BecomeDue(r)) /\ WF_vars(BecomeStale(r))
  /\ \A p \in Procs : WF_vars(Tick(p)) /\ WF_vars(Exit(p)) /\ WF_vars(Restart(p))

FairSpec == Spec /\ Fairness

-----------------------------------------------------------------------------
(* Properties.                                                               *)

\* Every variable has its type; the columns take only the values the code writes.
TypeOK ==
  /\ status \in [Rows -> Statuses]
  /\ due \in [Rows -> BOOLEAN] /\ stale \in [Rows -> BOOLEAN]
  /\ retryCount \in [Rows -> Nat]
  /\ pc \in [Procs -> PCs]
  /\ queue \in [Procs -> SUBSET Rows]
  /\ cur \in [Procs -> Rows \cup {None}]
  /\ snapRetry \in [Procs -> Nat]
  /\ draining \in [Procs -> BOOLEAN]
  /\ accepted \in [Rows -> Nat] /\ lost \in [Rows -> Nat]
  /\ faults \in 0 .. MaxFaults

\* Process p has claimed the row it is at and has not recorded the outcome.
Holds(p) == pc[p] \in {"send", "accepted", "threw"}

\* Two processes never send the same row: the claim of one excludes the other,
\* also after the sweep has given up on the row of a send that is only slow.
OneSender ==
  \A p, q \in Procs : Holds(p) /\ Holds(q) /\ cur[p] = cur[q] => p = q

\* A row's message goes out at most once for every time Gmail's answer was
\* understood: however many processes, crashes, sweeps and restarts, only an
\* accepted message reported as an error is ever sent again.
NoDuplicateSend == \A r \in Rows : accepted[r] <= 1 + lost[r]

\* Even when answers are lost, no recipient gets a message more than MaxTries
\* times: every send is counted by the claim that preceded it.
DuplicatesBounded == \A r \in Rows : accepted[r] <= MaxTries

\* "Cancelled" means it did not go: the owner's cancel never lands on a row that
\* is being sent, or was, unless Gmail's answer to that send was lost.
CancelledNotSent ==
  \A r \in Rows : status[r] = "cancelled" => accepted[r] <= lost[r]

\* "Sent" is written only for a message Gmail took and said so.
SentWasAccepted ==
  \A r \in Rows : status[r] = "sent" => accepted[r] > lost[r]

\* The inductive invariant. A row's accepted messages are bounded by what its
\* status, its retry count and the process holding it leave open.
RowInv(r) ==
  /\ status[r] \in {"none", "pending", "cancelled"} =>
       accepted[r] <= lost[r] /\ accepted[r] <= retryCount[r]
  /\ status[r] \in {"none", "pending", "cancelled", "sending"} =>
       retryCount[r] < MaxTries
  /\ status[r] = "sent" => accepted[r] > lost[r]
  /\ lost[r] <= accepted[r] /\ accepted[r] <= 1 + lost[r]
  /\ accepted[r] <= 1 + retryCount[r] /\ accepted[r] <= MaxTries

HolderInv(p) ==
  /\ pc[p] \in {"claim", "send", "accepted", "threw"} => cur[p] \in Rows
  /\ Holds(p) => /\ status[cur[p]] \in {"sending", "failed"}
                 /\ snapRetry[p] = retryCount[cur[p]]
                 /\ snapRetry[p] < MaxTries
  /\ pc[p] = "send" => /\ due[cur[p]]
                       /\ accepted[cur[p]] <= lost[cur[p]]
                       /\ accepted[cur[p]] <= snapRetry[p]
  /\ pc[p] = "accepted" => accepted[cur[p]] > lost[cur[p]]
  /\ pc[p] = "threw" => accepted[cur[p]] <= lost[cur[p]]

IInv == /\ TypeOK
        /\ OneSender
        /\ \A r \in Rows : RowInv(r)
        /\ \A p \in Procs : HolderInv(p)

\* Nothing goes out before its time: a reschedule between a tick's read of the
\* due rows and the claim keeps the row.
NeverEarly ==
  [][\A r \in Rows : accepted'[r] # accepted[r] => due[r]]_vars

\* What the owner was told stands: sent and cancelled are final, and a failed row
\* can only turn out to have been sent, never be queued again.
OutcomeStands ==
  [][\A r \in Rows :
       /\ status[r] \in {"sent", "cancelled"} => status'[r] = status[r]
       /\ status[r] = "failed" => status'[r] \in {"failed", "sent"}]_vars

\* The job implements the promise of SendPromise when no answer is lost.
Outcome(s) == CASE s \in {"pending", "sending"} -> "queued"
                [] s = "sent" -> "delivered"
                [] s = "cancelled" -> "withdrawn"
                [] s = "failed" -> "givenUp"
                [] OTHER -> "none"

Promise == INSTANCE SendPromise WITH
             Messages <- Rows,
             outcome <- [r \in Rows |-> Outcome(status[r])],
             mailed <- {r \in Rows : accepted[r] > 0}

ImplementsPromise == Promise!Spec

\* A row that stays due is settled: sent, failed or cancelled. No crash, lost
\* answer or failed write leaves it pending or sending for good.
DueRowsSettle ==
  \A r \in Rows :
    (<>[](due[r])) => <>(status[r] \in {"sent", "failed", "cancelled"})
=============================================================================
