--------------------------- MODULE PerUserRunner ---------------------------
(***************************************************************************)
(* jobs/perUserRunner.ts: the per-account guard both sync schedulers run   *)
(* under. Three kinds of caller share one inFlight set: the batches the    *)
(* cron starts (runAll, a pool of workers pulling from a shared queue), a  *)
(* run for one account after a login (runOne), and the Sync button         *)
(* (runExclusive). A cron tick does not wait for the batch before it, so   *)
(* batches overlap. Node runs one callback at a time: a step is what       *)
(* happens between two awaits.                                             *)
(***************************************************************************)
EXTENDS Naturals, FiniteSets

CONSTANTS
  Accounts,     \* users with a google_auth row, now or later
  Batches,      \* bound: runAll calls in progress at once
  Requests,     \* bound: runOne and runExclusive calls in progress at once
  Concurrency,  \* SYNC_MAX_CONCURRENT_ACCOUNTS
  Hung,         \* accounts whose sync may never settle
  NoAccount

ASSUME ConcurrencyAssumption == Concurrency \in Nat \ {0}
ASSUME HungAssumption        == Hung \subseteq Accounts
ASSUME NoAccountAssumption   == NoAccount \notin Accounts
ASSUME CallersDistinct       == Batches \cap Requests = {}

VARIABLES
  connected,  \* the accounts in google_auth
  inFlight,   \* the guard
  state,      \* of each batch: free, reading the accounts, or pulling
  found,      \* what findMany returned to the batch
  queue,      \* accounts the batch has not reached; its cursor
  active,     \* accounts the batch's workers are awaiting
  serves,     \* the account a request is running for, or NoAccount
  refused     \* history: the requests whose last call was turned away

batchVars   == <<state, found, queue, active>>
requestVars == <<serves, refused>>
runnerVars  == <<connected, inFlight, batchVars, requestVars>>

RunnerInit ==
  /\ connected = Accounts
  /\ inFlight = {}
  /\ state = [b \in Batches |-> "free"]
  /\ found = [b \in Batches |-> {}]
  /\ queue = [b \in Batches |-> {}]
  /\ active = [b \in Batches |-> {}]
  /\ serves = [r \in Requests |-> NoAccount]
  /\ refused = {}

\* Mutated: one module-level isSyncing flag, as both schedulers once had.
StartWhenQuiet(b) ==
  /\ \A c \in Batches : state[c] = "free"
  /\ state' = [state EXCEPT ![b] = "reading"]
  /\ found' = [found EXCEPT ![b] = connected]
  /\ UNCHANGED <<connected, inFlight, queue, active, requestVars>>

\* The cron fires: findMany reads the accounts.
StartBatch(b) ==
  /\ state[b] = "free"
  /\ state' = [state EXCEPT ![b] = "reading"]
  /\ found' = [found EXCEPT ![b] = connected]
  /\ UNCHANGED <<connected, inFlight, queue, active, requestVars>>

\* The read has returned; accounts in flight by now are left out, and the
\* workers start.
FilterAccounts(b) ==
  /\ state[b] = "reading"
  /\ state' = [state EXCEPT ![b] = "pulling"]
  /\ queue' = [queue EXCEPT ![b] = found[b] \ inFlight]
  /\ found' = [found EXCEPT ![b] = {}]
  /\ UNCHANGED <<connected, inFlight, active, requestVars>>

\* Mutated: the workers trust the filter.
PullUnguarded(b, a) ==
  /\ a \in queue[b]
  /\ Cardinality(active[b]) < Concurrency
  /\ queue' = [queue EXCEPT ![b] = @ \ {a}]
  /\ inFlight' = inFlight \cup {a}
  /\ active' = [active EXCEPT ![b] = @ \cup {a}]
  /\ UNCHANGED <<connected, state, found, requestVars>>

\* An idle worker takes the next account and enters the guard, which skips an
\* account that some other caller has started since the filter.
Pull(b, a) ==
  /\ a \in queue[b]
  /\ Cardinality(active[b]) < Concurrency
  /\ queue' = [queue EXCEPT ![b] = @ \ {a}]
  /\ IF a \in inFlight
       THEN UNCHANGED <<inFlight, active>>
       ELSE /\ inFlight' = inFlight \cup {a}
            /\ active' = [active EXCEPT ![b] = @ \cup {a}]
  /\ UNCHANGED <<connected, state, found, requestVars>>

\* A sync settles, well or badly: the guard is left in a finally.
Settle(b, a) ==
  /\ a \in active[b]
  /\ active' = [active EXCEPT ![b] = @ \ {a}]
  /\ inFlight' = inFlight \ {a}
  /\ UNCHANGED <<connected, state, found, queue, requestVars>>

EndBatch(b) ==
  /\ state[b] = "pulling" /\ queue[b] = {} /\ active[b] = {}
  /\ state' = [state EXCEPT ![b] = "free"]
  /\ UNCHANGED <<connected, inFlight, found, queue, active, requestVars>>

-----------------------------------------------------------------------------
\* Mutated: the guard is entered under a user id nobody has looked up yet.
RequestUnknown(r, a) ==
  /\ serves[r] = NoAccount
  /\ a \notin inFlight
  /\ inFlight' = inFlight \cup {NoAccount}
  /\ serves' = [serves EXCEPT ![r] = a]
  /\ UNCHANGED <<connected, batchVars, refused>>

\* runOne and runExclusive: both check and enter the guard in one step, and both
\* turn a call away at once when the account is in flight.
Request(r, a) ==
  /\ serves[r] = NoAccount
  /\ IF a \in inFlight
       THEN /\ refused' = refused \cup {r}
            /\ UNCHANGED <<inFlight, serves>>
       ELSE /\ refused' = refused \ {r}
            /\ inFlight' = inFlight \cup {a}
            /\ serves' = [serves EXCEPT ![r] = a]
  /\ UNCHANGED <<connected, batchVars>>

Answer(r) ==
  /\ serves[r] # NoAccount
  /\ inFlight' = inFlight \ {serves[r]}
  /\ serves' = [serves EXCEPT ![r] = NoAccount]
  /\ UNCHANGED <<connected, batchVars, refused>>

-----------------------------------------------------------------------------
Connect(a) ==
  /\ a \notin connected
  /\ connected' = connected \cup {a}
  /\ UNCHANGED <<inFlight, batchVars, requestVars>>

Disconnect(a) ==
  /\ a \in connected
  /\ connected' = connected \ {a}
  /\ UNCHANGED <<inFlight, batchVars, requestVars>>

BatchStep(b) ==
  \/ StartBatch(b) \/ FilterAccounts(b) \/ EndBatch(b)
  \/ \E a \in Accounts : Pull(b, a) \/ Settle(b, a)

RunnerNext ==
  \/ \E b \in Batches : BatchStep(b)
  \/ \E r \in Requests : Answer(r) \/ \E a \in connected : Request(r, a)
  \/ \E a \in Accounts : Connect(a) \/ Disconnect(a)

RunnerSpec == RunnerInit /\ [][RunnerNext]_runnerVars

\* The cron keeps firing, workers keep pulling, and a sync settles unless its
\* account is hung: nothing in the runner or in syncAccount has a timeout.
RunnerFairness ==
  /\ \A b \in Batches :
       /\ WF_runnerVars(StartBatch(b)) /\ WF_runnerVars(FilterAccounts(b)) /\ WF_runnerVars(EndBatch(b))
       /\ \A a \in Accounts : WF_runnerVars(Pull(b, a))
       /\ \A a \in Accounts \ Hung : WF_runnerVars(Settle(b, a))
  /\ \A r \in Requests : WF_runnerVars(serves[r] \notin Hung /\ Answer(r))

RunnerFairSpec == RunnerSpec /\ RunnerFairness

-----------------------------------------------------------------------------
(* Properties.                                                               *)

\* Every variable has its type: only known accounts are in the guard, queued,
\* active or served.
RunnerTypeOK ==
  /\ connected \subseteq Accounts /\ inFlight \subseteq Accounts
  /\ state \in [Batches -> {"free", "reading", "pulling"}]
  /\ found \in [Batches -> SUBSET Accounts]
  /\ queue \in [Batches -> SUBSET Accounts]
  /\ active \in [Batches -> SUBSET Accounts]
  /\ serves \in [Requests -> Accounts \cup {NoAccount}]
  /\ refused \subseteq Requests

\* The calls that are running a sync of account a.
RunnersOf(a) == {b \in Batches : a \in active[b]} \cup {r \in Requests : serves[r] = a}

\* "A tick must not start a second sync for an account whose previous one is
\* still going": whichever callers meet, an account has one sync at a time.
OneSyncPerAccount ==
  \A a \in Accounts : \A x, y \in RunnersOf(a) : x = y

\* The guard holds exactly the accounts that are syncing: none is left behind
\* by a sync that threw, none is released by another caller's.
GuardExact == \A a \in Accounts : a \in inFlight <=> RunnersOf(a) # {}

\* The cap of runAll, "a 100-account instance does not open 100 Google clients in
\* the same second": one batch never runs more than Concurrency accounts.
BatchWithinCap == \A b \in Batches : Cardinality(active[b]) <= Concurrency

\* One account's endless sync does not keep another's mail from arriving: an
\* account that stays connected is synced again and again.
NobodyStarves ==
  \A a \in Accounts \ Hung :
    <>[](a \in connected) => []<>(RunnersOf(a) # {})
=============================================================================
