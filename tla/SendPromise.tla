---------------------------- MODULE SendPromise ----------------------------
(***************************************************************************)
(* What scheduled send promises the owner of a message, with no process,   *)
(* claim, sweep or retry in sight: a message that is queued goes out at    *)
(* most once, a withdrawn one not at all, "delivered" is only said of one  *)
(* that went out, and of one given up on the owner is told that nobody     *)
(* knows (INTERRUPTED_SEND_MESSAGE) or that it did not go.                 *)
(***************************************************************************)
CONSTANT Messages

VARIABLES
  outcome,  \* what the owner's Scheduled folder says of each message
  mailed    \* the messages that have gone out

vars == <<outcome, mailed>>

Init == /\ outcome = [m \in Messages |-> "none"]
        /\ mailed = {}

Say(m, from, to) == /\ outcome[m] \in from
                    /\ outcome' = [outcome EXCEPT ![m] = to]

Enqueue(m) == Say(m, {"none"}, "queued") /\ UNCHANGED mailed

Withdraw(m) == m \notin mailed /\ Say(m, {"queued"}, "withdrawn") /\ UNCHANGED mailed

\* A send given up on may still be on its way.
Mail(m) == /\ m \notin mailed /\ outcome[m] \in {"queued", "givenUp"}
           /\ mailed' = mailed \cup {m}
           /\ UNCHANGED outcome

Confirm(m) == m \in mailed /\ Say(m, {"queued", "givenUp"}, "delivered") /\ UNCHANGED mailed

\* One sweep gives up on every message it finds interrupted.
GiveUpOn(S) == /\ \A m \in S : outcome[m] = "queued"
               /\ outcome' = [m \in Messages |-> IF m \in S THEN "givenUp" ELSE outcome[m]]
               /\ UNCHANGED mailed

Next == \/ \E m \in Messages : Enqueue(m) \/ Withdraw(m) \/ Mail(m) \/ Confirm(m)
        \/ \E S \in SUBSET Messages : GiveUpOn(S)

Spec == Init /\ [][Next]_vars
=============================================================================
