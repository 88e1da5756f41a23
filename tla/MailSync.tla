------------------------------ MODULE MailSync ------------------------------
(***************************************************************************)
(* One account's mailbox: the messages at Gmail with their labels, Gmail's *)
(* history feed, the local rows, and the sync that follows the feed        *)
(* (emailService.syncFromGmail and what it calls). The guard of            *)
(* PerUserRunner admits one sync of an account at a time; the mailbox      *)
(* changes at Gmail whenever the sync awaits something.                    *)
(*                                                                         *)
(* A position in the feed is the number of records before it. A message is *)
(* its id and its label set: the flags a row carries are computed from the *)
(* labels by every write of the sync.                                      *)
(***************************************************************************)
EXTENDS Naturals, Sequences, FiniteSets

CONSTANTS
  Messages,    \* Gmail ids
  Labels,      \* label ids; a new message has them all
  Batch,       \* messages an initial sync fetches at once (10)
  MaxTracked,  \* ids the retry list holds (MAX_TRACKED_FAILURES, 500)
  MaxHistory,  \* bound: records of the feed
  MaxFaults,   \* bound: failed fetches and writes, aborted runs, crashes
  Expiry,      \* may Gmail have forgotten the cursor (404)?
  None         \* no cursor, no label

ASSUME BatchAssumption  == Batch \in Nat \ {0}
ASSUME TrackedAssumption == MaxTracked \in Nat
ASSUME BoundsAssumption == MaxHistory \in Nat /\ MaxFaults \in Nat
ASSUME ExpiryAssumption == Expiry \in BOOLEAN
ASSUME NoneAssumption   == None \notin Nat \cup Labels

VARIABLES
  mailbox,    \* the messages at Gmail
  labels,     \* ... and their labels
  feed,       \* Gmail's history
  rows,       \* the messages that have a row
  rowLabels,  \* labelIds of each row
  cursor,     \* lastHistoryId
  failed,     \* syncFailedMessageIds
  phase,      \* where the sync is
  historyId,  \* the cursor this run will store
  pos, upto,  \* the record to process next, and the last one of the page
  todo,       \* ids listed and not yet taken
  batch,      \* ids whose messages.get has not answered
  held,       \* messages fetched and not yet written
  fetched,    \* ... and their labels as fetched
  failing,    \* failedIds, stillFailing
  base,       \* history: the last cursor that a listing run has stored
  listedAt,   \* history: where the feed ended when a catch-up listed, or None
  skipped,    \* history: the records between such a listing and the cursor after it
  dropped,    \* history: the ids the retry list had no place for
  faults

gmailVars == <<mailbox, labels, feed>>
rowVars   == <<rows, rowLabels>>
fetchVars == <<todo, batch, held, fetched, failing>>
catchUp   == <<base, listedAt, skipped>>
history   == <<catchUp, dropped>>
vars == <<gmailVars, rowVars, cursor, failed, phase, historyId, pos, upto, fetchVars,
          history, faults>>

Blank  == [m \in Messages |-> {}]
Record == [kind : {"added", "deleted"}, msg : Messages, label : {None}]
     \cup [kind : {"labelAdded", "labelRemoved"}, msg : Messages, label : Labels]

Init ==
  /\ mailbox \in SUBSET Messages
  /\ labels = [m \in Messages |-> IF m \in mailbox THEN Labels ELSE {}]
  /\ feed = <<>>
  /\ rows = {} /\ rowLabels = Blank
  /\ cursor = None /\ failed = {}
  /\ phase = "idle" /\ historyId = None /\ pos = 1 /\ upto = 0
  /\ todo = {} /\ batch = {} /\ held = {} /\ fetched = Blank /\ failing = {}
  /\ base = 0 /\ listedAt = None /\ skipped = {}
  /\ dropped = {} /\ faults = 0

-----------------------------------------------------------------------------
(* Gmail.                                                                    *)

Recorded(kind, m, l) ==
  /\ Len(feed) < MaxHistory
  /\ feed' = Append(feed, [kind |-> kind, msg |-> m, label |-> l])
  /\ UNCHANGED <<rowVars, cursor, failed, phase, historyId, pos, upto, fetchVars,
                 history, faults>>

\* Gmail gives an id once.
WasThere(m) == m \in mailbox \/ \E i \in 1 .. Len(feed) : feed[i].msg = m

Arrive(m) ==
  /\ ~WasThere(m)
  /\ mailbox' = mailbox \cup {m}
  /\ labels' = [labels EXCEPT ![m] = Labels]
  /\ Recorded("added", m, None)

DeleteAtGmail(m) ==
  /\ m \in mailbox
  /\ mailbox' = mailbox \ {m}
  /\ labels' = [labels EXCEPT ![m] = {}]
  /\ Recorded("deleted", m, None)

Relabel(m, l) ==
  /\ m \in mailbox
  /\ \/ /\ l \in labels[m]
        /\ labels' = [labels EXCEPT ![m] = @ \ {l}]
        /\ Recorded("labelRemoved", m, l)
     \/ /\ l \notin labels[m]
        /\ labels' = [labels EXCEPT ![m] = @ \cup {l}]
        /\ Recorded("labelAdded", m, l)
  /\ UNCHANGED mailbox

-----------------------------------------------------------------------------
(* The two ways to find out what there is: a listing, and the feed.          *)

Phase(from, to) == phase = from /\ phase' = to

StartSync ==
  /\ Phase("idle", IF cursor = None THEN "baseline" ELSE "history")
  /\ pos' = IF cursor = None THEN 1 ELSE cursor + 1
  /\ upto' = pos' - 1
  /\ UNCHANGED <<gmailVars, rowVars, cursor, failed, historyId, fetchVars, history,
                 faults>>

\* "The cursor is taken BEFORE listing, not after."
Baseline ==
  /\ Phase("baseline", "list")
  /\ historyId' = Len(feed)
  /\ UNCHANGED <<gmailVars, rowVars, cursor, failed, pos, upto, fetchVars, history,
                 faults>>

\* initialSync, phase 1: every id.
ListAll ==
  /\ Phase("list", "fetch")
  /\ todo' = mailbox
  /\ listedAt' = IF historyId = None THEN Len(feed) ELSE None
  /\ UNCHANGED <<gmailVars, rowVars, cursor, failed, historyId, pos, upto, batch, held,
                 fetched, failing, base, skipped, dropped, faults>>

\* One page of the feed; its historyId is where the feed ends by now.
ListHistory ==
  /\ Phase("history", "page")
  /\ historyId' = Len(feed)
  /\ upto' \in pos .. Len(feed) \/ (pos > Len(feed) /\ upto' = Len(feed))
  /\ UNCHANGED <<gmailVars, rowVars, cursor, failed, pos, fetchVars, history, faults>>

\* 404: a listing instead, and no position to go on from.
HistoryExpired ==
  /\ Expiry
  /\ Phase("history", "list")
  /\ historyId' = None
  /\ UNCHANGED <<gmailVars, rowVars, cursor, failed, pos, upto, fetchVars, history,
                 faults>>

\* Nothing of an earlier record or batch is under way.
Settled == batch = {} /\ held = {}

\* Mutated: the row is kept, as a trashed one.
DeleteRowTrashes(m) ==
  /\ rowLabels' = [rowLabels EXCEPT ![m] = {}]
  /\ UNCHANGED rows

DeleteRow(m) ==
  /\ rows' = rows \ {m}
  /\ rowLabels' = [rowLabels EXCEPT ![m] = {}]

\* One record of the page: an added message is fetched first.
ProcessRecord ==
  LET m == feed[pos].msg
      l == feed[pos].label
  IN
  /\ phase = "page" /\ Settled /\ pos <= upto
  /\ pos' = pos + 1
  /\ \/ /\ feed[pos].kind = "added"
        /\ batch' = {m}
        /\ UNCHANGED rowVars
     \/ /\ feed[pos].kind = "deleted"
        /\ DeleteRow(m)
        /\ UNCHANGED batch
     \/ /\ feed[pos].kind = "labelAdded"
        /\ rowLabels' = [rowLabels EXCEPT ![m] = IF m \in rows THEN @ \cup {l} ELSE @]
        /\ UNCHANGED <<rows, batch>>
     \/ /\ feed[pos].kind = "labelRemoved"
        /\ rowLabels' = [rowLabels EXCEPT ![m] = @ \ {l}]
        /\ UNCHANGED <<rows, batch>>
  /\ UNCHANGED <<gmailVars, cursor, failed, phase, historyId, upto, todo, held, fetched,
                 failing, history, faults>>

\* The retry list becomes ids, or as many of them as it holds. Which go, the oldest
\* in the code, is left open.
Track(ids) ==
  /\ failed' \in SUBSET ids
  /\ IF Cardinality(ids) > MaxTracked THEN Cardinality(failed') = MaxTracked
                                      ELSE failed' = ids
  /\ dropped' = dropped \cup (ids \ failed')

\* On to the next page; after the last one the failures are recorded.
EndPage ==
  /\ phase = "page" /\ Settled /\ pos > upto
  /\ \/ /\ upto < historyId
        /\ phase' = "history"
        /\ UNCHANGED <<failed, failing, dropped>>
     \/ /\ upto = historyId
        /\ phase' = "reread"
        /\ Track(failed \cup failing) /\ failing' = {}
  /\ UNCHANGED <<gmailVars, rowVars, cursor, historyId, pos, upto, todo, batch, held,
                 fetched, catchUp, faults>>

-----------------------------------------------------------------------------
(* Fetching and writing, common to the initial sync, the feed and the retry. *)

\* Ten at a time in the initial sync, one by one in the retry.
TakeBatch ==
  /\ phase \in {"fetch", "retry"} /\ Settled /\ todo # {}
  /\ \E S \in SUBSET todo :
       /\ \/ Cardinality(S) = 1 /\ phase = "retry"
          \/ Cardinality(S) = Batch /\ phase = "fetch"
          \/ Cardinality(S) < Batch /\ S = todo /\ phase = "fetch"
       /\ batch' = S /\ todo' = todo \ S
  /\ UNCHANGED <<gmailVars, rowVars, cursor, failed, phase, historyId, pos, upto, held,
                 fetched, failing, history, faults>>

\* messages.get answers, or says 404: the message is gone and not a failure.
Got(m) ==
  /\ m \in batch
  /\ batch' = batch \ {m}
  /\ \/ /\ m \in mailbox
        /\ held' = held \cup {m}
        /\ fetched' = [fetched EXCEPT ![m] = labels[m]]
     \/ m \notin mailbox /\ UNCHANGED <<held, fetched>>
  /\ UNCHANGED <<gmailVars, rowVars, cursor, failed, phase, historyId, pos, upto, todo,
                 failing, history, faults>>

Fault == /\ faults < MaxFaults
         /\ faults' = faults + 1

GetFails(m) ==
  /\ Fault
  /\ m \in batch
  /\ batch' = batch \ {m} /\ failing' = failing \cup {m}
  /\ UNCHANGED <<gmailVars, rowVars, cursor, failed, phase, historyId, pos, upto, todo,
                 held, fetched, history>>

Written(m, ls) ==
  /\ m \in held /\ batch = {}
  /\ held' = held \ {m} /\ fetched' = [fetched EXCEPT ![m] = {}]
  /\ rows' = rows \cup {m}
  /\ rowLabels' = [rowLabels EXCEPT ![m] = ls]
  /\ UNCHANGED <<gmailVars, cursor, failed, phase, historyId, pos, upto, todo, batch,
                 failing, history, faults>>

\* Mutated: an existing row is left as it is.
UpsertOnce(m) == Written(m, IF m \in rows THEN rowLabels[m] ELSE fetched[m])

\* upsertMessage, after the whole batch has answered.
Upsert(m) == Written(m, fetched[m])

\* The write throws: the feed and the retry count it as a failed fetch (the
\* initial sync does not catch it, which is RunAborts).
UpsertFails(m) ==
  /\ Fault
  /\ m \in held /\ batch = {} /\ phase \in {"page", "retry"}
  /\ held' = held \ {m} /\ fetched' = [fetched EXCEPT ![m] = {}]
  /\ failing' = failing \cup {m}
  /\ UNCHANGED <<gmailVars, rowVars, cursor, failed, phase, historyId, pos, upto, todo,
                 batch, history>>

Fetched(recorded) ==
  /\ phase = "fetch" /\ Settled /\ todo = {}
  /\ phase' = IF historyId = None THEN "profile" ELSE "reread"
  /\ Track(recorded) /\ failing' = {}
  /\ UNCHANGED <<gmailVars, rowVars, cursor, historyId, pos, upto, todo, batch, held,
                 fetched, catchUp, faults>>

\* Mutated: a failed fetch is skipped.
EndFetchSkips == Fetched(failed)

\* The end of initialSync: addFailedMessageIds.
EndFetch == Fetched(failed \cup failing)

\* "Without this fallback the cursor would keep its expired value."
ReadProfile ==
  /\ Phase("profile", "reread")
  /\ historyId' = Len(feed)
  /\ skipped' = skipped \cup (listedAt + 1 .. Len(feed))
  /\ UNCHANGED <<gmailVars, rowVars, cursor, failed, pos, upto, fetchVars, base,
                 listedAt, dropped, faults>>

-----------------------------------------------------------------------------
(* The retry of what could not be fetched, and the new cursor.               *)

Retrying(ids) ==
  /\ Phase("reread", "retry")
  /\ todo' = ids
  /\ UNCHANGED <<gmailVars, rowVars, cursor, failed, historyId, pos, upto, batch, held,
                 fetched, history, faults>>

\* Mutated: the list is kept and never retried.
RereadNothing == Retrying({}) /\ failing' = failed

\* "Re-reading picks up both the old backlog and the new failures."
Reread == Retrying(failed) /\ UNCHANGED failing

\* replaceFailedMessageIds: the survivors, no more than there were, replace the list.
EndRetry ==
  /\ Phase("retry", "store")
  /\ Settled /\ todo = {}
  /\ failed' = failing /\ failing' = {}
  /\ UNCHANGED <<gmailVars, rowVars, cursor, historyId, pos, upto, todo, batch, held,
                 fetched, history, faults>>

Stored(position) ==
  /\ Phase("store", "idle")
  /\ cursor' = position
  /\ base' = IF cursor = None \/ listedAt # None THEN position ELSE base
  /\ historyId' = None /\ pos' = 1 /\ upto' = 0 /\ listedAt' = None
  /\ UNCHANGED <<gmailVars, rowVars, failed, fetchVars, skipped, dropped, faults>>

\* Mutated: the record after the last one read, as lastHistoryId is not.
StoreBeyond == Stored(historyId + 1)

Store == Stored(historyId)

\* Anything else throws, or the process dies: nothing of the run is kept but
\* what it has written.
RunAborts ==
  /\ Fault
  /\ phase # "idle"
  /\ phase' = "idle" /\ historyId' = None /\ pos' = 1 /\ upto' = 0
  /\ todo' = {} /\ batch' = {} /\ held' = {} /\ fetched' = Blank /\ failing' = {}
  /\ listedAt' = None
  /\ UNCHANGED <<gmailVars, rowVars, cursor, failed, base, skipped, dropped>>

-----------------------------------------------------------------------------
Sync ==
  \/ StartSync \/ Baseline \/ ListAll \/ ListHistory \/ HistoryExpired
  \/ ProcessRecord \/ EndPage \/ TakeBatch \/ EndFetch \/ ReadProfile
  \/ Reread \/ EndRetry \/ Store
  \/ \E m \in Messages : Got(m) \/ Upsert(m)

Next ==
  \/ Sync \/ RunAborts
  \/ \E m \in Messages :
       \/ Arrive(m) \/ DeleteAtGmail(m) \/ \E l \in Labels : Relabel(m, l)
       \/ GetFails(m) \/ UpsertFails(m)

Spec == Init /\ [][Next]_vars

\* The cron keeps starting syncs and calls are answered.
Fairness == WF_vars(Sync)

FairSpec == Spec /\ Fairness

-----------------------------------------------------------------------------
(* Properties.                                                               *)

\* Every variable has its type, and no position is past the end of the feed.
TypeOK ==
  /\ mailbox \subseteq Messages /\ labels \in [Messages -> SUBSET Labels]
  /\ feed \in Seq(Record)
  /\ rows \subseteq Messages /\ rowLabels \in [Messages -> SUBSET Labels]
  /\ cursor \in 0 .. Len(feed) \cup {None} /\ failed \subseteq Messages
  /\ phase \in {"idle", "baseline", "list", "history", "page", "fetch", "profile",
                "reread", "retry", "store"}
  /\ historyId \in 0 .. Len(feed) \cup {None}
  /\ pos \in 1 .. Len(feed) + 1 /\ upto \in 0 .. Len(feed)
  /\ todo \subseteq Messages /\ batch \subseteq Messages /\ held \subseteq Messages
  /\ fetched \in [Messages -> SUBSET Labels] /\ failing \subseteq Messages
  /\ base \in 0 .. Len(feed) /\ listedAt \in 0 .. Len(feed) \cup {None}
  /\ skipped \subseteq 1 .. Len(feed) /\ dropped \subseteq Messages
  /\ faults \in 0 .. MaxFaults

\* Where record kind of message m, and of label l, stands in the feed.
At(kinds, m) == {i \in 1 .. Len(feed) : feed[i].kind \in kinds /\ feed[i].msg = m}
LabelChanges(m, l) ==
  {i \in At({"labelAdded", "labelRemoved"}, m) : feed[i].label = l}

\* No message is ever lost between the listing, the feed and the retries: one
\* that has no row is owed one by what a restart would find in the database. Exceptions
\* are a message that arrived while a catch-up ran, and one that failed when the
\* retry list was full.
NothingForgotten ==
  \A m \in mailbox \ (rows \cup failed \cup dropped) :
    cursor = None \/ \E i \in At({"added"}, m) : i > cursor \/ i \in skipped

\* A row whose message is gone has its deletion still to come, unless the last
\* listing, which reports no deletions, is later than that.
NoGhosts ==
  cursor # None =>
    \A m \in rows \ mailbox : \E i \in At({"deleted"}, m) : i > cursor \/ i <= base

\* A label on which row and message disagree has a change still to come, or the
\* message is to be fetched again, or failed when the retry list was full.
LabelsFollow ==
  \A m \in (rows \cap mailbox) \ (failed \cup dropped) : \A l \in Labels :
    \/ l \in rowLabels[m] <=> l \in labels[m]
    \/ cursor = None
    \/ \E i \in LabelChanges(m, l) : i > cursor \/ i \in skipped

\* When changes and faults end, every message arrives, with its labels, except
\* for what happened to it while a catch-up ran or the retry list was full.
MailArrives ==
  <>[](\A m \in mailbox :
         \/ m \in rows /\ rowLabels[m] = labels[m]
         \/ m \in dropped
         \/ \E i \in skipped : feed[i].msg = m)
=============================================================================
