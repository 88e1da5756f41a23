------------------------------- MODULE Snooze -------------------------------
(***************************************************************************)
(* services/snoozeService.ts with what it shares a thread's rows with: the  *)
(* scheduler that fires reminders, the owner's moves of emailService, and   *)
(* the label changes the sync applies. One account and one thread: nothing  *)
(* here reads two. A step is one query, one Gmail call, or what happens     *)
(* between two of them; labels are those that say which folder mail is in.  *)
(***************************************************************************)
EXTENDS Naturals, Sequences, FiniteSets

CONSTANTS
  Messages,   \* of the thread, numbered as they were received
  Own,        \* those from one of the owner's own addresses
  Callers,    \* bound: requests in progress at once
  Tick,       \* the scheduler, which runs one check at a time
  Reminders,  \* bound: reminders ever created
  MaxCalls,   \* bound: requests
  MaxEvents,  \* bound: messages received, deleted and moved at Gmail
  MaxFaults,  \* bound: restarts and failed Gmail calls
  None

ASSUME MessagesAreNumbers == Messages \subseteq Nat /\ Own \subseteq Messages
ASSUME TickNoCaller == Tick \notin Callers
ASSUME BoundAssumption == MaxCalls \in Nat /\ MaxEvents \in Nat /\ MaxFaults \in Nat

Procs  == Callers \cup {Tick}
Labels == {"INBOX", "TRASH"}
Kinds  == {"snooze", "follow_up"}
Moves  == {"archive", "unarchive", "trash", "untrash"}
Steps  == {"prior", "replace", "insert", "thread", "write", "drop", "calls"}

ASSUME NoneIsNothing == None \notin Reminders \cup Kinds \cup Steps

VARIABLES
  rows,      \* messages with an emails row
  arrived,   \* messages that have, or had, one
  labels, archived, trashed,  \* labelIds, isArchived, isTrashed of the rows
  gmail,     \* the labels at Gmail
  feed,      \* label changes at Gmail that the sync has not applied
  state, kind, was, armedAt,  \* the email_reminders rows
  op, at,    \* what each process does, and its next step
  rem,       \* the reminder it is about; for a create, the kind it is to have
  snap,      \* the rows it read: message -> labels and flags
  from,      \* the wasInInbox a create found, a cancel or fire read
  todo, calls,  \* messages it has still to write, and to change at Gmail
  queue,     \* reminders the scheduler's check has still to look at
  home,      \* history: messages the owner has in the inbox, snoozed or not
  excused,   \* history: messages a named race or fault may lose, see below
  crossed,   \* history: creates across whose two statements another has inserted
  doubled,   \* history: kinds of which such a create was the last to insert
  used, events, faults

rowVars  == <<rows, labels, archived, trashed>>
mailVars == <<gmail, feed, arrived>>
remVars  == <<state, kind, was, armedAt>>
procVars == <<op, at, rem, snap, from, todo, calls, queue>>
history  == <<home, excused, crossed, doubled>>
bounds   == <<used, events, faults>>
vars == <<rowVars, mailVars, remVars, procVars, history, bounds>>

IsOldest(m, S) == m \in S /\ \A n \in S : m <= n
Newest(S) == CHOOSE m \in S : \A n \in S : n <= m
NoRows == [m \in {} |-> None]

\* The first message of the thread is in the inbox; nothing is snoozed.
Init ==
  /\ \E first \in Messages :
       /\ IsOldest(first, Messages)
       /\ rows = {first}
       /\ labels = [m \in Messages |-> IF m = first THEN {"INBOX"} ELSE {}]
  /\ arrived = rows
  /\ archived = [m \in Messages |-> FALSE]
  /\ trashed = [m \in Messages |-> FALSE]
  /\ gmail = labels
  /\ feed = <<>>
  /\ state = [r \in Reminders |-> "none"]
  /\ kind = [r \in Reminders |-> None]
  /\ was = [r \in Reminders |-> FALSE]
  /\ armedAt = [r \in Reminders |-> 0]
  /\ op = [p \in Procs |-> "idle"]
  /\ at = [p \in Procs |-> None]
  /\ rem = [p \in Procs |-> None]
  /\ snap = [p \in Procs |-> NoRows]
  /\ from = [p \in Procs |-> FALSE]
  /\ todo = [p \in Procs |-> {}]
  /\ calls = [p \in Procs |-> {}]
  /\ queue = {}
  /\ home = rows /\ excused = {} /\ crossed = {} /\ doubled = {}
  /\ used = 0 /\ events = 0 /\ faults = 0

Row  == [labels : SUBSET Labels, archived : BOOLEAN, trashed : BOOLEAN]
Read == [m \in rows |-> [labels |-> labels[m], archived |-> archived[m], trashed |-> trashed[m]]]
Armed(k) == {r \in Reminders : state[r] = "armed" /\ kind[r] = k}

\* A reply: a message after the one the reminder was armed at, not the owner's.
HasReply(r) == \E m \in rows \ Own : m > armedAt[r]

Goto(p, step) == at' = [at EXCEPT ![p] = step]

\* The process has nothing left to do; the scheduler goes on with its list.
Finish(p) ==
  /\ op' = [op EXCEPT ![p] = IF p = Tick /\ queue # {} THEN "check" ELSE "idle"]
  /\ Goto(p, None)
  /\ rem' = [rem EXCEPT ![p] = None]
  /\ snap' = [snap EXCEPT ![p] = NoRows]
  /\ from' = [from EXCEPT ![p] = FALSE]
  /\ todo' = [todo EXCEPT ![p] = {}]
  /\ calls' = [calls EXCEPT ![p] = {}]
  /\ UNCHANGED queue

\* One row's labels and flags are written.
WriteRow(m, L, arch, trsh) ==
  /\ labels' = [labels EXCEPT ![m] = L]
  /\ archived' = [archived EXCEPT ![m] = arch]
  /\ trashed' = [trashed EXCEPT ![m] = trsh]
  /\ UNCHANGED rows

\* archivedFromLabels, and the same rule in flagsFromLabels.
ArchivedFrom(L) == L \cap {"INBOX", "TRASH"} = {}

-----------------------------------------------------------------------------
(* Gmail, and the sync that applies its history.                             *)

Record == [msg : Messages, add : BOOLEAN, label : Labels]

\* The history records of labels S that m gets or loses.
Changes(m, S, a) ==
  (IF "TRASH" \in S THEN <<[msg |-> m, add |-> a, label |-> "TRASH"]>> ELSE <<>>)
  \o (IF "INBOX" \in S THEN <<[msg |-> m, add |-> a, label |-> "INBOX"]>> ELSE <<>>)

\* Labels of m change at Gmail: one history record for each that does.
AtGmail(m, L) ==
  /\ gmail' = [gmail EXCEPT ![m] = L]
  /\ feed' = feed \o (Changes(m, L \ gmail[m], TRUE) \o Changes(m, gmail[m] \ L, FALSE))
  /\ UNCHANGED arrived

\* The sync's handler of a record: the row's labels, and the flags they imply.
SyncApply ==
  /\ feed # <<>>
  /\ feed' = Tail(feed)
  /\ LET h == Head(feed)
         L == IF h.add THEN labels[h.msg] \cup {h.label} ELSE labels[h.msg] \ {h.label}
     IN  IF h.msg \in rows
           THEN WriteRow(h.msg, L, ArchivedFrom(L), "TRASH" \in L)
           ELSE UNCHANGED rowVars
  /\ UNCHANGED <<gmail, arrived, remVars, procVars, history, bounds>>

\* A later message of the thread is synced, into the inbox unless it is the
\* owner's own.
Arrive(m) ==
  /\ m \notin arrived
  /\ \A n \in Messages : n < m => n \in arrived
  /\ rows' = rows \cup {m}
  /\ arrived' = arrived \cup {m}
  /\ labels' = [labels EXCEPT ![m] = IF m \in Own THEN {} ELSE {"INBOX"}]
  /\ gmail' = [gmail EXCEPT ![m] = labels'[m]]
  /\ archived' = [archived EXCEPT ![m] = m \in Own]
  /\ home' = IF m \in Own THEN home ELSE home \cup {m}
  /\ UNCHANGED <<trashed, feed, remVars, procVars, excused, crossed, doubled, used, faults>>

\* m is deleted at Gmail, and the sync drops its row; what the feed still holds
\* of m then finds none.
DeleteMessage(m) ==
  /\ m \in rows
  /\ rows' = rows \ {m}
  /\ labels' = [labels EXCEPT ![m] = {}]
  /\ archived' = [archived EXCEPT ![m] = FALSE]
  /\ trashed' = [trashed EXCEPT ![m] = FALSE]
  /\ gmail' = [gmail EXCEPT ![m] = {}]
  /\ home' = home \ {m}
  /\ UNCHANGED <<feed, arrived, remVars, procVars, excused, crossed, doubled, used, faults>>

\* What the sync has still to apply to m's place in the inbox.
Pending(m) == {i \in DOMAIN feed : feed[i].msg = m /\ feed[i].label = "INBOX"}

\* Whether m will be in the inbox once the sync has caught up.
Settled(m) ==
  \/ Pending(m) = {} /\ "INBOX" \in labels[m]
  \/ \E i \in Pending(m) : feed[i].add /\ \A j \in Pending(m) : j <= i

\* The messages that requests of these kinds have still to write or to call for.
InHand(ops) == UNION {todo[p] \cup calls[p] : p \in {q \in Procs : op[q] \in ops}}
BeingMoved   == InHand(Moves)
BeingSnoozed == InHand({"create"})

\* Rows that a restore is to write with the labels it read, no INBOX among them,
\* because they are to be unread.
BeingMarked == UNION {{m \in todo[p] \ calls[p] : "INBOX" \notin snap[p][m].labels}
                       : p \in {q \in Procs : op[q] \in {"cancel", "fire"}}}

\* The owner archives m at Gmail, or moves it to the inbox there. Beside a move
\* of the same message in the app the two orders need not agree, and a restore
\* that only marks the message unread writes the labels it had read.
MoveAtGmail(m, L) ==
  /\ m \in rows
  /\ gmail[m] # L /\ "TRASH" \notin gmail[m]
  /\ AtGmail(m, L)
  /\ home' = IF L = {} THEN home \ {m} ELSE home \cup {m}
  /\ excused' = excused \cup ({m} \cap (BeingMoved \cup BeingMarked))
  /\ UNCHANGED <<rowVars, remVars, procVars, crossed, doubled, used, faults>>

-----------------------------------------------------------------------------
(* Requests and the scheduler: the steps they share.                         *)

\* The rows are written, and the calls made, oldest message first.
NextRow(p, m) == IsOldest(m, todo[p]) /\ m \in rows
NextCall(p, m) == IsOldest(m, calls[p])

\* The oldest row to be written is gone: its update throws.
RowGone(p) == \E m \in todo[p] \ rows : IsOldest(m, todo[p])

\* A Gmail call for m, best effort: when it fails, nobody calls again. If it was
\* to put m in the inbox, a change still in the feed may undo the row.
GmailCall(p, m, L) ==
  /\ calls' = [calls EXCEPT ![p] = @ \ {m}]
  /\ \/ /\ AtGmail(m, L)
        /\ UNCHANGED <<excused, faults>>
     \/ /\ faults < MaxFaults
        /\ faults' = faults + 1
        /\ excused' = IF "INBOX" \in L THEN excused \cup {m} ELSE excused
        /\ UNCHANGED mailVars

\* updateMany where state is armed: whoever comes second changes nothing.
Resolve(r, s) ==
  /\ state' = IF state[r] = "armed" THEN [state EXCEPT ![r] = s] ELSE state
  /\ UNCHANGED <<kind, was, armedAt>>

-----------------------------------------------------------------------------
(* create.                                                                   *)

\* A create has cancelled the snooze that says where the thread was, and not yet
\* made the new one: a crash loses it, and another create does not see it.
BetweenSnoozes == \E p \in Callers : at[p] = "insert" /\ rem[p] = "snooze" /\ from[p]

\* Another create has looked and found the thread outside the inbox: it will
\* replace whatever snooze is made before it gets there.
Misled(p) == \E q \in Callers \ {p} : at[q] = "replace" /\ rem[q] = "snooze" /\ ~ from[q]

StartCreate(p, k) ==
  /\ op[p] = "idle" /\ rows # {}
  /\ op' = [op EXCEPT ![p] = "create"]
  /\ Goto(p, "prior")
  /\ rem' = [rem EXCEPT ![p] = k]
  /\ snap' = [snap EXCEPT ![p] = Read]
  /\ UNCHANGED <<rowVars, mailVars, remVars, from, todo, calls, queue, history, events, faults>>

\* Mutated: the labels alone say where the thread was, as they once did.
PriorFromLabels(p) ==
  /\ op[p] = "create" /\ at[p] = "prior"
  /\ from' = [from EXCEPT ![p] = \E m \in DOMAIN snap[p] : "INBOX" \in snap[p][m].labels]
  /\ excused' = IF rem[p] = "snooze" /\ BetweenSnoozes THEN excused \cup home \cup BeingSnoozed ELSE excused
  /\ Goto(p, "replace")
  /\ UNCHANGED <<rowVars, mailVars, remVars, op, rem, snap, todo, calls, queue, home, crossed, doubled, bounds>>

\* Was it in the inbox before any snooze touched it? Of two armed reminders it
\* finds one.
Prior(p) ==
  /\ op[p] = "create" /\ at[p] = "prior"
  /\ LET found == {was[r] : r \in Armed(rem[p])}
     IN  \E prior \in IF found = {} THEN {FALSE} ELSE found :
           /\ from' = [from EXCEPT ![p] = prior \/ \E m \in DOMAIN snap[p] : "INBOX" \in snap[p][m].labels]
           /\ excused' = IF rem[p] = "snooze" /\ (BetweenSnoozes \/ prior # (TRUE \in found))
                          THEN excused \cup home \cup BeingSnoozed ELSE excused
  /\ Goto(p, "replace")
  /\ UNCHANGED <<rowVars, mailVars, remVars, op, rem, snap, todo, calls, queue, home, crossed, doubled, bounds>>

\* Mutated: a new reminder stacks on the old one.
ReplaceNone(p) ==
  /\ op[p] = "create" /\ at[p] = "replace"
  /\ Goto(p, "insert")
  /\ UNCHANGED <<rowVars, mailVars, remVars, op, rem, snap, from, todo, calls, queue, history, bounds>>

\* Mutated: the update's filter is gone.
ReplaceEvery(p) ==
  /\ op[p] = "create" /\ at[p] = "replace"
  /\ state' = [r \in Reminders |-> "cancelled"]
  /\ Goto(p, "insert")
  /\ UNCHANGED <<rowVars, mailVars, kind, was, armedAt, op, rem, snap, from, todo, calls, queue, history, bounds>>

Replace(p) ==
  /\ op[p] = "create" /\ at[p] = "replace"
  /\ state' = [r \in Reminders |-> IF r \in Armed(rem[p]) THEN "cancelled" ELSE state[r]]
  /\ doubled' = doubled \ {rem[p]}
  /\ Goto(p, "insert")
  /\ UNCHANGED <<rowVars, mailVars, kind, was, armedAt, op, rem, snap, from, todo, calls, queue>>
  /\ UNCHANGED <<home, excused, crossed, bounds>>

\* The next id the database hands out.
NewReminder(r) == state[r] = "none" /\ r = CHOOSE x \in Reminders : state[x] = "none"

Insert(p, r) ==
  /\ op[p] = "create" /\ at[p] = "insert" /\ NewReminder(r)
  /\ LET targets == IF rem[p] = "follow_up" THEN {}
                    ELSE {m \in DOMAIN snap[p] : ~ snap[p][m].trashed /\ "INBOX" \in snap[p][m].labels}
     IN  /\ todo' = [todo EXCEPT ![p] = targets]
         /\ calls' = [calls EXCEPT ![p] = targets]
         /\ snap' = [snap EXCEPT ![p] = [m \in targets |-> @[m]]]
         /\ excused' = excused \cup (targets \cap BeingMoved)
              \cup (IF rem[p] = "snooze" /\ from[p] /\ Misled(p) THEN home \cup BeingSnoozed \cup targets ELSE {})
  /\ from' = [from EXCEPT ![p] = FALSE]
  /\ state' = [state EXCEPT ![r] = "armed"]
  /\ kind' = [kind EXCEPT ![r] = rem[p]]
  /\ was' = [was EXCEPT ![r] = from[p]]
  /\ armedAt' = [armedAt EXCEPT ![r] = Newest(DOMAIN snap[p])]
  /\ crossed' = {q \in Callers \ {p} : q \in crossed \/ (at[q] = "insert" /\ rem[q] = rem[p])}
  /\ doubled' = IF p \in crossed THEN doubled \cup {rem[p]} ELSE doubled
  /\ Goto(p, "write")
  /\ UNCHANGED <<rowVars, mailVars, op, rem, queue, home, bounds>>

\* removeFromInbox, over the labels create read. The update of a row that is
\* gone throws.
TakeOut(p, m) ==
  /\ op[p] = "create" /\ at[p] = "write" /\ NextRow(p, m)
  /\ LET L == snap[p][m].labels \ {"INBOX"}
     IN  WriteRow(m, L, ArchivedFrom(L), trashed[m])
  /\ todo' = [todo EXCEPT ![p] = @ \ {m}]
  /\ UNCHANGED <<mailVars, remVars, op, at, rem, snap, from, calls, queue, history, bounds>>

TakeOutAtGmail(p, m) ==
  /\ op[p] = "create" /\ at[p] = "write" /\ todo[p] = {} /\ NextCall(p, m)
  /\ GmailCall(p, m, gmail[m] \ {"INBOX"})
  /\ UNCHANGED <<rowVars, remVars, op, at, rem, snap, from, todo, queue, home, crossed, doubled, used, events>>

EndCreate(p) ==
  /\ op[p] = "create" /\ at[p] = "write" /\ todo[p] = {} /\ calls[p] = {}
  /\ Finish(p)
  /\ UNCHANGED <<rowVars, mailVars, remVars, history, bounds>>

-----------------------------------------------------------------------------
(* cancel and fire: restoreThread.                                           *)

StartCancel(p, r) ==
  /\ op[p] = "idle" /\ state[r] = "armed"
  /\ op' = [op EXCEPT ![p] = "cancel"]
  /\ Goto(p, "thread")
  /\ rem' = [rem EXCEPT ![p] = r]
  /\ from' = [from EXCEPT ![p] = was[r]]
  /\ UNCHANGED <<rowVars, mailVars, remVars, snap, todo, calls, queue, history, events, faults>>

\* fire reads the reminder again: somebody may have resolved it since the check
\* listed it.
StartFire(r) ==
  /\ op[Tick] = "check" /\ r \in queue
  /\ queue' = queue \ {r}
  /\ op' = [op EXCEPT ![Tick] = IF state[r] = "armed" THEN "fire" ELSE IF queue' = {} THEN "idle" ELSE "check"]
  /\ IF state[r] = "armed"
       THEN /\ Goto(Tick, "thread")
            /\ rem' = [rem EXCEPT ![Tick] = r]
            /\ from' = [from EXCEPT ![Tick] = was[r]]
       ELSE UNCHANGED <<at, rem, from>>
  /\ UNCHANGED <<rowVars, mailVars, remVars, snap, todo, calls, history, bounds>>

\* What restoreThread is to put back, of the rows as they were read.
Restored(p, S) == {m \in DOMAIN S : ~ S[m].trashed /\ from[p] /\ "INBOX" \notin S[m].labels}

\* Its newest message is to be unread: a row to write, if it was read.
Unread(S) ==
  LET live == {m \in DOMAIN S : ~ S[m].trashed}
  IN  {{}} \cup {{m} : m \in {x \in live : \A n \in live : n <= x}}

\* The thread's rows. A fire that finds it gone, all in the trash or, for a
\* follow-up, answered, cancels the reminder. Rows the sync or a request has yet
\* to write mislead it: one may look restored already, or in the trash, or be
\* marked unread with labels from before.
ReadThread(p) ==
  /\ op[p] \in {"cancel", "fire"} /\ at[p] = "thread"
  /\ snap' = [snap EXCEPT ![p] = Read]
  /\ LET settled == /\ op[p] = "fire"
                    /\ \/ \A m \in rows : trashed[m]
                       \/ kind[rem[p]] = "follow_up" /\ HasReply(rem[p])
         idle == settled \/ kind[rem[p]] = "follow_up"
         back == IF idle THEN {} ELSE Restored(p, Read)
     IN  \E unread \in IF idle THEN {{}} ELSE Unread(Read) :
           /\ todo' = [todo EXCEPT ![p] = back \cup unread]
           /\ calls' = [calls EXCEPT ![p] = back]
           /\ Goto(p, IF settled THEN "drop" ELSE "write")
           /\ excused' = excused \cup ((unread \ back) \cap (BeingMoved \cup {m \in home : "INBOX" \notin labels[m]}))
                \cup (IF rem[p] \in Armed("snooze") /\ from[p]
                       THEN BeingSnoozed \cup {m \in home : trashed[m] \/ ("INBOX" \in labels[m] /\ ~ Settled(m))}
                       ELSE {})
  /\ UNCHANGED <<rowVars, mailVars, remVars, op, rem, from, queue, home, crossed, doubled, bounds>>

PutBack(p, m) ==
  /\ op[p] \in {"cancel", "fire"} /\ at[p] = "write" /\ NextRow(p, m)
  /\ LET L == snap[p][m].labels \cup (IF m \in calls[p] THEN {"INBOX"} ELSE {})
     IN  WriteRow(m, L, ArchivedFrom(L), trashed[m])
  /\ todo' = [todo EXCEPT ![p] = @ \ {m}]
  /\ UNCHANGED <<mailVars, remVars, op, at, rem, snap, from, calls, queue, history, bounds>>

PutBackAtGmail(p, m) ==
  /\ op[p] \in {"cancel", "fire"} /\ at[p] = "write" /\ todo[p] = {} /\ NextCall(p, m)
  /\ GmailCall(p, m, gmail[m] \cup {"INBOX"})
  /\ UNCHANGED <<rowVars, remVars, op, at, rem, snap, from, todo, queue, home, crossed, doubled, used, events>>

\* The claim: whoever comes second resolves nothing.
ResolveStep(p) ==
  /\ op[p] \in {"cancel", "fire"} /\ at[p] \in {"write", "drop"}
  /\ todo[p] = {} /\ calls[p] = {}
  /\ Resolve(rem[p], IF op[p] = "fire" /\ at[p] = "write" THEN "fired" ELSE "cancelled")
  /\ Finish(p)
  /\ UNCHANGED <<rowVars, mailVars, history, bounds>>

-----------------------------------------------------------------------------
(* The scheduler's check: the follow-ups that were answered, then what is due. *)
(* Each pass takes only so many, so that one may be left to the next check;    *)
(* which reminders are due is the clock's choice.                              *)

\* cancelRepliedFollowUps, for one reminder.
ClearReplied(r) ==
  /\ op[Tick] = "idle"
  /\ r \in Armed("follow_up") /\ HasReply(r)
  /\ Resolve(r, "cancelled")
  /\ UNCHANGED <<rowVars, mailVars, procVars, history, bounds>>

\* processDue lists what it is going to fire.
ListDue(S) ==
  /\ op[Tick] = "idle"
  /\ S # {} /\ \A r \in S : state[r] = "armed"
  /\ queue' = S
  /\ op' = [op EXCEPT ![Tick] = "check"]
  /\ UNCHANGED <<rowVars, mailVars, remVars, at, rem, snap, from, todo, calls, history, bounds>>

-----------------------------------------------------------------------------
(* The owner's moves: archive, unarchive, trash and untrash of a message, and *)
(* batchArchive and batchTrash of the thread. Gmail first, then the rows.     *)

StartMove(p, o, S) ==
  /\ op[p] = "idle" /\ S # {}
  /\ o \in {"unarchive", "untrash"} => Cardinality(S) = 1
  /\ \A m \in S : trashed[m] <=> o = "untrash"
  /\ o = "unarchive" => \A m \in S : archived[m]
  /\ op' = [op EXCEPT ![p] = o]
  /\ Goto(p, "calls")
  /\ snap' = [snap EXCEPT ![p] = [m \in S |-> Read[m]]]
  /\ todo' = [todo EXCEPT ![p] = S]
  /\ calls' = [calls EXCEPT ![p] = S]
  /\ home' = IF o \in {"archive", "trash"} THEN home \ S ELSE home
  /\ excused' = excused \cup (S \cap (BeingMoved \cup BeingSnoozed \cup BeingMarked))
  /\ UNCHANGED <<rowVars, mailVars, remVars, rem, from, queue, crossed, doubled, events, faults>>

MoveCall(p, m) ==
  /\ op[p] \in Moves /\ NextCall(p, m)
  /\ GmailCall(p, m, CASE op[p] = "archive"   -> gmail[m] \ {"INBOX"}
                      [] op[p] = "unarchive" -> gmail[m] \cup {"INBOX"}
                      [] op[p] = "trash"     -> (gmail[m] \ {"INBOX"}) \cup {"TRASH"}
                      [] op[p] = "untrash"   -> gmail[m] \ {"TRASH"})
  /\ UNCHANGED <<rowVars, remVars, op, at, rem, snap, from, todo, queue, home, crossed, doubled, used, events>>

\* The labels a move writes, over those it read.
Moved(p, m) ==
  LET was0 == snap[p][m]
      L == was0.labels
  IN  CASE op[p] = "archive"   -> L \ {"INBOX"}
        [] op[p] = "unarchive" -> L \cup {"INBOX"}
        [] op[p] = "trash"     -> (L \ {"INBOX"}) \cup {"TRASH"}
        [] op[p] = "untrash"   -> IF was0.archived \/ "INBOX" \in L THEN L \ {"TRASH"}
                                  ELSE (L \ {"TRASH"}) \cup {"INBOX"}

\* untrash puts INBOX on the row only, over the labels it read: a change the sync
\* has still to apply, or has applied since, is at odds with it.
MoveWrite(p, m) ==
  /\ op[p] \in Moves /\ calls[p] = {} /\ NextRow(p, m)
  /\ WriteRow(m, Moved(p, m),
       CASE op[p] = "archive" -> TRUE [] op[p] = "unarchive" -> FALSE [] OTHER -> archived[m],
       CASE op[p] = "trash" -> TRUE [] op[p] = "untrash" -> FALSE [] OTHER -> trashed[m])
  /\ home' = IF "INBOX" \in Moved(p, m) /\ ~ trashed'[m] THEN home \cup {m} ELSE home
  /\ excused' = IF op[p] = "untrash" /\ (Pending(m) # {} \/ labels[m] # snap[p][m].labels)
                 THEN excused \cup {m} ELSE excused
  /\ todo' = [todo EXCEPT ![p] = @ \ {m}]
  /\ UNCHANGED <<mailVars, remVars, op, at, rem, snap, from, calls, queue, crossed, doubled, bounds>>

\* A move ends when all is written, or at a row that is gone.
EndMove(p) ==
  /\ op[p] \in Moves /\ calls[p] = {}
  /\ todo[p] = {} \/ RowGone(p)
  /\ Finish(p)
  /\ UNCHANGED <<rowVars, mailVars, remVars, history, bounds>>

\* The update of a row that is gone throws: what is left is not done, and a
\* reminder stays armed.
Throw(p) ==
  /\ op[p] \in {"create", "cancel", "fire"} /\ at[p] = "write" /\ RowGone(p)
  /\ Finish(p)
  /\ UNCHANGED <<rowVars, mailVars, remVars, history, bounds>>

\* The process stops. Gmail calls it had still to make are never made.
Crash ==
  /\ faults < MaxFaults
  /\ faults' = faults + 1
  /\ \E p \in Procs : op[p] # "idle"
  /\ excused' = IF BetweenSnoozes THEN excused \cup home ELSE excused
  /\ op' = [p \in Procs |-> "idle"]
  /\ at' = [p \in Procs |-> None]
  /\ rem' = [p \in Procs |-> None]
  /\ snap' = [p \in Procs |-> NoRows]
  /\ from' = [p \in Procs |-> FALSE]
  /\ todo' = [p \in Procs |-> {}]
  /\ calls' = [p \in Procs |-> {}]
  /\ queue' = {}
  /\ crossed' = {}
  /\ UNCHANGED <<rowVars, mailVars, remVars, home, doubled, used, events>>

\* A request begins: of the owner's moves, one of a message or of all the thread.
Request(p) ==
  /\ used < MaxCalls
  /\ used' = used + 1
  /\ \/ \E k \in Kinds : StartCreate(p, k)
     \/ \E r \in Reminders : StartCancel(p, r)
     \/ \E o \in Moves, S \in {{m} : m \in rows} \cup {rows} : StartMove(p, o, S)

Step(p) ==
  \/ Prior(p) \/ Replace(p) \/ EndCreate(p)
  \/ ReadThread(p) \/ ResolveStep(p) \/ EndMove(p) \/ Throw(p)
  \/ \E r \in Reminders : Insert(p, r)
  \/ \E m \in Messages : \/ TakeOut(p, m) \/ TakeOutAtGmail(p, m)
                          \/ PutBack(p, m) \/ PutBackAtGmail(p, m)
                          \/ MoveCall(p, m) \/ MoveWrite(p, m)

Check ==
  \/ \E r \in Reminders : ClearReplied(r) \/ StartFire(r)
  \/ \E S \in SUBSET Reminders : ListDue(S)

\* What happens at Gmail.
Event ==
  /\ events < MaxEvents
  /\ events' = events + 1
  /\ \E m \in Messages : \/ Arrive(m) \/ DeleteMessage(m)
                         \/ \E L \in {{}, {"INBOX"}} : MoveAtGmail(m, L)

Next ==
  \/ \E p \in Callers : Request(p)
  \/ \E p \in Procs : Step(p)
  \/ Check \/ SyncApply \/ Event \/ Crash

Spec == Init /\ [][Next]_vars

-----------------------------------------------------------------------------
TypeOK ==
  /\ rows \subseteq arrived /\ arrived \subseteq Messages
  /\ labels \in [Messages -> SUBSET Labels] /\ gmail \in [Messages -> SUBSET Labels]
  /\ archived \in [Messages -> BOOLEAN] /\ trashed \in [Messages -> BOOLEAN]
  /\ feed \in Seq(Record)
  /\ state \in [Reminders -> {"none", "armed", "fired", "cancelled"}]
  /\ kind \in [Reminders -> Kinds \cup {None}]
  /\ \A r \in Reminders : state[r] = "none" <=> kind[r] = None
  /\ was \in [Reminders -> BOOLEAN] /\ from \in [Procs -> BOOLEAN]
  /\ home \subseteq rows
  /\ op \in [Procs -> {"idle", "check", "create", "cancel", "fire"} \cup Moves]
  /\ at \in [Procs -> Steps \cup {None}]
  /\ rem \in [Procs -> Kinds \cup Reminders \cup {None}]
  /\ \A p \in Procs : /\ \A m \in DOMAIN snap[p] : m \in arrived /\ snap[p][m] \in Row
                       /\ todo[p] \subseteq DOMAIN snap[p] /\ calls[p] \subseteq DOMAIN snap[p]
                       /\ op[p] = "idle" => rem[p] = None

\* Mail the owner has in the inbox is in the inbox once nothing is under way and
\* the sync has caught up, or a snooze is armed that brings it back: whatever is
\* snoozed again, brought back early, moved or trashed meanwhile. Excused are
\* messages of a failed Gmail call, of overlapping moves, of a restore beside a
\* create or behind the sync, of creates one of which has looked before the
\* other made its snooze, and of a crash inside a re-snooze.
NothingLost ==
  (\A p \in Procs : op[p] \in {"idle", "check"}) =>
    \A m \in (home \cap rows) \ excused :
      Settled(m) \/ \E r \in Armed("snooze") : was[r]

\* A thread has at most one armed reminder of a kind, however creates of the kind,
\* cancels, fires and the scheduler overlap. Two stay armed only when a create inserts
\* its own after another has inserted between that create's two statements, and only
\* until the next create of the kind replaces them both.
OneArmed == \A k \in Kinds \ doubled : \A r, s \in Armed(k) : r = s
=============================================================================
