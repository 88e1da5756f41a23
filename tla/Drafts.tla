------------------------------- MODULE Drafts -------------------------------
(***************************************************************************)
(* services/draftService.ts: one account's drafts at Gmail, their mirror in  *)
(* the email_drafts table, the syncs that reconcile the two and the owner's  *)
(* requests. A step is one query, one Gmail call, or what happens between    *)
(* two. A draft's text is its Gmail message id, which every edit replaces;   *)
(* of its headers only those that thread a reply are kept.                   *)
(***************************************************************************)
EXTENDS Naturals, FiniteSets

CONSTANTS
  Ids,        \* bound: drafts Gmail ever holds
  Syncs,      \* bound: syncs in progress at once, scheduled or asked for
  Callers,    \* bound: requests in progress at once
  MaxEdits,   \* bound: texts a draft ever has
  MaxCalls,   \* bound: requests
  MaxEvents,  \* bound: changes in Gmail itself, of drafts and of mail
  MaxFaults,  \* bound: lost answers, failed calls and restarts
  None

ASSUME SyncsAreNotCallers == Syncs \cap Callers = {}
ASSUME BoundAssumption ==
  MaxEdits \in Nat \ {0} /\ MaxCalls \in Nat /\ MaxEvents \in Nat /\ MaxFaults \in Nat

Procs == Syncs \cup Callers

\* A draft at Gmail, and a row of the mirror.
Draft == [text : 1 .. MaxEdits, reply : BOOLEAN]

ASSUME NoneIsNoDraft == None \notin Ids \cup Draft \cup {"open", "save", "send", "remove"}

VARIABLES
  gmail,    \* the drafts at Gmail: text and whether it has reply headers, or None
  edits,    \* texts each draft has had
  rows,     \* the mirror: text and whether replyToEmailId is set, or None
  sent,     \* drafts sent, with whether the message had reply headers
  at, op,   \* the next step of each process, and a caller's operation
  draft,    \* the draft it is about; None for one to be created
  reply,    \* the reply it found the draft to be, or was told
  text,     \* the text it wrote or fetched
  todo, seen,  \* drafts, with their texts, a sync has still to look at, and listed
  touched,  \* rows written since a sync started: those with updatedAt >= startedAt
  isReply,  \* history: drafts begun as replies in the app
  orphans,  \* those whose replyToEmailId names mail that is gone
  excused,  \* history: drafts that a named fault has kept from being a reply
  used, events, faults

data     == <<gmail, edits, rows, sent>>
procVars == <<at, op, draft, reply, text, todo, seen>>
bounds   == <<used, events, faults>>
vars == <<data, procVars, touched, isReply, orphans, excused, bounds>>

\* No drafts, and nothing under way.
Init ==
  /\ gmail = [d \in Ids |-> None]
  /\ edits = [d \in Ids |-> 0]
  /\ rows = [d \in Ids |-> None]
  /\ sent = {}
  /\ at = [p \in Procs |-> "idle"]
  /\ op = [p \in Callers |-> None]
  /\ draft = [p \in Procs |-> None]
  /\ reply = [p \in Procs |-> FALSE]
  /\ text = [p \in Procs |-> 0]
  /\ todo = [s \in Syncs |-> {}]
  /\ seen = [s \in Syncs |-> {}]
  /\ touched = [s \in Syncs |-> {}]
  /\ isReply = {} /\ orphans = {} /\ excused = {}
  /\ used = 0 /\ events = 0 /\ faults = 0

Goto(p, step) == at' = [at EXCEPT ![p] = step]

\* A draft's new text at Gmail.
WriteAtGmail(d, r) ==
  /\ edits[d] < MaxEdits
  /\ edits' = [edits EXCEPT ![d] = @ + 1]
  /\ gmail' = [gmail EXCEPT ![d] = [text |-> edits[d] + 1, reply |-> r]]

\* Mutated: replyToEmailId is written whether or not the caller supplies one.
MirrorAll(d, t, r) ==
  /\ rows' = [rows EXCEPT ![d] = [text |-> t, reply |-> r]]
  /\ touched' = [s \in Syncs |-> touched[s] \cup {d}]

\* upsertMirror. Only a caller that supplies replyToEmailId writes it.
Mirror(d, t, r) ==
  /\ rows' = [rows EXCEPT ![d] = [text |-> t, reply |-> r \/ (rows[d] # None /\ rows[d].reply)]]
  /\ touched' = [s \in Syncs |-> touched[s] \cup {d}]

\* A process has nothing left to do.
Done(p) ==
  /\ Goto(p, "idle")
  /\ op' = [q \in Callers |-> IF q = p THEN None ELSE op[q]]
  /\ draft' = [draft EXCEPT ![p] = None]
  /\ reply' = [reply EXCEPT ![p] = FALSE]
  /\ text' = [text EXCEPT ![p] = 0]
  /\ UNCHANGED <<todo, seen>>

-----------------------------------------------------------------------------
(* syncDrafts.                                                               *)

StartSync(s) ==
  /\ at[s] = "idle"
  /\ Goto(s, "list")
  /\ touched' = [touched EXCEPT ![s] = {}]
  /\ UNCHANGED <<data, op, draft, reply, text, todo, seen, isReply, orphans, excused, bounds>>

\* The list carries each draft's current message id.
List(s) ==
  /\ at[s] = "list"
  /\ seen' = [seen EXCEPT ![s] = {d \in Ids : gmail[d] # None}]
  /\ todo' = [todo EXCEPT ![s] = {[id |-> d, text |-> gmail[d].text] : d \in {e \in Ids : gmail[e] # None}}]
  /\ Goto(s, "drafts")
  /\ UNCHANGED <<data, op, draft, reply, text, touched, isReply, orphans, excused, bounds>>

Fetch(s, d) ==
  /\ draft' = [draft EXCEPT ![s] = d]
  /\ text' = [text EXCEPT ![s] = gmail[d].text]
  /\ Goto(s, "mirror")

\* Mutated: a draft that has a row is not fetched again.
NextDraftKnown(s, x) ==
  /\ at[s] = "drafts" /\ x \in todo[s]
  /\ todo' = [todo EXCEPT ![s] = @ \ {x}]
  /\ IF rows[x.id] # None \/ gmail[x.id] = None
       THEN UNCHANGED <<at, draft, text>>
       ELSE Fetch(s, x.id)
  /\ UNCHANGED <<data, op, reply, seen, touched, isReply, orphans, excused, bounds>>

\* Mutated: a draft that is gone is mirrored as an empty one.
NextDraftGone(s, x) ==
  /\ at[s] = "drafts" /\ x \in todo[s]
  /\ todo' = [todo EXCEPT ![s] = @ \ {x}]
  /\ draft' = [draft EXCEPT ![s] = x.id]
  /\ text' = [text EXCEPT ![s] = IF gmail[x.id] = None THEN 0 ELSE gmail[x.id].text]
  /\ Goto(s, "mirror")
  /\ UNCHANGED <<data, op, reply, seen, touched, isReply, orphans, excused, bounds>>

\* A draft whose message id the mirror has is unchanged, and one that is gone by
\* now is left to the next sync; any other is fetched.
NextDraft(s, x) ==
  /\ at[s] = "drafts" /\ x \in todo[s]
  /\ todo' = [todo EXCEPT ![s] = @ \ {x}]
  /\ IF (rows[x.id] # None /\ rows[x.id].text = x.text) \/ gmail[x.id] = None
       THEN UNCHANGED <<at, draft, text>>
       ELSE Fetch(s, x.id)
  /\ UNCHANGED <<data, op, reply, seen, touched, isReply, orphans, excused, bounds>>

MirrorFetched(s) ==
  /\ at[s] = "mirror" /\ s \in Syncs
  /\ Mirror(draft[s], text[s], FALSE)
  /\ Goto(s, "drafts")
  /\ draft' = [draft EXCEPT ![s] = None]
  /\ text' = [text EXCEPT ![s] = 0]
  /\ UNCHANGED <<gmail, edits, sent, op, reply, todo, seen, isReply, orphans, excused, bounds>>

EndSync(s) ==
  /\ Goto(s, "idle")
  /\ seen' = [seen EXCEPT ![s] = {}]
  /\ touched' = [touched EXCEPT ![s] = {}]
  /\ UNCHANGED <<gmail, edits, sent, op, draft, reply, text, todo, isReply, orphans, excused, bounds>>

\* Mutated: every row the list did not name goes.
PruneAll(s) ==
  /\ at[s] = "drafts" /\ todo[s] = {}
  /\ rows' = [d \in Ids |-> IF d \in seen[s] THEN rows[d] ELSE None]
  /\ EndSync(s)

\* The rows of drafts the list did not name go, but for those written meanwhile.
Prune(s) ==
  /\ at[s] = "drafts" /\ todo[s] = {}
  /\ rows' = [d \in Ids |-> IF d \in seen[s] \cup touched[s] THEN rows[d] ELSE None]
  /\ EndSync(s)

-----------------------------------------------------------------------------
(* Requests.                                                                 *)

\* A reply that was created is saved while its row is still to be written.
Unrecorded(d) == \E q \in Callers : op[q] = "save" /\ draft[q] = d /\ at[q] = "mirror"

\* A request about d reads its row. A save or a send comes with the id of the
\* message replied to while its compose window has been open since, falls back to
\* the row's, and takes the headers from the message: one that is gone gives none.
Request(p, o, d, told) ==
  LET linked == o \in {"save", "send"} /\ (told \/ rows[d].reply)
  IN  /\ at[p] = "idle" /\ used < MaxCalls
      /\ rows[d] # None
      /\ told => d \in isReply /\ o \in {"save", "send"}
      /\ used' = used + 1
      /\ op' = [op EXCEPT ![p] = o]
      /\ draft' = [draft EXCEPT ![p] = d]
      /\ reply' = [reply EXCEPT ![p] = linked /\ d \notin orphans]
      /\ Goto(p, "gmail")
      /\ excused' = IF Unrecorded(d) \/ (linked /\ d \in orphans) THEN excused \cup {d} ELSE excused
      /\ UNCHANGED <<data, text, todo, seen, touched, isReply, orphans, events, faults>>

\* save of a new draft: a reply to mail that is there, or not.
RequestNew(p, r) ==
  /\ at[p] = "idle" /\ used < MaxCalls
  /\ used' = used + 1
  /\ op' = [op EXCEPT ![p] = "save"]
  /\ reply' = [reply EXCEPT ![p] = r]
  /\ Goto(p, "gmail")
  /\ UNCHANGED <<data, draft, text, todo, seen, touched, isReply, orphans, excused, events, faults>>

\* drafts.create or drafts.update; the update of a draft that is gone throws. When
\* the answer is lost the request fails, and nobody stores the reply of a new one.
SaveAtGmail(p, d) ==
  /\ op[p] = "save" /\ at[p] = "gmail"
  /\ IF draft[p] = None THEN edits[d] = 0 ELSE d = draft[p]
  /\ IF draft[p] # None /\ gmail[d] = None
       THEN Done(p) /\ UNCHANGED <<gmail, edits, isReply, excused, faults>>
       ELSE /\ WriteAtGmail(d, reply[p])
            /\ isReply' = IF draft[p] = None /\ reply[p] THEN isReply \cup {d} ELSE isReply
            /\ \/ /\ Goto(p, "mirror")
                  /\ draft' = [draft EXCEPT ![p] = d]
                  /\ text' = [text EXCEPT ![p] = edits'[d]]
                  /\ UNCHANGED <<op, reply, todo, seen, excused, faults>>
               \/ /\ faults < MaxFaults /\ faults' = faults + 1
                  /\ excused' = excused \cup {d}
                  /\ Done(p)
  /\ UNCHANGED <<rows, sent, touched, orphans, used, events>>

\* open gets the draft, or serves the row when it is gone.
OpenAtGmail(p) ==
  /\ op[p] = "open" /\ at[p] = "gmail"
  /\ IF gmail[draft[p]] = None
       THEN Done(p)
       ELSE /\ text' = [text EXCEPT ![p] = gmail[draft[p]].text]
            /\ Goto(p, "mirror")
            /\ UNCHANGED <<op, draft, reply, todo, seen>>
  /\ UNCHANGED <<data, touched, isReply, orphans, excused, bounds>>

\* save and open write the row.
MirrorOwn(p) ==
  /\ op[p] \in {"save", "open"} /\ at[p] = "mirror"
  /\ Mirror(draft[p], text[p], reply[p])
  /\ Done(p)
  /\ UNCHANGED <<gmail, edits, sent, isReply, orphans, excused, bounds>>

\* send updates the draft first ...
SendText(p) ==
  /\ op[p] = "send" /\ at[p] = "gmail"
  /\ IF gmail[draft[p]] = None
       THEN Done(p) /\ UNCHANGED <<gmail, edits>>
       ELSE /\ WriteAtGmail(draft[p], reply[p])
            /\ Goto(p, "send")
            /\ UNCHANGED <<op, draft, reply, text, todo, seen>>
  /\ UNCHANGED <<rows, sent, touched, isReply, orphans, excused, bounds>>

\* ... and drafts.send consumes it. When the answer is lost the row stays.
Send(p) ==
  /\ op[p] = "send" /\ at[p] = "send"
  /\ IF gmail[draft[p]] = None
       THEN Done(p) /\ UNCHANGED <<gmail, sent, faults>>
       ELSE /\ sent' = sent \cup {[id |-> draft[p], reply |-> gmail[draft[p]].reply]}
            /\ gmail' = [gmail EXCEPT ![draft[p]] = None]
            /\ \/ Goto(p, "row") /\ UNCHANGED <<op, draft, reply, text, todo, seen, faults>>
               \/ faults < MaxFaults /\ faults' = faults + 1 /\ Done(p)
  /\ UNCHANGED <<edits, rows, touched, isReply, orphans, excused, used, events>>

\* remove deletes the draft, best effort: one that Gmail keeps returns with the
\* next sync, no longer known to be a reply.
RemoveAtGmail(p) ==
  /\ op[p] = "remove" /\ at[p] = "gmail"
  /\ \/ gmail' = [gmail EXCEPT ![draft[p]] = None] /\ UNCHANGED <<excused, faults>>
     \/ /\ faults < MaxFaults /\ faults' = faults + 1
        /\ excused' = excused \cup {draft[p]}
        /\ UNCHANGED gmail
  /\ Goto(p, "row")
  /\ UNCHANGED <<edits, rows, sent, op, draft, reply, text, todo, seen, touched, isReply, orphans, used, events>>

\* The row goes after its draft.
DeleteRow(p) ==
  /\ at[p] = "row"
  /\ rows' = [rows EXCEPT ![draft[p]] = None]
  /\ Done(p)
  /\ UNCHANGED <<gmail, edits, sent, touched, isReply, orphans, excused, bounds>>

\* Outside: drafts written, edited and deleted in Gmail itself.
InGmail(d) ==
  /\ events < MaxEvents
  /\ events' = events + 1
  /\ \/ edits[d] = 0 /\ WriteAtGmail(d, FALSE)
     \/ gmail[d] # None /\ WriteAtGmail(d, gmail[d].reply)
     \/ gmail[d] # None /\ gmail' = [gmail EXCEPT ![d] = None] /\ UNCHANGED edits
  /\ UNCHANGED <<rows, sent, procVars, touched, isReply, orphans, excused, used, faults>>

\* Outside: the message d replies to is deleted, and a mail sync drops its row. The
\* draft's replyToEmailId outlives it, and no later row gets that id.
OriginalGone(d) ==
  /\ events < MaxEvents
  /\ d \in isReply \ orphans
  /\ events' = events + 1
  /\ orphans' = orphans \cup {d}
  /\ UNCHANGED <<data, procVars, touched, isReply, excused, used, faults>>

\* The process stops: a save between its two writes leaves a draft whose row does
\* not know what it replies to.
Crash ==
  /\ faults < MaxFaults
  /\ \E p \in Procs : at[p] # "idle"
  /\ faults' = faults + 1
  /\ excused' = excused \cup {d \in Ids : Unrecorded(d)}
  /\ at' = [p \in Procs |-> "idle"]
  /\ op' = [p \in Callers |-> None]
  /\ draft' = [p \in Procs |-> None]
  /\ reply' = [p \in Procs |-> FALSE]
  /\ text' = [p \in Procs |-> 0]
  /\ todo' = [s \in Syncs |-> {}]
  /\ seen' = [s \in Syncs |-> {}]
  /\ touched' = [s \in Syncs |-> {}]
  /\ UNCHANGED <<data, isReply, orphans, used, events>>

SyncStep(s) ==
  \/ StartSync(s) \/ List(s) \/ MirrorFetched(s) \/ Prune(s)
  \/ \E x \in todo[s] : NextDraft(s, x)

CallerStep(p) ==
  \/ OpenAtGmail(p) \/ MirrorOwn(p) \/ SendText(p) \/ Send(p) \/ RemoveAtGmail(p) \/ DeleteRow(p)
  \/ \E d \in Ids : SaveAtGmail(p, d)

Next ==
  \/ \E s \in Syncs : SyncStep(s)
  \/ \E p \in Callers :
       \/ CallerStep(p)
       \/ \E r \in BOOLEAN : RequestNew(p, r)
       \/ \E o \in {"open", "save", "send", "remove"}, d \in Ids, told \in BOOLEAN : Request(p, o, d, told)
  \/ \E d \in Ids : InGmail(d) \/ OriginalGone(d)
  \/ Crash

Spec == Init /\ [][Next]_vars

\* The sync runs again and again, and no query or Gmail call hangs for ever.
FairSpec ==
  /\ Spec
  /\ \A s \in Syncs : WF_vars(SyncStep(s))
  /\ \A p \in Callers : WF_vars(CallerStep(p))

-----------------------------------------------------------------------------
TypeOK ==
  /\ gmail \in [Ids -> Draft \cup {None}] /\ rows \in [Ids -> Draft \cup {None}]
  /\ edits \in [Ids -> 0 .. MaxEdits]
  /\ sent \subseteq [id : Ids, reply : BOOLEAN]
  /\ orphans \subseteq isReply
  /\ op \in [Callers -> {"open", "save", "send", "remove", None}]
  /\ draft \in [Procs -> Ids \cup {None}]
  /\ reply \in [Procs -> BOOLEAN] /\ text \in [Procs -> 0 .. MaxEdits]
  /\ \A s \in Syncs : todo[s] \subseteq [id : seen[s], text : 1 .. MaxEdits]
  /\ \A d \in Ids : rows[d] # None => rows[d].text <= edits[d]

\* A sync never removes the row of a draft that Gmail has: not of one that was
\* written in the app after the sync's list, and whose compose window is open.
RemovesOnlyGone ==
  [][\A d \in Ids : (\E s \in Syncs : Prune(s)) /\ rows[d] # None /\ rows'[d] = None => gmail[d] = None]_vars

\* A reply that is sent from the app threads at its recipients, whoever edited,
\* mirrored or reopened its draft meanwhile. Excused are drafts whose save lost its
\* answer or was cut before the row, that were opened in that gap, whose removal
\* Gmail refused, or that were saved or sent when the message replied to was gone:
\* resolveThreading then gives no headers.
ReplyKept == \A x \in sent : x.id \in isReply \ excused => x.reply

\* The mirror comes to agree with Gmail, whatever syncs and requests overlapped.
MirrorConverges ==
  <>[](\A d \in Ids : IF gmail[d] = None THEN rows[d] = None
                      ELSE rows[d] # None /\ rows[d].text = gmail[d].text)
=============================================================================
