---------------------------- MODULE CalendarPush ----------------------------
(***************************************************************************)
(* One account's calendar: the local calendar_events rows, the events at   *)
(* Google, the owner's requests that write locally and push out, and the   *)
(* scheduled run that first retries what is pending and then pulls         *)
(* (services/calendarService.ts, jobs/calendarPendingPush.ts). The guard   *)
(* of PerUserRunner admits one such run at a time; requests interleave     *)
(* with it, and with one another, at every await.                          *)
(*                                                                         *)
(* A content is a title, which a push reads from the row when it starts,   *)
(* and guests, which stand for every field a push is handed by its caller. *)
(* Each edit has a version of its own, so contents are pairs of versions.  *)
(***************************************************************************)
EXTENDS Naturals

CONSTANTS
  Rows,          \* ids of calendar_events rows
  Events,        \* ids Google gives to events
  Savers,        \* requests of the owner in progress at once
  Sweeper,       \* the scheduled run, when it pushes
  MaxVersion,    \* bound: edits of a behaviour, here and at Google
  MaxFaults,     \* bound: refusals, lost answers, failed syncs and crashes
  Overlap,       \* may an event be edited while a push of it is under way or due?
  Expiry,        \* may Google expire a sync token (410)?
  None           \* no row, no event

ASSUME VersionAssumption == MaxVersion \in Nat
ASSUME FaultsAssumption  == MaxFaults \in Nat
ASSUME ModesAssumption   == Overlap \in BOOLEAN /\ Expiry \in BOOLEAN
ASSUME NamesAssumption   == None \notin Rows \cup Events /\ Sweeper \notin Savers

VARIABLES
  rows,      \* ids of the rows that exist
  local,     \* content of each row
  gid,       \* googleEventId
  pending,   \* rows with pendingSince set
  young,     \* ... less than MIN_AGE_MS ago
  old,       \* ... more than MAX_AGE_MS ago
  live,      \* events at Google
  dead,      \* events Google once had
  copy,      \* content of each event
  token,     \* calendarSyncToken: "held" or "none"
  since,     \* events changed since the stored token
  fresh,     \* events changed since the token this run will store
  pc, at, act, extras, target, body,  \* locals of pushToGoogle and its caller
  phase,     \* where the scheduled run is
  queue,     \* pending rows the sweep has read and not yet reached
  snapshot,  \* what it read: guests and googleEventId
  page,      \* events of the listing not yet applied
  listed,    \* ... those listed as present
  listing,   \* ... and their contents
  seen,      \* ids of a full listing
  owed,      \* history: version of the owner's save Google has not had, or 0
  version, faults

rowVars    == <<rows, local, gid, pending, young, old>>
googleVars == <<live, dead, copy, since, fresh>>
pushVars   == <<pc, at, act, extras, target, body>>
sweepVars  == <<queue, snapshot>>
syncVars   == <<page, listed, listing, seen>>
vars == <<rowVars, googleVars, token, pushVars, phase, sweepVars, syncVars,
          owed, version, faults>>

Pushers == Savers \cup {Sweeper}
Content == [title : 0 .. MaxVersion, guests : 0 .. MaxVersion]
Both(v) == [title |-> v, guests |-> v]

Init ==
  /\ rows = {} /\ gid = [r \in Rows |-> None]
  /\ local = [r \in Rows |-> Both(0)]
  /\ pending = {} /\ young = {} /\ old = {}
  /\ live = {} /\ dead = {} /\ copy = [g \in Events |-> Both(0)]
  /\ token = "held" /\ since = {} /\ fresh = {}
  /\ pc = [q \in Pushers |-> "idle"]
  /\ at = [q \in Pushers |-> None]
  /\ act = [q \in Pushers |-> "update"]
  /\ extras = [q \in Pushers |-> 0]
  /\ target = [q \in Pushers |-> None]
  /\ body = [q \in Pushers |-> Both(0)]
  /\ phase = "idle"
  /\ queue = {} /\ snapshot = [r \in Rows |-> [guests |-> 0, gid |-> None]]
  /\ page = {} /\ listed = {} /\ listing = [g \in Events |-> Both(0)]
  /\ seen = {}
  /\ owed = [r \in Rows |-> 0]
  /\ version = 0 /\ faults = 0

-----------------------------------------------------------------------------
\* Somebody has row r in hand: a push at it, or the sweep's list.
Busy(r) == r \in queue \/ \E q \in Pushers : pc[q] # "idle" /\ at[q] = r

\* The next id the database hands out (none whose row somebody still has in
\* hand), and the next one Google does.
Unborn(r)   == r \notin rows /\ ~Busy(r)
NewRow(r)   == Unborn(r) /\ r = CHOOSE x \in Rows : Unborn(x)
NewEvent(g) == /\ g \notin live \cup dead
               /\ g = CHOOSE x \in Events : x \notin live \cup dead

MayTouch(r) == r \in rows /\ (Overlap \/ ~Busy(r))

Remove(S) ==
  /\ rows' = rows \ S
  /\ gid' = [r \in Rows |-> IF r \in S THEN None ELSE gid[r]]
  /\ local' = [r \in Rows |-> IF r \in S THEN Both(0) ELSE local[r]]
  /\ pending' = pending \ S /\ young' = young \ S /\ old' = old \ S
  /\ owed' = [r \in Rows |-> IF r \in S THEN 0 ELSE owed[r]]

\* Event g has changed for the stored token, and for the token of a pull that
\* has made its listing.
Listed == phase \in {"apply", "token", "store"}
Changed(g) == /\ since' = IF token = "held" THEN since \cup {g} ELSE {}
              /\ fresh' = IF Listed THEN fresh \cup {g} ELSE {}

NextVersion == /\ version < MaxVersion
               /\ version' = version + 1

Fault == /\ faults < MaxFaults
         /\ faults' = faults + 1

Enter(q, where, r, what, v) ==
  /\ pc[q] = "idle"
  /\ pc' = [pc EXCEPT ![q] = where]
  /\ at' = [at EXCEPT ![q] = r]
  /\ act' = [act EXCEPT ![q] = what]
  /\ extras' = [extras EXCEPT ![q] = v]

\* The push is over and so are its locals.
Leave(q) ==
  /\ pc' = [pc EXCEPT ![q] = "idle"]
  /\ at' = [at EXCEPT ![q] = None]
  /\ act' = [act EXCEPT ![q] = "update"]
  /\ extras' = [extras EXCEPT ![q] = 0]
  /\ target' = [target EXCEPT ![q] = None]
  /\ body' = [body EXCEPT ![q] = Both(0)]

-----------------------------------------------------------------------------
(* The owner's requests: the local write and its marker are one statement.   *)

SaveRow(s, r, what, marked) ==
  /\ NextVersion
  /\ Enter(s, "read", r, what, version')
  /\ rows' = rows \cup {r}
  /\ local' = [local EXCEPT ![r] = Both(version')]
  /\ pending' = marked
  /\ young' = young \cup (marked \cap {r}) /\ old' = old \ {r}
  /\ owed' = [owed EXCEPT ![r] = version']
  /\ UNCHANGED <<gid, googleVars, token, target, body, phase, sweepVars,
                 syncVars, faults>>

Create(s, r) == NewRow(r) /\ SaveRow(s, r, "create", pending \cup {r})

\* Mutated: the marker is set when the push fails, not ahead of it.
UpdateUnmarked(s, r) == MayTouch(r) /\ SaveRow(s, r, "update", pending)

Update(s, r) == MayTouch(r) /\ SaveRow(s, r, "update", pending \cup {r})

\* Google first, the row after; a row with no event is only removed here.
Delete(s, r) ==
  /\ MayTouch(r)
  /\ Overlap \/ r \notin pending \ young
  /\ Enter(s, IF gid[r] = None THEN "remove" ELSE "read", r, "delete", 0)
  /\ UNCHANGED <<rowVars, googleVars, token, target, body, phase, sweepVars,
                 syncVars, owed, version, faults>>

\* Reply to an invitation.
Respond(s, r) ==
  /\ MayTouch(r) /\ gid[r] # None
  /\ Overlap \/ r \notin pending
  /\ Enter(s, "get", r, "respond", 0)
  /\ target' = [target EXCEPT ![s] = gid[r]]
  /\ UNCHANGED <<rowVars, googleVars, token, body, phase, sweepVars,
                 syncVars, owed, version, faults>>

-----------------------------------------------------------------------------
(* pushToGoogle, and settlePending after it.                                 *)

\* The row is read when the push starts, not when it was decided on.
ReadRow(q) ==
  LET r == at[q]
      skipped == r \notin rows \/ (act[q] # "create" /\ gid[r] = None)
  IN
  /\ pc[q] = "read"
  /\ IF skipped /\ act[q] # "delete"
       THEN Leave(q)
       ELSE /\ pc' = [pc EXCEPT ![q] = IF skipped THEN "remove" ELSE "call"]
            /\ target' = [target EXCEPT ![q] = gid[r]]
            /\ body' = [body EXCEPT ![q] =
                          [title |-> local[r].title, guests |-> extras[q]]]
            /\ UNCHANGED <<at, act, extras>>
  /\ UNCHANGED <<rowVars, googleVars, token, phase, sweepVars, syncVars,
                 owed, version, faults>>

\* events.get of the invitation, then events.patch of its guests.
GetInvitation(q) ==
  /\ pc[q] = "get"
  /\ target[q] \in live
  /\ pc' = [pc EXCEPT ![q] = "call"]
  /\ body' = [body EXCEPT ![q] = copy[target[q]]]
  /\ UNCHANGED <<rowVars, googleVars, token, at, act, extras, target, phase,
                 sweepVars, syncVars, owed, version, faults>>

\* What Google does to event g when it carries out the request of q.
Carried(q, g) ==
  /\ IF act[q] = "create" THEN NewEvent(g)
                          ELSE g = target[q] /\ g \in live
  /\ live' = IF act[q] = "delete" THEN live \ {g} ELSE live \cup {g}
  /\ dead' = IF act[q] = "delete" THEN dead \cup {g} ELSE dead
  /\ copy' = [copy EXCEPT ![g] =
       CASE act[q] = "respond" -> [@ EXCEPT !.guests = body[q].guests]
         [] act[q] = "delete"  -> Both(0)
         [] OTHER              -> body[q]]
  /\ Changed(g)
  \* Google has the owner's last save once a body carries both its parts.
  /\ owed' = [owed EXCEPT ![at[q]] =
       IF act[q] \in {"create", "update"} /\ body[q] = Both(@) THEN 0 ELSE @]

GoogleAnswers(q) ==
  /\ pc[q] = "call"
  /\ \E g \in Events : /\ Carried(q, g)
                       /\ target' = [target EXCEPT ![q] = g]
  /\ pc' = [pc EXCEPT ![q] = IF act[q] = "delete" THEN "remove" ELSE "back"]
  /\ UNCHANGED <<rowVars, token, at, act, extras, body, phase, sweepVars,
                 syncVars, version, faults>>

\* Google has no such event any more: a delete counts that as done.
NotFound(q) ==
  /\ \/ pc[q] = "get"
     \/ pc[q] = "call" /\ act[q] # "create"
  /\ target[q] \notin live
  /\ IF act[q] = "delete"
       THEN /\ pc' = [pc EXCEPT ![q] = "remove"]
            /\ UNCHANGED <<at, act, extras, target, body>>
       ELSE Leave(q)
  /\ UNCHANGED <<rowVars, googleVars, token, phase, sweepVars, syncVars,
                 owed, version, faults>>

\* A blip, a quota, a refused grant, a lost database: the marker stays.
PushFails(q) ==
  /\ Fault
  /\ pc[q] # "idle"
  /\ Leave(q)
  /\ UNCHANGED <<rowVars, googleVars, token, phase, sweepVars, syncVars,
                 owed, version>>

\* Bound: when the Events are used up Google refuses another insert.
OutOfEvents(q) ==
  /\ pc[q] = "call" /\ act[q] = "create" /\ live \cup dead = Events
  /\ Leave(q)
  /\ UNCHANGED <<rowVars, googleVars, token, phase, sweepVars, syncVars,
                 owed, version, faults>>

\* The same outcome, although Google has carried the request out.
AnswerLost(q) ==
  /\ Fault
  /\ pc[q] = "call"
  /\ \E g \in Events : Carried(q, g)
  /\ Leave(q)
  /\ UNCHANGED <<rowVars, token, phase, sweepVars, syncVars, version>>

\* Google's view is written back: the id of a new event, and the guests. A row
\* that is gone, or an id another row has taken, makes the push a failed one.
ReadBack(q) ==
  LET r == at[q]
      taken == act[q] = "create" /\ \E x \in Rows \ {r} : gid[x] = target[q]
  IN
  /\ pc[q] = "back"
  /\ IF r \notin rows \/ taken
       THEN /\ Leave(q)
            /\ UNCHANGED <<gid, local>>
       ELSE /\ gid' = [gid EXCEPT ![r] = IF act[q] = "create" THEN target[q] ELSE @]
            /\ local' = [local EXCEPT ![r].guests = body[q].guests]
            /\ IF act[q] = "respond"
                 THEN Leave(q)
                 ELSE /\ pc' = [pc EXCEPT ![q] = "settle"]
                      /\ UNCHANGED <<at, act, extras, target, body>>
  /\ UNCHANGED <<rows, pending, young, old, googleVars, token, phase, sweepVars,
                 syncVars, owed, version, faults>>

\* settlePending clears the marker, whoever set it.
Settle(q) ==
  /\ pc[q] = "settle"
  /\ pending' = pending \ {at[q]}
  /\ young' = young \ {at[q]} /\ old' = old \ {at[q]}
  /\ Leave(q)
  /\ UNCHANGED <<rows, local, gid, googleVars, token, phase, sweepVars,
                 syncVars, owed, version, faults>>

RemoveRow(q) ==
  /\ pc[q] = "remove"
  /\ Remove({at[q]})
  /\ Leave(q)
  /\ UNCHANGED <<googleVars, token, phase, sweepVars, syncVars, version, faults>>

-----------------------------------------------------------------------------
(* The scheduled run: the sweep of pending rows.                             *)

RunAt(from, to) == phase = from /\ phase' = to

StartRun ==
  /\ RunAt("idle", "sweep")
  /\ queue' = {r \in pending : r \notin young \cup old}
  /\ snapshot' = [r \in Rows |-> IF r \in queue'
                    THEN [guests |-> local[r].guests, gid |-> gid[r]]
                    ELSE [guests |-> 0, gid |-> None]]
  /\ UNCHANGED <<rowVars, googleVars, token, pushVars, syncVars, owed,
                 version, faults>>

Retry(r, what) ==
  /\ phase = "sweep" /\ r \in queue
  /\ Enter(Sweeper, "read", r, what, snapshot[r].guests)
  /\ queue' = queue \ {r}
  /\ snapshot' = [snapshot EXCEPT ![r] = [guests |-> 0, gid |-> None]]
  /\ UNCHANGED <<rowVars, googleVars, token, target, body, phase, syncVars,
                 owed, version, faults>>

\* Mutated: always an update, whatever the row lacks.
SweepNextUpdates(r) == Retry(r, "update")

\* "A pending row with no Google id is a create that never landed."
SweepNext(r) == Retry(r, IF snapshot[r].gid = None THEN "create" ELSE "update")

\* Every row of the sweep has been pushed, or has failed: the pull comes next.
Swept == phase = "sweep" /\ queue = {} /\ pc[Sweeper] = "idle"

-----------------------------------------------------------------------------
(* The scheduled run: the pull.                                              *)

\* events.list: what changed since the token, or everything there is.
List ==
  /\ Swept /\ phase' = "apply"
  /\ page' = IF token = "held" THEN since ELSE live
  /\ listed' = page' \cap live
  /\ listing' = [g \in Events |-> IF g \in listed' THEN copy[g] ELSE Both(0)]
  /\ seen' = IF token = "held" THEN {} ELSE page'
  /\ fresh' = {}
  /\ UNCHANGED <<rowVars, live, dead, copy, since, token, pushVars, sweepVars,
                 owed, version, faults>>

Expired(left) ==
  /\ Expiry
  /\ Swept /\ token = "held"
  /\ token' = left /\ since' = {}
  /\ UNCHANGED <<rowVars, live, dead, copy, fresh, pushVars, phase, sweepVars,
                 syncVars, owed, version, faults>>

\* Mutated: the token is blanked, not removed.
ExpireBlank == Expired("blank")

\* 410: the token is dropped and syncFromGoogle calls itself for a full listing.
Expire == Expired("none")

Apply(g, fixed) ==
  LET mine == {r \in rows : gid[r] = g} IN
  /\ phase = "apply" /\ g \in page
  /\ page' = page \ {g}
  /\ \/ /\ g \notin listed
        /\ Remove(mine)
     \/ /\ g \in listed /\ mine # {}
        /\ local' = [r \in Rows |-> IF r \in mine \ fixed THEN listing[g]
                                                         ELSE local[r]]
        /\ UNCHANGED <<rows, gid, pending, young, old, owed>>
     \/ /\ g \in listed /\ mine = {}
        /\ \E r \in Rows :
             /\ NewRow(r)
             /\ rows' = rows \cup {r}
             /\ gid' = [gid EXCEPT ![r] = g]
             /\ local' = [local EXCEPT ![r] = listing[g]]
        /\ UNCHANGED <<pending, young, old, owed>>
  /\ listed' = listed \ {g}
  /\ listing' = [listing EXCEPT ![g] = Both(0)]
  /\ UNCHANGED <<googleVars, token, pushVars, phase, sweepVars, seen, version,
                 faults>>

\* Mutated: an upsert, which writes pending rows as well.
ApplyAll(g) == Apply(g, {})

\* upsertGoogleEvent: a cancelled event takes its rows with it, a listed one
\* refreshes its row unless that is pending, or gets one.
ApplyEvent(g) == Apply(g, pending)

\* After a full listing: linked rows it did not mention are removed.
Reconcile ==
  /\ RunAt("apply", "token")
  /\ page = {} /\ token = "none"
  /\ Remove({r \in rows \ pending : gid[r] # None /\ gid[r] \notin seen})
  /\ seen' = {}
  /\ UNCHANGED <<googleVars, token, pushVars, sweepVars, page, listed, listing,
                 version, faults>>

\* A listing with a window has no token: a second one fetches it.
FetchToken ==
  /\ RunAt("token", "store")
  /\ fresh' = {}
  /\ UNCHANGED <<rowVars, live, dead, copy, since, token, pushVars, sweepVars,
                 syncVars, owed, version, faults>>

\* The last write of the run: after the pages of a delta, or after FetchToken.
Stored(changes) ==
  /\ phase = "store" \/ (phase = "apply" /\ page = {} /\ token = "held")
  /\ phase' = "idle"
  /\ token' = "held" /\ since' = changes /\ fresh' = {}
  /\ UNCHANGED <<rowVars, live, dead, copy, pushVars, sweepVars, syncVars,
                 owed, version, faults>>

\* Mutated: a token that covers the time since the listing too.
StoreLateToken == Stored({})

StoreToken == Stored(fresh)

\* A call of the pull throws: the token stays and the next run starts over.
RunFails ==
  /\ Fault
  /\ Swept \/ Listed
  /\ phase' = "idle"
  /\ fresh' = {}
  /\ page' = {} /\ listed' = {} /\ seen' = {}
  /\ listing' = [g \in Events |-> Both(0)]
  /\ UNCHANGED <<rowVars, live, dead, copy, since, token, pushVars, sweepVars,
                 owed, version>>

-----------------------------------------------------------------------------
(* Time, Google, and the end of the process.                                 *)

\* MIN_AGE_MS is "comfortably longer than the request that is still pushing it":
\* unless anything may overlap, the comment is taken at its word.
BecomeRipe(r) ==
  /\ r \in young /\ (Overlap \/ ~Busy(r))
  /\ young' = young \ {r}
  /\ UNCHANGED <<rows, local, gid, pending, old, googleVars, token, pushVars,
                 phase, sweepVars, syncVars, owed, version, faults>>

BecomeOld(r) ==
  /\ r \in pending \ (young \cup old)
  /\ old' = old \cup {r}
  /\ UNCHANGED <<rows, local, gid, pending, young, googleVars, token, pushVars,
                 phase, sweepVars, syncVars, owed, version, faults>>

\* Somebody edits, adds or removes an event in Google's own interface.
EditAtGoogle(g) ==
  /\ NextVersion
  /\ g \in live \/ NewEvent(g)
  /\ Overlap \/ \A q \in Pushers : target[q] # g
  /\ \/ /\ live' = live \cup {g} /\ UNCHANGED dead
        /\ copy' = [copy EXCEPT ![g] = Both(version')]
     \/ /\ g \in live
        /\ live' = live \ {g} /\ dead' = dead \cup {g}
        /\ copy' = [copy EXCEPT ![g] = Both(0)]
  /\ Changed(g)
  /\ UNCHANGED <<rowVars, token, pushVars, phase, sweepVars, syncVars, owed,
                 faults>>

Crash ==
  /\ Fault
  /\ pc' = [q \in Pushers |-> "idle"]
  /\ at' = [q \in Pushers |-> None]
  /\ act' = [q \in Pushers |-> "update"]
  /\ extras' = [q \in Pushers |-> 0]
  /\ target' = [q \in Pushers |-> None]
  /\ body' = [q \in Pushers |-> Both(0)]
  /\ phase' = "idle" /\ fresh' = {}
  /\ queue' = {} /\ snapshot' = [r \in Rows |-> [guests |-> 0, gid |-> None]]
  /\ page' = {} /\ listed' = {} /\ seen' = {}
  /\ listing' = [g \in Events |-> Both(0)]
  /\ UNCHANGED <<rowVars, live, dead, copy, since, token, owed, version>>

-----------------------------------------------------------------------------
Owner(s) ==
  \E r \in Rows : Create(s, r) \/ Update(s, r) \/ Delete(s, r) \/ Respond(s, r)

Push(q) ==
  \/ ReadRow(q) \/ GetInvitation(q) \/ GoogleAnswers(q) \/ NotFound(q)
  \/ OutOfEvents(q)
  \/ ReadBack(q) \/ Settle(q) \/ RemoveRow(q)

Run ==
  \/ StartRun \/ List \/ Expire \/ Reconcile \/ FetchToken \/ StoreToken
  \/ \E r \in Rows : SweepNext(r)
  \/ \E g \in Events : ApplyEvent(g)

Next ==
  \/ \E s \in Savers : Owner(s)
  \/ \E q \in Pushers : Push(q) \/ PushFails(q) \/ AnswerLost(q)
  \/ Run \/ RunFails \/ Crash
  \/ \E r \in Rows : BecomeRipe(r) \/ BecomeOld(r)
  \/ \E g \in Events : EditAtGoogle(g)

Spec == Init /\ [][Next]_vars

\* The cron fires every two minutes, calls are answered, a minute passes. No
\* user has to do anything, and a day need not pass.
Fairness ==
  /\ WF_vars(Run)
  /\ \A q \in Pushers : WF_vars(Push(q))
  /\ WF_vars(\E r \in Rows : BecomeRipe(r))

FairSpec == Spec /\ Fairness

-----------------------------------------------------------------------------
(* Properties.                                                               *)

\* Every variable has its type; markers and histories speak of existing rows.
TypeOK ==
  /\ rows \subseteq Rows /\ local \in [Rows -> Content]
  /\ gid \in [Rows -> Events \cup {None}]
  /\ pending \subseteq rows /\ young \subseteq pending /\ old \subseteq pending
  /\ live \subseteq Events /\ dead \subseteq Events /\ copy \in [Events -> Content]
  /\ token \in {"held", "none"} /\ since \subseteq Events /\ fresh \subseteq Events
  /\ pc \in [Pushers -> {"idle", "read", "get", "call", "back", "settle", "remove"}]
  /\ at \in [Pushers -> Rows \cup {None}]
  /\ act \in [Pushers -> {"create", "update", "delete", "respond"}]
  /\ extras \in [Pushers -> 0 .. MaxVersion]
  /\ target \in [Pushers -> Events \cup {None}]
  /\ body \in [Pushers -> Content]
  /\ phase \in {"idle", "sweep", "apply", "token", "store"}
  /\ queue \subseteq Rows
  /\ snapshot \in [Rows -> [guests : 0 .. MaxVersion, gid : Events \cup {None}]]
  /\ page \subseteq Events /\ listed \subseteq page
  /\ listing \in [Events -> Content] /\ seen \subseteq Events
  /\ owed \in [Rows -> 0 .. MaxVersion]
  /\ version \in 0 .. MaxVersion /\ faults \in 0 .. MaxFaults

\* "An edit that cannot reach Google is marked, protected from being reverted by
\* the next sync, retried ... until it lands": until Google has had the owner's
\* last save of a row, the row is marked and still shows that save.
EditStaysUntilItLands ==
  \A r \in rows : owed[r] # 0 => r \in pending /\ local[r] = Both(owed[r])

\* The pull never changes the contents of a row whose last save Google has not
\* had: it may only take the row away with its event.
SyncSparesUnpushedEdits ==
  [][\A r \in rows \cap rows' :
       page' # page /\ owed[r] # 0 => local'[r] = local[r]]_vars

\* When edits and faults end, so does waiting: no row stays marked unless it has
\* aged out (or the bound on Events keeps it from being created).
PendingDrains ==
  <>[](\A r \in pending \ old : gid[r] = None /\ live \cup dead = Events)

\* Rows and Google come to agree, whatever was edited, refused, lost or
\* interrupted on the way, as long as no token expires and no edit of an event
\* overlaps a push of it (Expiry and Overlap are FALSE).
Agrees(r) == gid[r] \in live /\ local[r] = copy[gid[r]]
Converges ==
  <>[](/\ \A r \in rows : r \in pending \/ Agrees(r)
       /\ \A g \in live : \E r \in rows : gid[r] = g)
=============================================================================
