---------------------------- MODULE DraftsProofs ----------------------------
(***************************************************************************)
(* Proofs about Drafts for any number of drafts, syncs, requests, edits and *)
(* faults: a sync removes no living draft's row, and a reply stays one.     *)
(***************************************************************************)
EXTENDS Drafts, TLAPS

Steps == {"idle", "list", "drafts", "mirror", "gmail", "send", "row"}

Types ==
  /\ TypeOK
  /\ at \in [Procs -> Steps]
  /\ todo \in [Syncs -> SUBSET [id : Ids, text : 1 .. MaxEdits]]
  /\ seen \in [Syncs -> SUBSET Ids] /\ touched \in [Syncs -> SUBSET Ids]
  /\ isReply \subseteq {d \in Ids : edits[d] > 0}
  /\ \A d \in Ids : gmail[d] # None => edits[d] > 0 /\ gmail[d].text <= edits[d]
  /\ \A x \in sent : edits[x.id] > 0

\* What a process holds of a draft: one that exists or existed, a text it has had;
\* and a row is deleted when its draft is gone, or Gmail has refused that.
ProcOK(p) ==
  /\ draft[p] # None => edits[draft[p]] > 0 /\ text[p] <= edits[draft[p]]
  /\ at[p] = "mirror" => draft[p] # None /\ text[p] > 0
  /\ p \in Callers /\ at[p] = "idle" => draft[p] = None /\ text[p] = 0
  /\ p \in Callers /\ op[p] \in {"open", "send", "remove"} => draft[p] # None
  /\ at[p] = "row" =>
       draft[p] # None /\ (gmail[draft[p]] = None \/ draft[p] \in excused)
ProcInv == \A p \in Procs : ProcOK(p)

\* A row that a sync neither listed nor saw written is of a draft that is gone.
SyncOK(s) == at[s] \in {"drafts", "mirror"} =>
  \A d \in Ids \ (seen[s] \cup touched[s]) : rows[d] # None => gmail[d] = None
SyncInv == \A s \in Syncs : SyncOK(s)

\* A draft begun as a reply is one at Gmail, for every request about it, and for
\* the mirror, unless the save that creates it has still to write the row.
Creating(d) == \E p \in Callers : op[p] = "save" /\ at[p] = "mirror" /\ draft[p] = d /\ reply[p]
ReplyOK(d) ==
  /\ gmail[d].reply
  /\ (rows[d] # None /\ rows[d].reply) \/ Creating(d)
  /\ \A p \in Callers : draft[p] = d /\ op[p] \in {"save", "send"} => reply[p]
ReplyInv == \A d \in isReply \ excused : gmail[d] # None => ReplyOK(d)

IInv == Types /\ ProcInv /\ SyncInv /\ ReplyInv /\ ReplyKept

-----------------------------------------------------------------------------
\* Only p moves; drafts gain texts, and one that is gone stays gone.
Frame(p) ==
  /\ \A q \in Procs \ {p} : /\ at'[q] = at[q] /\ draft'[q] = draft[q]
                            /\ text'[q] = text[q] /\ reply'[q] = reply[q]
  /\ \A q \in Callers \ {p} : op'[q] = op[q]
Grow ==
  /\ \A d \in Ids : /\ edits[d] <= edits'[d]
                    /\ edits[d] > 0 /\ gmail[d] = None => gmail'[d] = None
  /\ excused \subseteq excused'

LEMMA InitIInv == Init => IInv
<1> SUFFICES ASSUME Init PROVE IInv
  OBVIOUS
<1> USE DEF Init
<1>1. Types
  BY BoundAssumption DEF Types, TypeOK, Steps, Procs
<1>2. ProcInv
  BY SyncsAreNotCallers, NoneIsNoDraft DEF ProcInv, ProcOK, Procs
<1>3. SyncInv
  BY DEF SyncInv, SyncOK, Procs
<1>4. ReplyInv /\ ReplyKept
  BY DEF ReplyInv, ReplyKept
<1> QED BY <1>1, <1>2, <1>3, <1>4 DEF IInv

LEMMA Typed ==
  ASSUME IInv
  PROVE  /\ Types /\ TypeOK /\ ProcInv /\ SyncInv /\ ReplyInv /\ ReplyKept
         /\ at \in [Procs -> Steps] /\ op \in [Callers -> {"open", "save", "send", "remove", None}]
         /\ draft \in [Procs -> Ids \cup {None}] /\ reply \in [Procs -> BOOLEAN]
         /\ text \in [Procs -> 0 .. MaxEdits] /\ edits \in [Ids -> 0 .. MaxEdits]
         /\ gmail \in [Ids -> Draft \cup {None}] /\ rows \in [Ids -> Draft \cup {None}]
         /\ todo \in [Syncs -> SUBSET [id : Ids, text : 1 .. MaxEdits]]
         /\ seen \in [Syncs -> SUBSET Ids] /\ touched \in [Syncs -> SUBSET Ids]
         /\ MaxEdits \in Nat \ {0}
BY BoundAssumption DEF IInv, Types, TypeOK

LEMMA ProcKeeps ==
  ASSUME IInv, NEW p \in Procs, Frame(p), Grow, ProcOK(p)', Types'
  PROVE  ProcInv'
<1> SUFFICES ASSUME NEW q \in Procs, q # p PROVE ProcOK(q)'
  BY DEF ProcInv
<1>1. ProcOK(q) /\ draft[q] \in Ids \cup {None} /\ text[q] \in Nat
  BY DEF IInv, ProcInv, Types, TypeOK
<1>2. at'[q] = at[q] /\ draft'[q] = draft[q] /\ text'[q] = text[q] /\ (q \in Callers => op'[q] = op[q])
  BY DEF Frame
<1>3. draft[q] # None => /\ edits[draft[q]] \in Nat /\ edits'[draft[q]] \in Nat
                         /\ edits[draft[q]] <= edits'[draft[q]]
                         /\ edits[draft[q]] > 0 /\ gmail[draft[q]] = None => gmail'[draft[q]] = None
  BY <1>1 DEF IInv, Types, TypeOK, Grow
<1> QED BY <1>1, <1>2, <1>3 DEF ProcOK, Grow

\* Rows may go, and appear where the sync is told.
LEMMA SyncKeeps ==
  ASSUME IInv, Grow, NEW s \in Syncs, at'[s] \in {"drafts", "mirror"} => at[s] \in {"drafts", "mirror"},
         seen'[s] = seen[s], touched[s] \subseteq touched'[s],
         \A d \in Ids \ touched'[s] : rows'[d] # None => rows[d] # None
  PROVE  SyncOK(s)'
<1> SUFFICES ASSUME at[s] \in {"drafts", "mirror"},
                    NEW d \in Ids \ (seen[s] \cup touched'[s]), rows[d] # None
             PROVE  gmail'[d] = None
  BY DEF SyncOK
<1>1. gmail[d] = None
  BY DEF IInv, SyncInv, SyncOK
<1>2. edits[d] > 0
  BY DEF IInv, Types, TypeOK, Draft
<1> QED BY <1>1, <1>2 DEF Grow

\* What a reply's draft needs is there after a step that leaves the callers alone.
LEMMA ReplyKeeps ==
  ASSUME IInv, excused' = excused, isReply' = isReply, sent' = sent,
         \A d \in Ids : gmail'[d] = gmail[d] \/ gmail'[d] = None
                          \/ (gmail[d] # None /\ gmail'[d].reply = gmail[d].reply),
         \A d \in Ids : rows[d] # None /\ rows[d].reply /\ gmail[d] # None
                          => rows'[d] # None /\ rows'[d].reply,
         \A q \in Callers : /\ at'[q] = at[q] /\ op'[q] = op[q]
                            /\ draft'[q] = draft[q] /\ reply'[q] = reply[q]
  PROVE  ReplyInv' /\ ReplyKept'
<1>1. \A d \in Ids : Creating(d) => Creating(d)'
  BY DEF Creating
<1>2. ASSUME NEW d \in isReply \ excused, gmail'[d] # None PROVE ReplyOK(d)'
  <2>1. d \in Ids /\ gmail[d] # None /\ gmail'[d].reply = gmail[d].reply
    BY <1>2, Typed DEF Types, ReplyInv
  <2>2. ReplyOK(d)
    BY <2>1, Typed DEF ReplyInv
  <2> QED BY <1>1, <2>1, <2>2 DEF ReplyOK
<1> QED BY <1>2, Typed DEF ReplyInv, ReplyKept

-----------------------------------------------------------------------------
\* The steps of a sync.
LEMMA StartSyncKeeps ==
  ASSUME IInv, NEW s \in Syncs, StartSync(s)
  PROVE  IInv'
<1> USE SyncsAreNotCallers DEF StartSync, Goto, data, bounds, Procs
<1>1. Types'
  BY Typed DEF Types, TypeOK, Steps
<1>2. Frame(s) /\ Grow /\ ProcOK(s)'
  BY Typed DEF Frame, Grow, ProcOK, ProcInv
<1>3. ProcInv'
  BY <1>1, <1>2, ProcKeeps
<1>4. SyncInv'
  <2> SUFFICES ASSUME NEW r \in Syncs PROVE SyncOK(r)'
    BY DEF SyncInv
  <2>1. CASE r = s
    BY <2>1, Typed DEF SyncOK
  <2>2. CASE r # s
    BY <2>2, <1>2, Typed, SyncKeeps
  <2> QED BY <2>1, <2>2
<1>5. ReplyInv' /\ ReplyKept'
  BY Typed, ReplyKeeps
<1> QED BY <1>1, <1>3, <1>4, <1>5 DEF IInv

LEMMA ListKeeps ==
  ASSUME IInv, NEW s \in Syncs, List(s)
  PROVE  IInv'
<1> USE SyncsAreNotCallers DEF List, Goto, data, bounds, Procs
<1>1. Types'
  <2>1. /\ seen'[s] \subseteq Ids /\ todo'[s] \subseteq [id : seen'[s], text : 1 .. MaxEdits]
    BY Typed DEF Draft
  <2>2. /\ seen' = [seen EXCEPT ![s] = seen'[s]] /\ todo' = [todo EXCEPT ![s] = todo'[s]]
    BY Typed
  <2> QED BY Typed, <2>1, <2>2 DEF Types, TypeOK, Steps
<1>2. Frame(s) /\ Grow /\ ProcOK(s)'
  BY Typed DEF Frame, Grow, ProcOK, ProcInv
<1>3. ProcInv'
  BY <1>1, <1>2, ProcKeeps
<1>4. SyncInv'
  <2> SUFFICES ASSUME NEW r \in Syncs PROVE SyncOK(r)'
    BY DEF SyncInv
  <2>1. CASE r = s
    BY <2>1, Typed DEF SyncOK
  <2>2. CASE r # s
    BY <2>2, <1>2, Typed, SyncKeeps
  <2> QED BY <2>1, <2>2
<1>5. ReplyInv' /\ ReplyKept'
  BY Typed, ReplyKeeps
<1> QED BY <1>1, <1>3, <1>4, <1>5 DEF IInv

LEMMA NextDraftKeeps ==
  ASSUME IInv, NEW s \in Syncs, NEW x \in todo[s], NextDraft(s, x)
  PROVE  IInv'
<1> USE SyncsAreNotCallers DEF data, bounds, Procs
<1>0. x.id \in Ids /\ at[s] = "drafts" /\ todo' = [todo EXCEPT ![s] = @ \ {x}]
  BY Typed DEF NextDraft
<1>1. \/ UNCHANGED <<at, draft, text>>
      \/ gmail[x.id] # None /\ Fetch(s, x.id)
  BY DEF NextDraft
<1>2. gmail[x.id] # None => /\ gmail[x.id].text \in 1 .. MaxEdits /\ edits[x.id] > 0
                            /\ gmail[x.id].text <= edits[x.id]
  BY <1>0, Typed DEF Draft, Types
<1>3. /\ at' \in [Procs -> Steps] /\ draft' \in [Procs -> Ids \cup {None}]
      /\ text' \in [Procs -> 0 .. MaxEdits]
  BY <1>0, <1>1, <1>2, Typed DEF Fetch, Goto, Steps
<1>4. Types'
  <2>1. todo' \in [Syncs -> SUBSET [id : Ids, text : 1 .. MaxEdits]]
    BY <1>0, Typed
  <2>2. \A r \in Syncs : todo'[r] \subseteq [id : seen[r], text : 1 .. MaxEdits]
    BY <1>0, Typed DEF TypeOK
  <2> QED BY <1>3, <2>1, <2>2, Typed DEF NextDraft, Types, TypeOK
<1>5. Frame(s) /\ Grow /\ ProcOK(s)'
  <2>1. Frame(s) /\ Grow
    BY <1>1, Typed DEF NextDraft, Fetch, Goto, Frame, Grow
  <2>2. ASSUME UNCHANGED <<at, draft, text>> PROVE ProcOK(s)'
    <3>1. ProcOK(s) /\ at' = at /\ draft' = draft /\ text' = text /\ op' = op
          /\ edits' = edits /\ gmail' = gmail /\ excused' = excused
      BY <2>2, Typed DEF NextDraft, ProcInv
    <3> QED BY <3>1 DEF ProcOK
  <2>3. ASSUME gmail[x.id] # None, Fetch(s, x.id) PROVE ProcOK(s)'
    <3>1. at'[s] = "mirror" /\ draft'[s] = x.id /\ text'[s] = gmail[x.id].text /\ edits' = edits
      BY <2>3, Typed DEF NextDraft, Fetch, Goto
    <3> QED BY <2>3, <3>1, <1>0, <1>2, NoneIsNoDraft DEF ProcOK
  <2> QED BY <1>1, <2>1, <2>2, <2>3
<1>6. ProcInv'
  BY <1>4, <1>5, ProcKeeps
<1>7. SyncInv'
  <2> SUFFICES ASSUME NEW r \in Syncs PROVE SyncOK(r)'
    BY DEF SyncInv
  <2>1. at'[r] \in {"drafts", "mirror"} => at[r] \in {"drafts", "mirror"}
    BY <1>0, <1>1, Typed DEF Fetch, Goto
  <2> QED BY <2>1, <1>5, SyncKeeps DEF NextDraft
<1>8. ReplyInv' /\ ReplyKept'
  <2>1. \A q \in Callers : at'[q] = at[q] /\ draft'[q] = draft[q]
    BY <1>1, Typed DEF Fetch, Goto
  <2> QED BY <2>1, ReplyKeeps DEF NextDraft
<1> QED BY <1>4, <1>6, <1>7, <1>8 DEF IInv

\* A row written by p carries a text the draft has had.
LEMMA MirrorFacts ==
  ASSUME IInv, NEW p \in Procs, at[p] = "mirror", NEW r \in BOOLEAN, Mirror(draft[p], text[p], r)
  PROVE  /\ draft[p] \in Ids
         /\ rows' \in [Ids -> Draft \cup {None}] /\ touched' \in [Syncs -> SUBSET Ids]
         /\ UNCHANGED edits => \A d \in Ids : rows'[d] # None => rows'[d].text <= edits'[d]
         /\ \A s \in Syncs : /\ touched[s] \subseteq touched'[s]
                             /\ \A d \in Ids \ touched'[s] : rows'[d] # None => rows[d] # None
         /\ \A d \in Ids : rows[d] # None /\ rows[d].reply => rows'[d] # None /\ rows'[d].reply
         /\ r => rows'[draft[p]] # None /\ rows'[draft[p]].reply
<1>1. draft[p] \in Ids /\ text[p] \in 1 .. MaxEdits /\ text[p] <= edits[draft[p]]
  BY Typed DEF ProcInv, ProcOK
<1> DEFINE new == [text |-> text[p],
                   reply |-> r \/ (rows[draft[p]] # None /\ rows[draft[p]].reply)]
<1>2. new \in Draft /\ new # None /\ new.text = text[p]
      /\ (r => new.reply) /\ (rows[draft[p]] # None /\ rows[draft[p]].reply => new.reply)
  <2>1. (r \/ (rows[draft[p]] # None /\ rows[draft[p]].reply)) \in BOOLEAN
    OBVIOUS
  <2>2. new \in Draft
    BY <1>1, <2>1 DEF Draft
  <2>3. new.reply = (r \/ (rows[draft[p]] # None /\ rows[draft[p]].reply))
    OBVIOUS
  <2> QED BY <2>2, <2>3, NoneIsNoDraft
<1>3. rows' = [rows EXCEPT ![draft[p]] = new]
  BY DEF Mirror
<1> HIDE DEF new
<1>4. rows' \in [Ids -> Draft \cup {None}] /\ rows'[draft[p]] = new
      /\ \A d \in Ids \ {draft[p]} : rows'[d] = rows[d]
  BY <1>1, <1>2, <1>3, Typed
<1>5. touched' = [s \in Syncs |-> touched[s] \cup {draft[p]}]
  BY DEF Mirror
<1>6. UNCHANGED edits => \A d \in Ids : rows'[d] # None => rows'[d].text <= edits'[d]
  BY <1>1, <1>2, <1>4, Typed DEF TypeOK
<1>7. \A s \in Syncs : /\ touched[s] \subseteq touched'[s]
                       /\ \A d \in Ids \ touched'[s] : rows'[d] # None => rows[d] # None
  BY <1>4, <1>5
<1>8. touched' \in [Syncs -> SUBSET Ids]
  BY <1>1, <1>5, Typed
<1>9. /\ \A d \in Ids : rows[d] # None /\ rows[d].reply => rows'[d] # None /\ rows'[d].reply
      /\ r => rows'[draft[p]] # None /\ rows'[draft[p]].reply
  BY <1>1, <1>2, <1>4
<1> QED BY <1>1, <1>4, <1>6, <1>7, <1>8, <1>9

LEMMA MirrorFetchedKeeps ==
  ASSUME IInv, NEW s \in Syncs, MirrorFetched(s)
  PROVE  IInv'
<1> USE SyncsAreNotCallers DEF MirrorFetched, Goto, bounds, Procs
<1>0. /\ draft[s] \in Ids
      /\ rows' \in [Ids -> Draft \cup {None}] /\ touched' \in [Syncs -> SUBSET Ids]
      /\ \A d \in Ids : rows'[d] # None => rows'[d].text <= edits'[d]
      /\ \A r \in Syncs : /\ touched[r] \subseteq touched'[r]
                          /\ \A d \in Ids \ touched'[r] : rows'[d] # None => rows[d] # None
      /\ \A d \in Ids : rows[d] # None /\ rows[d].reply => rows'[d] # None /\ rows'[d].reply
  BY MirrorFacts
<1>1. Types'
  BY <1>0, Typed DEF Types, TypeOK, Steps
<1>2. Frame(s) /\ Grow /\ ProcOK(s)'
  BY Typed DEF Frame, Grow, ProcOK, ProcInv
<1>3. ProcInv'
  BY <1>1, <1>2, ProcKeeps
<1>4. SyncInv'
  <2> SUFFICES ASSUME NEW r \in Syncs PROVE SyncOK(r)'
    BY DEF SyncInv
  <2>1. at'[r] \in {"drafts", "mirror"} => at[r] \in {"drafts", "mirror"}
    BY Typed
  <2> QED BY <1>0, <1>2, <2>1, SyncKeeps
<1>5. ReplyInv' /\ ReplyKept'
  <2>1. \A q \in Callers : at'[q] = at[q] /\ draft'[q] = draft[q]
    BY Typed
  <2> QED BY <1>0, <2>1, Typed, ReplyKeeps
<1> QED BY <1>1, <1>3, <1>4, <1>5 DEF IInv

LEMMA PruneKeeps ==
  ASSUME IInv, NEW s \in Syncs, Prune(s)
  PROVE  IInv' /\ \A d \in Ids : rows[d] # None /\ rows'[d] = None => gmail[d] = None
<1> USE SyncsAreNotCallers DEF Prune, EndSync, Goto, bounds, Procs
<1>0. \A d \in Ids : rows[d] # None /\ rows'[d] # rows[d] => rows'[d] = None /\ gmail[d] = None
  BY Typed DEF SyncInv, SyncOK
<1>9. \A d \in Ids : rows'[d] = rows[d] \/ rows'[d] = None
  OBVIOUS
<1>1. Types'
  <2>1. rows' \in [Ids -> Draft \cup {None}]
    BY <1>9, Typed
  <2> QED BY <1>9, <2>1, Typed DEF Types, TypeOK, Steps
<1>2. Frame(s) /\ Grow /\ ProcOK(s)'
  BY Typed DEF Frame, Grow, ProcOK, ProcInv
<1>3. ProcInv'
  BY <1>1, <1>2, ProcKeeps
<1>4. SyncInv'
  <2> SUFFICES ASSUME NEW r \in Syncs PROVE SyncOK(r)'
    BY DEF SyncInv
  <2>1. CASE r = s
    BY <2>1, Typed DEF SyncOK
  <2>2. CASE r # s
    BY <2>2, <1>9, <1>2, Typed, SyncKeeps
  <2> QED BY <2>1, <2>2
<1>5. ReplyInv' /\ ReplyKept'
  <2>1. \A q \in Callers : at'[q] = at[q]
    BY Typed
  <2> QED BY <1>0, <2>1, Typed, ReplyKeeps
<1> QED BY <1>0, <1>1, <1>3, <1>4, <1>5 DEF IInv

-----------------------------------------------------------------------------
\* The steps of a caller.

\* A draft stays fit to be a reply when p, the caller that moves, knows it is one,
\* and a row p was to write is written or still to come.
LEMMA CallerReply ==
  ASSUME NEW p \in Callers, Frame(p), NEW d \in Ids, ReplyOK(d), gmail'[d].reply,
         rows[d] # None /\ rows[d].reply => rows'[d] # None /\ rows'[d].reply,
         draft'[p] = d /\ op'[p] \in {"save", "send"} => reply'[p],
         op[p] = "save" /\ at[p] = "mirror" /\ draft[p] = d /\ reply[p]
           => rows'[d] # None /\ rows'[d].reply
  PROVE  ReplyOK(d)'
<1>1. \A q \in Callers \ {p} : /\ at'[q] = at[q] /\ draft'[q] = draft[q]
                               /\ reply'[q] = reply[q] /\ op'[q] = op[q]
  BY DEF Frame, Procs
<1>2. (rows'[d] # None /\ rows'[d].reply) \/ Creating(d)'
  <2>1. CASE rows[d] # None /\ rows[d].reply
    BY <2>1
  <2>2. CASE Creating(d)
    <3>1. PICK q \in Callers : op[q] = "save" /\ at[q] = "mirror" /\ draft[q] = d /\ reply[q]
      BY <2>2 DEF Creating
    <3>2. CASE q = p
      BY <3>1, <3>2
    <3>3. CASE q # p
      BY <3>1, <3>3, <1>1 DEF Creating
    <3> QED BY <3>2, <3>3
  <2> QED BY <2>1, <2>2 DEF ReplyOK
<1> QED BY <1>1, <1>2 DEF ReplyOK

\* The part of the invariant that no caller's step but a send disturbs.
LEMMA CallerSync ==
  ASSUME IInv, Grow, seen' = seen, \A s \in Syncs : at'[s] = at[s],
         \A s \in Syncs : touched[s] \subseteq touched'[s],
         \A s \in Syncs : \A d \in Ids \ touched'[s] : rows'[d] # None => rows[d] # None
  PROVE  SyncInv'
BY SyncKeeps DEF SyncInv

LEMMA DoneFacts ==
  ASSUME IInv, NEW p \in Callers, Done(p)
  PROVE  /\ at' \in [Procs -> Steps] /\ op' \in [Callers -> {"open", "save", "send", "remove", None}]
         /\ draft' \in [Procs -> Ids \cup {None}] /\ reply' \in [Procs -> BOOLEAN]
         /\ text' \in [Procs -> 0 .. MaxEdits] /\ todo' = todo /\ seen' = seen
         /\ at'[p] = "idle" /\ op'[p] = None /\ draft'[p] = None /\ text'[p] = 0
         /\ Frame(p)
BY Typed DEF Done, Goto, Frame, Steps, Procs

LEMMA DoneProc ==
  ASSUME NEW p \in Callers, at'[p] = "idle", op'[p] = None, draft'[p] = None, text'[p] = 0
  PROVE  ProcOK(p)'
BY NoneIsNoDraft DEF ProcOK

LEMMA RequestKeeps ==
  ASSUME IInv, NEW p \in Callers, NEW o \in {"open", "save", "send", "remove"}, NEW d \in Ids,
         NEW told \in BOOLEAN, Request(p, o, d, told)
  PROVE  IInv'
<1> USE SyncsAreNotCallers DEF Request, Goto, data, Procs
<1>0. /\ edits[d] > 0 /\ d # None /\ text' = text
      /\ at' = [at EXCEPT ![p] = "gmail"] /\ at[p] = "idle" /\ op' = [op EXCEPT ![p] = o]
      /\ draft' = [draft EXCEPT ![p] = d] /\ draft[p] = None
      /\ reply' = [reply EXCEPT ![p] = reply'[p]] /\ reply'[p] \in BOOLEAN
      /\ excused \subseteq excused' /\ isReply' = isReply
  <2>1. rows[d].text \in Nat \ {0} /\ rows[d].text <= edits[d] /\ edits[d] \in Nat
    BY Typed DEF TypeOK, Draft
  <2>2. reply'[p] \in BOOLEAN
    <3>1. rows[d].reply \in BOOLEAN
      BY Typed DEF Draft
    <3> QED BY <3>1, Typed
  <2>3. draft[p] = None
    BY Typed DEF ProcInv, ProcOK
  <2> QED BY <2>1, <2>2, <2>3, Typed, NoneIsNoDraft
<1>1. Types'
  BY <1>0, Typed DEF Types, TypeOK, Steps
<1>2. Frame(p) /\ Grow
  BY <1>0, Typed DEF Frame, Grow
<1>3. ProcOK(p)'
  <2>1. at'[p] = "gmail" /\ draft'[p] = d /\ text'[p] = text[p] /\ edits' = edits
    BY <1>0, Typed
  <2>2. text[p] = 0
    BY <1>0, Typed DEF ProcInv, ProcOK
  <2> QED BY <2>1, <2>2, <1>0, Typed DEF ProcOK
<1>4. ProcInv'
  BY <1>1, <1>2, <1>3, ProcKeeps
<1>5. SyncInv'
  BY <1>0, <1>2, CallerSync, Typed
<1>6. ReplyInv'
  <2> SUFFICES ASSUME NEW e \in isReply \ excused', gmail[e] # None PROVE ReplyOK(e)'
    BY <1>0 DEF ReplyInv
  <2>1. e \in Ids /\ ReplyOK(e)
    BY <1>0, Typed DEF ReplyInv, Types
  <2>2. CASE e = d
    <3>1. ~ Unrecorded(d) /\ ~ (o \in {"save", "send"} /\ rows[d].reply /\ d \in orphans)
      BY <2>2
    <3>2. rows[d].reply
      BY <3>1, <2>1, <2>2 DEF ReplyOK, Creating, Unrecorded
    <3>3. op'[p] \in {"save", "send"} => reply'[p]
      BY <3>1, <3>2, <1>0, Typed
    <3> QED BY <3>3, <2>1, <2>2, <1>0, <1>2, CallerReply DEF ReplyOK
  <2>3. CASE e # d
    <3>1. draft'[p] = d
      BY <1>0, Typed
    <3> QED BY <3>1, <2>1, <2>3, <1>0, <1>2, CallerReply DEF ReplyOK
  <2> QED BY <2>2, <2>3
<1>7. ReplyKept'
  BY <1>0, Typed DEF ReplyKept
<1> QED BY <1>1, <1>4, <1>5, <1>6, <1>7 DEF IInv

LEMMA RequestNewKeeps ==
  ASSUME IInv, NEW p \in Callers, NEW r \in BOOLEAN, RequestNew(p, r)
  PROVE  IInv'
<1> USE SyncsAreNotCallers DEF RequestNew, Goto, data, Procs
<1>1. Types'
  BY Typed DEF Types, TypeOK, Steps
<1>2. Frame(p) /\ Grow
  BY Typed DEF Frame, Grow
<1>3. ProcOK(p)'
  BY Typed, NoneIsNoDraft DEF ProcOK, ProcInv
<1>4. ProcInv'
  BY <1>1, <1>2, <1>3, ProcKeeps
<1>5. SyncInv'
  BY <1>2, CallerSync, Typed
<1>6. ReplyInv'
  <2> SUFFICES ASSUME NEW e \in isReply \ excused, gmail[e] # None PROVE ReplyOK(e)'
    BY DEF ReplyInv
  <2>1. e \in Ids /\ ReplyOK(e)
    BY Typed DEF ReplyInv, Types
  <2>2. draft'[p] = None /\ e # None
    BY <2>1, Typed, NoneIsNoDraft DEF ProcInv, ProcOK
  <2> QED BY <2>1, <2>2, <1>2, CallerReply DEF ReplyOK
<1>7. ReplyKept'
  BY Typed DEF ReplyKept
<1> QED BY <1>1, <1>4, <1>5, <1>6, <1>7 DEF IInv

LEMMA OpenKeeps ==
  ASSUME IInv, NEW p \in Callers, OpenAtGmail(p)
  PROVE  IInv'
<1> USE SyncsAreNotCallers DEF OpenAtGmail, data, bounds, Procs
<1>0. draft[p] \in Ids
  BY Typed DEF ProcInv, ProcOK
<1>1. \/ Done(p)
      \/ /\ gmail[draft[p]] # None
         /\ text' = [text EXCEPT ![p] = gmail[draft[p]].text] /\ at' = [at EXCEPT ![p] = "mirror"]
         /\ UNCHANGED <<op, draft, reply, todo, seen>>
  BY DEF Goto
<1>2. /\ at' \in [Procs -> Steps] /\ op' \in [Callers -> {"open", "save", "send", "remove", None}]
      /\ draft' \in [Procs -> Ids \cup {None}] /\ reply' \in [Procs -> BOOLEAN]
      /\ text' \in [Procs -> 0 .. MaxEdits] /\ todo' = todo /\ seen' = seen
      /\ Frame(p) /\ ProcOK(p)'
  <2>1. CASE Done(p)
    BY <2>1, DoneFacts, DoneProc
  <2>2. CASE ~ Done(p)
    <3>1. gmail[draft[p]].text \in 1 .. MaxEdits /\ gmail[draft[p]].text <= edits[draft[p]]
          /\ edits[draft[p]] > 0
      BY <1>0, <1>1, <2>2, Typed DEF Draft, Types
    <3>2. at'[p] = "mirror" /\ draft'[p] = draft[p] /\ text'[p] = gmail[draft[p]].text /\ edits' = edits
      BY <1>1, <2>2, Typed
    <3>3. ProcOK(p)'
      BY <1>0, <3>1, <3>2, NoneIsNoDraft DEF ProcOK
    <3> QED BY <1>1, <2>2, <3>1, <3>3, Typed DEF Steps, Frame
  <2> QED BY <2>1, <2>2
<1>3. Types'
  BY <1>2, Typed DEF Types, TypeOK
<1>4. Grow
  BY Typed DEF Grow
<1>5. ProcInv'
  BY <1>2, <1>3, <1>4, ProcKeeps
<1>6. SyncInv'
  BY <1>2, <1>4, CallerSync, Typed DEF Frame
<1>7. ReplyInv'
  <2> SUFFICES ASSUME NEW e \in isReply \ excused, gmail[e] # None PROVE ReplyOK(e)'
    BY DEF ReplyInv
  <2>1. e \in Ids /\ ReplyOK(e) /\ e # None
    BY Typed, NoneIsNoDraft DEF ReplyInv, Types
  <2>2. ~ (draft'[p] = e /\ op'[p] \in {"save", "send"})
    BY <1>1, <2>1, DoneFacts
  <2> QED BY <2>1, <2>2, <1>2, CallerReply DEF ReplyOK
<1>8. ReplyKept'
  BY Typed DEF ReplyKept
<1> QED BY <1>3, <1>5, <1>6, <1>7, <1>8 DEF IInv

LEMMA MirrorOwnKeeps ==
  ASSUME IInv, NEW p \in Callers, MirrorOwn(p)
  PROVE  IInv'
<1> USE SyncsAreNotCallers DEF MirrorOwn, bounds, Procs
<1>0. /\ draft[p] \in Ids
      /\ rows' \in [Ids -> Draft \cup {None}] /\ touched' \in [Syncs -> SUBSET Ids]
      /\ \A d \in Ids : rows'[d] # None => rows'[d].text <= edits'[d]
      /\ \A r \in Syncs : /\ touched[r] \subseteq touched'[r]
                          /\ \A d \in Ids \ touched'[r] : rows'[d] # None => rows[d] # None
      /\ \A d \in Ids : rows[d] # None /\ rows[d].reply => rows'[d] # None /\ rows'[d].reply
      /\ reply[p] => rows'[draft[p]] # None /\ rows'[draft[p]].reply
  <2>1. reply[p] \in BOOLEAN /\ at[p] = "mirror" /\ Mirror(draft[p], text[p], reply[p]) /\ edits' = edits
    BY Typed
  <2> QED BY <2>1, MirrorFacts
<1>1. Types'
  BY <1>0, Typed, DoneFacts DEF Types, TypeOK
<1>2. Frame(p) /\ Grow /\ ProcOK(p)'
  BY Typed, DoneFacts, DoneProc DEF Grow
<1>3. ProcInv'
  BY <1>1, <1>2, ProcKeeps
<1>4. SyncInv'
  BY <1>0, <1>2, DoneFacts, CallerSync, Typed DEF Frame
<1>5. ReplyInv'
  <2> SUFFICES ASSUME NEW e \in isReply \ excused, gmail[e] # None PROVE ReplyOK(e)'
    BY DEF ReplyInv
  <2>1. e \in Ids /\ ReplyOK(e) /\ e # None
    BY Typed, NoneIsNoDraft DEF ReplyInv, Types
  <2>2. draft'[p] # e
    BY <2>1, DoneFacts
  <2> QED BY <1>0, <2>1, <2>2, <1>2, CallerReply DEF ReplyOK
<1>6. ReplyKept'
  BY Typed DEF ReplyKept
<1> QED BY <1>1, <1>3, <1>4, <1>5, <1>6 DEF IInv

LEMMA DeleteRowKeeps ==
  ASSUME IInv, NEW p \in Callers, DeleteRow(p)
  PROVE  IInv'
<1> USE SyncsAreNotCallers DEF DeleteRow, bounds, Procs
<1>0. draft[p] \in Ids /\ (gmail[draft[p]] = None \/ draft[p] \in excused)
  BY Typed DEF ProcInv, ProcOK
<1>1. rows' = [rows EXCEPT ![draft[p]] = None] /\ Done(p) /\ at[p] = "row"
  OBVIOUS
<1>2. Types'
  BY <1>0, <1>1, Typed, DoneFacts DEF Types, TypeOK
<1>3. Frame(p) /\ Grow /\ ProcOK(p)'
  BY Typed, DoneFacts, DoneProc DEF Grow
<1>4. ProcInv'
  BY <1>2, <1>3, ProcKeeps
<1>5. SyncInv'
  <2>1. \A d \in Ids : rows'[d] # None => rows[d] # None
    BY <1>0, <1>1, Typed
  <2> QED BY <1>3, <2>1, DoneFacts, CallerSync, Typed DEF Frame
<1>6. ReplyInv'
  <2> SUFFICES ASSUME NEW e \in isReply \ excused, gmail[e] # None PROVE ReplyOK(e)'
    BY DEF ReplyInv
  <2>1. e \in Ids /\ ReplyOK(e) /\ e # None
    BY Typed, NoneIsNoDraft DEF ReplyInv, Types
  <2>2. draft'[p] # e /\ rows'[e] = rows[e]
    BY <1>0, <1>1, <2>1, DoneFacts, Typed
  <2> QED BY <1>1, <2>1, <2>2, <1>3, CallerReply DEF ReplyOK
<1>7. ReplyKept'
  BY Typed DEF ReplyKept
<1> QED BY <1>2, <1>4, <1>5, <1>6, <1>7 DEF IInv

-----------------------------------------------------------------------------
\* The steps that write at Gmail.
LEMMA WriteFacts ==
  ASSUME IInv, NEW d \in Ids, NEW r \in BOOLEAN, WriteAtGmail(d, r), edits[d] = 0 \/ gmail[d] # None
  PROVE  /\ edits' \in [Ids -> 0 .. MaxEdits] /\ gmail' \in [Ids -> Draft \cup {None}]
         /\ edits'[d] = edits[d] + 1 /\ edits'[d] \in 1 .. MaxEdits
         /\ gmail'[d] # None /\ gmail'[d].reply = r /\ gmail'[d].text = edits'[d]
         /\ \A e \in Ids \ {d} : gmail'[e] = gmail[e] /\ edits'[e] = edits[e]
         /\ \A e \in Ids : edits[e] <= edits'[e]
         /\ \A e \in Ids : edits[e] > 0 /\ gmail[e] = None => gmail'[e] = None
         /\ \A e \in Ids : gmail'[e] # None => edits'[e] > 0 /\ gmail'[e].text <= edits'[e]
<1> DEFINE new == [text |-> edits[d] + 1, reply |-> r]
<1>1. edits[d] \in Nat /\ edits[d] + 1 \in 1 .. MaxEdits
  BY Typed DEF WriteAtGmail
<1>2. new \in Draft /\ new # None /\ new.reply = r /\ new.text = edits[d] + 1
  BY <1>1, NoneIsNoDraft DEF Draft
<1>3. edits' = [edits EXCEPT ![d] = edits[d] + 1] /\ gmail' = [gmail EXCEPT ![d] = new]
  BY DEF WriteAtGmail
<1> HIDE DEF new
<1>4. /\ edits'[d] = edits[d] + 1 /\ gmail'[d] = new
      /\ \A e \in Ids \ {d} : gmail'[e] = gmail[e] /\ edits'[e] = edits[e]
      /\ edits' \in [Ids -> 0 .. MaxEdits] /\ gmail' \in [Ids -> Draft \cup {None}]
  BY <1>1, <1>2, <1>3, Typed
<1>5. \A e \in Ids : edits[e] <= edits'[e]
  BY <1>1, <1>4, Typed
<1>6. \A e \in Ids : edits[e] > 0 /\ gmail[e] = None => gmail'[e] = None
  BY <1>1, <1>4, Typed
<1>7. \A e \in Ids : gmail'[e] # None => edits'[e] > 0 /\ gmail'[e].text <= edits'[e]
  BY <1>1, <1>2, <1>4, Typed DEF Types
<1> QED BY <1>1, <1>2, <1>4, <1>5, <1>6, <1>7

\* A write at Gmail keeps the types when what p holds afterwards is well typed.
LEMMA WriteTypes ==
  ASSUME IInv, NEW d \in Ids, NEW r \in BOOLEAN, WriteAtGmail(d, r), edits[d] = 0 \/ gmail[d] # None,
         at' \in [Procs -> Steps], op' \in [Callers -> {"open", "save", "send", "remove", None}],
         draft' \in [Procs -> Ids \cup {None}], reply' \in [Procs -> BOOLEAN],
         text' \in [Procs -> 0 .. MaxEdits],
         isReply \subseteq isReply', isReply' \subseteq isReply \cup {d}, orphans' = orphans,
         UNCHANGED <<rows, sent, todo, seen, touched>>
  PROVE  Types'
<1> USE WriteFacts
<1>1. \A e \in Ids : rows[e] # None => rows[e].text <= edits'[e]
  <2> SUFFICES ASSUME NEW e \in Ids, rows[e] # None PROVE rows[e].text <= edits'[e]
    OBVIOUS
  <2>1. rows[e].text <= edits[e] /\ rows[e].text \in Nat /\ edits[e] \in Nat /\ edits'[e] \in Nat
    BY Typed DEF TypeOK, Draft
  <2> QED BY <2>1
<1>2. \A e \in Ids : edits[e] > 0 => edits'[e] > 0
  <2> SUFFICES ASSUME NEW e \in Ids, edits[e] > 0 PROVE edits'[e] > 0
    OBVIOUS
  <2>1. edits[e] \in Nat /\ edits'[e] \in Nat /\ edits[e] <= edits'[e]
    BY Typed
  <2> QED BY <2>1
<1>3. isReply' \subseteq {e \in Ids : edits'[e] > 0}
  BY <1>2, Typed DEF Types
<1>4. \A x \in sent : edits'[x.id] > 0
  BY <1>2, Typed DEF Types, TypeOK
<1>5. TypeOK'
  BY <1>1, Typed DEF TypeOK
<1> QED BY <1>3, <1>4, <1>5, Typed DEF Types

LEMMA SaveKeeps ==
  ASSUME IInv, NEW p \in Callers, NEW d \in Ids, SaveAtGmail(p, d)
  PROVE  IInv'
<1> USE SyncsAreNotCallers DEF SaveAtGmail, Procs
<1>1. CASE draft[p] # None /\ gmail[d] = None
  <2>1. Done(p) /\ UNCHANGED <<gmail, edits, rows, sent, touched, isReply, excused>>
    BY <1>1
  <2>2. Types'
    BY <2>1, Typed, DoneFacts DEF Types, TypeOK
  <2>3. Frame(p) /\ Grow /\ ProcOK(p)'
    BY <2>1, Typed, DoneFacts, DoneProc DEF Grow
  <2>4. ProcInv'
    BY <2>2, <2>3, ProcKeeps
  <2>5. SyncInv'
    BY <2>1, <2>3, DoneFacts, CallerSync, Typed DEF Frame
  <2>6. ReplyInv'
    <3> SUFFICES ASSUME NEW e \in isReply \ excused, gmail[e] # None PROVE ReplyOK(e)'
      BY <2>1 DEF ReplyInv
    <3>1. e \in Ids /\ ReplyOK(e) /\ e # None
      BY Typed, NoneIsNoDraft DEF ReplyInv, Types
    <3>2. draft'[p] # e
      BY <2>1, <3>1, DoneFacts
    <3> QED BY <2>1, <3>1, <3>2, <2>3, CallerReply DEF ReplyOK
  <2>7. ReplyKept'
    BY <2>1, Typed DEF ReplyKept
  <2> QED BY <2>2, <2>4, <2>5, <2>6, <2>7 DEF IInv
<1>2. CASE ~ (draft[p] # None /\ gmail[d] = None)
  <2>1. /\ WriteAtGmail(d, reply[p]) /\ reply[p] \in BOOLEAN /\ (edits[d] = 0 \/ gmail[d] # None)
        /\ op[p] = "save" /\ at[p] = "gmail" /\ (draft[p] = None => edits[d] = 0) /\ draft[p] \in {None, d}
        /\ isReply' = IF draft[p] = None /\ reply[p] THEN isReply \cup {d} ELSE isReply
        /\ UNCHANGED <<rows, sent, touched>>
    BY <1>2, Typed
  <2>2. \/ /\ at' = [at EXCEPT ![p] = "mirror"] /\ draft' = [draft EXCEPT ![p] = d]
           /\ text' = [text EXCEPT ![p] = edits'[d]] /\ excused' = excused
           /\ UNCHANGED <<op, reply, todo, seen>>
        \/ excused' = excused \cup {d} /\ Done(p)
    BY <1>2 DEF Goto
  <2>3. /\ edits'[d] \in 1 .. MaxEdits
        /\ gmail'[d] # None /\ gmail'[d].reply = reply[p] /\ gmail'[d].text = edits'[d]
        /\ \A e \in Ids \ {d} : gmail'[e] = gmail[e] /\ edits'[e] = edits[e]
        /\ Grow
    BY <2>1, <2>2, WriteFacts DEF Grow
  <2>4. /\ at' \in [Procs -> Steps] /\ op' \in [Callers -> {"open", "save", "send", "remove", None}]
        /\ draft' \in [Procs -> Ids \cup {None}] /\ reply' \in [Procs -> BOOLEAN]
        /\ text' \in [Procs -> 0 .. MaxEdits] /\ todo' = todo /\ seen' = seen
        /\ Frame(p) /\ ProcOK(p)'
    <3>1. CASE Done(p)
      BY <3>1, DoneFacts, DoneProc
    <3>2. CASE ~ Done(p)
      <4>1. at'[p] = "mirror" /\ draft'[p] = d /\ text'[p] = edits'[d]
        BY <2>2, <3>2, Typed
      <4>2. ProcOK(p)'
        BY <4>1, <2>3, NoneIsNoDraft DEF ProcOK
      <4> QED BY <2>2, <2>3, <3>2, <4>2, Typed DEF Steps, Frame
    <3> QED BY <3>1, <3>2
  <2>5. Types'
    BY <2>1, <2>4, WriteTypes
  <2>6. ProcInv'
    BY <2>3, <2>4, <2>5, ProcKeeps
  <2>7. SyncInv'
    BY <2>1, <2>3, <2>4, CallerSync, Typed DEF Frame
  <2>8. ReplyInv'
    <3> SUFFICES ASSUME NEW e \in isReply' \ excused', gmail'[e] # None PROVE ReplyOK(e)'
      BY DEF ReplyInv
    <3>0. e \in Ids /\ e # None /\ excused \subseteq excused'
      BY <2>1, <2>2, Typed, NoneIsNoDraft DEF Types
    <3>1. CASE e # d
      <4>1. e \in isReply \ excused /\ gmail[e] # None /\ gmail'[e] = gmail[e]
        BY <3>0, <3>1, <2>1, <2>3
      <4>2. ReplyOK(e)
        BY <4>1, Typed DEF ReplyInv
      <4>3. draft'[p] # e
        BY <3>0, <3>1, <2>2, Typed, DoneFacts
      <4> QED BY <3>0, <4>1, <4>2, <4>3, <2>1, <2>4, CallerReply DEF ReplyOK
    <3>2. CASE e = d
      <4>1. /\ at' = [at EXCEPT ![p] = "mirror"] /\ draft' = [draft EXCEPT ![p] = d]
            /\ UNCHANGED <<op, reply>> /\ excused' = excused
        BY <2>2, <3>2
      <4>2. CASE draft[p] # None
        <5>1. d \in isReply \ excused /\ gmail[d] # None /\ draft[p] = d
          BY <2>1, <1>2, <3>2, <4>1, <4>2
        <5>2. ReplyOK(d)
          BY <5>1, Typed DEF ReplyInv
        <5>3. reply[p]
          BY <5>1, <5>2, <2>1 DEF ReplyOK
        <5> QED BY <5>2, <5>3, <3>2, <4>1, <2>1, <2>3, <2>4, CallerReply
      <4>3. CASE draft[p] = None
        <5>1. edits[d] = 0 /\ d \notin isReply
          BY <2>1, <4>3, Typed DEF Types
        <5>2. reply[p]
          BY <5>1, <2>1, <3>2
        <5>3. Creating(d)'
          BY <4>1, <5>2, <2>1, Typed DEF Creating
        <5>4. \A q \in Callers \ {p} : draft'[q] # d
          <6> SUFFICES ASSUME NEW q \in Callers \ {p} PROVE draft[q] # d
            BY <2>4 DEF Frame
          <6> QED BY <5>1, <3>0, <3>2, Typed DEF ProcInv, ProcOK
        <5>5. reply'[p]
          BY <4>1, <5>2
        <5> QED BY <5>2, <5>3, <5>4, <5>5, <2>3, <3>2 DEF ReplyOK
      <4> QED BY <4>2, <4>3
    <3> QED BY <3>1, <3>2
  <2>9. ReplyKept'
    <3> SUFFICES ASSUME NEW x \in sent, x.id \in isReply' \ excused' PROVE x.reply
      BY <2>1 DEF ReplyKept
    <3>1. edits[x.id] > 0
      BY Typed DEF Types
    <3>2. x.id \in isReply \ excused
      BY <3>1, <2>1, <2>2
    <3> QED BY <3>2, Typed DEF ReplyKept
  <2> QED BY <2>5, <2>6, <2>7, <2>8, <2>9 DEF IInv
<1> QED BY <1>1, <1>2

LEMMA SendTextKeeps ==
  ASSUME IInv, NEW p \in Callers, SendText(p)
  PROVE  IInv'
<1> USE SyncsAreNotCallers DEF SendText, bounds, Procs
<1>0. draft[p] \in Ids /\ draft[p] # None
  BY Typed, NoneIsNoDraft DEF ProcInv, ProcOK
<1>1. CASE gmail[draft[p]] = None
  <2>1. Done(p) /\ UNCHANGED <<gmail, edits>>
    BY <1>1
  <2>2. Types'
    BY <2>1, Typed, DoneFacts DEF Types, TypeOK
  <2>3. Frame(p) /\ Grow /\ ProcOK(p)'
    BY <2>1, Typed, DoneFacts, DoneProc DEF Grow
  <2>4. ProcInv'
    BY <2>2, <2>3, ProcKeeps
  <2>5. SyncInv'
    BY <2>3, DoneFacts, CallerSync, Typed, <2>1 DEF Frame
  <2>6. ReplyInv'
    <3> SUFFICES ASSUME NEW e \in isReply \ excused, gmail[e] # None PROVE ReplyOK(e)'
      BY <2>1 DEF ReplyInv
    <3>1. e \in Ids /\ ReplyOK(e) /\ e # None
      BY Typed, NoneIsNoDraft DEF ReplyInv, Types
    <3>2. draft'[p] # e
      BY <2>1, <3>1, DoneFacts
    <3> QED BY <2>1, <3>1, <3>2, <2>3, CallerReply DEF ReplyOK
  <2>7. ReplyKept'
    BY Typed DEF ReplyKept
  <2> QED BY <2>2, <2>4, <2>5, <2>6, <2>7 DEF IInv
<1>2. CASE gmail[draft[p]] # None
  <2> DEFINE d == draft[p]
  <2>1. /\ WriteAtGmail(d, reply[p]) /\ reply[p] \in BOOLEAN /\ op[p] = "send" /\ at[p] = "gmail"
        /\ at' = [at EXCEPT ![p] = "send"] /\ UNCHANGED <<op, draft, reply, text, todo, seen>>
    BY <1>2, Typed DEF Goto
  <2>2. /\ edits'[d] \in 1 .. MaxEdits /\ edits'[d] = edits[d] + 1
        /\ gmail'[d] # None /\ gmail'[d].reply = reply[p]
        /\ \A e \in Ids \ {d} : gmail'[e] = gmail[e] /\ edits'[e] = edits[e]
        /\ Grow
    BY <1>0, <1>2, <2>1, WriteFacts DEF Grow
  <2>3. at' \in [Procs -> Steps] /\ Frame(p)
    BY <2>1, Typed DEF Steps, Frame
  <2>4. Types'
    BY <1>0, <1>2, <2>1, <2>3, WriteTypes, Typed
  <2>5. ProcOK(p)'
    <3>1. at'[p] = "send" /\ ProcOK(p) /\ edits[d] \in Nat /\ text[p] \in Nat
      BY <1>0, <2>1, Typed DEF ProcInv
    <3> QED BY <1>0, <2>1, <2>2, <3>1 DEF ProcOK
  <2>6. ProcInv'
    BY <2>2, <2>3, <2>4, <2>5, ProcKeeps
  <2>7. SyncInv'
    BY <2>1, <2>2, <2>3, CallerSync, Typed DEF Frame
  <2>8. ReplyInv'
    <3> SUFFICES ASSUME NEW e \in isReply \ excused, gmail'[e] # None PROVE ReplyOK(e)'
      BY DEF ReplyInv
    <3>1. e \in Ids /\ gmail[e] # None
      BY <1>2, <2>2, Typed DEF Types
    <3>2. ReplyOK(e)
      BY <3>1, Typed DEF ReplyInv
    <3>3. gmail'[e].reply /\ (draft'[p] = e => reply'[p])
      BY <2>1, <2>2, <3>1, <3>2 DEF ReplyOK
    <3> QED BY <3>1, <3>2, <3>3, <2>1, <2>3, CallerReply
  <2>9. ReplyKept'
    BY Typed DEF ReplyKept
  <2> QED BY <2>4, <2>6, <2>7, <2>8, <2>9 DEF IInv
<1> QED BY <1>1, <1>2

LEMMA SendKeeps ==
  ASSUME IInv, NEW p \in Callers, Send(p)
  PROVE  IInv'
<1> USE SyncsAreNotCallers DEF Send, Procs
<1>0. draft[p] \in Ids /\ draft[p] # None /\ edits[draft[p]] > 0
  BY Typed, NoneIsNoDraft DEF ProcInv, ProcOK
<1>1. /\ gmail' = [gmail EXCEPT ![draft[p]] = None]
      /\ sent' = sent \/ /\ gmail[draft[p]] # None
                         /\ sent' = sent \cup {[id |-> draft[p], reply |-> gmail[draft[p]].reply]}
      /\ Done(p) \/ (at' = [at EXCEPT ![p] = "row"] /\ UNCHANGED <<op, draft, reply, text, todo, seen>>)
  <2>1. gmail' = [gmail EXCEPT ![draft[p]] = None]
    <3>1. CASE gmail[draft[p]] = None
      BY <3>1, <1>0, Typed
    <3>2. CASE gmail[draft[p]] # None
      BY <3>2
    <3> QED BY <3>1, <3>2
  <2>2. ASSUME gmail[draft[p]] # None
        PROVE  /\ sent' = sent \cup {[id |-> draft[p], reply |-> gmail[draft[p]].reply]}
               /\ Done(p) \/ (at' = [at EXCEPT ![p] = "row"] /\ UNCHANGED <<op, draft, reply, text, todo, seen>>)
    BY <2>2 DEF Goto
  <2>3. ASSUME gmail[draft[p]] = None PROVE sent' = sent /\ Done(p)
    BY <2>3
  <2> QED BY <2>1, <2>2, <2>3
<1>2. /\ at' \in [Procs -> Steps] /\ op' \in [Callers -> {"open", "save", "send", "remove", None}]
      /\ draft' \in [Procs -> Ids \cup {None}] /\ reply' \in [Procs -> BOOLEAN]
      /\ text' \in [Procs -> 0 .. MaxEdits] /\ todo' = todo /\ seen' = seen
      /\ Frame(p) /\ draft'[p] \in {None, draft[p]}
  <2>1. CASE Done(p)
    BY <2>1, DoneFacts
  <2>2. CASE ~ Done(p)
    BY <2>2, <1>1, Typed DEF Steps, Frame
  <2> QED BY <2>1, <2>2
<1>3. Types'
  <2>1. gmail' \in [Ids -> Draft \cup {None}] /\ \A e \in Ids : gmail'[e] # None => gmail'[e] = gmail[e]
    BY <1>1, Typed
  <2>2. sent' \subseteq [id : Ids, reply : BOOLEAN] /\ \A x \in sent' : edits[x.id] > 0
    <3>1. gmail[draft[p]] # None => gmail[draft[p]].reply \in BOOLEAN
      BY <1>0, Typed DEF Draft
    <3> QED BY <1>0, <1>1, <3>1, Typed DEF Types, TypeOK
  <2> QED BY <1>2, <2>1, <2>2, Typed DEF Types, TypeOK
<1>4. Grow
  BY <1>1, Typed DEF Grow
<1>5. ProcOK(p)'
  <2>1. CASE Done(p)
    BY <2>1, DoneFacts, DoneProc
  <2>2. CASE ~ Done(p)
    <3>1. /\ at'[p] = "row" /\ draft'[p] = draft[p] /\ gmail'[draft[p]] = None /\ text'[p] = text[p]
          /\ edits' = edits /\ ProcOK(p)
      BY <1>0, <1>1, <2>2, Typed DEF ProcInv
    <3> QED BY <1>0, <3>1 DEF ProcOK
  <2> QED BY <2>1, <2>2
<1>6. ProcInv'
  BY <1>2, <1>3, <1>4, <1>5, ProcKeeps
<1>7. SyncInv'
  BY <1>2, <1>4, CallerSync, Typed DEF Frame
<1>8. ReplyInv'
  <2> SUFFICES ASSUME NEW e \in isReply \ excused, gmail'[e] # None PROVE ReplyOK(e)'
    BY DEF ReplyInv
  <2>1. e \in Ids /\ e # None /\ e # draft[p] /\ gmail'[e] = gmail[e]
    BY <1>0, <1>1, Typed, NoneIsNoDraft DEF Types
  <2>2. ReplyOK(e) /\ draft'[p] # e
    BY <1>2, <2>1, Typed DEF ReplyInv
  <2> QED BY <2>1, <2>2, <1>2, CallerReply DEF ReplyOK
<1>9. ReplyKept'
  <2> SUFFICES ASSUME NEW x \in sent', x.id \in isReply \ excused PROVE x.reply
    BY DEF ReplyKept
  <2>1. CASE x \in sent
    BY <2>1, Typed DEF ReplyKept
  <2>2. CASE x \notin sent
    <3>1. gmail[draft[p]] # None /\ x.id = draft[p] /\ x.reply = gmail[draft[p]].reply
      BY <1>1, <2>2
    <3> QED BY <3>1, Typed DEF ReplyInv, ReplyOK
  <2> QED BY <2>1, <2>2
<1> QED BY <1>3, <1>6, <1>7, <1>8, <1>9 DEF IInv

LEMMA RemoveKeeps ==
  ASSUME IInv, NEW p \in Callers, RemoveAtGmail(p)
  PROVE  IInv'
<1> USE SyncsAreNotCallers DEF RemoveAtGmail, Goto, Procs
<1>0. draft[p] \in Ids /\ draft[p] # None /\ op[p] = "remove"
  BY Typed, NoneIsNoDraft DEF ProcInv, ProcOK
<1>1. \/ gmail' = [gmail EXCEPT ![draft[p]] = None] /\ excused' = excused
      \/ gmail' = gmail /\ excused' = excused \cup {draft[p]}
  OBVIOUS
<1>2. /\ gmail' \in [Ids -> Draft \cup {None}]
      /\ \A e \in Ids : gmail'[e] # None => gmail'[e] = gmail[e]
      /\ gmail'[draft[p]] = None \/ draft[p] \in excused'
  BY <1>0, <1>1, Typed
<1>3. Types'
  BY <1>2, Typed DEF Types, TypeOK, Steps
<1>4. Frame(p) /\ Grow
  BY <1>1, <1>2, Typed DEF Frame, Grow
<1>5. ProcOK(p)'
  <2>1. at'[p] = "row" /\ ProcOK(p)
    BY Typed DEF ProcInv
  <2> QED BY <1>0, <1>2, <2>1 DEF ProcOK
<1>6. ProcInv'
  BY <1>3, <1>4, <1>5, ProcKeeps
<1>7. SyncInv'
  BY <1>4, CallerSync, Typed
<1>8. ReplyInv'
  <2> SUFFICES ASSUME NEW e \in isReply \ excused', gmail'[e] # None PROVE ReplyOK(e)'
    BY DEF ReplyInv
  <2>1. e \in Ids /\ gmail'[e] = gmail[e] /\ e \in isReply \ excused
    BY <1>1, <1>2, Typed DEF Types
  <2>2. ReplyOK(e)
    BY <2>1, Typed DEF ReplyInv
  <2>3. op'[p] = "remove" /\ at[p] = "gmail"
    BY <1>0
  <2> QED BY <2>1, <2>2, <2>3, <1>4, CallerReply DEF ReplyOK
<1>9. ReplyKept'
  BY <1>1, Typed DEF ReplyKept
<1> QED BY <1>3, <1>6, <1>7, <1>8, <1>9 DEF IInv

-----------------------------------------------------------------------------
\* What happens outside, and a restart.
LEMMA InGmailKeeps ==
  ASSUME IInv, NEW d \in Ids, InGmail(d)
  PROVE  IInv'
<1> USE DEF InGmail, procVars
<1>0. /\ UNCHANGED <<at, op, draft, reply, text, todo, seen, rows, sent, touched, isReply, excused>>
      /\ \/ edits[d] = 0 /\ WriteAtGmail(d, FALSE)
         \/ gmail[d] # None /\ WriteAtGmail(d, gmail[d].reply)
         \/ gmail' = [gmail EXCEPT ![d] = None] /\ edits' = edits
  OBVIOUS
<1>1. /\ Types' /\ Grow
      /\ \A e \in Ids : gmail'[e] = gmail[e] \/ gmail'[e] = None \/ edits[e] = 0
                          \/ (gmail[e] # None /\ gmail'[e].reply = gmail[e].reply)
  <2>1. CASE edits[d] = 0 /\ WriteAtGmail(d, FALSE)
    <3>1. Types'
      BY <1>0, <2>1, WriteTypes, Typed
    <3>2. Grow
      BY <1>0, <2>1, WriteFacts DEF Grow
    <3>3. \A e \in Ids : gmail'[e] = gmail[e] \/ edits[e] = 0
      BY <2>1, WriteFacts
    <3> QED BY <3>1, <3>2, <3>3
  <2>2. CASE gmail[d] # None /\ WriteAtGmail(d, gmail[d].reply)
    <3>1. gmail[d].reply \in BOOLEAN
      BY <2>2, Typed DEF Draft
    <3>2. Types'
      BY <1>0, <2>2, <3>1, WriteTypes, Typed
    <3> QED BY <1>0, <2>2, <3>1, <3>2, WriteFacts DEF Grow
  <2>3. CASE gmail' = [gmail EXCEPT ![d] = None] /\ edits' = edits
    <3>1. gmail' \in [Ids -> Draft \cup {None}] /\ \A e \in Ids : gmail'[e] = gmail[e] \/ gmail'[e] = None
      BY <2>3, Typed
    <3>2. Types'
      BY <1>0, <2>3, <3>1, Typed DEF Types, TypeOK
    <3>3. Grow
      BY <1>0, <2>3, <3>1, Typed DEF Grow
    <3> QED BY <3>1, <3>2, <3>3
  <2> QED BY <1>0, <2>1, <2>2, <2>3
<1>2. ProcInv'
  <2> SUFFICES ASSUME NEW q \in Procs PROVE ProcOK(q)'
    BY DEF ProcInv
  <2>1. ProcOK(q) /\ draft[q] \in Ids \cup {None} /\ text[q] \in Nat
    BY Typed DEF ProcInv
  <2>2. draft[q] # None => /\ edits[draft[q]] \in Nat /\ edits'[draft[q]] \in Nat
                           /\ edits[draft[q]] <= edits'[draft[q]]
                           /\ edits[draft[q]] > 0 /\ gmail[draft[q]] = None => gmail'[draft[q]] = None
    BY <1>1, <2>1, Typed DEF Types, TypeOK, Grow
  <2> QED BY <1>0, <2>1, <2>2 DEF ProcOK
<1>3. SyncInv'
  BY <1>0, <1>1, CallerSync
<1>4. ReplyInv'
  <2> SUFFICES ASSUME NEW e \in isReply \ excused, gmail'[e] # None PROVE ReplyOK(e)'
    BY <1>0 DEF ReplyInv
  <2>1. e \in Ids /\ edits[e] > 0
    BY Typed DEF Types
  <2>2. gmail[e] # None /\ gmail'[e].reply = gmail[e].reply
    BY <1>1, <2>1 DEF Grow
  <2>3. ReplyOK(e)
    BY <2>2, Typed DEF ReplyInv
  <2> QED BY <1>0, <2>2, <2>3 DEF ReplyOK, Creating
<1>5. ReplyKept'
  BY <1>0, Typed DEF ReplyKept
<1> QED BY <1>1, <1>2, <1>3, <1>4, <1>5 DEF IInv

LEMMA OriginalGoneKeeps ==
  ASSUME IInv, NEW d \in Ids, OriginalGone(d)
  PROVE  IInv'
<1> USE DEF OriginalGone, data, procVars
<1>1. Types'
  BY Typed DEF Types, TypeOK
<1>2. ProcInv' /\ SyncInv'
  BY Typed DEF ProcInv, ProcOK, SyncInv, SyncOK
<1>3. ReplyInv' /\ ReplyKept'
  BY Typed DEF ReplyInv, ReplyOK, Creating, ReplyKept
<1> QED BY <1>1, <1>2, <1>3 DEF IInv

LEMMA CrashKeeps ==
  ASSUME IInv, Crash
  PROVE  IInv'
<1> USE SyncsAreNotCallers DEF Crash, data, Procs
<1>1. Types'
  BY Typed DEF Types, TypeOK, Steps
<1>2. ProcInv'
  BY NoneIsNoDraft DEF ProcInv, ProcOK
<1>3. SyncInv'
  BY DEF SyncInv, SyncOK
<1>4. ReplyInv'
  <2> SUFFICES ASSUME NEW e \in isReply \ excused', gmail[e] # None PROVE ReplyOK(e)'
    BY DEF ReplyInv
  <2>1. e \in isReply \ excused /\ e # None
    BY Typed, NoneIsNoDraft DEF Types
  <2>2. ReplyOK(e) /\ ~ Creating(e)
    BY <2>1, Typed DEF ReplyInv, Creating, Unrecorded, Types
  <2> QED BY <2>1, <2>2 DEF ReplyOK
<1>5. ReplyKept'
  BY Typed DEF ReplyKept
<1> QED BY <1>1, <1>2, <1>3, <1>4, <1>5 DEF IInv

-----------------------------------------------------------------------------
LEMMA NextIInv == IInv /\ [Next]_vars => IInv'
<1> SUFFICES ASSUME IInv, [Next]_vars PROVE IInv'
  OBVIOUS
<1>1. ASSUME NEW s \in Syncs, SyncStep(s) PROVE IInv'
  BY <1>1, StartSyncKeeps, ListKeeps, MirrorFetchedKeeps, PruneKeeps, NextDraftKeeps DEF SyncStep
<1>2. ASSUME NEW p \in Callers, CallerStep(p) PROVE IInv'
  BY <1>2, OpenKeeps, MirrorOwnKeeps, SendTextKeeps, SendKeeps, RemoveKeeps, DeleteRowKeeps, SaveKeeps
  DEF CallerStep
<1>3. ASSUME NEW p \in Callers, NEW r \in BOOLEAN, RequestNew(p, r) PROVE IInv'
  BY <1>3, RequestNewKeeps
<1>4. ASSUME NEW p \in Callers, NEW o \in {"open", "save", "send", "remove"}, NEW d \in Ids,
             NEW told \in BOOLEAN, Request(p, o, d, told)
      PROVE  IInv'
  BY <1>4, RequestKeeps
<1>5. ASSUME NEW d \in Ids, InGmail(d) PROVE IInv'
  BY <1>5, InGmailKeeps
<1>6. ASSUME NEW d \in Ids, OriginalGone(d) PROVE IInv'
  BY <1>6, OriginalGoneKeeps
<1>7. CASE Crash
  BY <1>7, CrashKeeps
<1>8. CASE UNCHANGED vars
  BY <1>8, Typed DEF vars, data, procVars, bounds, IInv, Types, TypeOK, ProcInv, ProcOK, SyncInv, SyncOK,
     ReplyInv, ReplyOK, Creating, ReplyKept
<1> QED BY <1>1, <1>2, <1>3, <1>4, <1>5, <1>6, <1>7, <1>8 DEF Next

\* Every reachable state satisfies the invariant.
LEMMA Invariance == Spec => []IInv
BY InitIInv, NextIInv, PTL DEF Spec

\* The rows, drafts, requests and syncs of draftService keep their types, a sync
\* has to look only at drafts it listed, and the mirror never has a text Gmail did
\* not give it.
THEOREM TypeCorrect == Spec => []TypeOK
<1>1. IInv => TypeOK
  BY Typed
<1> QED BY <1>1, Invariance, PTL

\* The prune of syncDrafts removes no row of a draft that Gmail still has, whatever
\* is saved, sent or removed while it runs.
THEOREM PruneIsSafe == Spec => RemovesOnlyGone
<1>1. IInv /\ [Next]_vars
        => [\A d \in Ids : (\E s \in Syncs : Prune(s)) /\ rows[d] # None /\ rows'[d] = None
              => gmail[d] = None]_vars
  BY PruneKeeps
<1> QED BY <1>1, Invariance, PTL DEF Spec, RemovesOnlyGone

\* A draft begun as a reply is sent as one, through every save, sync and reopening,
\* outside the gaps that excused names: the faults, a request that overtakes the
\* creating save, and a save or send that finds the message replied to gone.
THEOREM RepliesThread == Spec => []ReplyKept
<1>1. IInv => ReplyKept
  BY Typed
<1> QED BY <1>1, Invariance, PTL
=============================================================================
