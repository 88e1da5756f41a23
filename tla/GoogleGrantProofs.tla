------------------------- MODULE GoogleGrantProofs -------------------------
(***************************************************************************)
(* Proofs about GoogleGrant for any number of syncs, grants, rows, restarts *)
(* and, but for the last theorem, requests of the owner at once.            *)
(***************************************************************************)
EXTENDS GoogleGrant, TLAPS

Steps == {"idle", "read", "refresh", "store", "clear", "refused", "call", "find",
          "find signed in", "write", "write signed in", "revoke", "delete"}
Stored(g) == owner[g] # None

\* The row, what is remembered of it, and the grants that were ever in one.
RowInv ==
  /\ at \in [Procs -> Steps]
  /\ \A g \in Grants : Stored(g) => g <= issued
  /\ row # None => row.id <= made /\ owner[row.grant] = row.id

\* A sync holds a grant that was stored when it started, and a client of a row
\* that had the client's grant. Only a dead grant is refused. When the two are
\* not the same, the older is not stored any more, and never will be again.
SyncOK(s) ==
  /\ at[s] = "idle" <=> work[s] = None
  /\ work[s] # None => Stored(work[s])
  /\ work[s] = None => client[s] = None
  /\ at[s] \in {"refresh", "store", "clear", "refused", "call"} => client[s] # None
  /\ client[s] # None => /\ client[s].id <= made
                         /\ owner[client[s].grant] = client[s].id
                         /\ client[s].grant # work[s] /\ row # None => row.grant # work[s]
  /\ at[s] = "refused" => Dead(client[s].grant)
SyncInv == \A s \in Syncs : SyncOK(s)

\* A grant that a Reconnect brings is new, and nobody else's.
Bringing(o) == at[o] \in {"find", "write"}
OwnerOK(o) ==
  /\ at[o] \in {"find", "find signed in", "write", "write signed in"} => grant[o] # None
  /\ Bringing(o) => /\ grant[o] <= issued /\ ~ Stored(grant[o])
                    /\ \A p \in Owners \ {o} : Bringing(p) => grant[p] # grant[o]
OwnerInv == \A o \in Owners : OwnerOK(o)

IInv == TypeOK /\ RowInv /\ SyncInv /\ OwnerInv /\ NoFalseRefusal

\* With one request of the owner at a time: a sign-in finds the row its grant is of.
SignInv == \A o \in Owners :
  /\ at[o] = "find signed in" => row # None /\ owner[grant[o]] = row.id
  /\ at[o] = "write signed in" => row # None /\ found[o] = row.id /\ owner[grant[o]] = row.id
TInv == IInv /\ SignInv /\ TokensOfThisConnection

-----------------------------------------------------------------------------
LEMMA NoneNotGrant == None \notin Grants \cup Rows \cup Row \cup Client
  BY GrantAssumption, NoneAssumption DEF Grants, Rows

LEMMA InitIInv == Init => IInv
<1> SUFFICES ASSUME Init PROVE IInv
  OBVIOUS
<1> USE GrantAssumption, BoundAssumption, SyncsAreNotOwners
<1>1. TypeOK
  BY DEF Init, TypeOK, Grants, Rows, Row, Procs
<1>2. RowInv
  BY DEF Init, RowInv, Grants, Procs, Steps, Stored
<1>3. SyncInv /\ OwnerInv /\ NoFalseRefusal
  BY DEF Init, SyncInv, SyncOK, OwnerInv, OwnerOK, NoFalseRefusal, Bringing, Procs
<1> QED BY <1>1, <1>2, <1>3 DEF IInv

\* What the syncs and the owner's requests may do to each other: a process writes
\* its own variables only.
SyncFrame(s) ==
  /\ at' = [at EXCEPT ![s] = at'[s]] /\ at'[s] \in Steps
  /\ work' = [work EXCEPT ![s] = work'[s]] /\ work'[s] \in Grants \cup {None}
  /\ client' = [client EXCEPT ![s] = client'[s]] /\ client'[s] \in Client \cup {None}
  /\ forced' = [forced EXCEPT ![s] = forced'[s]] /\ forced'[s] \in BOOLEAN
  /\ UNCHANGED <<grant, found>>
SameRow ==
  /\ row' \in Row \cup {None}
  /\ row = None <=> row' = None
  /\ row # None => row'.grant = row.grant /\ row'.id = row.id

LEMMA SyncKeeps ==
  ASSUME IInv, NEW s \in Syncs, SyncFrame(s), SyncOK(s)', SameRow,
         UNCHANGED <<made, issued, alive, owner>>, NoFalseRefusal'
  PROVE  IInv'
<1> USE GrantAssumption, BoundAssumption, SyncsAreNotOwners DEF IInv
<1>1. RowInv'
  BY DEF RowInv, Procs, SyncFrame, SameRow, Stored
<1>2. ASSUME NEW t \in Syncs PROVE SyncOK(t)'
  <2>1. CASE t = s
    BY <2>1
  <2>2. CASE t # s
    <3>1. at'[t] = at[t] /\ work'[t] = work[t] /\ client'[t] = client[t]
      BY <2>2 DEF TypeOK, RowInv, Procs, SyncFrame
    <3> QED BY <3>1 DEF SyncInv, SyncOK, SameRow, Stored, Dead
  <2> QED BY <2>1, <2>2
<1>3. TypeOK'
  BY <1>2 DEF TypeOK, SyncFrame, Client, SyncOK, SameRow
<1>4. OwnerInv'
  <2>1. \A o \in Owners : at'[o] = at[o]
    BY DEF TypeOK, RowInv, Procs, SyncFrame
  <2> QED BY <2>1 DEF OwnerInv, OwnerOK, Bringing, SyncFrame, Stored
<1> QED BY <1>1, <1>2, <1>3, <1>4 DEF SyncInv

\* What EndSync and Only leave of the frame.
LEMMA EndFrame ==
  ASSUME IInv, NEW s \in Syncs, EndSync(s), SameRow, UNCHANGED <<made, issued, alive, owner>>
  PROVE  SyncFrame(s) /\ SyncOK(s)'
BY NoneNotGrant DEF IInv, TypeOK, RowInv, Procs, EndSync, Goto, SyncFrame, SyncOK, Steps

LEMMA OnlyFrame ==
  ASSUME IInv, NEW s \in Syncs, at[s] # "idle", client[s] # None, Only(s, "call") \/ Only(s, "clear"),
         SameRow, UNCHANGED <<made, issued, alive, owner>>
  PROVE  SyncFrame(s) /\ SyncOK(s)'
<1>1. SyncFrame(s)
  BY DEF IInv, TypeOK, RowInv, Procs, Only, Goto, SyncFrame, Steps, Client
<1>2. SyncOK(s)'
  BY DEF IInv, TypeOK, RowInv, SyncInv, Procs, Only, Goto, SyncOK, SameRow, Stored
<1> QED BY <1>1, <1>2

\* The rows a sync writes.
LEMMA RecordRow ==
  ASSUME IInv, NEW g, RecordAuthError(g), g \notin alive, UNCHANGED <<alive, healing>>
  PROVE  SameRow /\ NoFalseRefusal'
BY NoneNotGrant DEF IInv, TypeOK, Row, RecordAuthError, SameRow, NoFalseRefusal, Dead

LEMMA ClearRow ==
  ASSUME IInv, ClearAuthError
  PROVE  SameRow /\ NoFalseRefusal'
BY NoneNotGrant DEF IInv, TypeOK, Row, ClearAuthError, SameRow, NoFalseRefusal

LEMMA QuietRow ==
  ASSUME IInv, UNCHANGED <<row, alive, healing>>
  PROVE  SameRow /\ NoFalseRefusal'
BY DEF IInv, TypeOK, Row, SameRow, NoFalseRefusal, Dead

LEMMA StoreRow ==
  ASSUME IInv, NEW s \in Syncs, client[s] # None, Is(client[s].id), UNCHANGED <<alive, healing>>,
         row' = [row EXCEPT !.tokens = client[s].grant, !.fresh = TRUE]
  PROVE  SameRow /\ NoFalseRefusal'
<1>1. row \in Row /\ client[s].grant \in Grants
  BY DEF IInv, TypeOK, Client, Is
<1>2. row' \in Row /\ row'.grant = row.grant /\ row'.id = row.id /\ row'.err = row.err
  BY <1>1 DEF Row
<1> QED BY <1>1, <1>2, NoneNotGrant DEF IInv, SameRow, NoFalseRefusal, Dead

\* Every step of a sync.
LEMMA SyncStep ==
  ASSUME IInv, NEW s \in Syncs, Sync(s) \/ CallExpired(s)
  PROVE  IInv'
<1> USE DEF google, history
<1> DEFINE Kept == UNCHANGED <<made, issued, alive, owner>>
<1>0. /\ at[s] \in {"refresh", "store", "clear", "refused", "call"} => client[s] # None /\ client[s] \in Client
      /\ at \in [Procs -> Steps] /\ s \in Procs
      /\ work \in [Syncs -> Grants \cup {None}] /\ client \in [Syncs -> Client \cup {None}]
      /\ forced \in [Syncs -> BOOLEAN] /\ SyncOK(s)
  BY DEF IInv, TypeOK, RowInv, SyncInv, Procs, Client
<1> HIDE DEF Kept
<1>1. CASE StartSync(s)
  <2>1. SameRow /\ NoFalseRefusal' /\ Kept
    BY <1>1, QuietRow DEF StartSync, Kept
  <2>2. row.grant \in Grants /\ Stored(row.grant) /\ row.id \in Rows
    BY <1>1, NoneNotGrant DEF StartSync, IInv, TypeOK, RowInv, Row, Stored
  <2>3. SyncFrame(s)
    BY <1>0, <1>1, <2>2 DEF StartSync, Goto, SyncFrame, Steps
  <2>4. SyncOK(s)'
    BY <1>0, <1>1, <2>2, NoneNotGrant DEF StartSync, Goto, SyncOK, Stored
  <2> QED BY <2>1, <2>3, <2>4, SyncKeeps DEF Kept
<1>2. CASE ReadRow(s)
  <2>1. SameRow /\ NoFalseRefusal' /\ Kept
    BY <1>2, QuietRow DEF ReadRow, Kept
  <2>2. CASE row = None
    BY <1>2, <2>1, <2>2, EndFrame, SyncKeeps DEF ReadRow, Kept
  <2>3. CASE row # None
    <3>1. row \in Row /\ row.id <= made /\ owner[row.grant] = row.id
      BY <2>3 DEF IInv, TypeOK, RowInv
    <3>2. SyncFrame(s)
      <4>1. [id |-> row.id, grant |-> row.grant, tokens |-> row.tokens] \in Client
        BY <3>1 DEF Client, Row
      <4>2. at' = [at EXCEPT ![s] = IF forced[s] \/ ~ row.fresh THEN "refresh" ELSE "call"]
        BY <1>2, <2>3 DEF ReadRow, Goto
      <4> QED BY <1>0, <1>2, <2>3, <4>1, <4>2 DEF ReadRow, SyncFrame, Steps
    <3>3. /\ work'[s] = work[s] /\ at'[s] \in {"refresh", "call"} /\ row' = row
          /\ client'[s] = [id |-> row.id, grant |-> row.grant, tokens |-> row.tokens]
          /\ client'[s] # None /\ UNCHANGED <<owner, made, alive>> /\ work[s] # None
      BY <1>0, <1>2, <2>3, <3>1, NoneNotGrant DEF ReadRow, Goto, SyncOK, Client, Row
    <3>4. SyncOK(s)'
      BY <1>0, <3>1, <3>3 DEF SyncOK, Stored
    <3> QED BY <2>1, <3>2, <3>4, SyncKeeps DEF Kept
  <2> QED BY <2>2, <2>3
<1>3. CASE Refresh(s)
  <2>1. SameRow /\ NoFalseRefusal' /\ Kept
    BY <1>3, QuietRow DEF Refresh, Kept
  <2>2. client[s] # None /\ client[s] \in Client /\ at[s] # "idle"
    BY <1>0, <1>3 DEF Refresh
  <2>3. CASE AfterRefresh(s)
    BY <2>1, <2>2, <2>3, EndFrame, OnlyFrame, SyncKeeps DEF AfterRefresh, Kept
  <2>4. CASE client[s].grant \in alive /\ Goto(s, "store")
             /\ client' = [client EXCEPT ![s].tokens = client[s].grant]
             /\ UNCHANGED <<work, forced, grant, found>>
    <3>1. /\ client'[s] \in Client /\ client'[s].id = client[s].id
          /\ client'[s].grant = client[s].grant
      BY <1>0, <2>2, <2>4 DEF Client
    <3>2. SyncFrame(s)
      BY <1>0, <2>2, <2>4, <3>1 DEF Goto, SyncFrame, Steps
    <3>3. SyncOK(s)'
      BY <1>0, <2>1, <2>2, <2>4, <3>1, NoneNotGrant DEF Goto, SyncOK, Kept, Stored, SameRow
    <3> QED BY <2>1, <3>2, <3>3, SyncKeeps DEF Kept
  <2>5. CASE client[s].grant \notin alive /\ Only(s, "refused")
    <3>1. SyncFrame(s)
      BY <1>0, <2>5 DEF Only, Goto, SyncFrame, Steps
    <3>2. SyncOK(s)'
      BY <1>0, <2>1, <2>2, <2>5 DEF Only, Goto, SyncOK, Kept, Stored, SameRow, Dead
    <3> QED BY <2>1, <3>1, <3>2, SyncKeeps DEF Kept
  <2> QED BY <1>3, <2>3, <2>4, <2>5 DEF Refresh
<1>4. CASE Store(s)
  <2>1. client[s] # None /\ client[s] \in Client /\ at[s] # "idle" /\ Kept /\ UNCHANGED <<alive, healing>>
    BY <1>0, <1>4 DEF Store, Kept
  <2>2. SameRow /\ NoFalseRefusal'
    BY <1>4, <2>1, StoreRow, QuietRow DEF Store
  <2> QED BY <1>4, <2>1, <2>2, EndFrame, OnlyFrame, SyncKeeps DEF Store, AfterRefresh, Kept
<1>5. CASE Clear(s)
  <2>1. client[s] # None /\ at[s] # "idle" /\ Kept
    BY <1>0, <1>5 DEF Clear, ClearAuthError, Kept
  <2>2. SameRow /\ NoFalseRefusal'
    BY <1>5, ClearRow DEF Clear
  <2> QED BY <1>5, <2>1, <2>2, EndFrame, OnlyFrame, SyncKeeps DEF Clear, AfterRefresh, Kept
<1>6. CASE Refused(s)
  <2>1. client[s] # None /\ at[s] # "idle" /\ Kept /\ client[s].grant \notin alive
    BY <1>0, <1>6 DEF Refused, Kept, SyncOK, Dead
  <2>2. SameRow /\ NoFalseRefusal'
    BY <1>6, <2>1, RecordRow DEF Refused
  <2> QED BY <1>6, <2>1, <2>2, EndFrame, OnlyFrame, SyncKeeps DEF Refused, AfterRefresh, Kept
<1>7. CASE Call(s)
  <2>1. SameRow /\ NoFalseRefusal' /\ Kept
    BY <1>7, QuietRow DEF Call, Kept
  <2>2. client[s] # None /\ at[s] # "idle"
    BY <1>0, <1>7 DEF Call
  <2>3. CASE EndSync(s)
    BY <2>1, <2>3, EndFrame, SyncKeeps DEF Kept
  <2>4. CASE Goto(s, "read") /\ forced' = [forced EXCEPT ![s] = TRUE]
             /\ UNCHANGED <<work, client, grant, found>>
    <3>1. SyncFrame(s)
      BY <1>0, <2>4 DEF Goto, SyncFrame, Steps
    <3>2. SyncOK(s)'
      BY <1>0, <2>1, <2>2, <2>4 DEF Goto, SyncOK, Kept, Stored, SameRow
    <3> QED BY <2>1, <3>1, <3>2, SyncKeeps DEF Kept
  <2> QED BY <1>7, <2>3, <2>4 DEF Call
<1>8. CASE CallExpired(s)
  <2>1. client[s] # None /\ client[s] \in Client /\ at[s] # "idle" /\ Kept /\ UNCHANGED <<alive, healing>>
    BY <1>0, <1>8 DEF CallExpired, Kept
  <2>2. CASE client[s].grant \in alive
    <3>1. /\ client'[s] \in Client /\ client'[s].id = client[s].id
          /\ client'[s].grant = client[s].grant
      BY <1>0, <1>8, <2>1, <2>2 DEF Client, CallExpired
    <3>2. SyncFrame(s)
      BY <1>0, <1>8, <2>1, <2>2, <3>1 DEF CallExpired, Goto, SyncFrame, Steps
    <3>3. SameRow /\ NoFalseRefusal'
      BY <1>8, <2>1, <2>2, QuietRow DEF CallExpired
    <3>4. SyncOK(s)'
      BY <1>0, <1>8, <2>1, <2>2, <3>1, <3>3, NoneNotGrant DEF CallExpired, Goto, SyncOK, Kept, Stored, SameRow
    <3> QED BY <2>1, <3>2, <3>3, <3>4, SyncKeeps DEF Kept
  <2>3. CASE client[s].grant \notin alive
    <3>1. RecordAuthError(work[s]) /\ EndSync(s)
      BY <1>8, <2>3 DEF CallExpired
    <3>2. CASE client[s].grant = work[s]
      BY <2>1, <2>3, <3>1, <3>2, RecordRow, EndFrame, SyncKeeps DEF Kept
    <3>3. CASE client[s].grant # work[s]
      \* The grant the work started with has been replaced: nothing is recorded.
      <4>1. row' = row
        BY <1>0, <2>1, <3>1, <3>3 DEF SyncOK, RecordAuthError
      <4> QED BY <2>1, <3>1, <4>1, QuietRow, EndFrame, SyncKeeps DEF Kept
    <3> QED BY <3>2, <3>3
  <2> QED BY <2>2, <2>3
<1> QED BY <1>1, <1>2, <1>3, <1>4, <1>5, <1>6, <1>7, <1>8 DEF Sync

-----------------------------------------------------------------------------
\* A request writes its own variables; it may add a row, a grant or what the row
\* holds, and the only grant it stores is the new one it brings.
OwnerFrame(o) ==
  /\ at' = [at EXCEPT ![o] = at'[o]] /\ at'[o] \in Steps
  /\ grant' = [grant EXCEPT ![o] = grant'[o]] /\ grant'[o] \in Grants \cup {None}
  /\ found' = [found EXCEPT ![o] = found'[o]] /\ found'[o] \in Rows \cup {None}
  /\ UNCHANGED <<work, client, forced>>
Grown ==
  /\ made' \in Rows /\ made <= made'
  /\ issued' \in Grants /\ issued <= issued'
  /\ alive' \subseteq 1 .. issued' /\ \A g \in alive' : g <= issued => g \in alive
Moves(o) ==
  \/ /\ owner' = owner
     /\ row' # None => row # None /\ row'.grant = row.grant /\ row'.id = row.id
  \/ /\ Bringing(o) /\ at'[o] = "clear" /\ row' # None
     /\ row'.grant = grant[o] /\ row'.id <= made'
     /\ owner' = [owner EXCEPT ![grant[o]] = row'.id]

LEMMA OwnerKeeps ==
  ASSUME IInv, NEW o \in Owners, OwnerFrame(o), OwnerOK(o)', Grown, Moves(o),
         row' \in Row \cup {None}, NoFalseRefusal'
  PROVE  IInv'
<1> USE GrantAssumption, SyncsAreNotOwners DEF IInv
<1>1. /\ made \in Nat /\ made' \in Nat /\ issued \in Nat /\ issued' \in Nat
      /\ owner' \in [Grants -> Rows \cup {None}]
      /\ Bringing(o) => grant[o] \in Grants
      /\ OwnerOK(o)
      /\ row # None => row.id \in Rows /\ row.grant \in Grants
  <2>1. /\ made \in Nat /\ made' \in Nat /\ issued \in Nat /\ issued' \in Nat
    BY DEF TypeOK, Grown, Rows, Grants
  <2>2. /\ Bringing(o) => grant[o] \in Grants
        /\ OwnerOK(o)
    BY DEF TypeOK, OwnerInv, OwnerOK, Bringing
  <2>3. row' # None => row'.id \in Rows
    BY DEF Row
  <2>4. row # None => row.id \in Rows /\ row.grant \in Grants
    BY DEF TypeOK, Row
  <2>5. owner' \in [Grants -> Rows \cup {None}]
    BY <2>2, <2>3 DEF TypeOK, Moves
  <2> QED BY <2>1, <2>2, <2>4, <2>5
<1>2. \A g \in Grants : owner'[g] # owner[g] =>
        at[o] \in {"find", "write"} /\ g = grant[o] /\ owner[g] = None
  BY <1>1 DEF Moves, TypeOK, Stored, OwnerInv, OwnerOK, Bringing
<1>3. RowInv'
  <2>1. at' \in [Procs -> Steps]
    BY DEF RowInv, OwnerFrame, Procs
  <2>2. \A g \in Grants : Stored(g)' => g <= issued'
    <3> SUFFICES ASSUME NEW g \in Grants, owner'[g] # None PROVE g <= issued'
      BY DEF Stored
    <3>1. g <= issued
      <4>1. Stored(g) \/ (Bringing(o) /\ g = grant[o])
        BY <1>2 DEF Stored, Bringing
      <4> QED BY <4>1, <1>1 DEF RowInv, OwnerOK
    <3>2. g \in Nat
      BY DEF Grants
    <3> QED BY <1>1, <3>1, <3>2 DEF Grown
  <2>3. row' # None => row'.id <= made' /\ owner'[row'.grant] = row'.id
    BY <1>1 DEF RowInv, Moves, Grown, TypeOK, Rows, Row
  <2> QED BY <2>1, <2>2, <2>3 DEF RowInv
<1>4. ASSUME NEW s \in Syncs PROVE SyncOK(s)'
  <2>1. at'[s] = at[s] /\ work'[s] = work[s] /\ client'[s] = client[s] /\ SyncOK(s)
    BY DEF RowInv, OwnerFrame, Procs, SyncInv
  <2>2. /\ work[s] # None => work[s] \in Grants /\ Stored(work[s])
        /\ client[s] # None => /\ client[s].id \in Rows /\ client[s].grant \in Grants
                               /\ client[s].grant <= issued /\ Stored(client[s].grant)
                               /\ work[s] # None
    BY <2>1, NoneNotGrant DEF TypeOK, Client, SyncOK, Stored, RowInv
  <2>3. work[s] # None => Stored(work[s])'
    BY <1>2, <2>1, <2>2 DEF Stored
  <2>4. client[s] # None => client[s].id <= made' /\ owner'[client[s].grant] = client[s].id
    <3> SUFFICES ASSUME client[s] # None PROVE client[s].id <= made' /\ owner'[client[s].grant] = client[s].id
      OBVIOUS
    <3>1. client[s].id <= made /\ owner[client[s].grant] = client[s].id
      BY <2>1 DEF SyncOK
    <3>2. owner'[client[s].grant] = owner[client[s].grant]
      BY <1>2, <2>2 DEF Stored
    <3> QED BY <1>1, <2>2, <3>1, <3>2 DEF Grown, Rows
  <2>5. client[s] # None /\ client[s].grant # work[s] /\ row' # None => row'.grant # work[s]
    BY <2>1, <2>2 DEF SyncOK, Moves, OwnerInv, OwnerOK
  <2>6. at[s] = "refused" => client[s].grant \notin alive'
    BY <2>1, <2>2 DEF SyncOK, Dead, Grown
  <2> QED BY <2>1, <2>3, <2>4, <2>5, <2>6 DEF SyncOK, Dead
<1>5. TypeOK'
  BY <1>1, <1>4 DEF TypeOK, OwnerFrame, Grown, SyncOK
<1>6. ASSUME NEW p \in Owners PROVE OwnerOK(p)'
  <2>1. CASE p = o
    BY <2>1
  <2>2. CASE p # o
    <3>1. /\ at'[p] = at[p] /\ grant'[p] = grant[p] /\ OwnerOK(p)
          /\ \A q \in Owners \ {o} : at'[q] = at[q] /\ grant'[q] = grant[q]
      BY <2>2 DEF OwnerFrame, RowInv, TypeOK, Procs, OwnerInv
    <3>2. Bringing(p) => grant[p] \in Grants /\ grant[p] <= issued'
      <4>1. Bringing(p) => grant[p] \in Grants
        BY <3>1 DEF TypeOK, OwnerOK, Bringing
      <4>2. Bringing(p) => grant[p] <= issued
        BY <3>1 DEF OwnerOK
      <4> QED BY <1>1, <4>1, <4>2 DEF Grown, Grants, Bringing
    <3>3. Bringing(p) => owner'[grant[p]] = None
      <4>1. Bringing(p) => owner[grant[p]] = None
        BY <3>1 DEF OwnerOK, Stored
      <4>2. Bringing(p) /\ Bringing(o) => grant[p] # grant[o]
        BY <2>2, <1>1 DEF OwnerOK, Bringing
      <4> QED BY <1>2, <3>2, <4>1, <4>2 DEF Bringing
    <3>4. \A q \in Owners \ {p} : Bringing(p)' /\ Bringing(q)' => grant'[q] # grant'[p]
      BY <2>2, <3>1 DEF OwnerOK, Bringing
    <3> QED BY <3>1, <3>2, <3>3, <3>4 DEF OwnerOK, Bringing, Stored
  <2> QED BY <2>1, <2>2
<1> QED BY <1>3, <1>4, <1>5, <1>6 DEF SyncInv, OwnerInv

LEMMA SameGrown ==
  ASSUME IInv, UNCHANGED <<made, issued>>, alive' \subseteq alive
  PROVE  Grown
BY DEF IInv, TypeOK, Grown, Rows, Grants

\* A row that is gone, or keeps its id and its grant.
LEMMA SameMoves ==
  ASSUME NEW o \in Owners, owner' = owner,
         row' # None => row # None /\ row'.grant = row.grant /\ row'.id = row.id
  PROVE  Moves(o)
BY DEF Moves

LEMMA QuietOwner ==
  ASSUME IInv, NEW o \in Owners, UNCHANGED <<row, made, issued, owner, healing>>, alive' \subseteq alive
  PROVE  Grown /\ Moves(o) /\ row' \in Row \cup {None} /\ NoFalseRefusal'
<1>1. Grown /\ Moves(o)
  BY SameGrown, SameMoves
<1> QED BY <1>1 DEF IInv, TypeOK, NoFalseRefusal, Dead

\* EndOwner of a request that leaves the grants alone.
LEMMA EndOwnerFrame ==
  ASSUME IInv, NEW o \in Owners, EndOwner(o)
  PROVE  OwnerFrame(o) /\ OwnerOK(o)'
BY DEF IInv, TypeOK, RowInv, Procs, EndOwner, Goto, OwnerFrame, OwnerOK, Bringing, Steps

\* Every step of a request.
LEMMA OwnerStep ==
  ASSUME IInv, NEW o \in Owners, Reconnect(o) \/ SignIn(o) \/ Disconnect(o) \/ Request(o)
  PROVE  IInv'
<1> USE GrantAssumption DEF google, history
<1>0. /\ at \in [Procs -> Steps] /\ o \in Procs /\ OwnerOK(o)
      /\ grant \in [Owners -> Grants \cup {None}] /\ found \in [Owners -> Rows \cup {None}]
      /\ row # None => /\ row \in Row /\ row.id \in Rows /\ row.grant \in Grants
                       /\ owner[row.grant] = row.id
      /\ owner \in [Grants -> Rows \cup {None}]
  BY DEF IInv, TypeOK, RowInv, OwnerInv, Procs, Row
<1>1. CASE Reconnect(o)
  <2>1. issued \in Nat /\ issued' = issued + 1 /\ issued' \in Grants /\ issued \in Grants
    BY <1>1 DEF Reconnect, IInv, TypeOK, Grants
  <2>2. Grown /\ Moves(o) /\ row' \in Row \cup {None}
    BY <1>1, <2>1 DEF Reconnect, IInv, TypeOK, Grown, Moves, Rows
  <2>3. NoFalseRefusal'
    <3>1. row # None => row.grant # issued'
      BY <1>0, <2>1, NoneNotGrant DEF IInv, RowInv, Stored, Grants
    <3> QED BY <1>1, <3>1 DEF Reconnect, IInv, NoFalseRefusal, Dead
  <2>4. OwnerFrame(o)
    BY <1>0, <1>1, <2>1 DEF Reconnect, Goto, OwnerFrame, Steps
  <2>5. OwnerOK(o)'
    <3>1. at'[o] = "find" /\ grant'[o] = issued' /\ owner' = owner
      BY <1>0, <1>1 DEF Reconnect, Goto
    <3>2. ~ Stored(issued')
      BY <2>1 DEF IInv, RowInv, Grants
    <3>3. ASSUME NEW p \in Owners \ {o}, Bringing(p)' PROVE grant'[p] # issued'
      <4>1. at'[p] = at[p] /\ grant'[p] = grant[p]
        BY <3>3, <1>0, <1>1 DEF Reconnect, Goto, Procs
      <4>2. grant[p] \in Grants /\ grant[p] <= issued
        BY <3>3, <4>1 DEF IInv, OwnerInv, OwnerOK, Bringing, TypeOK
      <4> QED BY <2>1, <4>1, <4>2 DEF Grants
    <3> QED BY <2>1, <3>1, <3>2, <3>3, NoneNotGrant DEF OwnerOK, Stored, Grants
  <2> QED BY <2>2, <2>3, <2>4, <2>5, OwnerKeeps
<1>2. CASE SignIn(o)
  <2>1. OwnerFrame(o) /\ OwnerOK(o)'
    BY <1>0, <1>2, NoneNotGrant DEF SignIn, Goto, OwnerFrame, OwnerOK, Bringing, Steps
  <2> QED BY <1>2, <2>1, QuietOwner, OwnerKeeps DEF SignIn
<1>3. CASE Disconnect(o)
  <2>1. OwnerFrame(o) /\ OwnerOK(o)'
    BY <1>0, <1>3 DEF Disconnect, Goto, OwnerFrame, OwnerOK, Bringing, Steps
  <2> QED BY <1>3, <2>1, QuietOwner, OwnerKeeps DEF Disconnect
<1>4. CASE Find(o)
  <2>1. OwnerFrame(o)
    BY <1>0, <1>4 DEF Find, Goto, OwnerFrame, Steps
  <2>2. OwnerOK(o)'
    BY <1>0, <1>4 DEF Find, Goto, OwnerOK, Bringing, Stored, Procs
  <2> QED BY <1>4, <2>1, <2>2, QuietOwner, OwnerKeeps DEF Find
<1>5. CASE WriteGrant(o)
  <2>1. grant[o] \in Grants /\ grant[o] <= issued /\ owner[grant[o]] = None
    BY <1>0, <1>5 DEF WriteGrant, OwnerOK, Bringing, Stored
  <2>3. CASE found[o] # None /\ Is(found[o])
    <3>1. /\ row # None /\ row' = [row EXCEPT !.grant = grant[o], !.tokens = grant[o], !.fresh = TRUE]
          /\ owner' = [owner EXCEPT ![grant[o]] = row.id] /\ healing' = row.err
          /\ Goto(o, "clear") /\ UNCHANGED <<made, issued, alive, work, client, forced, grant, found>>
      BY <1>5, <2>3 DEF WriteGrant, Is
    <3>2. row' \in Row /\ row'.grant = grant[o] /\ row'.id = row.id /\ row'.err = row.err
      BY <1>0, <2>1, <3>1 DEF Row
    <3>3. OwnerFrame(o) /\ OwnerOK(o)'
      BY <1>0, <2>1, <3>1, NoneNotGrant DEF Goto, OwnerFrame, OwnerOK, Bringing, Steps
    <3>4. Grown
      BY <3>1, SameGrown
    <3>5. Moves(o)
      BY <1>0, <1>5, <3>1, <3>2, NoneNotGrant DEF IInv, RowInv, Goto, Moves, Bringing, WriteGrant
    <3>6. NoFalseRefusal'
      BY <3>1, <3>2 DEF NoFalseRefusal
    <3> QED BY <3>2, <3>3, <3>4, <3>5, <3>6, OwnerKeeps
  <2>4. CASE ~ (found[o] # None /\ Is(found[o])) /\ found[o] = None /\ row = None /\ made < MaxRow
    <3>1. /\ made' = made + 1
          /\ row' = [id |-> made', grant |-> grant[o], tokens |-> grant[o], err |-> FALSE, fresh |-> TRUE]
          /\ owner' = [owner EXCEPT ![grant[o]] = made']
          /\ Goto(o, "clear") /\ UNCHANGED <<healing, issued, alive, work, client, forced, grant, found>>
      BY <1>5, <2>4 DEF WriteGrant
    <3>2. row' \in Row /\ row'.grant = grant[o] /\ row'.id = made' /\ row'.err = FALSE
          /\ made \in Rows /\ made' \in Rows
      BY <2>1, <2>4, <3>1 DEF Row, IInv, TypeOK, Rows
    <3>3. OwnerFrame(o) /\ OwnerOK(o)'
      BY <1>0, <2>1, <3>1, NoneNotGrant DEF Goto, OwnerFrame, OwnerOK, Bringing, Steps
    <3>4. Grown
      BY <3>1, <3>2 DEF IInv, TypeOK, Grown, Rows, Grants
    <3>5. Moves(o)
      <4>1. at[o] = "write" /\ at'[o] = "clear" /\ row' # None /\ row'.id <= made'
        <5>1. at[o] = "write" /\ at'[o] = "clear"
          BY <1>0, <1>5, <3>1 DEF Goto, WriteGrant
        <5>2. row' # None /\ row'.id <= made'
          BY <3>2, NoneNotGrant DEF Rows
        <5> QED BY <5>1, <5>2
      <4> QED BY <3>1, <3>2, <4>1 DEF Moves, Bringing
    <3>6. NoFalseRefusal'
      BY <3>1, <3>2 DEF NoFalseRefusal
    <3> QED BY <3>2, <3>3, <3>4, <3>5, <3>6, OwnerKeeps
  <2>5. CASE EndOwner(o) /\ UNCHANGED <<row, made, history>>
    BY <1>5, <2>5, EndOwnerFrame, QuietOwner, OwnerKeeps DEF WriteGrant
  <2> QED BY <1>5, <2>3, <2>4, <2>5 DEF WriteGrant
<1>6. CASE WriteSignIn(o)
  <2>1. grant[o] \in Grants
    BY <1>0, <1>6 DEF WriteSignIn, OwnerOK
  <2>2. /\ row' \in Row \cup {None}
        /\ row' # None => row # None /\ row'.grant = row.grant /\ row'.id = row.id /\ row'.err = row.err
    BY <1>0, <1>6, <2>1 DEF WriteSignIn, Is, Row
  <2>3. UNCHANGED <<made, issued, alive, owner, healing>>
    BY <1>6 DEF WriteSignIn
  <2>4. Grown /\ Moves(o)
    BY <2>2, <2>3, SameGrown, SameMoves
  <2>5. NoFalseRefusal'
    BY <2>2, <2>3 DEF IInv, NoFalseRefusal, Dead
  <2> QED BY <1>6, <2>2, <2>4, <2>5, EndOwnerFrame, OwnerKeeps DEF WriteSignIn
<1>7. CASE ClearAfter(o)
  <2>1. /\ row' \in Row \cup {None}
        /\ row' # None => row # None /\ row'.grant = row.grant /\ row'.id = row.id /\ row'.err = FALSE
    BY <1>0, <1>7 DEF ClearAfter, ClearAuthError, Row
  <2>2. Grown /\ Moves(o) /\ NoFalseRefusal'
    BY <1>7, <2>1, SameGrown, SameMoves DEF ClearAfter, NoFalseRefusal
  <2> QED BY <1>7, <2>1, <2>2, EndOwnerFrame, OwnerKeeps DEF ClearAfter
<1>8. CASE Revoke(o)
  <2>1. OwnerFrame(o) /\ OwnerOK(o)'
    BY <1>0, <1>8 DEF Revoke, Goto, OwnerFrame, OwnerOK, Bringing, Steps
  <2>2. alive' \subseteq alive
    BY <1>8 DEF Revoke
  <2> QED BY <1>8, <2>1, <2>2, QuietOwner, OwnerKeeps DEF Revoke
<1>9. CASE Delete(o)
  <2>1. row' \in Row \cup {None} /\ (row' # None => row' = row /\ row # None)
    BY <1>0, <1>9 DEF Delete, Is
  <2>2. Grown /\ Moves(o) /\ NoFalseRefusal'
    <3>1. Grown /\ Moves(o)
      BY <1>9, <2>1, SameGrown, SameMoves DEF Delete
    <3>2. NoFalseRefusal'
      BY <1>9, <2>1 DEF Delete, IInv, NoFalseRefusal, Dead
    <3> QED BY <3>1, <3>2
  <2> QED BY <1>9, <2>1, <2>2, EndOwnerFrame, OwnerKeeps DEF Delete
<1> QED BY <1>1, <1>2, <1>3, <1>4, <1>5, <1>6, <1>7, <1>8, <1>9 DEF Request

\* What happens outside, and restarts.
LEMMA OutsideStep ==
  ASSUME IInv, RevokedAtGoogle \/ Expire \/ Crash \/ UNCHANGED vars
  PROVE  IInv'
<1> USE DEF google, history, procVars
<1>1. CASE RevokedAtGoogle
  <2>1. \A s \in Syncs : SyncOK(s)'
    BY <1>1 DEF RevokedAtGoogle, IInv, SyncInv, SyncOK, Stored, Dead
  <2> QED BY <1>1, <2>1 DEF RevokedAtGoogle, IInv, TypeOK, RowInv, SyncInv, OwnerInv, OwnerOK, Bringing, NoFalseRefusal, Stored, Dead
<1>2. CASE Expire
  <2>1. row \in Row /\ row' \in Row /\ row'.grant = row.grant /\ row'.id = row.id /\ row'.err = row.err
    BY <1>2 DEF Expire, IInv, TypeOK, Row
  <2>2. \A s \in Syncs : SyncOK(s)'
    BY <1>2, <2>1 DEF Expire, IInv, SyncInv, SyncOK, Stored, Dead
  <2>3. TypeOK'
    BY <1>2, <2>1 DEF Expire, IInv, TypeOK
  <2>4. RowInv'
    BY <1>2, <2>1 DEF Expire, IInv, RowInv, Stored
  <2>5. OwnerInv'
    BY <1>2 DEF Expire, IInv, OwnerInv, OwnerOK, Bringing, Stored
  <2>6. NoFalseRefusal'
    BY <1>2, <2>1, NoneNotGrant DEF Expire, IInv, NoFalseRefusal, Dead
  <2> QED BY <2>2, <2>3, <2>4, <2>5, <2>6 DEF IInv, SyncInv
<1>3. CASE Crash
  <2>1. /\ \A s \in Syncs : at'[s] = "idle" /\ work'[s] = None /\ client'[s] = None
        /\ \A o \in Owners : at'[o] = "idle"
        /\ at' \in [Procs -> Steps]
    BY <1>3 DEF Crash, Procs, Steps
  <2>2. SyncInv' /\ OwnerInv' /\ RowInv' /\ NoFalseRefusal'
    BY <1>3, <2>1 DEF Crash, IInv, SyncInv, SyncOK, OwnerInv, OwnerOK, Bringing, RowInv, Stored, NoFalseRefusal, Dead
  <2>3. TypeOK'
    BY <1>3, <2>1 DEF Crash, IInv, TypeOK
  <2> QED BY <2>2, <2>3 DEF IInv
<1>4. CASE UNCHANGED vars
  BY <1>4 DEF vars, IInv, TypeOK, RowInv, SyncInv, SyncOK, OwnerInv, OwnerOK, Bringing, NoFalseRefusal, Stored, Dead
<1> QED BY <1>1, <1>2, <1>3, <1>4

LEMMA Inductive == Spec => []IInv
<1>1. IInv /\ [Next]_vars => IInv'
  BY SyncStep, OwnerStep, OutsideStep DEF Next
<1> QED BY InitIInv, <1>1, PTL DEF Spec

\* Type correctness in every reachable state.
THEOREM TypeCorrect == Spec => []TypeOK
<1>1. IInv => TypeOK
  BY DEF IInv
<1> QED BY Inductive, <1>1, PTL

\* recordAuthError: Settings says that Google refused the grant only of a stored
\* grant that Google has refused.
THEOREM RefusalsTrue == Spec => []NoFalseRefusal
<1>1. IInv => NoFalseRefusal
  BY DEF IInv
<1> QED BY Inductive, <1>1, PTL

-----------------------------------------------------------------------------
\* A sync leaves the row's id, and its tokens or stores those of the row's own grant.
LEMMA SyncTokens ==
  ASSUME IInv, NEW s \in Syncs, Sync(s) \/ CallExpired(s)
  PROVE  /\ row' # None => /\ row # None /\ row'.id = row.id
                           /\ row'.tokens = row.tokens \/ owner[row'.tokens] = row.id
         /\ row # None => row' # None
         /\ UNCHANGED <<owner, grant, found>> /\ \A o \in Owners : at'[o] = at[o]
<1>0. /\ at \in [Procs -> Steps] /\ s \in Procs /\ \A o \in Owners : o \in Procs /\ o # s
      /\ row # None => row \in Row
      /\ client[s] # None => /\ client[s] \in Client /\ owner[client[s].grant] = client[s].id
      /\ at[s] = "store" => client[s] # None
  BY SyncsAreNotOwners DEF IInv, TypeOK, RowInv, SyncInv, SyncOK, Procs
<1>1. UNCHANGED <<owner, grant, found>> /\ \A o \in Owners : at'[o] = at[o]
  BY <1>0 DEF Sync, CallExpired, StartSync, ReadRow, Refresh, Store, Clear, Refused, Call,
     AfterRefresh, EndSync, Only, Goto, history, ClearAuthError
<1>2. CASE Store(s)
  <2>1. CASE Is(client[s].id)
    <3>1. /\ row \in Row /\ row # None /\ row.id = client[s].id /\ client[s] \in Client
          /\ owner[client[s].grant] = client[s].id
          /\ row' = [row EXCEPT !.tokens = client[s].grant, !.fresh = TRUE]
      BY <1>0, <1>2, <2>1 DEF Store, Is
    <3>2. row' \in Row /\ row'.id = row.id /\ row'.tokens = client[s].grant
      BY <3>1 DEF Row, Client
    <3> QED BY <1>1, <3>1, <3>2, NoneNotGrant
  <2>2. CASE ~ Is(client[s].id)
    BY <1>1, <1>2, <2>2 DEF Store
  <2> QED BY <2>1, <2>2
<1>3. ASSUME row' = row \/ (row # None /\ \E e \in BOOLEAN : row' = [row EXCEPT !.err = e])
      PROVE  /\ row' # None => row # None /\ row'.id = row.id /\ row'.tokens = row.tokens
             /\ row # None => row' # None
  <2>1. CASE row' = row
    BY <2>1
  <2>2. CASE row # None /\ \E e \in BOOLEAN : row' = [row EXCEPT !.err = e]
    BY <1>0, <2>2, NoneNotGrant DEF Row
  <2> QED BY <1>3, <2>1, <2>2
<1>4. CASE Clear(s) \/ Refused(s) \/ CallExpired(s)
  <2>1. row' = row \/ (row # None /\ \E e \in BOOLEAN : row' = [row EXCEPT !.err = e])
    BY <1>4 DEF Clear, Refused, CallExpired, ClearAuthError, RecordAuthError
  <2> QED BY <1>1, <1>3, <2>1
<1>5. CASE StartSync(s) \/ ReadRow(s) \/ Refresh(s) \/ Call(s)
  <2>1. row' = row
    BY <1>5 DEF StartSync, ReadRow, Refresh, Call
  <2> QED BY <1>1, <1>3, <2>1
<1> QED BY <1>2, <1>4, <1>5 DEF Sync

\* With one request of the owner at a time, no step brings in foreign tokens.
LEMMA TokenStep ==
  ASSUME \A o, p \in Owners : o = p, TInv, IInv', [Next]_vars
  PROVE  TInv'
<1> USE DEF TInv
<1>0. /\ at \in [Procs -> Steps] /\ \A o \in Owners : o \in Procs
      /\ grant \in [Owners -> Grants \cup {None}] /\ found \in [Owners -> Rows \cup {None}]
      /\ owner \in [Grants -> Rows \cup {None}]
      /\ row # None => /\ row \in Row /\ row.id \in Rows /\ row.tokens \in Grants
                       /\ owner[row.grant] = row.id /\ owner[row.tokens] = row.id
  BY DEF IInv, TypeOK, RowInv, Procs, Row, TokensOfThisConnection
<1>1. ASSUME NEW s \in Syncs, Sync(s) \/ CallExpired(s) PROVE TInv'
  BY <1>1, SyncTokens DEF SignInv, TokensOfThisConnection
<1>2. ASSUME NEW o \in Owners, Reconnect(o) \/ SignIn(o) \/ Disconnect(o) \/ Request(o)
      PROVE TInv'
  <2> USE DEF google, history
  <2>0. Owners = {o} /\ o \in Procs
    BY <1>0
  <2>1. CASE Reconnect(o) \/ Disconnect(o) \/ Revoke(o)
    BY <1>0, <2>0, <2>1 DEF Reconnect, Disconnect, Revoke, Goto, SignInv, TokensOfThisConnection
  <2>2. CASE SignIn(o)
    BY <1>0, <2>0, <2>2 DEF SignIn, Goto, SignInv, TokensOfThisConnection
  <2>3. CASE Find(o)
    BY <1>0, <2>0, <2>3 DEF Find, Goto, SignInv, TokensOfThisConnection
  <2>4. CASE ClearAfter(o) \/ Delete(o)
    <3>1. at'[o] = "idle" /\ UNCHANGED owner
      BY <1>0, <2>0, <2>4 DEF ClearAfter, Delete, EndOwner, Goto, ClearAuthError
    <3>2. row' # None => row # None /\ row'.id = row.id /\ row'.tokens = row.tokens
      BY <1>0, <2>4 DEF ClearAfter, Delete, ClearAuthError, Row
    <3> QED BY <1>0, <2>0, <3>1, <3>2 DEF SignInv, TokensOfThisConnection
  <2>5. CASE WriteSignIn(o)
    <3>1. at'[o] = "idle" /\ UNCHANGED owner
      BY <1>0, <2>0, <2>5 DEF WriteSignIn, EndOwner, Goto
    <3>2. row # None /\ found[o] = row.id /\ owner[grant[o]] = row.id /\ found[o] # None
          /\ grant[o] \in Grants
      BY <1>0, <2>5, NoneNotGrant DEF WriteSignIn, SignInv, IInv, OwnerInv, OwnerOK
    <3>3. row'.id = row.id /\ row'.tokens = grant[o]
      BY <1>0, <2>5, <3>2 DEF WriteSignIn, Is, Row
    <3> QED BY <2>0, <3>1, <3>2, <3>3 DEF SignInv, TokensOfThisConnection
  <2>6. CASE WriteGrant(o)
    <3>1. at'[o] \in {"clear", "idle"}
      BY <1>0, <2>0, <2>6 DEF WriteGrant, EndOwner, Goto
    <3>2. grant[o] \in Grants
      BY <1>0, <2>6 DEF WriteGrant, IInv, OwnerInv, OwnerOK
    <3>3. row' # None => owner'[row'.tokens] = row'.id
      <4>1. CASE found[o] # None /\ Is(found[o])
        <5>1. row \in Row /\ row' = [row EXCEPT !.grant = grant[o], !.tokens = grant[o], !.fresh = TRUE]
              /\ owner' = [owner EXCEPT ![grant[o]] = row.id]
          BY <1>0, <2>6, <4>1 DEF WriteGrant, Is
        <5>2. row'.tokens = grant[o] /\ row'.id = row.id
          BY <5>1 DEF Row
        <5> QED BY <1>0, <3>2, <5>1, <5>2
      <4>2. CASE ~ (found[o] # None /\ Is(found[o])) /\ found[o] = None /\ row = None /\ made < MaxRow
        BY <1>0, <2>6, <3>2, <4>2 DEF WriteGrant
      <4>3. CASE row' = row /\ owner' = owner
        BY <1>0, <4>3
      <4> QED BY <2>6, <4>1, <4>2, <4>3 DEF WriteGrant, history
    <3> QED BY <2>0, <3>1, <3>3 DEF SignInv, TokensOfThisConnection
  <2> QED BY <1>2, <2>1, <2>2, <2>3, <2>4, <2>5, <2>6 DEF Request
<1>3. CASE RevokedAtGoogle \/ UNCHANGED vars
  BY <1>3 DEF RevokedAtGoogle, vars, procVars, history, SignInv, TokensOfThisConnection
<1>4. CASE Expire
  <2>1. row # None /\ row'.id = row.id /\ row'.tokens = row.tokens
    BY <1>0, <1>4 DEF Expire, Row
  <2>2. UNCHANGED <<procVars, owner>> /\ row' # None
    BY <1>0, <1>4, NoneNotGrant DEF Expire, history, Row
  <2> QED BY <1>0, <2>1, <2>2 DEF procVars, SignInv, TokensOfThisConnection
<1>5. CASE Crash
  BY <1>0, <1>5 DEF Crash, history, SignInv, TokensOfThisConnection
<1> QED BY <1>1, <1>2, <1>3, <1>4, <1>5 DEF Next

\* The update by the row's id: no sync that was refreshing when the owner
\* disconnected and connected again writes its token into the new row, as long as
\* the owner does one thing at a time.
THEOREM TokensStay ==
  ASSUME \A o, p \in Owners : o = p
  PROVE  Spec => []TokensOfThisConnection
<1>1. Init => TInv
  <2>1. Init => SignInv
    BY DEF Init, SignInv, Procs
  <2>2. Init => TokensOfThisConnection
    BY GrantAssumption DEF Init, TokensOfThisConnection, Grants
  <2> QED BY InitIInv, <2>1, <2>2 DEF TInv
<1>2. TInv /\ IInv' /\ [Next]_vars => TInv'
  BY TokenStep
<1>3. TInv => TokensOfThisConnection
  BY DEF TInv
<1> QED BY Inductive, <1>1, <1>2, <1>3, PTL DEF Spec
=============================================================================
