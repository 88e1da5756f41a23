----------------------------- MODULE GoogleGrant -----------------------------
(***************************************************************************)
(* services/googleAuthService.ts: one account's google_auth row, between    *)
(* the syncs that use and refresh its tokens, the owner who connects, signs  *)
(* in again and disconnects, and Google, where the grant may be revoked. A   *)
(* step is one query, one call to Google, or what happens between two.       *)
(***************************************************************************)
EXTENDS Naturals, FiniteSets

CONSTANTS
  Syncs,      \* bound: the mail and the calendar sync
  Owners,     \* bound: requests of the owner in progress at once
  MaxGrant,   \* bound: grants Google ever issues
  MaxRow,     \* bound: rows ever created
  MaxCalls,   \* bound: sign-ins and disconnects
  MaxFaults,  \* bound: restarts and calls that fail for no fault of the grant
  None

ASSUME SyncsAreNotOwners == Syncs \cap Owners = {}
ASSUME GrantAssumption == MaxGrant \in Nat \ {0} /\ MaxRow \in Nat \ {0}
ASSUME BoundAssumption == MaxCalls \in Nat /\ MaxFaults \in Nat

Grants == 1 .. MaxGrant
Rows   == 1 .. MaxRow
Procs  == Syncs \cup Owners

\* The google_auth row, and what a sync's client keeps of it.
Row    == [id : Rows, grant : Grants, tokens : Grants, err : BOOLEAN, fresh : BOOLEAN]
Client == [id : Rows, grant : Grants, tokens : Grants]

ASSUME NoneAssumption == None \notin Nat \cup Row \cup Client

VARIABLES
  row,      \* the google_auth row: its id, its grant (refreshToken), the grant
            \* its access token and scope are of, authError, and whether the
            \* access token is far from its expiry; or None
  made,     \* rows created so far
  issued, alive,  \* grants issued, and those Google still honours
  at,       \* the next step of each process
  work,     \* currentGrant as it was when the sync started
  client,   \* the row a sync's client was made from, with its access token
  forced,   \* the sync is asking the token endpoint about a 401
  grant,    \* the grant a Reconnect or a sign-in brings
  found,    \* the row it found
  owner,    \* history: the row each grant was stored in
  healing,  \* history: a Reconnect stored its grant and has not cleared the error
  used, faults

google == <<issued, alive>>
procVars == <<at, work, client, forced, grant, found>>
history == <<owner, healing>>
vars == <<row, made, google, procVars, history, used, faults>>

\* The account is connected, with the first grant.
Init ==
  /\ row = [id |-> 1, grant |-> 1, tokens |-> 1, err |-> FALSE, fresh |-> TRUE]
  /\ made = 1 /\ issued = 1 /\ alive = {1}
  /\ at = [p \in Procs |-> "idle"]
  /\ work = [s \in Syncs |-> None]
  /\ client = [s \in Syncs |-> None]
  /\ forced = [s \in Syncs |-> FALSE]
  /\ grant = [o \in Owners |-> None]
  /\ found = [o \in Owners |-> None]
  /\ owner = [g \in Grants |-> IF g = 1 THEN 1 ELSE None]
  /\ healing = FALSE
  /\ used = 0 /\ faults = 0

Goto(p, step) == at' = [at EXCEPT ![p] = step]
Is(id) == row # None /\ row.id = id

\* A sync's step that leaves its own variables alone.
Only(s, step) == Goto(s, step) /\ UNCHANGED <<work, client, forced, grant, found>>

EndSync(s) ==
  /\ Goto(s, "idle")
  /\ work' = [work EXCEPT ![s] = None]
  /\ client' = [client EXCEPT ![s] = None]
  /\ forced' = [forced EXCEPT ![s] = FALSE]
  /\ UNCHANGED <<grant, found>>

\* Mutated: the refusal is recorded whatever grant is stored now.
RecordAlways(g) == row' = IF row # None THEN [row EXCEPT !.err = TRUE] ELSE row

\* Mutated: authError not code leaves out the rows where it is null.
RecordNotNull(g) == row' = row

\* updateMany where the refused grant is still the stored one.
RecordAuthError(g) ==
  row' = IF row # None /\ row.grant = g THEN [row EXCEPT !.err = TRUE] ELSE row

ClearAuthError ==
  /\ row' = IF row # None THEN [row EXCEPT !.err = FALSE] ELSE row
  /\ healing' = FALSE

-----------------------------------------------------------------------------
(* Syncs. They take the accounts from the rows, remember the grant, and make  *)
(* a client.                                                                 *)

StartSync(s) ==
  /\ at[s] = "idle" /\ row # None
  /\ Goto(s, "read")
  /\ work' = [work EXCEPT ![s] = row.grant]
  /\ UNCHANGED <<row, made, google, client, forced, grant, found, history, used, faults>>

\* getAuthenticatedClient reads the row, and refreshes first when it is asked to
\* or the token is about to expire. Without a row the sync has nothing to do.
ReadRow(s) ==
  /\ at[s] = "read"
  /\ IF row = None
       THEN EndSync(s)
       ELSE /\ client' = [client EXCEPT ![s] = [id |-> row.id, grant |-> row.grant, tokens |-> row.tokens]]
            /\ Goto(s, IF forced[s] \/ ~ row.fresh THEN "refresh" ELSE "call")
            /\ UNCHANGED <<work, forced, grant, found>>
  /\ UNCHANGED <<row, made, google, history, used, faults>>

\* What follows the refresh: the sync's call, or the end when it only asked.
AfterRefresh(s) == IF forced[s] THEN EndSync(s) ELSE Only(s, "call")

\* The token endpoint grants a new access token or refuses; or it cannot be
\* reached, and the sync goes on with what it has.
Refresh(s) ==
  /\ at[s] = "refresh"
  /\ \/ /\ client[s].grant \in alive
        /\ Goto(s, "store")
        /\ client' = [client EXCEPT ![s].tokens = client[s].grant]
        /\ UNCHANGED <<work, forced, grant, found, faults>>
     \/ /\ client[s].grant \notin alive
        /\ Only(s, "refused")
        /\ UNCHANGED faults
     \/ /\ faults < MaxFaults
        /\ faults' = faults + 1
        /\ AfterRefresh(s)
  /\ UNCHANGED <<row, made, google, history, used>>

\* Mutated: the new token is stored for the user, whatever row is the user's now.
StoreForUser(s) ==
  /\ at[s] = "store"
  /\ IF row # None
       THEN /\ row' = [row EXCEPT !.tokens = client[s].grant, !.fresh = TRUE]
            /\ Only(s, "clear")
       ELSE row' = row /\ AfterRefresh(s)
  /\ UNCHANGED <<made, google, history, used, faults>>

\* The new token is stored in the row it was read from. When that is gone the
\* update throws, which is no refusal.
Store(s) ==
  /\ at[s] = "store"
  /\ IF Is(client[s].id)
       THEN /\ row' = [row EXCEPT !.tokens = client[s].grant, !.fresh = TRUE]
            /\ Only(s, "clear")
       ELSE row' = row /\ AfterRefresh(s)
  /\ UNCHANGED <<made, google, history, used, faults>>

\* Mutated: a refresh that works leaves the error where it is.
ClearNothing(s) ==
  /\ at[s] = "clear"
  /\ AfterRefresh(s)
  /\ UNCHANGED <<row, made, google, history, used, faults>>

Clear(s) ==
  /\ at[s] = "clear"
  /\ ClearAuthError
  /\ AfterRefresh(s)
  /\ UNCHANGED <<made, google, owner, used, faults>>

Refused(s) ==
  /\ at[s] = "refused"
  /\ RecordAuthError(client[s].grant)
  /\ AfterRefresh(s)
  /\ UNCHANGED <<made, google, history, used, faults>>

\* The sync's calls to Gmail or Calendar succeed; or a 401 tells that the token is
\* no longer honoured, and noteAuthFailure asks for a refresh to know; or they fail
\* for another reason.
Call(s) ==
  /\ at[s] = "call"
  /\ \/ client[s].tokens \in alive /\ EndSync(s) /\ UNCHANGED faults
     \/ /\ client[s].tokens \notin alive
        /\ Goto(s, "read")
        /\ forced' = [forced EXCEPT ![s] = TRUE]
        /\ UNCHANGED <<work, client, grant, found, faults>>
     \/ /\ faults < MaxFaults
        /\ faults' = faults + 1
        /\ EndSync(s)
  /\ UNCHANGED <<row, made, google, history, used>>

\* The token expires during the calls. The library refreshes it, and the listener
\* stores what it gets; a refusal is the call's error, recorded against the grant
\* the work started with.
CallExpired(s) ==
  /\ at[s] = "call"
  /\ IF client[s].grant \in alive
       THEN /\ Goto(s, "store")
            /\ client' = [client EXCEPT ![s].tokens = client[s].grant]
            /\ row' = row
            /\ UNCHANGED <<work, forced, grant, found>>
       ELSE /\ RecordAuthError(work[s])
            /\ EndSync(s)
  /\ UNCHANGED <<made, google, history, used, faults>>

-----------------------------------------------------------------------------
(* The owner.                                                                *)

\* Consent: Google issues a grant, and the callback looks the row up.
Reconnect(o) ==
  /\ at[o] = "idle" /\ issued < MaxGrant
  /\ issued' = issued + 1
  /\ alive' = alive \cup {issued'}
  /\ grant' = [grant EXCEPT ![o] = issued']
  /\ Goto(o, "find")
  /\ UNCHANGED <<row, made, work, client, forced, found, history, used, faults>>

\* A sign-in brings an access token of a grant already given, and no refresh token.
SignIn(o) ==
  /\ at[o] = "idle" /\ used < MaxCalls
  /\ row # None /\ row.grant \in alive
  /\ used' = used + 1
  /\ grant' = [grant EXCEPT ![o] = row.grant]
  /\ Goto(o, "find signed in")
  /\ UNCHANGED <<row, made, google, work, client, forced, found, history, faults>>

Find(o) ==
  /\ at[o] \in {"find", "find signed in"}
  /\ found' = [found EXCEPT ![o] = IF row = None THEN None ELSE row.id]
  /\ Goto(o, IF at[o] = "find" THEN "write" ELSE "write signed in")
  /\ UNCHANGED <<row, made, google, work, client, forced, grant, history, used, faults>>

EndOwner(o) ==
  /\ Goto(o, "idle")
  /\ grant' = [grant EXCEPT ![o] = None]
  /\ found' = [found EXCEPT ![o] = None]
  /\ UNCHANGED <<work, client, forced>>

\* The row that was found is updated, or one is created; either throws when
\* another request has come first. The update leaves the error to be cleared.
WriteGrant(o) ==
  /\ at[o] = "write"
  /\ IF found[o] # None /\ Is(found[o])
       THEN /\ row' = [row EXCEPT !.grant = grant[o], !.tokens = grant[o], !.fresh = TRUE]
            /\ owner' = [owner EXCEPT ![grant[o]] = row.id]
            /\ healing' = row.err
            /\ Goto(o, "clear")
            /\ UNCHANGED <<made, work, client, forced, grant, found>>
     ELSE IF found[o] = None /\ row = None /\ made < MaxRow
       THEN /\ made' = made + 1
            /\ row' = [id |-> made', grant |-> grant[o], tokens |-> grant[o], err |-> FALSE, fresh |-> TRUE]
            /\ owner' = [owner EXCEPT ![grant[o]] = made']
            /\ Goto(o, "clear")
            /\ UNCHANGED <<healing, work, client, forced, grant, found>>
     ELSE EndOwner(o) /\ UNCHANGED <<row, made, history>>
  /\ UNCHANGED <<google, used, faults>>

\* Mutated: the refresh token that did not come is written over the stored one.
WriteSignInBlank(o) ==
  /\ at[o] = "write signed in"
  /\ row' = IF found[o] # None /\ Is(found[o]) THEN [row EXCEPT !.tokens = grant[o], !.grant = None] ELSE row
  /\ EndOwner(o)
  /\ UNCHANGED <<made, google, history, used, faults>>

\* Without a refresh token the stored one stays, and with it the error.
WriteSignIn(o) ==
  /\ at[o] = "write signed in"
  /\ row' = IF found[o] # None /\ Is(found[o]) THEN [row EXCEPT !.tokens = grant[o], !.fresh = TRUE] ELSE row
  /\ EndOwner(o)
  /\ UNCHANGED <<made, google, history, used, faults>>

ClearAfter(o) ==
  /\ at[o] = "clear"
  /\ ClearAuthError
  /\ EndOwner(o)
  /\ UNCHANGED <<made, google, owner, used, faults>>

\* disconnect finds the row, ...
Disconnect(o) ==
  /\ at[o] = "idle" /\ used < MaxCalls /\ row # None
  /\ used' = used + 1
  /\ found' = [found EXCEPT ![o] = row.id]
  /\ Goto(o, "revoke")
  /\ UNCHANGED <<row, made, google, work, client, forced, grant, history, faults>>

\* ... asks Google to revoke what the stored token belongs to, best effort, ...
Revoke(o) ==
  /\ at[o] = "revoke"
  /\ \/ alive' = (IF row # None /\ row.tokens \in alive THEN {} ELSE alive) /\ UNCHANGED faults
     \/ faults < MaxFaults /\ faults' = faults + 1 /\ UNCHANGED alive
  /\ Goto(o, "delete")
  /\ UNCHANGED <<row, made, issued, work, client, forced, grant, found, history, used>>

\* ... and deletes it with everything synced, or nothing when it is gone.
Delete(o) ==
  /\ at[o] = "delete"
  /\ row' = IF Is(found[o]) THEN None ELSE row
  /\ healing' = (healing /\ row' # None)
  /\ EndOwner(o)
  /\ UNCHANGED <<made, google, owner, used, faults>>

\* Outside: the user removes the app at Google, which drops all it granted; an
\* access token nears its expiry; the process restarts.
RevokedAtGoogle ==
  /\ alive # {}
  /\ alive' = {}
  /\ UNCHANGED <<row, made, issued, procVars, history, used, faults>>

Expire ==
  /\ row # None /\ row.fresh
  /\ row' = [row EXCEPT !.fresh = FALSE]
  /\ UNCHANGED <<made, google, procVars, history, used, faults>>

Crash ==
  /\ faults < MaxFaults
  /\ \E p \in Procs : at[p] # "idle"
  /\ faults' = faults + 1
  /\ at' = [p \in Procs |-> "idle"]
  /\ work' = [s \in Syncs |-> None]
  /\ client' = [s \in Syncs |-> None]
  /\ forced' = [s \in Syncs |-> FALSE]
  /\ grant' = [o \in Owners |-> None]
  /\ found' = [o \in Owners |-> None]
  /\ UNCHANGED <<row, made, google, history, used>>

Sync(s) ==
  \/ StartSync(s) \/ ReadRow(s) \/ Refresh(s) \/ Store(s) \/ Clear(s) \/ Refused(s) \/ Call(s)

Request(o) ==
  \/ Find(o) \/ WriteGrant(o) \/ WriteSignIn(o) \/ ClearAfter(o) \/ Revoke(o) \/ Delete(o)

Next ==
  \/ \E s \in Syncs : Sync(s) \/ CallExpired(s)
  \/ \E o \in Owners : Reconnect(o) \/ SignIn(o) \/ Disconnect(o) \/ Request(o)
  \/ RevokedAtGoogle \/ Expire \/ Crash

Spec == Init /\ [][Next]_vars

\* The syncs are started again and again, no call hangs for ever and no sync goes
\* on for ever; a request that has started goes on; access tokens expire.
FairSpec ==
  /\ Spec
  /\ \A s \in Syncs : WF_vars(Sync(s)) /\ SF_vars(Call(s))
  /\ \A o \in Owners : WF_vars(Request(o))
  /\ WF_vars(Expire)

-----------------------------------------------------------------------------
TypeOK ==
  /\ row \in Row \cup {None}
  /\ made \in Rows /\ issued \in Grants /\ alive \subseteq 1 .. issued
  /\ work \in [Syncs -> Grants \cup {None}]
  /\ client \in [Syncs -> Client \cup {None}]
  /\ forced \in [Syncs -> BOOLEAN]
  /\ grant \in [Owners -> Grants \cup {None}]
  /\ found \in [Owners -> Rows \cup {None}]
  /\ owner \in [Grants -> Rows \cup {None}]
  /\ \A s \in Syncs : at[s] \in {"refresh", "store", "clear", "refused", "call"} => client[s] # None

Dead(g) == g \notin alive

\* Settings says that Google refused the grant only of a grant that Google has
\* refused: not after a Reconnect has replaced it, however late the refusal comes
\* in. Excused is a Reconnect between its two writes, or cut there by a restart.
NoFalseRefusal == row # None /\ row.err => Dead(row.grant) \/ healing

\* A row's tokens come from a grant stored in that same row: a sync that was
\* refreshing when the owner disconnected and connected again writes nothing there.
\* This takes the owner to do one thing at a time (Owners has one member): a sign-in
\* beside a disconnect and a connect may write its tokens into the new row.
TokensOfThisConnection == row # None => owner[row.tokens] = row.id

\* A grant that Google no longer honours is reported, or the owner replaces it.
DeadGrantReported ==
  \A g \in Grants :
    (row # None /\ row.grant = g /\ Dead(g)) ~> (row = None \/ row.grant # g \/ row.err)

\* The report goes away once the stored grant works, even when a restart cut the
\* Reconnect short.
ReportHeals == (row # None /\ row.err) ~> (row = None \/ ~ row.err \/ Dead(row.grant))
=============================================================================
