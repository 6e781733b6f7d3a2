------------------------------ MODULE ApiKeys ------------------------------
(***************************************************************************)
(* The API keys of the MCP server: the admin routes and the transaction    *)
(* each of them runs in.                                                   *)
(*                                                                         *)
(* A request validates its own key, touches that key's row (an UPDATE,     *)
(* whose row lock it keeps), reads the key it is about, and writes what it *)
(* decided when get_session commits.  PostgreSQL is at READ COMMITTED, so  *)
(* what was read may be stale by then, and two requests that hold each     *)
(* other's row wait until the server aborts one of them.                   *)
(***************************************************************************)
EXTENDS Naturals, FiniteSets

CONSTANTS
    Keys,          \* keys that are in the table at the start
    Requests,      \* admin requests; a request also names the key it inserts
    Scopes,        \* the scopes a key may have, "admin" among them
    Asks,          \* what a request may ask: operation, caller's key, key and body
    PrefixWidths   \* the widths the column key_prefix may have

ASSUME ScopesAssumption == "admin" \in Scopes
ASSUME PrefixAssumption == PrefixWidths \subseteq Nat

AllKeys == Keys \cup Requests
NoKey == "no key"
NoRequest == "no request"
Unknown == "unknown"      \* a header that matches no key

ASSUME NamesAssumption == NoKey \notin AllKeys /\ NoRequest \notin Requests

VARIABLES
    prefixWidth, \* the width of key_prefix; the migration and the model say 8
    keyRow,      \* the row of each key
    grants,      \* the permission rows of each key: scope and granting request
    rowLock,     \* the request whose transaction has updated the row
    request      \* where each request is, what it asks for and what it has read

keyVars == <<prefixWidth, keyRow, grants, rowLock, request>>

Statuses == {"ABSENT", "ACTIVE", "ROTATING", "REVOKED"}
KeyRecord == [status : Statuses, life : {"unlimited", "ahead", "past"},
              grace : {"none", "open", "over"}, next : AllKeys \cup {NoKey},
              origin : AllKeys \cup {NoKey}]
Grants == [scope : Scopes, by : Requests \cup {NoRequest}]

Operations == {"create", "read", "patch", "revoke", "rotate"}
AbsentRow == [status |-> "ABSENT", life |-> "unlimited", grace |-> "none",
              next |-> NoKey, origin |-> NoKey]
NoAsk == [op |-> "read", caller |-> Unknown, target |-> Unknown,
          scopes |-> {}, limit |-> FALSE]
IdleRequest == [pc |-> "idle", ask |-> NoAsk, seen |-> "ABSENT", seenGrants |-> {},
                answer |-> 0]

\* The key id of a path may name no key; a header may match none.
AllAsks ==
    [op : Operations, caller : AllKeys \cup {Unknown}, target : AllKeys \cup {Unknown},
     scopes : SUBSET Scopes, limit : BOOLEAN]

ASSUME AsksAssumption == Asks \subseteq AllAsks

Stages == {"idle", "validate", "touch", "load", "commit", "done"}
StatusCodes == {0, 200, 401, 403, 404, 500}
RequestRecord == [pc : Stages, ask : AllAsks, seen : Statuses, seenGrants : SUBSET Grants,
                  answer : StatusCodes]

KeysTypeOK ==
    /\ prefixWidth \in PrefixWidths
    /\ keyRow \in [AllKeys -> KeyRecord]
    /\ grants \in [AllKeys -> SUBSET Grants]
    /\ rowLock \in [AllKeys -> Requests \cup {NoRequest}]
    /\ request \in [Requests -> RequestRecord]

ScopesOf(g) == {p.scope : p \in g}

KeysInit ==
    /\ prefixWidth \in PrefixWidths
    /\ keyRow \in [AllKeys -> {AbsentRow} \cup
           [status : {"ACTIVE"}, life : {"unlimited", "ahead"}, grace : {"none"},
            next : {NoKey}, origin : {NoKey}]]
    /\ \A k \in AllKeys : keyRow[k].status = "ABSENT" <=> k \in Requests
    /\ grants = [k \in AllKeys |-> IF k \in Keys
                                   THEN {[scope |-> "admin", by |-> NoRequest]} ELSE {}]
    /\ rowLock = [k \in AllKeys |-> NoRequest]
    /\ request = [r \in Requests |-> IdleRequest]

-----------------------------------------------------------------------------

is_expired(row) == row.life = "past"

is_valid(row) ==
    \/ row.status = "ACTIVE" /\ ~ is_expired(row)
    \/ row.status = "ROTATING" /\ row.grace = "open"

Release(locks, r) == [k \in AllKeys |-> IF locks[k] = r THEN NoRequest ELSE locks[k]]

\* Mutant: a request that fails keeps its transaction open.
RolledBackKeepsLocks(r, code) ==
    /\ request' = [request EXCEPT ![r] = [IdleRequest EXCEPT !.pc = "done",
                                             !.answer = code]]
    /\ UNCHANGED <<prefixWidth, keyRow, grants, rowLock>>

\* The handler raises or the commit fails: rollback, and the answer is an error.
RolledBack(r, code) ==
    /\ request' = [request EXCEPT ![r] = [IdleRequest EXCEPT !.pc = "done",
                                             !.answer = code]]
    /\ rowLock' = Release(rowLock, r)
    /\ UNCHANGED <<prefixWidth, keyRow, grants>>

Arrive(r) ==
    /\ request[r].pc = "idle"
    /\ \E ask \in Asks :
          request' = [request EXCEPT ![r].pc = "validate", ![r].ask = ask]
    /\ UNCHANGED <<prefixWidth, keyRow, grants, rowLock>>

\* validate_api_key up to the UPDATE of last_used_at: get_by_hash and is_valid.
Validate(r) ==
    LET caller == request[r].ask.caller
        found == caller # Unknown /\ keyRow[caller].status # "ABSENT"
    IN /\ request[r].pc = "validate"
       /\ \/ ~ found /\ RolledBack(r, 401)
          \/ found /\ ~ is_valid(keyRow[caller]) /\ RolledBack(r, 403)
          \/ /\ found /\ is_valid(keyRow[caller])
             /\ request' = [request EXCEPT ![r].pc = "touch",
                               ![r].seen = keyRow[caller].status,
                               ![r].seenGrants = grants[caller]]
             /\ UNCHANGED <<prefixWidth, keyRow, grants, rowLock>>

\* update_last_used waits for the row and keeps it; _require_admin looks at the
\* scopes that came with the key.  create_key needs no key to be read.
TouchLastUsed(r) ==
    LET me == request[r]
    IN /\ me.pc = "touch"
       /\ rowLock[me.ask.caller] = NoRequest
       /\ IF "admin" \notin ScopesOf(me.seenGrants)
          THEN RolledBack(r, 403)
          ELSE /\ rowLock' = [rowLock EXCEPT ![me.ask.caller] = r]
               /\ request' = [request EXCEPT
                     ![r].pc = IF me.ask.op = "create" THEN "commit" ELSE "load"]
               /\ UNCHANGED <<prefixWidth, keyRow, grants>>

\* get_by_id.  The session already holds the caller's own row, and a SELECT does
\* not refresh an object the session holds.
Loaded(r) ==
    LET me == request[r]
    IN IF me.ask.target = Unknown THEN [status |-> "ABSENT", perms |-> {}]
       ELSE IF me.ask.target = me.ask.caller
       THEN [status |-> me.seen, perms |-> me.seenGrants]
       ELSE [status |-> keyRow[me.ask.target].status, perms |-> grants[me.ask.target]]

\* Mutant: rotate_key takes a key of any status.
RefusedAfterLoadNever(r) == Loaded(r).status = "ABSENT"

RefusedAfterLoad(r) ==
    LET status == Loaded(r).status
    IN status = "ABSENT" \/ (request[r].ask.op = "rotate" /\ status # "ACTIVE")

LoadKey(r) ==
    /\ request[r].pc = "load"
    /\ IF RefusedAfterLoad(r)
       THEN RolledBack(r, 404)
       ELSE /\ request' = [request EXCEPT ![r].pc = "commit",
                              ![r].seen = Loaded(r).status, ![r].seenGrants = Loaded(r).perms]
            /\ UNCHANGED <<prefixWidth, keyRow, grants, rowLock>>

-----------------------------------------------------------------------------

\* create_key stores the first 12 characters of the raw key.
PrefixFits == 12 <= prefixWidth

(* What the handlers leave in the session, written by the flush of the     *)
(* commit.  Only attributes whose value changed since the load are in the  *)
(* UPDATE.                                                                 *)

create_key(r, scopes, life, origin) ==
    [row |-> [AbsentRow EXCEPT !.status = "ACTIVE", !.life = life, !.origin = origin],
     perms |-> {[scope |-> s, by |-> r] : s \in scopes}]

\* create_key: the new row and its permissions.
CreateKey(r) ==
    /\ PrefixFits
    /\ \E life \in {"unlimited", "ahead"} :
          LET new == create_key(r, request[r].ask.scopes, life, NoKey)
          IN /\ keyRow' = [keyRow EXCEPT ![r] = new.row]
             /\ grants' = [grants EXCEPT ![r] = new.perms]

\* revoke_key.  The status of a key that was read as revoked is not written.
RevokeKey(r) ==
    LET k == request[r].ask.target
    IN /\ keyRow' = IF request[r].seen = "REVOKED" THEN keyRow
                    ELSE [keyRow EXCEPT ![k].status = "REVOKED"]
       /\ UNCHANGED grants

\* rotate_key: a replacement with the owner and the scopes that were read, without
\* an expiry, and the old key's grace window.
RotateKey(r) ==
    LET k == request[r].ask.target
        new == create_key(r, ScopesOf(request[r].seenGrants), "unlimited", k)
    IN /\ PrefixFits
       /\ keyRow' = [keyRow EXCEPT ![r] = new.row, ![k].status = "ROTATING",
                                   ![k].grace = "open", ![k].next = r]
       /\ grants' = [grants EXCEPT ![r] = new.perms]

\* update_key: the new permissions are inserted before the ones that were read are
\* deleted, so a scope that is still there violates the unique constraint.  A body
\* with both fields flushes the permissions a query earlier.
ScopesCollide(r) ==
    LET me == request[r].ask
    IN me.op = "patch" /\ me.scopes \cap ScopesOf(grants[me.target]) # {}

\* Mutant: the old permissions stay.
PatchKeyAdds(r) ==
    LET me == request[r].ask
    IN /\ ~ ScopesCollide(r)
       /\ UNCHANGED keyRow
       /\ grants' = [grants EXCEPT ![me.target] =
                        @ \cup {[scope |-> s, by |-> r] : s \in me.scopes}]

PatchKey(r) ==
    LET me == request[r].ask
    IN /\ ~ ScopesCollide(r)
       /\ UNCHANGED keyRow
       /\ grants' = IF me.scopes = {} THEN grants
                    ELSE [grants EXCEPT ![me.target] = (@ \ request[r].seenGrants)
                             \cup {[scope |-> s, by |-> r] : s \in me.scopes}]

\* Whether the flush updates the row of the target, which is then locked.
UpdatesRow(r) ==
    \/ request[r].ask.op \in {"revoke", "rotate"}
    \/ request[r].ask.op = "patch" /\ request[r].ask.limit

RowIsFree(r) ==
    UpdatesRow(r) => rowLock[request[r].ask.target] \in {NoRequest, r}

Commit(r) ==
    /\ request[r].pc = "commit"
    /\ RowIsFree(r)
    /\ CASE request[r].ask.op = "create" -> CreateKey(r)
         [] request[r].ask.op = "revoke" -> RevokeKey(r)
         [] request[r].ask.op = "rotate" -> RotateKey(r)
         [] request[r].ask.op = "patch"  -> PatchKey(r)
         [] request[r].ask.op = "read"   -> UNCHANGED <<keyRow, grants>>
    /\ rowLock' = Release(rowLock, r)
    /\ request' = [request EXCEPT ![r].pc = "done", ![r].answer = 200]
    /\ UNCHANGED prefixWidth

\* The flush raises: a unique constraint, or the prefix that does not fit.
FlushFails(r) ==
    /\ request[r].pc = "commit"
    /\ \/ ~ PrefixFits /\ request[r].ask.op \in {"create", "rotate"}
       \/ RowIsFree(r) /\ ScopesCollide(r)
    /\ RolledBack(r, 500)

-----------------------------------------------------------------------------

WaitsFor(r) ==
    LET me == request[r]
    IN CASE me.pc = "touch"  -> rowLock[me.ask.caller]
         [] me.pc = "commit" /\ ~ RowIsFree(r) -> rowLock[me.ask.target]
         [] OTHER -> NoRequest

\* The requests of a cycle: each waits for another of them.
Deadlocked(r) ==
    \E S \in SUBSET Requests :
       r \in S /\ {WaitsFor(q) : q \in S} = S

\* PostgreSQL aborts a transaction of a deadlock; get_session rolls it back.
DeadlockAbort(r) == Deadlocked(r) /\ RolledBack(r, 500)

\* The server or the process goes away under an open transaction.
KeysAbort(r) ==
    /\ request[r].pc \in {"touch", "load", "commit"}
    /\ RolledBack(r, 500)

Lapse(k) ==
    /\ keyRow[k].life = "ahead" /\ keyRow[k].status # "ABSENT"
    /\ keyRow' = [keyRow EXCEPT ![k].life = "past"]
    /\ UNCHANGED <<prefixWidth, grants, rowLock, request>>

GraceEnds(k) ==
    /\ keyRow[k].grace = "open"
    /\ keyRow' = [keyRow EXCEPT ![k].grace = "over"]
    /\ UNCHANGED <<prefixWidth, grants, rowLock, request>>

RequestStep(r) ==
    Validate(r) \/ TouchLastUsed(r) \/ LoadKey(r) \/ Commit(r) \/ FlushFails(r)

KeysNext ==
    \/ \E r \in Requests : Arrive(r) \/ RequestStep(r) \/ DeadlockAbort(r) \/ KeysAbort(r)
    \/ \E k \in AllKeys : Lapse(k) \/ GraceEnds(k)

\* The server goes on with the requests it has, and PostgreSQL detects deadlocks.
KeysFairness ==
    \A r \in Requests : WF_keyVars(RequestStep(r)) /\ WF_keyVars(DeadlockAbort(r))

KeysSpec == KeysInit /\ [][KeysNext]_keyVars /\ KeysFairness

-----------------------------------------------------------------------------

(* Properties                                                              *)

\* A rotation that read the key while it was active, and commits now.
CommitsRotation(r, k) ==
    /\ request[r].ask.op = "rotate" /\ request[r].ask.target = k
    /\ request[r].pc = "commit" /\ request'[r].answer = 200
    /\ request[r].seen = "ACTIVE"

\* revoke_key promises that a revocation cannot be undone.  It can, but only by a
\* rotation of the same key that had read it before the revocation was committed:
\* the status it writes overwrites REVOKED, and the key is valid for the grace
\* window.  No other step, and no later rotation, brings a revoked key back.
RevocationUndoneOnlyByRotation ==
    [][\A k \in AllKeys :
          keyRow[k].status = "REVOKED" /\ keyRow'[k].status # "REVOKED"
             => \E r \in Requests : CommitsRotation(r, k)]_keyVars

\* A rotation is all or nothing, whatever it waits for and whoever is aborted: a key
\* that was replaced has its replacement in the table, and the original of a
\* replacement is no longer active.
RotationIsWhole ==
    \A k \in AllKeys :
       /\ keyRow[k].status = "ROTATING" => keyRow[k].next # NoKey
       /\ keyRow[k].next # NoKey =>
             /\ keyRow[keyRow[k].next].status # "ABSENT"
             /\ keyRow[keyRow[k].next].origin = k
       /\ keyRow[k].origin # NoKey => keyRow[keyRow[k].origin].status # "ACTIVE"

Overlapping(r, q) ==
    request[r].seenGrants \cap {p \in Grants : p.by = q} = {}

\* "Replace all permissions for a key": what two patches granted to one key is there
\* side by side only if neither had read what the other granted.
GrantsMergeOnlyByOverlap ==
    \A k \in AllKeys : \A p1, p2 \in grants[k] :
       p1.by # p2.by /\ p1.by \in Requests /\ p2.by \in Requests
          => Overlapping(p1.by, p2.by) /\ Overlapping(p2.by, p1.by)

KeyTableIsConsistent == RotationIsWhole /\ GrantsMergeOnlyByOverlap

\* Two administrators whose requests update each other's key wait for each other;
\* still every request is answered.
AdminRequestsFinish ==
    \A r \in Requests : request[r].pc = "validate" ~> request[r].pc = "done"
=============================================================================
