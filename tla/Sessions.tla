----------------------------- MODULE Sessions -----------------------------
(***************************************************************************)
(* The sessions of the MCP server: SessionManager over Redis, the          *)
(* middleware that looks up and refreshes the session a request names, and *)
(* the dependency that creates one.                                        *)
(*                                                                         *)
(* A session is a key with a TTL; the set of a user's sessions is another  *)
(* key with an hour more.  Creating sets both TTLs, refreshing only the    *)
(* first, and update_session and delete_session are several accesses each. *)
(***************************************************************************)
EXTENDS Naturals, FiniteSets

CONSTANTS
    Sids,         \* session ids; uuid4 draws an unused one
    Users,        \* owners of API keys
    SessionTtl,   \* session_ttl_seconds, in ticks
    ListTtl,      \* session_ttl_seconds + 3600
    Callers,      \* HTTP requests under way
    Managers      \* calls of update_session and delete_session under way

NoSid == "no session"

ASSUME TtlAssumption ==
    SessionTtl \in Nat /\ ListTtl \in Nat /\ 0 < SessionTtl /\ SessionTtl <= ListTtl
ASSUME UsersAssumption == Users # {} /\ NoSid \notin Users

Clients == Callers \cup Managers

VARIABLES
    owner,      \* the user_id in the data of a session that was ever created
    left,       \* ticks until the session's key expires, 0 if there is none
    members,    \* mcp:user_sessions:<user>
    listLeft,   \* ticks until that set expires
    client,     \* where each request or call is and the session it works with
    prolonged   \* history: sessions whose key was given a new TTL after creation

sessionVars == <<owner, left, members, listLeft, client, prolonged>>
sessionKeys == <<owner, left, members, listLeft, prolonged>>

IdleClient == [pc |-> "idle", user |-> CHOOSE u \in Users : TRUE, sid |-> NoSid, ttl |-> 0]

SessionsTypeOK ==
    /\ owner \in [Sids -> Users \cup {NoSid}]
    /\ left \in [Sids -> 0..SessionTtl]
    /\ members \in [Users -> SUBSET Sids]
    /\ listLeft \in [Users -> 0..ListTtl]
    /\ client \in [Clients ->
          [pc : {"idle", "refresh", "depend", "updateTtl", "updateSet", "delete"},
           user : Users, sid : Sids \cup {NoSid}, ttl : 0..SessionTtl]]
    /\ prolonged \subseteq Sids

SessionsInit ==
    /\ owner = [s \in Sids |-> NoSid]
    /\ left = [s \in Sids |-> 0]
    /\ members = [u \in Users |-> {}]
    /\ listLeft = [u \in Users |-> 0]
    /\ client = [c \in Clients |-> IdleClient]
    /\ prolonged = {}

Live(s) == left[s] > 0
Served(c) == client' = [client EXCEPT ![c] = IdleClient]
Serves(c, pc, u, s, ttl) ==
    client' = [client EXCEPT ![c] = [pc |-> pc, user |-> u, sid |-> s, ttl |-> ttl]]

-----------------------------------------------------------------------------

(* A request: the middleware, then the route's dependency.                 *)

\* SessionMiddleware: get_session of the session the header names, or none; one that
\* is not there (or cannot be read) is answered with 401.
Middleware(c) ==
    /\ client[c].pc = "idle"
    /\ \E u \in Users, s \in Sids \cup {NoSid} :
          \/ s = NoSid /\ Serves(c, "depend", u, NoSid, 0)
          \/ s # NoSid /\ Live(s) /\ Serves(c, "refresh", u, s, 0)
    /\ UNCHANGED sessionKeys

\* refresh_ttl: EXPIRE does nothing to a key that is gone.  The request goes on with
\* the data it has read.
RefreshTtl(c) ==
    LET s == client[c].sid
    IN /\ client[c].pc = "refresh"
       /\ IF Live(s)
          THEN /\ left' = [left EXCEPT ![s] = SessionTtl]
               /\ prolonged' = prolonged \cup {s}
          ELSE UNCHANGED <<left, prolonged>>
       /\ Serves(c, "depend", client[c].user, s, 0)
       /\ UNCHANGED <<owner, members, listLeft>>

\* Mutant: only a new set gets a TTL.
create_session_once(u) ==
    \E s \in Sids :
       /\ owner[s] = NoSid
       /\ owner' = [owner EXCEPT ![s] = u]
       /\ left' = [left EXCEPT ![s] = SessionTtl]
       /\ members' = [members EXCEPT ![u] = @ \cup {s}]
       /\ listLeft' = [listLeft EXCEPT ![u] = IF @ = 0 THEN ListTtl ELSE @]
       /\ UNCHANGED prolonged

\* create_session: one MULTI sets the session, adds it and sets the set's TTL.
create_session(u) ==
    \E s \in Sids :
       /\ owner[s] = NoSid
       /\ owner' = [owner EXCEPT ![s] = u]
       /\ left' = [left EXCEPT ![s] = SessionTtl]
       /\ members' = [members EXCEPT ![u] = @ \cup {s}]
       /\ listLeft' = [listLeft EXCEPT ![u] = ListTtl]
       /\ UNCHANGED prolonged

Mine(u) == {s \in Sids : owner[s] = u}

\* get_current_session: the session of the header if it is the user's own, else a new
\* one.  Without Redis there is none.
GetCurrentSession(c) ==
    LET u == client[c].user
        s == client[c].sid
    IN /\ client[c].pc = "depend"
       /\ \/ s \in Mine(u) /\ UNCHANGED sessionKeys
          \/ s \notin Mine(u) /\ (create_session(u) \/ UNCHANGED sessionKeys)
       /\ Served(c)

-----------------------------------------------------------------------------

(* Calls of the session manager's other operations.                        *)

\* update_session reads the data,
UpdateGet(c) ==
    /\ client[c].pc = "idle"
    /\ \E s \in Sids : Live(s) /\ Serves(c, "updateTtl", client[c].user, s, 0)
    /\ UNCHANGED sessionKeys

\* then the TTL, which is negative for a key that is gone,
UpdateReadTtl(c) ==
    LET s == client[c].sid
    IN /\ client[c].pc = "updateTtl"
       /\ Serves(c, "updateSet", client[c].user, s, IF Live(s) THEN left[s] ELSE SessionTtl)
       /\ UNCHANGED sessionKeys

\* and writes the data back with that TTL, whether or not the session still exists.
UpdateSet(c) ==
    LET s == client[c].sid
    IN /\ client[c].pc = "updateSet"
       /\ left' = [left EXCEPT ![s] = client[c].ttl]
       /\ prolonged' = prolonged \cup {s}
       /\ Served(c)
       /\ UNCHANGED <<owner, members, listLeft>>

\* delete_session looks up the owner,
DeleteLookup(c) ==
    /\ client[c].pc = "idle"
    /\ \E s \in Sids : Live(s) /\ Serves(c, "delete", owner[s], s, 0)
    /\ UNCHANGED sessionKeys

\* then deletes the session and its entry in one MULTI.
DeleteSession(c) ==
    LET s == client[c].sid
        u == client[c].user
    IN /\ client[c].pc = "delete"
       /\ left' = [left EXCEPT ![s] = 0]
       /\ members' = [members EXCEPT ![u] = @ \ {s}]
       /\ listLeft' = IF members'[u] = {} THEN [listLeft EXCEPT ![u] = 0] ELSE listLeft
       /\ Served(c)
       /\ UNCHANGED <<owner, prolonged>>

\* Time passes: keys that run out disappear.
SessionTick ==
    LET Less(n) == IF n = 0 THEN 0 ELSE n - 1
    IN /\ left' = [s \in Sids |-> Less(left[s])]
       /\ listLeft' = [u \in Users |-> Less(listLeft[u])]
       /\ members' = [u \in Users |-> IF listLeft'[u] = 0 THEN {} ELSE members[u]]
       /\ UNCHANGED <<owner, client, prolonged>>

SessionsNext ==
    \/ \E c \in Callers : Middleware(c) \/ RefreshTtl(c) \/ GetCurrentSession(c)
    \/ \E c \in Managers :
          \/ UpdateGet(c) \/ UpdateReadTtl(c) \/ UpdateSet(c)
          \/ DeleteLookup(c) \/ DeleteSession(c)
    \/ SessionTick

SessionsSpec == SessionsInit /\ [][SessionsNext]_sessionVars

-----------------------------------------------------------------------------

(* Properties                                                              *)

\* list_user_sessions names every live session of the user, except one that was kept
\* alive after its creation: refreshing does not extend the set, and update_session
\* can bring a session back that has expired or was deleted.  The hour more of the
\* set's TTL, set again by each creation, is what makes this true.
LiveSessionIsListed ==
    \A s \in Sids : Live(s) /\ s \notin prolonged => s \in members[owner[s]]
=============================================================================
