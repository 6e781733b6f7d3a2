-------------------------- MODULE ApiServerProofs --------------------------
(***************************************************************************)
(* The parts of the API server and of the agents that keep their state to  *)
(* themselves, for any sessions, emails, keys, threads, messages, labels   *)
(* and bounds: LiveSessionIsListed of Sessions, ResponsesAreSafe of AG-04, *)
(* KeyTableIsConsistent and RevocationUndoneOnlyByRotation of the API      *)
(* keys, RateBudget of the limiters, ToolAnswersAreTrue of the Gmail       *)
(* tools, LabelsAreTrue of the label managers.  Each part's theorems are   *)
(* about its own specification; the last ones show that what MC_ApiServer  *)
(* runs is one of these parts at a time, whose types therefore hold.       *)
(***************************************************************************)
EXTENDS MC_ApiServer, JobQueueProofs, FiniteSetTheorems, WellFoundedInduction, TLAPS

-----------------------------------------------------------------------------
(* Sessions.                                                               *)

\* A client that is about to write a session's key found the session in Redis before.
ClientsKnowTheirSession ==
    \A c \in Clients : client[c].pc \in {"refresh", "updateTtl", "updateSet", "delete"}
       => client[c].sid \in Sids /\ owner[client[c].sid] # NoSid

LiveIsOwned == \A s \in Sids : Live(s) => owner[s] # NoSid

\* The set of a user's sessions lives as long as each session nobody prolonged.
ListOutlivesSession ==
    \A s \in Sids : Live(s) /\ s \notin prolonged
       => s \in members[owner[s]] /\ left[s] <= listLeft[owner[s]]

SessionsInv ==
    SessionsTypeOK /\ ClientsKnowTheirSession /\ LiveIsOwned /\ ListOutlivesSession

LEMMA IdleClientType ==
    /\ IdleClient.pc = "idle" /\ IdleClient.user \in Users
    /\ IdleClient.sid = NoSid /\ IdleClient.ttl = 0
BY UsersAssumption DEF IdleClient

LEMMA SessionsStart == SessionsInit => SessionsInv
BY IdleClientType, TtlAssumption
   DEF SessionsInit, SessionsInv, SessionsTypeOK, ClientsKnowTheirSession, LiveIsOwned,
       ListOutlivesSession, Live, IdleClient

Client == [pc : {"idle", "refresh", "depend", "updateTtl", "updateSet", "delete"},
           user : Users, sid : Sids \cup {NoSid}, ttl : 0..SessionTtl]

\* What the client of a step becomes: a record of the type that knows its session.
Knows(r) ==
    r.pc \in {"refresh", "updateTtl", "updateSet", "delete"}
       => r.sid \in Sids /\ owner[r.sid] # NoSid

LEMMA ClientStep ==
    ASSUME SessionsInv, NEW c \in Clients, NEW r \in Client, Knows(r),
           client' = [client EXCEPT ![c] = r],
           \A s \in Sids : owner[s] # NoSid => owner'[s] = owner[s]
    PROVE  client' \in [Clients -> Client] /\ ClientsKnowTheirSession'
BY DEF SessionsInv, SessionsTypeOK, ClientsKnowTheirSession, Knows, Client

LEMMA IdleClientGood == IdleClient \in Client /\ Knows(IdleClient)
BY UsersAssumption, TtlAssumption DEF IdleClient, Client, Knows

LEMMA MiddlewareInv ==
    ASSUME SessionsInv, NEW c \in Callers, Middleware(c)
    PROVE  SessionsInv'
<1>1. PICK u \in Users, s \in Sids \cup {NoSid} :
          \/ s = NoSid /\ Serves(c, "depend", u, NoSid, 0)
          \/ s # NoSid /\ Live(s) /\ Serves(c, "refresh", u, s, 0)
    BY DEF Middleware
<1>2. c \in Clients
    BY DEF Clients
<1>3. PICK r \in Client : Knows(r) /\ client' = [client EXCEPT ![c] = r]
    <2>1. CASE s = NoSid /\ Serves(c, "depend", u, NoSid, 0)
        <3> DEFINE r == [pc |-> "depend", user |-> u, sid |-> NoSid, ttl |-> 0]
        <3>1. r \in Client /\ Knows(r)
            BY TtlAssumption DEF Client, Knows
        <3> QED
            BY <2>1, <3>1 DEF Serves
    <2>2. CASE s # NoSid /\ Live(s) /\ Serves(c, "refresh", u, s, 0)
        <3> DEFINE r == [pc |-> "refresh", user |-> u, sid |-> s, ttl |-> 0]
        <3>1. r \in Client /\ Knows(r)
            BY <2>2, TtlAssumption DEF Client, Knows, SessionsInv, LiveIsOwned
        <3> QED
            BY <2>2, <3>1 DEF Serves
    <2> QED
        BY <1>1, <2>1, <2>2
<1>4. UNCHANGED sessionKeys
    BY DEF Middleware
<1> QED
    BY <1>2, <1>3, <1>4, ClientStep
       DEF sessionKeys, SessionsInv, SessionsTypeOK, LiveIsOwned, ListOutlivesSession, Live,
           Client

LEMMA RefreshTtlInv ==
    ASSUME SessionsInv, NEW c \in Callers, RefreshTtl(c)
    PROVE  SessionsInv'
<1> DEFINE s == client[c].sid
           r == [pc |-> "depend", user |-> client[c].user, sid |-> s, ttl |-> 0]
<1>1. c \in Clients
    BY DEF Clients
<1>2. s \in Sids /\ owner[s] # NoSid /\ client[c].user \in Users
    BY <1>1 DEF RefreshTtl, SessionsInv, SessionsTypeOK, ClientsKnowTheirSession
<1>3. r \in Client /\ Knows(r) /\ client' = [client EXCEPT ![c] = r]
    BY <1>2, TtlAssumption DEF RefreshTtl, Serves, Client, Knows
<1>4. UNCHANGED <<owner, members, listLeft>>
    BY DEF RefreshTtl
<1>5. client' \in [Clients -> Client] /\ ClientsKnowTheirSession'
    <2> HIDE DEF r
    <2> QED
        BY <1>1, <1>3, <1>4, ClientStep
<1>6. CASE ~ Live(s)
    <2>1. UNCHANGED <<left, prolonged>>
        BY <1>6 DEF RefreshTtl
    <2> QED
        BY <2>1, <1>4, <1>5
           DEF SessionsInv, SessionsTypeOK, LiveIsOwned, ListOutlivesSession, Live, Client
<1>7. CASE Live(s)
    <2>1. left' = [left EXCEPT ![s] = SessionTtl] /\ prolonged' = prolonged \cup {s}
        BY <1>7 DEF RefreshTtl
    <2> HIDE DEF s
    <2> QED
        BY <2>1, <1>2, <1>4, <1>5, TtlAssumption
           DEF SessionsInv, SessionsTypeOK, LiveIsOwned, ListOutlivesSession, Live, Client
<1> QED
    BY <1>6, <1>7

\* A new session is in a set that lives longer than any session of the user.
LEMMA CreateSessionKeys ==
    ASSUME SessionsInv, NEW u \in Users, create_session(u)
    PROVE  /\ owner' \in [Sids -> Users \cup {NoSid}] /\ left' \in [Sids -> 0..SessionTtl]
           /\ members' \in [Users -> SUBSET Sids] /\ listLeft' \in [Users -> 0..ListTtl]
           /\ prolonged' = prolonged
           /\ \A s \in Sids : owner[s] # NoSid => owner'[s] = owner[s]
           /\ LiveIsOwned' /\ ListOutlivesSession'
<1>1. PICK s \in Sids :
          /\ owner[s] = NoSid
          /\ owner' = [owner EXCEPT ![s] = u]
          /\ left' = [left EXCEPT ![s] = SessionTtl]
          /\ members' = [members EXCEPT ![u] = @ \cup {s}]
          /\ listLeft' = [listLeft EXCEPT ![u] = ListTtl]
          /\ UNCHANGED prolonged
    BY DEF create_session
<1>2. SessionsTypeOK
    BY DEF SessionsInv
<1>3. LiveIsOwned'
    BY <1>1, <1>2, UsersAssumption DEF SessionsInv, SessionsTypeOK, LiveIsOwned, Live
<1>4. ListOutlivesSession'
    <2> SUFFICES ASSUME NEW t \in Sids, Live(t)', t \notin prolonged
                 PROVE  t \in members'[owner'[t]] /\ left'[t] <= listLeft'[owner'[t]]
        BY <1>1 DEF ListOutlivesSession
    <2>1. CASE t = s
        BY <2>1, <1>1, <1>2, TtlAssumption DEF SessionsTypeOK
    <2>2. CASE t # s
        <3>1. owner'[t] = owner[t] /\ left'[t] = left[t] /\ Live(t)
            BY <2>2, <1>1, <1>2 DEF SessionsTypeOK, Live
        <3>2. owner[t] \in Users /\ t \in members[owner[t]] /\ left[t] <= listLeft[owner[t]]
            BY <3>1, <1>2 DEF SessionsInv, SessionsTypeOK, LiveIsOwned, ListOutlivesSession
        <3>3. left[t] <= ListTtl
            BY <1>2, TtlAssumption DEF SessionsTypeOK
        <3> QED
            BY <3>1, <3>2, <3>3, <1>1, <1>2 DEF SessionsTypeOK
    <2> QED
        BY <2>1, <2>2
<1>5. \A t \in Sids : owner[t] # NoSid => owner'[t] = owner[t]
    BY <1>1, <1>2 DEF SessionsTypeOK
<1> QED
    BY <1>1, <1>2, <1>3, <1>4, <1>5, TtlAssumption DEF SessionsTypeOK

LEMMA GetCurrentSessionInv ==
    ASSUME SessionsInv, NEW c \in Callers, GetCurrentSession(c)
    PROVE  SessionsInv'
<1>1. c \in Clients /\ client[c].user \in Users
    BY DEF Clients, SessionsInv, SessionsTypeOK
<1>2. client' = [client EXCEPT ![c] = IdleClient]
    BY DEF GetCurrentSession, Served
<1>3. CASE UNCHANGED sessionKeys
    BY <1>1, <1>2, <1>3, IdleClientGood, ClientStep
       DEF sessionKeys, SessionsInv, SessionsTypeOK, LiveIsOwned, ListOutlivesSession, Live,
           Client
<1>4. CASE create_session(client[c].user)
    <2>1. PICK u \in Users : create_session(u)
        BY <1>1, <1>4
    <2>2. \A s \in Sids : owner[s] # NoSid => owner'[s] = owner[s]
        BY <2>1, CreateSessionKeys
    <2>3. client' \in [Clients -> Client] /\ ClientsKnowTheirSession'
        BY <1>1, <1>2, <2>2, IdleClientGood, ClientStep
    <2> QED
        BY <2>1, <2>3, CreateSessionKeys DEF SessionsInv, SessionsTypeOK, Client
<1> QED
    BY <1>3, <1>4 DEF GetCurrentSession

\* The steps that only read: what the client remembers is all that changes.
LEMMA ReadInv ==
    ASSUME SessionsInv, UNCHANGED sessionKeys, NEW c \in Clients, NEW r \in Client, Knows(r),
           client' = [client EXCEPT ![c] = r]
    PROVE  SessionsInv'
BY ClientStep
   DEF sessionKeys, SessionsInv, SessionsTypeOK, LiveIsOwned, ListOutlivesSession, Live, Client

LEMMA UpdateGetInv ==
    ASSUME SessionsInv, NEW c \in Managers, UpdateGet(c)
    PROVE  SessionsInv'
<1>1. c \in Clients /\ client[c].user \in Users
    BY DEF Clients, SessionsInv, SessionsTypeOK
<1>2. PICK s \in Sids : Live(s) /\ Serves(c, "updateTtl", client[c].user, s, 0)
    BY DEF UpdateGet
<1> DEFINE r == [pc |-> "updateTtl", user |-> client[c].user, sid |-> s, ttl |-> 0]
<1>3. r \in Client /\ Knows(r) /\ client' = [client EXCEPT ![c] = r]
    BY <1>1, <1>2, TtlAssumption DEF Serves, Client, Knows, SessionsInv, LiveIsOwned
<1> HIDE DEF r
<1> QED
    BY <1>1, <1>3, ReadInv DEF UpdateGet

LEMMA UpdateReadTtlInv ==
    ASSUME SessionsInv, NEW c \in Managers, UpdateReadTtl(c)
    PROVE  SessionsInv'
<1> DEFINE s == client[c].sid
           ttl == IF Live(s) THEN left[s] ELSE SessionTtl
           r == [pc |-> "updateSet", user |-> client[c].user, sid |-> s, ttl |-> ttl]
<1>1. c \in Clients /\ client[c].user \in Users
    BY DEF Clients, SessionsInv, SessionsTypeOK
<1>2. s \in Sids /\ owner[s] # NoSid
    BY <1>1 DEF UpdateReadTtl, SessionsInv, ClientsKnowTheirSession
<1>3. ttl \in 0..SessionTtl
    BY <1>2, TtlAssumption DEF SessionsInv, SessionsTypeOK
<1>4. client' = [client EXCEPT ![c] = r]
    BY DEF UpdateReadTtl, Serves
<1> HIDE DEF s, ttl
<1>5. r \in Client /\ Knows(r)
    BY <1>1, <1>2, <1>3 DEF Client, Knows
<1> HIDE DEF r
<1> QED
    BY <1>1, <1>4, <1>5, ReadInv DEF UpdateReadTtl

LEMMA UpdateSetInv ==
    ASSUME SessionsInv, NEW c \in Managers, UpdateSet(c)
    PROVE  SessionsInv'
<1> DEFINE s == client[c].sid
           ttl == client[c].ttl
<1>1. c \in Clients
    BY DEF Clients
<1>2. s \in Sids /\ owner[s] # NoSid /\ ttl \in 0..SessionTtl
    BY <1>1 DEF UpdateSet, SessionsInv, SessionsTypeOK, ClientsKnowTheirSession
<1>3. /\ left' = [left EXCEPT ![s] = ttl] /\ prolonged' = prolonged \cup {s}
      /\ UNCHANGED <<owner, members, listLeft>>
      /\ client' = [client EXCEPT ![c] = IdleClient]
    BY DEF UpdateSet, Served
<1>4. client' \in [Clients -> Client] /\ ClientsKnowTheirSession'
    BY <1>1, <1>3, IdleClientGood, ClientStep
<1> HIDE DEF s, ttl
<1> QED
    BY <1>2, <1>3, <1>4
       DEF SessionsInv, SessionsTypeOK, LiveIsOwned, ListOutlivesSession, Live, Client

LEMMA DeleteLookupInv ==
    ASSUME SessionsInv, NEW c \in Managers, DeleteLookup(c)
    PROVE  SessionsInv'
<1>1. c \in Clients
    BY DEF Clients
<1>2. PICK s \in Sids : Live(s) /\ Serves(c, "delete", owner[s], s, 0)
    BY DEF DeleteLookup
<1>3. owner[s] \in Users /\ owner[s] # NoSid
    BY <1>2 DEF SessionsInv, SessionsTypeOK, LiveIsOwned
<1> DEFINE r == [pc |-> "delete", user |-> owner[s], sid |-> s, ttl |-> 0]
<1>4. r \in Client /\ Knows(r) /\ client' = [client EXCEPT ![c] = r]
    BY <1>2, <1>3, TtlAssumption DEF Serves, Client, Knows
<1> HIDE DEF r
<1> QED
    BY <1>1, <1>4, ReadInv DEF DeleteLookup

\* Only the session that is deleted leaves the set, so a set that another live session
\* is in does not disappear.
LEMMA DeleteSessionInv ==
    ASSUME SessionsInv, NEW c \in Managers, DeleteSession(c)
    PROVE  SessionsInv'
<1> DEFINE s == client[c].sid
           u == client[c].user
<1>1. c \in Clients
    BY DEF Clients
<1>2. s \in Sids /\ u \in Users
    BY <1>1 DEF DeleteSession, SessionsInv, SessionsTypeOK, ClientsKnowTheirSession
<1>3. /\ left' = [left EXCEPT ![s] = 0]
      /\ members' = [members EXCEPT ![u] = @ \ {s}]
      /\ listLeft' = IF members'[u] = {} THEN [listLeft EXCEPT ![u] = 0] ELSE listLeft
      /\ client' = [client EXCEPT ![c] = IdleClient]
      /\ UNCHANGED <<owner, prolonged>>
    BY DEF DeleteSession, Served
<1>4. client' \in [Clients -> Client] /\ ClientsKnowTheirSession'
    BY <1>1, <1>3, IdleClientGood, ClientStep
<1> HIDE DEF s, u
<1>5. SessionsTypeOK
    BY DEF SessionsInv
<1>6. SessionsTypeOK'
    BY <1>2, <1>3, <1>4, <1>5, TtlAssumption DEF SessionsTypeOK, Client
<1>7. LiveIsOwned'
    BY <1>2, <1>3, <1>5 DEF SessionsInv, SessionsTypeOK, LiveIsOwned, Live
<1>8. ListOutlivesSession'
    <2> SUFFICES ASSUME NEW t \in Sids, Live(t)', t \notin prolonged
                 PROVE  t \in members'[owner[t]] /\ left'[t] <= listLeft'[owner[t]]
        BY <1>3 DEF ListOutlivesSession
    <2>1. t # s /\ left'[t] = left[t] /\ Live(t)
        BY <1>2, <1>3, <1>5 DEF SessionsTypeOK, Live
    <2>2. owner[t] \in Users /\ t \in members[owner[t]] /\ left[t] <= listLeft[owner[t]]
        BY <2>1, <1>5 DEF SessionsInv, SessionsTypeOK, LiveIsOwned, ListOutlivesSession
    <2>3. t \in members'[owner[t]]
        BY <2>1, <2>2, <1>2, <1>3, <1>5 DEF SessionsTypeOK
    <2>4. listLeft'[owner[t]] = listLeft[owner[t]]
        BY <2>2, <2>3, <1>2, <1>3, <1>5 DEF SessionsTypeOK
    <2> QED
        BY <2>1, <2>2, <2>3, <2>4
<1> QED
    BY <1>4, <1>6, <1>7, <1>8 DEF SessionsInv

\* Both keys lose a tick, so the set's is still the longer one.
LEMMA SessionTickInv ==
    ASSUME SessionsInv, SessionTick
    PROVE  SessionsInv'
<1> DEFINE Less(n) == IF n = 0 THEN 0 ELSE n - 1
<1>1. /\ left' = [s \in Sids |-> Less(left[s])]
      /\ listLeft' = [u \in Users |-> Less(listLeft[u])]
      /\ members' = [u \in Users |-> IF listLeft'[u] = 0 THEN {} ELSE members[u]]
      /\ UNCHANGED <<owner, client, prolonged>>
    BY DEF SessionTick
<1>2. SessionsTypeOK
    BY DEF SessionsInv
<1>3. /\ \A s \in Sids : left[s] \in 0..SessionTtl /\ left'[s] = Less(left[s])
      /\ \A u \in Users : listLeft[u] \in 0..ListTtl /\ listLeft'[u] = Less(listLeft[u])
    BY <1>1, <1>2 DEF SessionsTypeOK
<1>4. SessionsTypeOK'
    <2>1. \A n \in 0..SessionTtl : Less(n) \in 0..SessionTtl
        BY TtlAssumption
    <2>2. \A n \in 0..ListTtl : Less(n) \in 0..ListTtl
        BY TtlAssumption
    <2> HIDE DEF Less
    <2> QED
        BY <1>1, <1>2, <1>3, <2>1, <2>2 DEF SessionsTypeOK
<1>5. LiveIsOwned' /\ ClientsKnowTheirSession'
    BY <1>1, <1>3, TtlAssumption
       DEF SessionsInv, LiveIsOwned, Live, ClientsKnowTheirSession
<1>6. ListOutlivesSession'
    <2> SUFFICES ASSUME NEW s \in Sids, Live(s)', s \notin prolonged
                 PROVE  s \in members'[owner[s]] /\ left'[s] <= listLeft'[owner[s]]
        BY <1>1 DEF ListOutlivesSession
    <2>1. Live(s) /\ left'[s] = left[s] - 1 /\ 0 < left[s] - 1 /\ left[s] \in Nat
        BY <1>3, TtlAssumption DEF Live
    <2>2. owner[s] \in Users /\ s \in members[owner[s]] /\ left[s] <= listLeft[owner[s]]
        BY <2>1, <1>2 DEF SessionsInv, SessionsTypeOK, LiveIsOwned, ListOutlivesSession
    <2>3. listLeft'[owner[s]] = listLeft[owner[s]] - 1 /\ 0 < listLeft'[owner[s]]
          /\ listLeft[owner[s]] \in Nat
        BY <2>1, <2>2, <1>3, TtlAssumption
    <2> QED
        BY <2>1, <2>2, <2>3, <1>1
<1> QED
    BY <1>4, <1>5, <1>6 DEF SessionsInv

\* The invariant of the sessions holds in every state.
THEOREM SessionsInvariant == SessionsSpec => []SessionsInv
<1>1. SessionsInv /\ [SessionsNext]_sessionVars => SessionsInv'
    <2> SUFFICES ASSUME SessionsInv, [SessionsNext]_sessionVars
                 PROVE  SessionsInv'
        OBVIOUS
    <2>1. CASE UNCHANGED sessionVars
        BY <2>1
           DEF sessionVars, SessionsInv, SessionsTypeOK, ClientsKnowTheirSession, LiveIsOwned,
               ListOutlivesSession, Live
    <2>2. ASSUME NEW c \in Callers, Middleware(c) \/ RefreshTtl(c) \/ GetCurrentSession(c)
          PROVE  SessionsInv'
        BY <2>2, MiddlewareInv, RefreshTtlInv, GetCurrentSessionInv
    <2>3. ASSUME NEW c \in Managers,
                 \/ UpdateGet(c) \/ UpdateReadTtl(c) \/ UpdateSet(c)
                 \/ DeleteLookup(c) \/ DeleteSession(c)
          PROVE  SessionsInv'
        BY <2>3, UpdateGetInv, UpdateReadTtlInv, UpdateSetInv, DeleteLookupInv,
           DeleteSessionInv
    <2> QED
        BY <2>1, <2>2, <2>3, SessionTickInv DEF SessionsNext
<1> QED
    BY <1>1, SessionsStart, PTL DEF SessionsSpec

\* Whatever the requests and calls do in between, the list of a user's sessions names
\* every live session that nobody prolonged.
THEOREM SessionsListed == SessionsSpec => [](SessionsTypeOK /\ LiveSessionIsListed)
<1>1. SessionsInv => SessionsTypeOK /\ LiveSessionIsListed
    BY DEF SessionsInv, ListOutlivesSession, LiveSessionIsListed
<1> QED
    BY <1>1, SessionsInvariant, PTL

-----------------------------------------------------------------------------
(* The response agent.                                                     *)

\* The node before it has anything to show for this run.
Working == {"idle", "scan", "template", "free", "scanDraft", "send"}

Gate(k) == should_auto_send(k) /\ ~ k.pii

\* What is sent, or about to be sent, has passed the gate; the email is the same one in
\* every run.
PassedTheGate(e) ==
    /\ agent[e].auto \/ replies[e] > 0 => Gate(agent[e].kind)
    /\ agent[e].pc \in {"template", "send"} => agent[e].auto

\* The first run alerts of, queues or answers its email, in this order and one of them.
OneOutcome(e) ==
    /\ runs[e] = 0 <=> agent[e].pc = "idle"
    /\ runs[e] <= 1 =>
          /\ agent[e].pc \in Busy \cup {"idle"} => rowStep[e] = "routing"
          /\ agent[e].pc \in Working => replies[e] = 0 /\ piiAlerts[e] = 0
          /\ replies[e] > 0 => /\ piiAlerts[e] = 0 /\ rowStep[e] # "analyst_queue"
                               /\ agent[e].step = "audit"

\* Who will have the email when this run ends: the analyst, unless the agent answers.
SomebodyHasIt(e) ==
    /\ agent[e].auto => agent[e].step = "audit"
    /\ agent[e].pc = "free" => ~ agent[e].auto
    /\ agent[e].pc \in {"free", "scanDraft"} /\ ~ agent[e].auto
          => agent[e].step = "analyst_queue"
    /\ agent[e].pc = "update" /\ e \notin slipped
          => replies[e] > 0 \/ agent[e].step = "analyst_queue"
    /\ agent[e].pc = "done" /\ e \notin slipped
          => replies[e] > 0 \/ rowStep[e] = "analyst_queue"

LetterInv(e) == PassedTheGate(e) /\ OneOutcome(e) /\ SomebodyHasIt(e)

ResponseInv == ResponseTypeOK /\ \A e \in Letters : LetterInv(e)

Run == [pc : Busy \cup {"idle", "done", "raised"}, kind : LetterKinds,
        tries : 0..LlmTries - 1, auto : BOOLEAN, draft : BOOLEAN,
        step : {"audit", "analyst_queue"}]

LEMMA GateIsBoolean == \A k \in LetterKinds : should_auto_send(k) \in BOOLEAN
BY DEF should_auto_send

\* A run of the node begins with nothing: neither an answer nor a draft.
LEMMA FreshRunType ==
    /\ FreshRun \in Run /\ FreshRun.pc = "idle" /\ FreshRun.auto = FALSE
    /\ FreshRun.step = "audit"
BY LetterKindsAssumption, ResponseAssumption DEF FreshRun, Run

LEMMA ResponseStart == ResponseInit => ResponseInv
BY FreshRunType, ResponseAssumption
   DEF ResponseInit, ResponseInv, ResponseTypeOK, LetterInv, PassedTheGate, OneOutcome,
       SomebodyHasIt, Run

\* What remains to be shown of a step of one run: the types, and the invariant of its
\* email.
LEMMA LetterStepInv ==
    ASSUME ResponseInv, NEW e \in Letters, NEW run \in Run,
           agent' = [agent EXCEPT ![e] = run],
           rowStep' \in [Letters -> {"routing", "audit", "analyst_queue"}],
           replies' \in [Letters -> Nat], piiAlerts' \in [Letters -> Nat],
           runs' \in [Letters -> 0..MaxRuns], slipped' \subseteq Letters,
           \A d \in Letters \ {e} :
              /\ rowStep'[d] = rowStep[d] /\ replies'[d] = replies[d] /\ runs'[d] = runs[d]
              /\ piiAlerts'[d] = piiAlerts[d] /\ (d \in slipped' <=> d \in slipped),
           LetterInv(e)'
    PROVE  ResponseInv'
<1>1. agent \in [Letters -> Run] /\ agent' \in [Letters -> Run]
    BY DEF ResponseInv, ResponseTypeOK, Run
<1>2. ASSUME NEW d \in Letters
      PROVE  LetterInv(d)'
    <2>1. CASE d # e
        <3>1. agent'[d] = agent[d] /\ LetterInv(d)
            BY <2>1, <1>1 DEF ResponseInv
        <3> QED
            BY <2>1, <3>1 DEF LetterInv, PassedTheGate, OneOutcome, SomebodyHasIt
    <2> QED
        BY <2>1
<1> QED
    BY <1>1, <1>2 DEF ResponseInv, ResponseTypeOK, Run

\* Where a run is, apart from its retries and its draft, of which nothing else depends.
Alike(r, q) == r.pc = q.pc /\ r.kind = q.kind /\ r.auto = q.auto /\ r.step = q.step

LEMMA ProceedShape ==
    ASSUME NEW e, NEW run \in Run, Proceed(e, run)
    PROVE  \E r \in Run : agent' = [agent EXCEPT ![e] = r] /\ Alike(r, run)
<1>1. [run EXCEPT !.tries = 0] \in Run /\ Alike([run EXCEPT !.tries = 0], run)
    BY ResponseAssumption DEF Run, Alike
<1> QED
    BY <1>1 DEF Proceed

\* A call that fails is tried again where the run is, or the run goes on without it.
LEMMA RetryShape ==
    ASSUME ResponseInv, NEW e \in Letters, NEW exhausted \in Run, RetryCall(e, exhausted)
    PROVE  \E r \in Run : /\ agent' = [agent EXCEPT ![e] = r]
                          /\ Alike(r, agent[e]) \/ Alike(r, exhausted)
<1>1. agent[e] \in Run
    BY DEF ResponseInv, ResponseTypeOK, Run
<1>2. CASE agent[e].tries + 1 < LlmTries
    <2> DEFINE r == [agent[e] EXCEPT !.tries = @ + 1]
    <2>1. agent' = [agent EXCEPT ![e] = r]
        BY <1>2 DEF RetryCall
    <2>2. agent[e].tries + 1 \in 0..LlmTries - 1
        BY <1>1, <1>2, ResponseAssumption DEF Run
    <2>3. r \in Run /\ Alike(r, agent[e])
        BY <1>1, <2>2 DEF Run, Alike
    <2> QED
        BY <2>1, <2>3
<1>3. CASE ~ (agent[e].tries + 1 < LlmTries)
    BY <1>3, ProceedShape DEF RetryCall
<1> QED
    BY <1>2, <1>3

\* A step that only moves the run: the row, the replies and the alerts are left alone.
LEMMA MoveInv ==
    ASSUME ResponseInv, NEW e \in Letters, NEW r \in Run, agent' = [agent EXCEPT ![e] = r],
           slipped \subseteq slipped', slipped' \subseteq slipped \cup {e},
           UNCHANGED <<rowStep, replies, runs, piiAlerts>>,
           LetterInv(e)'
    PROVE  ResponseInv'
<1>1. \A d \in Letters \ {e} : d \in slipped' <=> d \in slipped
    OBVIOUS
<1> QED
    BY <1>1, LetterStepInv DEF ResponseInv, ResponseTypeOK

LEMMA RetriedInv ==
    ASSUME ResponseInv, NEW e \in Letters, NEW r \in Run, agent' = [agent EXCEPT ![e] = r],
           Alike(r, agent[e]), slipped' = slipped,
           UNCHANGED <<rowStep, replies, runs, piiAlerts>>
    PROVE  ResponseInv'
<1>1. agent'[e] = r
    BY DEF ResponseInv, ResponseTypeOK
<1>2. LetterInv(e)'
    BY <1>1 DEF ResponseInv, LetterInv, PassedTheGate, OneOutcome, SomebodyHasIt, Alike
<1> QED
    BY <1>2, MoveInv

\* A run that raises, wherever it was, shows nothing that was not there before.
LEMMA RaisedInv ==
    ASSUME ResponseInv, NEW e \in Letters, NEW r \in Run, agent' = [agent EXCEPT ![e] = r],
           Alike(r, [agent[e] EXCEPT !.pc = "raised"]), agent[e].pc \in Busy,
           slipped' = slipped, UNCHANGED <<rowStep, replies, runs, piiAlerts>>
    PROVE  ResponseInv'
<1>1. agent'[e] = r /\ agent[e] \in Run
    BY DEF ResponseInv, ResponseTypeOK, Run
<1>2. r.pc = "raised" /\ r.kind = agent[e].kind /\ r.auto = agent[e].auto
      /\ r.step = agent[e].step
    BY <1>1 DEF Alike, Run
<1>3. LetterInv(e)'
    BY <1>1, <1>2
       DEF ResponseInv, LetterInv, PassedTheGate, OneOutcome, SomebodyHasIt, Busy, Working
<1> QED
    BY <1>3, MoveInv

\* The text that is not safe: whatever the agent was about to do, the analyst gets it.
LEMMA QueuedType ==
    ASSUME NEW run \in Run
    PROVE  /\ Queued(run) \in Run /\ Queued(run).pc = "update" /\ ~ Queued(run).auto
           /\ Queued(run).kind = run.kind /\ Queued(run).step = "analyst_queue"
BY DEF Queued, Run, Busy

\* The email of a second run is the one of the first, and so is what the gate says of it.
LEMMA ResponseNodeInv ==
    ASSUME ResponseInv, NEW e \in Letters, ResponseNode(e)
    PROVE  ResponseInv'
<1>1. PICK k \in IF runs[e] = 0 THEN LetterKinds ELSE {agent[e].kind} :
          Proceed(e, [FreshRun EXCEPT !.pc = "scan", !.kind = k])
    BY DEF ResponseNode
<1>2. agent \in [Letters -> Run] /\ runs[e] \in 0..MaxRuns /\ runs[e] < MaxRuns
    BY DEF ResponseInv, ResponseTypeOK, Run, ResponseNode
<1>3. k \in LetterKinds
    BY <1>2 DEF Run
<1>4. [FreshRun EXCEPT !.pc = "scan", !.kind = k] \in Run
    BY <1>3, FreshRunType DEF Run, Busy
<1>5. PICK r \in Run : /\ agent' = [agent EXCEPT ![e] = r]
                       /\ Alike(r, [FreshRun EXCEPT !.pc = "scan", !.kind = k])
    BY <1>1, <1>4, ProceedShape
<1>6. r.pc = "scan" /\ r.kind = k /\ r.auto = FALSE /\ r.step = "audit"
    BY <1>5, FreshRunType DEF Alike, Run
<1>7. /\ runs' = [runs EXCEPT ![e] = @ + 1] /\ slipped' = slipped \ {e}
      /\ UNCHANGED <<rowStep, replies, piiAlerts>>
      /\ agent[e].pc \in {"idle", "done", "raised"}
    BY DEF ResponseNode
<1>8. runs'[e] = runs[e] + 1 /\ runs' \in [Letters -> 0..MaxRuns]
    BY <1>2, <1>7, ResponseAssumption DEF ResponseInv, ResponseTypeOK
<1>9. agent'[e] = r
    BY <1>2, <1>5
<1>10. LetterInv(e)
    BY DEF ResponseInv
<1>11. PassedTheGate(e)'
    <2>1. replies[e] > 0 => k = agent[e].kind
        BY <1>10, <1>2 DEF LetterInv, OneOutcome, Working, ResponseInv, ResponseTypeOK
    <2> QED
        BY <2>1, <1>6, <1>7, <1>9, <1>10 DEF LetterInv, PassedTheGate
<1>12. OneOutcome(e)'
    <2>1. runs'[e] # 0 /\ (runs'[e] <= 1 => runs[e] = 0)
        BY <1>2, <1>8, ResponseAssumption
    <2>2. runs[e] = 0 => /\ agent[e].pc = "idle" /\ rowStep[e] = "routing"
                         /\ replies[e] = 0 /\ piiAlerts[e] = 0
        BY <1>10 DEF LetterInv, OneOutcome, Working
    <2> QED
        BY <2>1, <2>2, <1>6, <1>7, <1>9 DEF OneOutcome
<1>13. SomebodyHasIt(e)'
    BY <1>6, <1>9 DEF SomebodyHasIt
<1> QED
    BY <1>5, <1>7, <1>8, <1>11, <1>12, <1>13, LetterStepInv
       DEF LetterInv, ResponseInv, ResponseTypeOK

LEMMA ScanBodyInv ==
    ASSUME ResponseInv, NEW e \in Letters, ScanBody(e)
    PROVE  ResponseInv'
<1> DEFINE me == agent[e]
           auto == should_auto_send(me.kind)
           scanned == [me EXCEPT !.pc = IF auto THEN "template" ELSE "free", !.auto = auto,
                                 !.step = IF auto THEN "audit" ELSE "analyst_queue"]
<1>1. me \in Run /\ me.pc = "scan" /\ agent \in [Letters -> Run] /\ LetterInv(e)
    BY DEF ScanBody, ResponseInv, ResponseTypeOK, Run
<1>2. UNCHANGED <<rowStep, replies, runs, slipped>>
    BY DEF ScanBody
<1>3. CASE \E answer \in ScanAnswers :
              Safe(me.kind.pii, answer) /\ Proceed(e, scanned) /\ UNCHANGED piiAlerts
    <2>1. ~ me.kind.pii /\ Proceed(e, scanned) /\ UNCHANGED piiAlerts
        BY <1>3 DEF Safe
    <2>2. auto \in BOOLEAN
        BY <1>1, GateIsBoolean DEF Run
    <2>3. scanned \in Run
        BY <1>1, <2>2 DEF Run, Busy
    <2>4. PICK r \in Run : agent' = [agent EXCEPT ![e] = r] /\ Alike(r, scanned)
        BY <2>1, <2>3, ProceedShape
    <2>5. /\ r.pc = IF auto THEN "template" ELSE "free"
          /\ r.kind = me.kind /\ r.auto = auto
          /\ r.step = IF auto THEN "audit" ELSE "analyst_queue"
        BY <1>1, <2>4 DEF Alike, Run
    <2>6. agent'[e] = r
        BY <1>1, <2>4
    <2>7. LetterInv(e)'
        BY <1>1, <1>2, <2>1, <2>5, <2>6
           DEF LetterInv, PassedTheGate, OneOutcome, SomebodyHasIt, Working, Busy, Gate
    <2> QED
        BY <1>2, <2>1, <2>4, <2>7, MoveInv
<1>4. CASE Proceed(e, Queued(me)) /\ SendPiiAlert(e)
    <2>1. PICK r \in Run : agent' = [agent EXCEPT ![e] = r] /\ Alike(r, Queued(me))
        BY <1>1, <1>4, QueuedType, ProceedShape
    <2>2. r.pc = "update" /\ ~ r.auto /\ r.kind = me.kind /\ r.step = "analyst_queue"
        BY <1>1, <2>1, QueuedType DEF Alike
    <2>3. agent'[e] = r
        BY <1>1, <2>1
    <2>4. /\ piiAlerts' \in [Letters -> Nat]
          /\ \A d \in Letters \ {e} : piiAlerts'[d] = piiAlerts[d]
        BY <1>4 DEF SendPiiAlert, ResponseInv, ResponseTypeOK
    <2>5. LetterInv(e)'
        BY <1>1, <1>2, <2>2, <2>3
           DEF LetterInv, PassedTheGate, OneOutcome, SomebodyHasIt, Working, Busy
    <2> QED
        BY <1>2, <2>1, <2>4, <2>5, LetterStepInv DEF ResponseInv, ResponseTypeOK
<1>5. CASE RetryCall(e, [me EXCEPT !.pc = "raised"]) /\ UNCHANGED piiAlerts
    <2>1. [me EXCEPT !.pc = "raised"] \in Run
        BY <1>1 DEF Run
    <2>2. PICK r \in Run :
              /\ agent' = [agent EXCEPT ![e] = r]
              /\ Alike(r, agent[e]) \/ Alike(r, [agent[e] EXCEPT !.pc = "raised"])
        BY <1>5, <2>1, RetryShape
    <2> QED
        BY <1>1, <1>2, <1>5, <2>2, RetriedInv, RaisedInv DEF Busy
<1> QED
    BY <1>3, <1>4, <1>5 DEF ScanBody

LEMMA FillTemplateInv ==
    ASSUME ResponseInv, NEW e \in Letters, FillTemplate(e)
    PROVE  ResponseInv'
<1> DEFINE me == agent[e]
<1>1. me \in Run /\ me.pc = "template" /\ agent \in [Letters -> Run] /\ LetterInv(e)
      /\ me.auto
    BY DEF FillTemplate, ResponseInv, ResponseTypeOK, Run, LetterInv, PassedTheGate
<1>2. UNCHANGED <<rowStep, replies, runs, piiAlerts>>
    BY DEF FillTemplate
<1>3. CASE Proceed(e, [me EXCEPT !.pc = "scanDraft", !.draft = TRUE]) /\ UNCHANGED slipped
    <2>1. [me EXCEPT !.pc = "scanDraft", !.draft = TRUE] \in Run
        BY <1>1 DEF Run, Busy
    <2>2. PICK r \in Run : /\ agent' = [agent EXCEPT ![e] = r]
                           /\ Alike(r, [me EXCEPT !.pc = "scanDraft", !.draft = TRUE])
        BY <1>3, <2>1, ProceedShape
    <2>3. /\ r.pc = "scanDraft" /\ r.kind = me.kind /\ r.auto = me.auto
          /\ r.step = me.step
        BY <1>1, <2>2 DEF Alike, Run
    <2>4. agent'[e] = r
        BY <1>1, <2>2
    <2>5. LetterInv(e)'
        BY <1>1, <1>2, <2>3, <2>4
           DEF LetterInv, PassedTheGate, OneOutcome, SomebodyHasIt, Working, Busy
    <2> QED
        BY <1>2, <1>3, <2>2, <2>5, MoveInv
<1>4. CASE /\ RetryCall(e, [me EXCEPT !.pc = "update"])
           /\ slipped' = IF agent'[e].pc = "update" THEN slipped \cup {e} ELSE slipped
    <2>1. [me EXCEPT !.pc = "update"] \in Run
        BY <1>1 DEF Run, Busy
    <2>2. PICK r \in Run :
              /\ agent' = [agent EXCEPT ![e] = r]
              /\ Alike(r, me) \/ Alike(r, [me EXCEPT !.pc = "update"])
        BY <1>4, <2>1, RetryShape
    <2>3. agent'[e] = r
        BY <1>1, <2>2
    <2>4. CASE Alike(r, me)
        <3>1. slipped' = slipped
            BY <1>1, <1>4, <2>3, <2>4 DEF Alike
        <3> QED
            BY <1>2, <2>2, <2>4, <3>1, RetriedInv
    <2>5. CASE Alike(r, [me EXCEPT !.pc = "update"])
        <3>1. /\ r.pc = "update" /\ r.kind = me.kind /\ r.auto = me.auto
              /\ r.step = me.step
            BY <1>1, <2>5 DEF Alike, Run
        <3>2. slipped' = slipped \cup {e}
            BY <1>4, <2>3, <3>1
        <3>3. LetterInv(e)'
            BY <1>1, <1>2, <2>3, <3>1, <3>2
               DEF LetterInv, PassedTheGate, OneOutcome, SomebodyHasIt, Working, Busy
        <3> QED
            BY <1>2, <2>2, <3>2, <3>3, MoveInv
    <2> QED
        BY <2>2, <2>4, <2>5
<1> QED
    BY <1>3, <1>4 DEF FillTemplate

LEMMA GenerateFreeDraftInv ==
    ASSUME ResponseInv, NEW e \in Letters, GenerateFreeDraft(e)
    PROVE  ResponseInv'
<1> DEFINE me == agent[e]
<1>1. /\ me \in Run /\ me.pc = "free" /\ agent \in [Letters -> Run] /\ LetterInv(e)
      /\ ~ me.auto /\ me.step = "analyst_queue"
    BY DEF GenerateFreeDraft, ResponseInv, ResponseTypeOK, Run, LetterInv, SomebodyHasIt
<1>2. UNCHANGED <<rowStep, replies, runs, piiAlerts, slipped>>
    BY DEF GenerateFreeDraft
<1> DEFINE drafted == [me EXCEPT !.pc = "scanDraft", !.draft = TRUE]
           undrafted == [me EXCEPT !.pc = "update"]
<1>3. drafted \in Run /\ undrafted \in Run
    BY <1>1 DEF Run, Busy
<1>4. PICK r \in Run : /\ agent' = [agent EXCEPT ![e] = r]
                       /\ Alike(r, me) \/ Alike(r, drafted) \/ Alike(r, undrafted)
    BY <1>3, ProceedShape, RetryShape DEF GenerateFreeDraft
<1>5. CASE Alike(r, me)
    BY <1>2, <1>4, <1>5, RetriedInv
<1>6. CASE Alike(r, drafted) \/ Alike(r, undrafted)
    <2>1. /\ r.pc \in {"scanDraft", "update"} /\ r.kind = me.kind /\ ~ r.auto
          /\ r.step = "analyst_queue"
        BY <1>1, <1>6 DEF Alike, Run
    <2>2. agent'[e] = r
        BY <1>1, <1>4
    <2>3. LetterInv(e)'
        BY <1>1, <1>2, <2>1, <2>2
           DEF LetterInv, PassedTheGate, OneOutcome, SomebodyHasIt, Working, Busy
    <2> QED
        BY <1>2, <1>4, <2>3, MoveInv
<1> QED
    BY <1>4, <1>5, <1>6

LEMMA ScanDraftInv ==
    ASSUME ResponseInv, NEW e \in Letters, ScanDraft(e)
    PROVE  ResponseInv'
<1> DEFINE me == agent[e]
           passed == [me EXCEPT !.pc = IF me.auto THEN "send" ELSE "update"]
           raised == [me EXCEPT !.pc = "raised"]
<1>1. me \in Run /\ me.pc = "scanDraft" /\ agent \in [Letters -> Run] /\ LetterInv(e)
    BY DEF ScanDraft, ResponseInv, ResponseTypeOK, Run
<1>2. UNCHANGED <<rowStep, replies, runs, piiAlerts, slipped>>
    BY DEF ScanDraft
<1>3. passed \in Run /\ raised \in Run /\ Queued(me) \in Run
    BY <1>1, QueuedType DEF Run, Busy
<1>4. \/ Proceed(e, passed) \/ Proceed(e, Queued(me)) \/ RetryCall(e, raised)
    BY DEF ScanDraft
<1>5. PICK r \in Run : /\ agent' = [agent EXCEPT ![e] = r]
                       /\ \/ Alike(r, me) \/ Alike(r, passed) \/ Alike(r, Queued(me))
                          \/ Alike(r, raised)
    <2> HIDE DEF passed, raised
    <2> QED
        BY <1>3, <1>4, ProceedShape, RetryShape
<1>6. agent'[e] = r
    BY <1>1, <1>5
<1>7. CASE Alike(r, passed)
    <2>1. /\ r.pc = IF me.auto THEN "send" ELSE "update"
          /\ r.kind = me.kind /\ r.auto = me.auto /\ r.step = me.step
        BY <1>1, <1>7 DEF Alike, Run
    <2>2. LetterInv(e)'
        BY <1>1, <1>2, <1>6, <2>1
           DEF LetterInv, PassedTheGate, OneOutcome, SomebodyHasIt, Working, Busy
    <2> QED
        BY <1>2, <1>5, <2>2, MoveInv
<1>8. CASE Alike(r, Queued(me))
    <2>1. r.pc = "update" /\ ~ r.auto /\ r.kind = me.kind /\ r.step = "analyst_queue"
        BY <1>1, <1>8, QueuedType DEF Alike
    <2>2. LetterInv(e)'
        BY <1>1, <1>2, <1>6, <2>1
           DEF LetterInv, PassedTheGate, OneOutcome, SomebodyHasIt, Working, Busy
    <2> QED
        BY <1>2, <1>5, <2>2, MoveInv
<1> QED
    BY <1>1, <1>2, <1>5, <1>7, <1>8, RetriedInv, RaisedInv DEF Busy

LEMMA SendReplyInv ==
    ASSUME ResponseInv, NEW e \in Letters, SendReply(e)
    PROVE  ResponseInv'
<1> DEFINE me == agent[e]
<1>1. /\ me \in Run /\ me.pc = "send" /\ agent \in [Letters -> Run] /\ LetterInv(e)
      /\ me.auto /\ Gate(me.kind) /\ me.step = "audit"
    BY DEF SendReply, ResponseInv, ResponseTypeOK, Run, LetterInv, PassedTheGate,
           SomebodyHasIt
<1>2. [me EXCEPT !.pc = "update"] \in Run
    BY <1>1 DEF Run, Busy
<1>3. PICK r \in Run : /\ agent' = [agent EXCEPT ![e] = r]
                       /\ Alike(r, [me EXCEPT !.pc = "update"])
    BY <1>2, ProceedShape DEF SendReply
<1>4. r.pc = "update" /\ r.kind = me.kind /\ r.auto = me.auto /\ r.step = me.step
    BY <1>1, <1>3 DEF Alike, Run
<1>5. agent'[e] = r
    BY <1>1, <1>3
<1>6. /\ UNCHANGED <<rowStep, runs, piiAlerts>>
      /\ \/ replies' = [replies EXCEPT ![e] = @ + 1] /\ UNCHANGED slipped
         \/ slipped' = slipped \cup {e} /\ UNCHANGED replies
    BY DEF SendReply
<1>7. /\ replies' \in [Letters -> Nat] /\ slipped' \subseteq Letters
      /\ \A d \in Letters \ {e} :
            replies'[d] = replies[d] /\ (d \in slipped' <=> d \in slipped)
      /\ replies'[e] > 0 \/ e \in slipped'
    BY <1>6 DEF ResponseInv, ResponseTypeOK
<1>8. LetterInv(e)'
    BY <1>1, <1>4, <1>5, <1>6, <1>7
       DEF LetterInv, PassedTheGate, OneOutcome, SomebodyHasIt, Working, Busy
<1> QED
    BY <1>3, <1>6, <1>7, <1>8, LetterStepInv DEF ResponseInv, ResponseTypeOK

LEMMA UpdateRowInv ==
    ASSUME ResponseInv, NEW e \in Letters, UpdateRow(e)
    PROVE  ResponseInv'
<1> DEFINE me == agent[e]
<1>1. me \in Run /\ me.pc = "update" /\ agent \in [Letters -> Run] /\ LetterInv(e)
    BY DEF UpdateRow, ResponseInv, ResponseTypeOK, Run
<1>2. [me EXCEPT !.pc = "done"] \in Run
    BY <1>1 DEF Run
<1>3. PICK r \in Run : /\ agent' = [agent EXCEPT ![e] = r]
                       /\ Alike(r, [me EXCEPT !.pc = "done"])
    BY <1>2, ProceedShape DEF UpdateRow
<1>4. r.pc = "done" /\ r.kind = me.kind /\ r.auto = me.auto /\ r.step = me.step
    BY <1>1, <1>3 DEF Alike, Run
<1>5. agent'[e] = r
    BY <1>1, <1>3
<1>6. /\ UNCHANGED <<replies, runs, piiAlerts>>
      /\ \/ rowStep' = [rowStep EXCEPT ![e] = me.step] /\ UNCHANGED slipped
         \/ slipped' = slipped \cup {e} /\ UNCHANGED rowStep
    BY DEF UpdateRow
<1>7. me.step \in {"audit", "analyst_queue"}
    BY <1>1 DEF Run
<1>8. /\ rowStep' \in [Letters -> {"routing", "audit", "analyst_queue"}]
      /\ slipped' \subseteq Letters
      /\ \A d \in Letters \ {e} :
            rowStep'[d] = rowStep[d] /\ (d \in slipped' <=> d \in slipped)
      /\ rowStep'[e] \in {rowStep[e], me.step}
      /\ e \notin slipped' => e \notin slipped /\ rowStep'[e] = me.step
    BY <1>6, <1>7 DEF ResponseInv, ResponseTypeOK
<1> HIDE DEF me
<1>9. LetterInv(e)'
    BY <1>1, <1>4, <1>5, <1>6, <1>7, <1>8
       DEF me, LetterInv, PassedTheGate, OneOutcome, SomebodyHasIt, Working, Busy
<1> QED
    BY <1>3, <1>6, <1>8, <1>9, LetterStepInv DEF ResponseInv, ResponseTypeOK

LEMMA AgentDiesInv ==
    ASSUME ResponseInv, NEW e \in Letters, AgentDies(e)
    PROVE  ResponseInv'
<1>1. agent[e] \in Run
    BY DEF ResponseInv, ResponseTypeOK, Run
<1>2. [agent[e] EXCEPT !.pc = "raised"] \in Run
    BY <1>1 DEF Run
<1> QED
    BY <1>2, ProceedShape, RaisedInv DEF AgentDies

\* The invariant of the response agent holds in every state.
THEOREM ResponseInvariant == ResponseSpec => []ResponseInv
<1>1. ResponseInv /\ [ResponseNext]_responseVars => ResponseInv'
    <2> SUFFICES ASSUME ResponseInv, [ResponseNext]_responseVars
                 PROVE  ResponseInv'
        OBVIOUS
    <2>1. CASE UNCHANGED responseVars
        BY <2>1
           DEF responseVars, ResponseInv, ResponseTypeOK, LetterInv, PassedTheGate,
               OneOutcome, SomebodyHasIt
    <2>2. ASSUME NEW e \in Letters,
                 \/ ResponseNode(e) \/ ScanBody(e) \/ FillTemplate(e)
                 \/ GenerateFreeDraft(e) \/ ScanDraft(e) \/ SendReply(e) \/ UpdateRow(e)
                 \/ AgentDies(e)
          PROVE  ResponseInv'
        BY <2>2, ResponseNodeInv, ScanBodyInv, FillTemplateInv, GenerateFreeDraftInv,
           ScanDraftInv, SendReplyInv, UpdateRowInv, AgentDiesInv
    <2> QED
        BY <2>1, <2>2 DEF ResponseNext
<1> QED
    BY <1>1, ResponseStart, PTL DEF ResponseSpec

\* No reply leaves without passing the gate, nobody waits for what was answered, and a
\* run that ends without a failure leaves the email answered or with an analyst.
THEOREM ResponsesSafe == ResponseSpec => [](ResponseTypeOK /\ ResponsesAreSafe)
<1>1. ResponseInv => ResponseTypeOK /\ ResponsesAreSafe
    <2> SUFFICES ASSUME ResponseInv
                 PROVE  ResponsesAreSafe
        BY DEF ResponseInv
    <2>1. RepliesPassTheGate
        BY DEF ResponseInv, LetterInv, PassedTheGate, Gate, RepliesPassTheGate
    <2>2. WaitingIsUnanswered
        BY DEF ResponseInv, ResponseTypeOK, LetterInv, OneOutcome, WaitingIsUnanswered
    <2>3. AnsweredOrWaiting
        BY DEF ResponseInv, LetterInv, SomebodyHasIt, AnsweredOrWaiting
    <2> QED
        BY <2>1, <2>2, <2>3 DEF ResponsesAreSafe
<1> QED
    BY <1>1, ResponseInvariant, PTL

-----------------------------------------------------------------------------
(* API keys.                                                               *)

\* The row that a request inserts is not there before the request is answered.
AbsentUntilDone ==
    \A r \in Requests : request[r].pc # "done" => keyRow[r].status = "ABSENT"

\* No row that a replacement was made of can become active again: rows are not deleted,
\* and no handler sets ACTIVE but for a row it inserts.
OriginsAreSpent ==
    \A k \in AllKeys : keyRow[k].origin # NoKey
       => keyRow[keyRow[k].origin].status \notin {"ABSENT", "ACTIVE"}

\* Permissions are granted by requests that have been answered.
GrantedBefore(g) == \A p \in g : p.by \in Requests => request[p.by].pc = "done"

\* The key whose row and permissions a request x has read last.
ReadKey(x) == IF x.pc = "commit" THEN x.ask.target ELSE x.ask.caller

HasRead(x) == x.pc \in {"touch", "load"} \/ (x.pc = "commit" /\ x.ask.op # "create")

\* What a request x knows of the key it has read: there is one, a key to be rotated was
\* active, and what one request granted was all seen or not at all.
Informed(x) ==
    /\ GrantedBefore(x.seenGrants)
    /\ HasRead(x) =>
          /\ ReadKey(x) \in AllKeys /\ keyRow[ReadKey(x)].status # "ABSENT"
          /\ x.seen # "ABSENT"
          /\ \A p \in x.seenGrants, o \in grants[ReadKey(x)] :
                p.by = o.by /\ p.by \in Requests => o \in x.seenGrants
    /\ x.pc = "commit" /\ x.ask.op = "rotate" => x.seen = "ACTIVE"

KeysInv ==
    /\ KeysTypeOK /\ AbsentUntilDone /\ OriginsAreSpent
    /\ \A r \in Requests : Informed(request[r])
    /\ \A k \in AllKeys : GrantedBefore(grants[k])
    /\ KeyTableIsConsistent

LEMMA StagesAndCodes ==
    /\ "validate" \in Stages /\ "touch" \in Stages /\ "load" \in Stages
    /\ "commit" \in Stages /\ "done" \in Stages
    /\ 200 \in StatusCodes /\ 401 \in StatusCodes /\ 403 \in StatusCodes
    /\ 404 \in StatusCodes
    /\ 500 \in StatusCodes
BY DEF Stages, StatusCodes

\* What a request becomes when it has read a key, and when it is answered.
AfterRead(x, pc, status, g) == [x EXCEPT !.pc = pc, !.seen = status, !.seenGrants = g]
AfterAnswer(x, code) == [x EXCEPT !.pc = "done", !.answer = code]

LEMMA AfterReadType ==
    ASSUME NEW x \in RequestRecord, NEW pc \in Stages, NEW status \in Statuses,
           NEW g \in SUBSET Grants
    PROVE  /\ AfterRead(x, pc, status, g) \in RequestRecord
           /\ AfterRead(x, pc, status, g).pc = pc
           /\ AfterRead(x, pc, status, g).seen = status
           /\ AfterRead(x, pc, status, g).seenGrants = g
           /\ AfterRead(x, pc, status, g).ask = x.ask
BY DEF RequestRecord, AfterRead

LEMMA AfterAnswerType ==
    ASSUME NEW x \in RequestRecord, NEW code \in StatusCodes
    PROVE  /\ AfterAnswer(x, code) \in RequestRecord
           /\ AfterAnswer(x, code).pc = "done"
           /\ AfterAnswer(x, code).seenGrants = x.seenGrants
BY StagesAndCodes DEF RequestRecord, AfterAnswer

LEMMA IdleRequestType ==
    /\ IdleRequest \in RequestRecord /\ IdleRequest.pc = "idle"
    /\ IdleRequest.seenGrants = {}
BY DEF IdleRequest, RequestRecord, Stages, StatusCodes, NoAsk, AllAsks, Operations, Statuses

LEMMA IdleRequestInformed ==
    ASSUME NEW x, x.seenGrants = {}, x.pc \in {"idle", "validate", "done"}
    PROVE  Informed(x)
BY DEF Informed, GrantedBefore, HasRead

LEMMA KeysStart == KeysInit => KeysInv
<1> SUFFICES ASSUME KeysInit
             PROVE  KeysInv
    OBVIOUS
<1>1. \A k \in AllKeys :
         /\ keyRow[k] \in KeyRecord /\ keyRow[k].next = NoKey /\ keyRow[k].origin = NoKey
         /\ keyRow[k].status \in {"ABSENT", "ACTIVE"}
         /\ keyRow[k].status = "ABSENT" <=> k \in Requests
    BY DEF KeysInit, AbsentRow, KeyRecord, Statuses
<1>2. \A k \in AllKeys : \A p \in grants[k] : p \in Grants /\ p.by = NoRequest
    BY ScopesAssumption DEF KeysInit, Grants
<1>3. KeysTypeOK
    <2>1. keyRow \in [AllKeys -> KeyRecord]
        BY <1>1 DEF KeysInit
    <2>2. grants \in [AllKeys -> SUBSET Grants]
        BY <1>2 DEF KeysInit
    <2>3. request \in [Requests -> RequestRecord]
        BY IdleRequestType DEF KeysInit
    <2> QED
        BY <2>1, <2>2, <2>3 DEF KeysInit, KeysTypeOK
<1>4. \A r \in Requests : request[r].pc = "idle" /\ Informed(request[r])
    BY IdleRequestType, IdleRequestInformed DEF KeysInit
<1>5. AbsentUntilDone /\ OriginsAreSpent /\ RotationIsWhole
    BY <1>1 DEF AllKeys, AbsentUntilDone, OriginsAreSpent, RotationIsWhole
<1>6. GrantsMergeOnlyByOverlap /\ \A k \in AllKeys : GrantedBefore(grants[k])
    BY <1>2, NamesAssumption DEF GrantsMergeOnlyByOverlap, GrantedBefore
<1> QED
    BY <1>3, <1>4, <1>5, <1>6 DEF KeysInv, KeyTableIsConsistent

\* What remains to be shown of a step that writes neither keys nor permissions: what the
\* request knows afterwards.
LEMMA RequestStepInv ==
    ASSUME KeysInv, NEW r \in Requests, request[r].pc # "done", NEW x \in RequestRecord,
           request' = [request EXCEPT ![r] = x], Informed(x),
           UNCHANGED <<prefixWidth, keyRow, grants>>,
           rowLock' \in [AllKeys -> Requests \cup {NoRequest}]
    PROVE  KeysInv'
<1>1. request \in [Requests -> RequestRecord] /\ request' \in [Requests -> RequestRecord]
    BY DEF KeysInv, KeysTypeOK
<1>2. request'[r] = x /\ \A q \in Requests \ {r} : request'[q] = request[q]
    BY <1>1
<1>3. \A q \in Requests : request[q].pc = "done" => request'[q].pc = "done"
    BY <1>2
<1>4. ASSUME NEW g, GrantedBefore(g)
      PROVE  GrantedBefore(g)'
    BY <1>3, <1>4 DEF GrantedBefore
<1>5. ASSUME NEW q \in Requests
      PROVE  Informed(request[q])'
    <2>1. Informed(request'[q])
        BY <1>2 DEF KeysInv
    <2> QED
        BY <1>3, <2>1 DEF Informed, GrantedBefore, HasRead, ReadKey
<1>6. AbsentUntilDone' /\ OriginsAreSpent' /\ RotationIsWhole'
    BY <1>2 DEF KeysInv, AbsentUntilDone, OriginsAreSpent, KeyTableIsConsistent,
                RotationIsWhole
<1>7. GrantsMergeOnlyByOverlap'
    <2> SUFFICES ASSUME NEW k \in AllKeys, NEW p1 \in grants[k], NEW p2 \in grants[k],
                        p1.by # p2.by, p1.by \in Requests, p2.by \in Requests
                 PROVE  Overlapping(p1.by, p2.by)' /\ Overlapping(p2.by, p1.by)'
        BY DEF GrantsMergeOnlyByOverlap
    <2>1. p1.by # r /\ p2.by # r
        BY DEF KeysInv, GrantedBefore
    <2> QED
        BY <1>2, <2>1
           DEF KeysInv, KeyTableIsConsistent, GrantsMergeOnlyByOverlap, Overlapping
<1>8. \A k \in AllKeys : GrantedBefore(grants[k])'
    BY <1>3 DEF KeysInv, GrantedBefore
<1> QED
    BY <1>1, <1>5, <1>6, <1>7, <1>8 DEF KeysInv, KeysTypeOK, KeyTableIsConsistent

LEMMA ReleaseType ==
    ASSUME KeysInv, NEW r \in Requests
    PROVE  Release(rowLock, r) \in [AllKeys -> Requests \cup {NoRequest}]
BY DEF KeysInv, KeysTypeOK, Release

\* A request that fails leaves nothing behind and knows nothing any more.
LEMMA RolledBackInv ==
    ASSUME KeysInv, NEW r \in Requests, request[r].pc # "done",
           NEW code \in StatusCodes, RolledBack(r, code)
    PROVE  KeysInv'
<1> DEFINE x == AfterAnswer(IdleRequest, code)
<1>1. x \in RequestRecord /\ x.pc = "done" /\ x.seenGrants = {}
    BY IdleRequestType, AfterAnswerType
<1>2. Informed(x)
    BY <1>1, IdleRequestInformed
<1>3. /\ request' = [request EXCEPT ![r] = x] /\ UNCHANGED <<prefixWidth, keyRow, grants>>
      /\ rowLock' \in [AllKeys -> Requests \cup {NoRequest}]
    BY ReleaseType DEF RolledBack, AfterAnswer
<1> HIDE DEF x
<1> QED
    BY <1>1, <1>2, <1>3, RequestStepInv

LEMMA ArriveInv ==
    ASSUME KeysInv, NEW r \in Requests, Arrive(r)
    PROVE  KeysInv'
<1>1. request \in [Requests -> RequestRecord] /\ Informed(request[r])
    BY DEF KeysInv, KeysTypeOK
<1>2. PICK ask \in Asks :
          request' = [request EXCEPT ![r].pc = "validate", ![r].ask = ask]
    BY DEF Arrive
<1> DEFINE x == [request[r] EXCEPT !.pc = "validate", !.ask = ask]
<1>3. x \in RequestRecord /\ x.pc = "validate" /\ x.seenGrants = request[r].seenGrants
    BY <1>1, AsksAssumption, StagesAndCodes DEF RequestRecord
<1>4. request' = [request EXCEPT ![r] = x]
    BY <1>1, <1>2
<1>5. Informed(x)
    BY <1>1, <1>3 DEF Informed, HasRead
<1> HIDE DEF x
<1> QED
    BY <1>3, <1>4, <1>5, RequestStepInv DEF Arrive, KeysInv, KeysTypeOK

LEMMA ValidateInv ==
    ASSUME KeysInv, NEW r \in Requests, Validate(r)
    PROVE  KeysInv'
<1> DEFINE caller == request[r].ask.caller
<1>1. request[r].pc = "validate" /\ request[r].pc # "done"
    BY DEF Validate
<1>2. CASE RolledBack(r, 401) \/ RolledBack(r, 403)
    BY <1>1, <1>2, RolledBackInv, StagesAndCodes
<1>3. CASE /\ caller # Unknown /\ keyRow[caller].status # "ABSENT"
           /\ request' = [request EXCEPT ![r].pc = "touch",
                             ![r].seen = keyRow[caller].status,
                             ![r].seenGrants = grants[caller]]
           /\ UNCHANGED <<prefixWidth, keyRow, grants, rowLock>>
    <2>1. /\ request \in [Requests -> RequestRecord] /\ keyRow \in [AllKeys -> KeyRecord]
          /\ grants \in [AllKeys -> SUBSET Grants]
          /\ rowLock \in [AllKeys -> Requests \cup {NoRequest}]
        BY DEF KeysInv, KeysTypeOK
    <2>2. caller \in AllKeys
        BY <1>3, <2>1 DEF RequestRecord, AllAsks
    <2>3. /\ keyRow[caller].status \in Statuses /\ grants[caller] \in SUBSET Grants
          /\ GrantedBefore(grants[caller])
        BY <2>1, <2>2 DEF KeyRecord, KeysInv
    <2> DEFINE x == AfterRead(request[r], "touch", keyRow[caller].status, grants[caller])
    <2>4. /\ x \in RequestRecord /\ x.pc = "touch" /\ x.seen = keyRow[caller].status
          /\ x.seenGrants = grants[caller] /\ x.ask = request[r].ask
        <3> HIDE DEF caller
        <3> QED
            BY <2>1, <2>3, AfterReadType, StagesAndCodes
    <2>5. request' = [request EXCEPT ![r] = x]
        BY <1>3, <2>1 DEF AfterRead
    <2> HIDE DEF x
    <2>6. Informed(x)
        BY <1>3, <2>2, <2>3, <2>4 DEF Informed, HasRead, ReadKey
    <2> QED
        BY <1>1, <1>3, <2>1, <2>4, <2>5, <2>6, RequestStepInv
<1> QED
    BY <1>2, <1>3 DEF Validate

LEMMA TouchLastUsedInv ==
    ASSUME KeysInv, NEW r \in Requests, TouchLastUsed(r)
    PROVE  KeysInv'
<1> DEFINE me == request[r]
           pc == IF me.ask.op = "create" THEN "commit" ELSE "load"
           x == [me EXCEPT !.pc = pc]
<1>1. me.pc = "touch" /\ me.pc # "done"
    BY DEF TouchLastUsed
<1>2. CASE RolledBack(r, 403)
    BY <1>1, <1>2, RolledBackInv, StagesAndCodes
<1>3. CASE /\ rowLock' = [rowLock EXCEPT ![me.ask.caller] = r]
           /\ request' = [request EXCEPT ![r].pc = pc]
           /\ UNCHANGED <<prefixWidth, keyRow, grants>>
    <2>1. /\ request \in [Requests -> RequestRecord] /\ Informed(me)
          /\ rowLock' \in [AllKeys -> Requests \cup {NoRequest}]
        BY <1>3 DEF KeysInv, KeysTypeOK
    <2>2. /\ x \in RequestRecord /\ x.pc = pc /\ x.seen = me.seen
          /\ x.seenGrants = me.seenGrants /\ x.ask = me.ask
        BY <2>1, StagesAndCodes DEF RequestRecord
    <2>3. request' = [request EXCEPT ![r] = x]
        BY <1>3, <2>1
    <2>4. Informed(x)
        BY <1>1, <2>1, <2>2 DEF Informed, HasRead, ReadKey
    <2> HIDE DEF x
    <2> QED
        BY <1>1, <1>3, <2>1, <2>2, <2>3, <2>4, RequestStepInv
<1> QED
    BY <1>2, <1>3 DEF TouchLastUsed

\* get_by_id gives the key of the path, as it is or as it was when the caller's own
\* key was read.
LEMMA LoadedIsInformed ==
    ASSUME KeysInv, NEW r \in Requests, request[r].pc = "load",
           Loaded(r).status # "ABSENT"
    PROVE  /\ request[r].ask.target \in AllKeys
           /\ keyRow[request[r].ask.target].status # "ABSENT"
           /\ Loaded(r).status \in Statuses /\ Loaded(r).perms \in SUBSET Grants
           /\ GrantedBefore(Loaded(r).perms)
           /\ \A p \in Loaded(r).perms, o \in grants[request[r].ask.target] :
                 p.by = o.by /\ p.by \in Requests => o \in Loaded(r).perms
<1> DEFINE me == request[r]
           target == me.ask.target
<1>1. /\ request \in [Requests -> RequestRecord] /\ keyRow \in [AllKeys -> KeyRecord]
      /\ grants \in [AllKeys -> SUBSET Grants] /\ Informed(me)
    BY DEF KeysInv, KeysTypeOK
<1>2. target # Unknown
    BY DEF Loaded
<1>3. target \in AllKeys
    BY <1>1, <1>2 DEF RequestRecord, AllAsks
<1>4. CASE target = me.ask.caller
    <2>1. Loaded(r).status = me.seen /\ Loaded(r).perms = me.seenGrants
        BY <1>2, <1>4 DEF Loaded
    <2>2. me.seen \in Statuses /\ me.seenGrants \in SUBSET Grants
        BY <1>1, StagesAndCodes DEF RequestRecord
    <2> QED
        BY <1>1, <1>3, <1>4, <2>1, <2>2 DEF Informed, HasRead, ReadKey
<1>5. CASE target # me.ask.caller
    <2>1. Loaded(r).status = keyRow[target].status /\ Loaded(r).perms = grants[target]
        BY <1>2, <1>5 DEF Loaded
    <2>2. /\ keyRow[target].status \in Statuses /\ grants[target] \in SUBSET Grants
          /\ GrantedBefore(grants[target])
        BY <1>1, <1>3 DEF KeyRecord, KeysInv
    <2> QED
        BY <1>3, <2>1, <2>2
<1> QED
    BY <1>4, <1>5

LEMMA LoadKeyInv ==
    ASSUME KeysInv, NEW r \in Requests, LoadKey(r)
    PROVE  KeysInv'
<1> DEFINE me == request[r]
<1>1. me.pc = "load" /\ me.pc # "done"
    BY DEF LoadKey
<1>2. CASE RefusedAfterLoad(r)
    BY <1>1, <1>2, RolledBackInv, StagesAndCodes DEF LoadKey
<1>3. CASE ~ RefusedAfterLoad(r)
    <2> DEFINE status == Loaded(r).status
               perms == Loaded(r).perms
    <2>1. status # "ABSENT" /\ (me.ask.op = "rotate" => status = "ACTIVE")
        BY <1>3 DEF RefusedAfterLoad
    <2>2. /\ me.ask.target \in AllKeys /\ keyRow[me.ask.target].status # "ABSENT"
          /\ status \in Statuses /\ perms \in SUBSET Grants /\ GrantedBefore(perms)
          /\ \A p \in perms, o \in grants[me.ask.target] :
                p.by = o.by /\ p.by \in Requests => o \in perms
        BY <1>1, <2>1, LoadedIsInformed
    <2>3. /\ request' = [request EXCEPT ![r].pc = "commit", ![r].seen = status,
                                        ![r].seenGrants = perms]
          /\ UNCHANGED <<prefixWidth, keyRow, grants, rowLock>>
        BY <1>3 DEF LoadKey
    <2> HIDE DEF status, perms
    <2>4. /\ request \in [Requests -> RequestRecord]
          /\ rowLock \in [AllKeys -> Requests \cup {NoRequest}]
        BY DEF KeysInv, KeysTypeOK
    <2> DEFINE x == AfterRead(me, "commit", status, perms)
    <2>5. /\ x \in RequestRecord /\ x.pc = "commit" /\ x.seen = status
          /\ x.seenGrants = perms /\ x.ask = me.ask
        BY <2>2, <2>4, AfterReadType, StagesAndCodes
    <2>6. request' = [request EXCEPT ![r] = x]
        BY <2>3, <2>4 DEF AfterRead
    <2> HIDE DEF x
    <2>7. Informed(x)
        BY <2>1, <2>2, <2>5 DEF Informed, HasRead, ReadKey
    <2> QED
        BY <1>1, <2>3, <2>4, <2>5, <2>6, <2>7, RequestStepInv
<1> QED
    BY <1>2, <1>3

\* What remains to be shown of a commit: the rows that were there stay there, no row
\* comes but the request's own, what is granted is granted by the request, and the
\* table is consistent afterwards.
LEMMA CommitStepInv ==
    ASSUME KeysInv, NEW r \in Requests, Commit(r),
           keyRow' \in [AllKeys -> KeyRecord], grants' \in [AllKeys -> SUBSET Grants],
           \A k \in AllKeys : keyRow[k].status # "ABSENT" => keyRow'[k].status # "ABSENT",
           \A k \in AllKeys \ {r} :
              keyRow[k].status = "ABSENT" => keyRow'[k].status = "ABSENT",
           \A k \in AllKeys : \A p \in grants'[k] : p \in grants[k] \/ p.by = r,
           \A k \in AllKeys : \A p \in grants'[k], o \in grants'[k] :
              p.by = r /\ o.by # r /\ o.by \in Requests => Overlapping(r, o.by),
           OriginsAreSpent', RotationIsWhole'
    PROVE  KeysInv'
<1>1. /\ request \in [Requests -> RequestRecord] /\ request[r].pc = "commit"
      /\ rowLock' = Release(rowLock, r)
      /\ request' = [request EXCEPT ![r].pc = "done", ![r].answer = 200]
      /\ UNCHANGED prefixWidth
    BY DEF KeysInv, KeysTypeOK, Commit
<1>2. PICK x \in RequestRecord :
          /\ x = AfterAnswer(request[r], 200)
          /\ x.pc = "done" /\ x.seenGrants = request[r].seenGrants
    <2>1. PICK code \in StatusCodes : code = 200
        BY StagesAndCodes
    <2>2. /\ AfterAnswer(request[r], code) \in RequestRecord
          /\ AfterAnswer(request[r], code).pc = "done"
          /\ AfterAnswer(request[r], code).seenGrants = request[r].seenGrants
        BY <1>1, AfterAnswerType
    <2> QED
        BY <2>1, <2>2
<1>3. request' = [request EXCEPT ![r] = x]
    BY <1>1, <1>2 DEF AfterAnswer
<1>4. request'[r] = x /\ \A q \in Requests \ {r} : request'[q] = request[q]
    BY <1>1, <1>3
<1>5. KeysTypeOK'
    <2>1. request' \in [Requests -> RequestRecord]
        BY <1>1, <1>3
    <2>2. rowLock' \in [AllKeys -> Requests \cup {NoRequest}]
        BY <1>1, ReleaseType
    <2> QED
        BY <1>1, <2>1, <2>2 DEF KeysInv, KeysTypeOK
<1>6. \A q \in Requests : request'[q].seenGrants = request[q].seenGrants
    BY <1>2, <1>4
<1>7. \A q \in Requests : request[q].pc = "done" => request'[q].pc = "done"
    BY <1>2, <1>4
<1>8. AbsentUntilDone'
    <2> SUFFICES ASSUME NEW q \in Requests, request'[q].pc # "done"
                 PROVE  keyRow'[q].status = "ABSENT"
        BY DEF AbsentUntilDone
    <2>1. q # r /\ request'[q] = request[q] /\ q \in AllKeys
        BY <1>2, <1>4 DEF AllKeys
    <2> QED
        BY <2>1 DEF KeysInv, AbsentUntilDone
<1>9. \A k \in AllKeys : GrantedBefore(grants[k])'
    <2> SUFFICES ASSUME NEW k \in AllKeys, NEW p \in grants'[k], p.by \in Requests
                 PROVE  request'[p.by].pc = "done"
        BY DEF GrantedBefore
    <2>1. CASE p.by = r
        BY <1>2, <1>4, <2>1
    <2>2. CASE p \in grants[k]
        BY <1>7, <2>2 DEF KeysInv, GrantedBefore
    <2> QED
        BY <2>1, <2>2
<1>10. ASSUME NEW q \in Requests
       PROVE  Informed(request[q])'
    <2>1. Informed(request[q])
        BY DEF KeysInv
    <2>2. CASE q = r
        <3>1. GrantedBefore(x.seenGrants)
            BY <1>2, <2>1, <2>2 DEF Informed
        <3>2. GrantedBefore(x.seenGrants)'
            BY <1>7, <3>1 DEF GrantedBefore
        <3>3. Informed(x)'
            BY <1>2, <3>2 DEF Informed, HasRead
        <3> QED
            BY <1>4, <2>2, <3>3
    <2>3. CASE q # r
        <3>1. request'[q] = request[q]
            BY <1>4, <2>3
        <3>2. GrantedBefore(request[q].seenGrants)'
            BY <1>7, <2>1, <3>1 DEF Informed, GrantedBefore
        <3>3. ASSUME HasRead(request[q])
              PROVE  \A p \in request[q].seenGrants, o \in grants'[ReadKey(request[q])] :
                        p.by = o.by /\ p.by \in Requests => o \in request[q].seenGrants
            <4> SUFFICES ASSUME NEW p \in request[q].seenGrants,
                                NEW o \in grants'[ReadKey(request[q])],
                                p.by = o.by, p.by \in Requests
                         PROVE  o \in request[q].seenGrants
                OBVIOUS
            <4>1. p.by # r
                BY <1>1, <2>1 DEF Informed, GrantedBefore
            <4>2. o \in grants[ReadKey(request[q])]
                BY <2>1, <3>3, <4>1 DEF Informed
            <4> QED
                BY <2>1, <3>3, <4>2 DEF Informed
        <3>4. HasRead(request[q])' = HasRead(request[q])
              /\ ReadKey(request[q])' = ReadKey(request[q])
            BY <3>1 DEF HasRead, ReadKey
        <3> QED
            BY <2>1, <3>1, <3>2, <3>3, <3>4 DEF Informed
    <2> QED
        BY <2>2, <2>3
<1>11. GrantsMergeOnlyByOverlap'
    <2> SUFFICES ASSUME NEW k \in AllKeys, NEW p1 \in grants'[k], NEW p2 \in grants'[k],
                        p1.by # p2.by, p1.by \in Requests, p2.by \in Requests
                 PROVE  Overlapping(p1.by, p2.by) /\ Overlapping(p2.by, p1.by)
        BY <1>6 DEF GrantsMergeOnlyByOverlap, Overlapping
    <2>1. ASSUME NEW q \in Requests
          PROVE  Overlapping(q, r)
        BY <1>1 DEF KeysInv, Informed, GrantedBefore, Overlapping
    <2>2. CASE p1.by = r
        BY <2>1, <2>2
    <2>3. CASE p2.by = r
        BY <2>1, <2>3
    <2>4. CASE p1.by # r /\ p2.by # r
        <3>1. p1 \in grants[k] /\ p2 \in grants[k]
            BY <2>4
        <3> QED
            BY <3>1 DEF KeysInv, KeyTableIsConsistent, GrantsMergeOnlyByOverlap
    <2> QED
        BY <2>2, <2>3, <2>4
<1> QED
    BY <1>5, <1>8, <1>9, <1>10, <1>11 DEF KeysInv, KeyTableIsConsistent

\* The row and the permissions of a request that has been committing.
LEMMA CommittingRow ==
    ASSUME KeysInv, NEW r \in Requests, request[r].pc = "commit"
    PROVE  /\ r \in AllKeys /\ keyRow[r].status = "ABSENT"
           /\ \A k \in AllKeys : /\ keyRow[k].next # NoKey => keyRow[k].next # r
                                 /\ keyRow[k].origin # NoKey => keyRow[k].origin # r
           /\ request[r] \in RequestRecord
           /\ request[r].ask.scopes \subseteq Scopes /\ request[r].seenGrants \subseteq Grants
           /\ keyRow \in [AllKeys -> KeyRecord] /\ grants \in [AllKeys -> SUBSET Grants]
           /\ Informed(request[r])
<1>1. r \in AllKeys /\ keyRow[r].status = "ABSENT"
    BY DEF AllKeys, KeysInv, AbsentUntilDone
<1>2. request[r] \in RequestRecord
    BY DEF KeysInv, KeysTypeOK
<1> QED
    BY <1>1, <1>2
       DEF KeysInv, KeysTypeOK, RequestRecord, AllAsks, KeyTableIsConsistent,
           RotationIsWhole, OriginsAreSpent

LEMMA CreateKeyInv ==
    ASSUME KeysInv, NEW r \in Requests, Commit(r), CreateKey(r)
    PROVE  KeysInv'
<1>1. request[r].pc = "commit"
    BY DEF Commit
<1> DEFINE me == request[r].ask
<1>2. PICK life \in {"unlimited", "ahead"} :
          /\ keyRow' = [keyRow EXCEPT ![r] = create_key(r, me.scopes, life, NoKey).row]
          /\ grants' = [grants EXCEPT ![r] = create_key(r, me.scopes, life, NoKey).perms]
    BY DEF CreateKey
<1> DEFINE row == create_key(r, me.scopes, life, NoKey).row
           perms == create_key(r, me.scopes, life, NoKey).perms
<1>3. row \in KeyRecord /\ row.status = "ACTIVE" /\ row.next = NoKey /\ row.origin = NoKey
    BY DEF create_key, AbsentRow, KeyRecord, Statuses
<1>4. perms \in SUBSET Grants /\ \A p \in perms : p.by = r
    BY <1>1, CommittingRow DEF create_key, Grants
<1> HIDE DEF row, perms
<1>5. /\ keyRow' = [keyRow EXCEPT ![r] = row] /\ grants' = [grants EXCEPT ![r] = perms]
    BY <1>2 DEF row, perms
<1>6. /\ keyRow' \in [AllKeys -> KeyRecord] /\ grants' \in [AllKeys -> SUBSET Grants]
      /\ keyRow'[r] = row /\ grants'[r] = perms
      /\ \A k \in AllKeys \ {r} : keyRow'[k] = keyRow[k] /\ grants'[k] = grants[k]
    BY <1>1, <1>3, <1>4, <1>5, CommittingRow
<1>7. OriginsAreSpent'
    BY <1>1, <1>3, <1>6, CommittingRow DEF KeysInv, KeysTypeOK, KeyRecord, OriginsAreSpent
<1>8. RotationIsWhole'
    BY <1>1, <1>3, <1>6, CommittingRow
       DEF KeysInv, KeysTypeOK, KeyRecord, KeyTableIsConsistent, RotationIsWhole
<1>9. \A k \in AllKeys : \A p \in grants'[k] : p \in grants[k] \/ p.by = r
    BY <1>4, <1>6
<1>10. \A k \in AllKeys : \A p \in grants'[k], o \in grants'[k] :
          p.by = r /\ o.by # r /\ o.by \in Requests => Overlapping(r, o.by)
    BY <1>1, <1>4, <1>6 DEF KeysInv, GrantedBefore
<1> QED
    BY <1>1, <1>3, <1>6, <1>7, <1>8, <1>9, <1>10, CommitStepInv

LEMMA RevokeKeyInv ==
    ASSUME KeysInv, NEW r \in Requests, Commit(r), RevokeKey(r),
           request[r].ask.op = "revoke"
    PROVE  KeysInv'
<1>1. request[r].pc = "commit"
    BY DEF Commit
<1> DEFINE k == request[r].ask.target
<1>2. k \in AllKeys /\ keyRow[k].status # "ABSENT"
    BY <1>1, CommittingRow DEF Informed, HasRead, ReadKey
<1>3. grants' = grants
    BY DEF RevokeKey
<1>4. /\ keyRow' \in [AllKeys -> KeyRecord]
      /\ \A j \in AllKeys : /\ keyRow'[j].next = keyRow[j].next
                            /\ keyRow'[j].origin = keyRow[j].origin
                            /\ \/ keyRow'[j].status = keyRow[j].status
                               \/ j = k /\ keyRow'[j].status = "REVOKED"
    <2> HIDE DEF k
    <2>1. keyRow' = keyRow \/ keyRow' = [keyRow EXCEPT ![k].status = "REVOKED"]
        BY DEF RevokeKey, k
    <2> QED
        BY <1>2, <2>1 DEF KeysInv, KeysTypeOK, KeyRecord, Statuses
<1>5. OriginsAreSpent' /\ RotationIsWhole'
    <2>1. keyRow \in [AllKeys -> KeyRecord] /\ OriginsAreSpent /\ RotationIsWhole
        BY DEF KeysInv, KeysTypeOK, KeyTableIsConsistent
    <2>2. \A j \in AllKeys : /\ keyRow[j].next # NoKey => keyRow[j].next \in AllKeys
                             /\ keyRow[j].origin # NoKey => keyRow[j].origin \in AllKeys
        BY <2>1 DEF KeyRecord
    <2> HIDE DEF k
    <2>3. OriginsAreSpent'
        BY <1>4, <2>1, <2>2 DEF OriginsAreSpent
    <2>4. RotationIsWhole'
        BY <1>2, <1>4, <2>1, <2>2 DEF RotationIsWhole
    <2> QED
        BY <2>3, <2>4
<1>6. \A j \in AllKeys : \A p \in grants'[j], o \in grants'[j] :
         p.by = r /\ o.by # r /\ o.by \in Requests => Overlapping(r, o.by)
    BY <1>1, <1>3 DEF KeysInv, GrantedBefore
<1>7. /\ \A j \in AllKeys : keyRow[j].status # "ABSENT" => keyRow'[j].status # "ABSENT"
      /\ \A j \in AllKeys \ {r} :
            keyRow[j].status = "ABSENT" => keyRow'[j].status = "ABSENT"
    BY <1>2, <1>4
<1>8. grants' \in [AllKeys -> SUBSET Grants]
      /\ \A j \in AllKeys : \A p \in grants'[j] : p \in grants[j] \/ p.by = r
    BY <1>3 DEF KeysInv, KeysTypeOK
<1> QED
    BY <1>4, <1>5, <1>6, <1>7, <1>8, CommitStepInv

\* The replacement is linked both ways in the flush that inserts it; a key that two
\* requests rotate has two replacements, of which it names the last.
LEMMA RotateKeyInv ==
    ASSUME KeysInv, NEW r \in Requests, Commit(r), RotateKey(r),
           request[r].ask.op = "rotate"
    PROVE  KeysInv'
<1>1. request[r].pc = "commit"
    BY DEF Commit
<1> DEFINE k == request[r].ask.target
           scopes == ScopesOf(request[r].seenGrants)
           row == create_key(r, scopes, "unlimited", k).row
           perms == create_key(r, scopes, "unlimited", k).perms
<1>2. k \in AllKeys /\ keyRow[k].status # "ABSENT" /\ r \in AllKeys /\ k # r
    BY <1>1, CommittingRow DEF Informed, HasRead, ReadKey
<1>3. row \in KeyRecord /\ row.status = "ACTIVE" /\ row.next = NoKey /\ row.origin = k
    BY <1>2 DEF create_key, AbsentRow, KeyRecord, Statuses
<1>4. perms \in SUBSET Grants /\ \A p \in perms : p.by = r
    <2>1. scopes \subseteq Scopes
        BY <1>1, CommittingRow DEF ScopesOf, Grants
    <2> HIDE DEF scopes
    <2> QED
        BY <2>1 DEF create_key, Grants
<1>5. /\ keyRow' = [keyRow EXCEPT ![r] = row, ![k].status = "ROTATING",
                                  ![k].grace = "open", ![k].next = r]
      /\ grants' = [grants EXCEPT ![r] = perms]
    BY DEF RotateKey
<1> HIDE DEF k, scopes, row, perms
<1>6. keyRow \in [AllKeys -> KeyRecord] /\ grants \in [AllKeys -> SUBSET Grants]
    BY DEF KeysInv, KeysTypeOK
<1> DEFINE old == [keyRow[k] EXCEPT !.status = "ROTATING", !.grace = "open", !.next = r]
<1>7. /\ old \in KeyRecord /\ old.status = "ROTATING" /\ old.next = r
      /\ old.origin = keyRow[k].origin
    BY <1>2, <1>6 DEF KeyRecord, Statuses
<1>8. keyRow' = [keyRow EXCEPT ![r] = row, ![k] = old]
    BY <1>2, <1>5, <1>6
<1> HIDE DEF old
<1>9. /\ keyRow' \in [AllKeys -> KeyRecord] /\ grants' \in [AllKeys -> SUBSET Grants]
      /\ keyRow'[r] = row /\ keyRow'[k] = old /\ grants'[r] = perms
      /\ \A j \in AllKeys \ {r, k} : keyRow'[j] = keyRow[j]
      /\ \A j \in AllKeys \ {r} : grants'[j] = grants[j]
    <2>1. grants' \in [AllKeys -> SUBSET Grants] /\ grants'[r] = perms
          /\ \A j \in AllKeys \ {r} : grants'[j] = grants[j]
        BY <1>2, <1>4, <1>5, <1>6
    <2>2. keyRow' \in [AllKeys -> KeyRecord] /\ keyRow'[r] = row /\ keyRow'[k] = old
          /\ \A j \in AllKeys \ {r, k} : keyRow'[j] = keyRow[j]
        BY <1>2, <1>3, <1>6, <1>7, <1>8
    <2> QED
        BY <2>1, <2>2
<1>10. OriginsAreSpent'
    BY <1>1, <1>2, <1>3, <1>7, <1>9, CommittingRow
       DEF KeysInv, KeysTypeOK, KeyRecord, OriginsAreSpent
<1>11. RotationIsWhole'
    <2> SUFFICES ASSUME NEW j \in AllKeys
                 PROVE  /\ keyRow'[j].status = "ROTATING" => keyRow'[j].next # NoKey
                        /\ keyRow'[j].next # NoKey =>
                              /\ keyRow'[keyRow'[j].next].status # "ABSENT"
                              /\ keyRow'[keyRow'[j].next].origin = j
                        /\ keyRow'[j].origin # NoKey
                              => keyRow'[keyRow'[j].origin].status # "ACTIVE"
        BY DEF RotationIsWhole
    <2>1. CASE j = r
        BY <2>1, <1>3, <1>7, <1>9
    <2>2. CASE j = k
        <3>1. keyRow[k].origin # NoKey => keyRow[k].origin # r
            BY <1>1, <1>2, CommittingRow
        <3> QED
            BY <2>2, <3>1, <1>2, <1>3, <1>6, <1>7, <1>9, NamesAssumption
               DEF KeysInv, KeyTableIsConsistent, RotationIsWhole, KeyRecord
    <2>3. CASE j \notin {r, k}
        <3>1. /\ keyRow[j].next # NoKey => keyRow[j].next # r
              /\ keyRow[j].origin # NoKey => keyRow[j].origin # r
            BY <1>1, CommittingRow
        <3>2. keyRow'[j] = keyRow[j] /\ keyRow[j] \in KeyRecord
            BY <2>3, <1>6, <1>9
        <3> QED
            BY <3>1, <3>2, <1>7, <1>9
               DEF KeysInv, KeyTableIsConsistent, RotationIsWhole, KeyRecord
    <2> QED
        BY <2>1, <2>2, <2>3
<1>12. \A j \in AllKeys : \A p \in grants'[j] : p \in grants[j] \/ p.by = r
    BY <1>4, <1>9
<1>13. \A j \in AllKeys : \A p \in grants'[j], o \in grants'[j] :
          p.by = r /\ o.by # r /\ o.by \in Requests => Overlapping(r, o.by)
    BY <1>1, <1>4, <1>9 DEF KeysInv, GrantedBefore
<1>14. /\ \A j \in AllKeys : keyRow[j].status # "ABSENT" => keyRow'[j].status # "ABSENT"
       /\ \A j \in AllKeys \ {r} :
             keyRow[j].status = "ABSENT" => keyRow'[j].status = "ABSENT"
    BY <1>2, <1>3, <1>7, <1>9
<1> QED
    BY <1>9, <1>10, <1>11, <1>12, <1>13, <1>14, CommitStepInv

\* A patch deletes all it has read.  What it leaves of another request's permissions is
\* therefore of a request of which it has read nothing.
LEMMA PatchKeyInv ==
    ASSUME KeysInv, NEW r \in Requests, Commit(r), PatchKey(r), request[r].ask.op = "patch"
    PROVE  KeysInv'
<1>1. request[r].pc = "commit"
    BY DEF Commit
<1> DEFINE k == request[r].ask.target
           seen == request[r].seenGrants
           new == {[scope |-> s, by |-> r] : s \in request[r].ask.scopes}
<1>2. /\ k \in AllKeys
      /\ \A p \in seen, o \in grants[k] : p.by = o.by /\ p.by \in Requests => o \in seen
    BY <1>1, CommittingRow DEF Informed, HasRead, ReadKey
<1>3. new \in SUBSET Grants /\ \A p \in new : p.by = r
    BY <1>1, CommittingRow DEF Grants
<1>4. /\ keyRow' = keyRow
      /\ grants' = grants \/ grants' = [grants EXCEPT ![k] = (@ \ seen) \cup new]
    BY DEF PatchKey
<1>5. keyRow \in [AllKeys -> KeyRecord] /\ grants \in [AllKeys -> SUBSET Grants]
    BY DEF KeysInv, KeysTypeOK
<1> HIDE DEF k, seen, new
<1>6. /\ grants' \in [AllKeys -> SUBSET Grants]
      /\ grants'[k] \in {grants[k], (grants[k] \ seen) \cup new}
      /\ \A j \in AllKeys \ {k} : grants'[j] = grants[j]
    BY <1>2, <1>3, <1>4, <1>5
<1>7. \A j \in AllKeys : \A p \in grants'[j] : p \in grants[j] \/ p.by = r
    BY <1>3, <1>6
<1>8. \A j \in AllKeys : \A p \in grants[j] : p.by # r
    BY <1>1 DEF KeysInv, GrantedBefore
<1>9. ASSUME NEW j \in AllKeys, NEW p \in grants'[j], NEW o \in grants'[j],
             p.by = r, o.by # r, o.by \in Requests
      PROVE  Overlapping(r, o.by)
    <2>1. j = k /\ grants'[k] = (grants[k] \ seen) \cup new
        BY <1>6, <1>8, <1>9
    <2>2. o \in grants[k] /\ o \notin seen
        BY <1>3, <1>9, <2>1
    <2>3. \A q \in seen : q.by # o.by
        BY <1>2, <1>9, <2>2
    <2> QED
        BY <2>3 DEF Overlapping, seen
<1>10. OriginsAreSpent' /\ RotationIsWhole'
    BY <1>4 DEF KeysInv, OriginsAreSpent, KeyTableIsConsistent, RotationIsWhole
<1> QED
    BY <1>4, <1>5, <1>6, <1>7, <1>9, <1>10, CommitStepInv

LEMMA ReadKeyInv ==
    ASSUME KeysInv, NEW r \in Requests, Commit(r), UNCHANGED <<keyRow, grants>>
    PROVE  KeysInv'
<1>1. request[r].pc = "commit"
    BY DEF Commit
<1>2. \A k \in AllKeys : \A p \in grants'[k], o \in grants'[k] :
         p.by = r /\ o.by # r /\ o.by \in Requests => Overlapping(r, o.by)
    BY <1>1 DEF KeysInv, GrantedBefore
<1>3. OriginsAreSpent' /\ RotationIsWhole'
    BY DEF KeysInv, OriginsAreSpent, KeyTableIsConsistent, RotationIsWhole
<1>4. keyRow' \in [AllKeys -> KeyRecord] /\ grants' \in [AllKeys -> SUBSET Grants]
    BY DEF KeysInv, KeysTypeOK
<1> QED
    BY <1>2, <1>3, <1>4, CommitStepInv

\* The five operations, one at a time.
LEMMA CommitOperation ==
    ASSUME KeysInv, NEW r \in Requests, Commit(r)
    PROVE  \/ CreateKey(r) /\ request[r].ask.op = "create"
           \/ RevokeKey(r) /\ request[r].ask.op = "revoke"
           \/ RotateKey(r) /\ request[r].ask.op = "rotate"
           \/ PatchKey(r) /\ request[r].ask.op = "patch"
           \/ UNCHANGED <<keyRow, grants>> /\ request[r].ask.op = "read"
<1>1. request[r].ask.op \in Operations
    BY DEF KeysInv, KeysTypeOK, RequestRecord, AllAsks
<1> QED
    BY <1>1 DEF Operations, Commit

LEMMA CommitInv ==
    ASSUME KeysInv, NEW r \in Requests, Commit(r)
    PROVE  KeysInv'
BY CommitOperation, CreateKeyInv, RevokeKeyInv, RotateKeyInv, PatchKeyInv, ReadKeyInv

\* Time passes for a row: neither its status nor its links change.
LEMMA ClockInv ==
    ASSUME KeysInv, NEW k \in AllKeys, Lapse(k) \/ GraceEnds(k)
    PROVE  KeysInv'
<1>1. /\ keyRow' \in [AllKeys -> KeyRecord]
      /\ \A j \in AllKeys : /\ keyRow'[j].status = keyRow[j].status
                            /\ keyRow'[j].next = keyRow[j].next
                            /\ keyRow'[j].origin = keyRow[j].origin
    BY DEF Lapse, GraceEnds, KeysInv, KeysTypeOK, KeyRecord
<1>2. UNCHANGED <<prefixWidth, grants, rowLock, request>>
    BY DEF Lapse, GraceEnds
<1>3. KeysTypeOK'
    BY <1>1, <1>2 DEF KeysInv, KeysTypeOK
<1>4. AbsentUntilDone' /\ OriginsAreSpent' /\ RotationIsWhole'
    BY <1>1, <1>2
       DEF KeysInv, KeysTypeOK, KeyRecord, AllKeys, AbsentUntilDone, OriginsAreSpent,
           KeyTableIsConsistent, RotationIsWhole
<1>5. ASSUME NEW r \in Requests
      PROVE  Informed(request[r])'
    BY <1>1, <1>2 DEF KeysInv, Informed, GrantedBefore, HasRead, ReadKey
<1>6. GrantsMergeOnlyByOverlap' /\ \A j \in AllKeys : GrantedBefore(grants[j])'
    BY <1>2
       DEF KeysInv, KeyTableIsConsistent, GrantsMergeOnlyByOverlap, Overlapping,
           GrantedBefore
<1> QED
    BY <1>3, <1>4, <1>5, <1>6 DEF KeysInv, KeyTableIsConsistent

\* Who waits in a cycle waits for a request, so it has not been answered.
LEMMA DeadlockedIsUnanswered ==
    ASSUME NEW r \in Requests, Deadlocked(r)
    PROVE  request[r].pc # "done"
<1>1. PICK S \in SUBSET Requests : r \in S /\ {WaitsFor(q) : q \in S} = S
    BY DEF Deadlocked
<1>2. WaitsFor(r) \in Requests
    BY <1>1
<1>3. request[r].pc = "done" => WaitsFor(r) = NoRequest
    BY DEF WaitsFor
<1> QED
    BY <1>2, <1>3, NamesAssumption

LEMMA KeysStep == KeysInv /\ [KeysNext]_keyVars => KeysInv'
<1> SUFFICES ASSUME KeysInv, [KeysNext]_keyVars
             PROVE  KeysInv'
    OBVIOUS
<1>1. CASE UNCHANGED keyVars
    <2>1. KeysTypeOK'
        BY <1>1 DEF keyVars, KeysInv, KeysTypeOK
    <2>2. AbsentUntilDone' /\ OriginsAreSpent'
        BY <1>1 DEF keyVars, KeysInv, AbsentUntilDone, OriginsAreSpent
    <2>3. \A r \in Requests : Informed(request[r])'
        BY <1>1 DEF keyVars, KeysInv, Informed, GrantedBefore, HasRead, ReadKey
    <2>4. KeyTableIsConsistent' /\ \A k \in AllKeys : GrantedBefore(grants[k])'
        BY <1>1 DEF keyVars, KeysInv, GrantedBefore, KeyTableIsConsistent, RotationIsWhole,
                    GrantsMergeOnlyByOverlap, Overlapping
    <2> QED
        BY <2>1, <2>2, <2>3, <2>4 DEF KeysInv
<1>2. ASSUME NEW r \in Requests, Arrive(r) \/ RequestStep(r)
      PROVE  KeysInv'
    <2>1. CASE FlushFails(r)
        BY <2>1, RolledBackInv, StagesAndCodes DEF FlushFails
    <2> QED
        BY <1>2, <2>1, ArriveInv, ValidateInv, TouchLastUsedInv, LoadKeyInv, CommitInv
           DEF RequestStep
<1>3. ASSUME NEW r \in Requests, DeadlockAbort(r) \/ KeysAbort(r)
      PROVE  KeysInv'
    <2>1. RolledBack(r, 500)
        BY <1>3 DEF DeadlockAbort, KeysAbort
    <2>2. request[r].pc # "done"
        BY <1>3, DeadlockedIsUnanswered DEF DeadlockAbort, KeysAbort
    <2> QED
        BY <2>1, <2>2, RolledBackInv, StagesAndCodes
<1>4. ASSUME NEW k \in AllKeys, Lapse(k) \/ GraceEnds(k)
      PROVE  KeysInv'
    BY <1>4, ClockInv
<1> QED
    BY <1>1, <1>2, <1>3, <1>4 DEF KeysNext

\* The invariant of the API keys holds in every state.
THEOREM KeysInvariant == KeysSpec => []KeysInv
BY KeysStart, KeysStep, PTL DEF KeysSpec

\* A rotation is whole and permissions merge only by an overlap, whoever waits for
\* whom and whichever transaction is aborted.
THEOREM KeysConsistent == KeysSpec => [](KeysTypeOK /\ KeyTableIsConsistent)
<1>1. KeysInv => KeysTypeOK /\ KeyTableIsConsistent
    BY DEF KeysInv
<1> QED
    BY <1>1, KeysInvariant, PTL

\* The only step that changes the status of a revoked key is the commit of a rotation.
LEMMA RevokedStaysUnlessRotated ==
    ASSUME KeysInv, KeysNext, NEW k \in AllKeys,
           keyRow[k].status = "REVOKED", keyRow'[k].status # "REVOKED"
    PROVE  \E r \in Requests : CommitsRotation(r, k)
<1>1. keyRow \in [AllKeys -> KeyRecord]
    BY DEF KeysInv, KeysTypeOK
<1>2. ASSUME NEW r \in Requests, Commit(r)
      PROVE  CommitsRotation(r, k)
    <2>1. /\ request[r].pc = "commit" /\ r # k
          /\ request[r] \in RequestRecord /\ request \in [Requests -> RequestRecord]
          /\ Informed(request[r])
        BY <1>2, CommittingRow DEF Commit, KeysInv, KeysTypeOK
    <2>2. request'[r].answer = 200
        BY <1>2, <2>1 DEF Commit, RequestRecord
    <2>3. ~ CreateKey(r)
        BY <1>1, <2>1 DEF CreateKey
    <2>4. ~ RevokeKey(r)
        BY <1>1 DEF RevokeKey, KeyRecord
    <2>5. keyRow' # keyRow
        OBVIOUS
    <2>6. RotateKey(r) /\ request[r].ask.op = "rotate"
        BY <1>2, <2>3, <2>4, <2>5, CommitOperation DEF PatchKey
    <2>7. request[r].ask.target = k
        BY <1>1, <2>1, <2>6 DEF RotateKey
    <2> QED
        BY <2>1, <2>2, <2>6, <2>7 DEF CommitsRotation, Informed
<1>3. ASSUME NEW r \in Requests,
             \/ Arrive(r) \/ Validate(r) \/ TouchLastUsed(r) \/ LoadKey(r)
             \/ FlushFails(r) \/ DeadlockAbort(r) \/ KeysAbort(r)
      PROVE  FALSE
    <2>1. keyRow' = keyRow
        BY <1>3 DEF Arrive, Validate, TouchLastUsed, LoadKey, FlushFails, DeadlockAbort,
                    KeysAbort, RolledBack
    <2> QED
        BY <2>1
<1>4. ASSUME NEW j \in AllKeys, Lapse(j) \/ GraceEnds(j)
      PROVE  FALSE
    BY <1>1, <1>4 DEF Lapse, GraceEnds, KeyRecord
<1> QED
    BY <1>2, <1>3, <1>4 DEF KeysNext, RequestStep

\* Only a rotation that had read the key before it was revoked brings it back.
THEOREM RevocationHolds == KeysSpec => RevocationUndoneOnlyByRotation
<1> DEFINE Undone ==
        \A k \in AllKeys :
           keyRow[k].status = "REVOKED" /\ keyRow'[k].status # "REVOKED"
              => \E r \in Requests : CommitsRotation(r, k)
<1>1. KeysInv /\ [KeysNext]_keyVars => [Undone]_keyVars
    BY RevokedStaysUnlessRotated
<1> QED
    BY <1>1, KeysInvariant, PTL DEF KeysSpec, RevocationUndoneOnlyByRotation

-----------------------------------------------------------------------------
(* The rate limiters.                                                      *)

Unexpired == {i \in DOMAIN granted : clock < granted[i] + Width}

\* Calls are let through in the order of the clock, and a timestamp is dropped only when
\* it is a window old, since no thread has read a time that is still to come.
WindowIsKept ==
    /\ \A i \in DOMAIN granted : granted[i] <= clock
    /\ Unexpired \subseteq window
    /\ \A t \in ApiThreads : thread[t].now <= clock

\* One thread at a time is between its look at the window and its own timestamp.
OneHolder == \A t, u \in ApiThreads : HoldsLock(t) /\ HoldsLock(u) => t = u

\* A thread whose reading is fresh finds no more calls than there may be,
WindowInBudget(calls) == Cardinality(calls) <= Slots + late

FreshReading ==
    \A t \in ApiThreads : thread[t].pc = "lock" /\ ~ thread[t].stale
       => WindowInBudget(Recent(thread[t].now))

\* and whoever finds no slot waits until the first of them is a window old.
WaitsForFirst ==
    \A t \in ApiThreads : HoldsLock(t) /\ ~ HadRoom =>
       /\ ~ thread[t].stale => WindowInBudget(window)
       /\ thread[t].pc = "sleep" => granted[Min(window)] + Width <= thread[t].wake
       /\ thread[t].pc = "stamp" => granted[Min(window)] + Width <= clock

\* A thread that is alone never has a stale reading.
AloneIsFresh ==
    /\ crowd # {} /\ \A t \in ApiThreads \ crowd : thread[t].pc = "idle"
    /\ Cardinality(crowd) = 1 => \A t \in ApiThreads : ~ thread[t].stale

RatesInv ==
    /\ RatesTypeOK /\ WindowIsKept /\ OneHolder /\ FreshReading /\ WaitsForFirst
    /\ AloneIsFresh /\ RateBudget

\* A nonempty set of natural numbers has a least element, the one Min chooses.
LEMMA MinIsMember ==
    ASSUME NEW I, I \subseteq Nat, I # {}
    PROVE  Min(I) \in I
<1> DEFINE R == {p \in Nat \X Nat : p[1] < p[2]}
<1>1. IsWellFoundedOn(R, Nat)
    BY NatLessThanWellFounded DEF OpToRel
<1>2. PICK x \in I : \A y \in I : ~(<<y, x>> \in R)
    BY <1>1, WFMin
<1>3. ASSUME NEW y \in I
      PROVE  x =< y
    <2>1. x \in Nat /\ y \in Nat
        BY <1>2
    <2>2. y < x => <<y, x>> \in R
        BY <2>1
    <2> QED
        BY <1>2, <2>1, <2>2
<1> QED
    BY <1>3 DEF Min

\* A limiter without room has a first timestamp.
LEMMA FirstTimestamp ==
    ASSUME RatesTypeOK, ~ HadRoom
    PROVE  Min(window) \in window /\ granted[Min(window)] \in Nat
<1>1. /\ window \subseteq DOMAIN granted /\ DOMAIN granted = 1..Len(granted)
      /\ granted \in Seq(0..Horizon) /\ Horizon \in Nat
    BY WindowAssumption DEF RatesTypeOK
<1>2. window \subseteq Nat
    BY <1>1
<1>3. window # {}
    BY FS_EmptySet, WindowAssumption DEF HadRoom
<1>4. Min(window) \in window
    BY <1>2, <1>3, MinIsMember
<1>5. granted[Min(window)] \in 0..Horizon
    BY <1>1, <1>4
<1> QED
    BY <1>1, <1>4, <1>5

\* The counts of a set of calls and of a part of it.
LEMMA CallCounts ==
    ASSUME RatesTypeOK, NEW S, S \subseteq DOMAIN granted
    PROVE  /\ IsFiniteSet(S) /\ Cardinality(S) \in Nat
           /\ \A T \in SUBSET S : Cardinality(T) \in Nat /\ Cardinality(T) <= Cardinality(S)
           /\ \A i \in S : Cardinality(S \ {i}) = Cardinality(S) - 1
<1>1. DOMAIN granted = 1..Len(granted) /\ Len(granted) \in Nat
    BY DEF RatesTypeOK
<1>2. IsFiniteSet(1..Len(granted))
    BY <1>1, FS_Interval
<1>3. IsFiniteSet(S)
    BY <1>1, <1>2, FS_Subset
<1> QED
    BY <1>3, FS_CardinalityType, FS_Subset, FS_RemoveElement

LEMMA RatesStart == RatesInit => RatesInv
<1> SUFFICES ASSUME RatesInit
             PROVE  RatesInv
    OBVIOUS
<1>1. AgentsThread \in ApiThreads
    BY WindowAssumption DEF AgentsThread
<1>2. /\ granted = <<>> /\ window = {} /\ late = 0 /\ clock = 0
      /\ thread = [t \in ApiThreads |-> IdleThread]
      /\ crowd \in SUBSET ApiThreads /\ crowd # {}
    BY <1>1, WindowAssumption DEF RatesInit
<1>3. RatesTypeOK
    BY <1>2, WindowAssumption DEF RatesInit, RatesTypeOK, IdleThread, NewLlmCall
<1>4. Unexpired = {}
    BY <1>2 DEF Unexpired
<1>5. RateBudget
    BY <1>2, <1>4, FS_EmptySet, WindowAssumption DEF RateBudget, Unexpired
<1>6. WindowIsKept
    BY <1>2, <1>4 DEF WindowIsKept, IdleThread
<1>7. OneHolder /\ FreshReading /\ WaitsForFirst /\ AloneIsFresh
    BY <1>2 DEF OneHolder, FreshReading, WaitsForFirst, AloneIsFresh, HoldsLock, IdleThread
<1> QED
    BY <1>3, <1>5, <1>6, <1>7 DEF RatesInv

LEMMA ReadClockInv ==
    ASSUME RatesInv, NEW t \in crowd, ReadClock(t)
    PROVE  RatesInv'
<1>1. t \in ApiThreads /\ RatesTypeOK /\ thread[t].pc = "idle"
    BY DEF RatesInv, RatesTypeOK, ReadClock
<1>2. /\ thread' = [thread EXCEPT ![t].pc = "lock", ![t].now = clock]
      /\ UNCHANGED <<crowd, clock, granted, window, llmCall, late>>
    BY DEF ReadClock
<1>3. /\ \A u \in ApiThreads \ {t} : thread'[u] = thread[u]
      /\ thread'[t].pc = "lock" /\ thread'[t].now = clock
      /\ thread'[t].stale = thread[t].stale
    BY <1>1, <1>2 DEF RatesTypeOK
<1>4. RatesTypeOK'
    BY <1>1, <1>2 DEF RatesTypeOK
<1>5. RateBudget'
    BY <1>2 DEF RatesInv, RateBudget
<1>6. WindowIsKept'
    BY <1>1, <1>2, <1>3 DEF RatesInv, RatesTypeOK, WindowIsKept, Unexpired
<1>7. OneHolder' /\ WaitsForFirst'
    BY <1>2, <1>3 DEF RatesInv, OneHolder, WaitsForFirst, HoldsLock, HadRoom, WindowInBudget
<1>8. FreshReading'
    <2>1. Recent(clock) \subseteq Unexpired
        BY <1>1 DEF Recent, Unexpired, RatesTypeOK
    <2>2. WindowInBudget(Unexpired)
        BY DEF RatesInv, RateBudget, Unexpired, WindowInBudget
    <2>3. WindowInBudget(Recent(clock))
        <3>1. Unexpired \subseteq DOMAIN granted /\ late \in Nat
            BY <1>1 DEF Unexpired, RatesTypeOK
        <3>2. /\ Cardinality(Recent(clock)) \in Nat /\ Cardinality(Unexpired) \in Nat
              /\ Cardinality(Recent(clock)) <= Cardinality(Unexpired)
            BY <1>1, <2>1, <3>1, CallCounts
        <3> QED
            BY <2>2, <3>1, <3>2, WindowAssumption DEF WindowInBudget
    <2> QED
        BY <1>2, <1>3, <2>3 DEF RatesInv, FreshReading, Recent, WindowInBudget
<1>9. AloneIsFresh'
    BY <1>1, <1>2, <1>3 DEF RatesInv, AloneIsFresh
<1> QED
    BY <1>4, <1>5, <1>6, <1>7, <1>8, <1>9 DEF RatesInv

\* The wait is over when the first timestamp is a window old, or later.
LEMMA WaitReachesFirst ==
    ASSUME RatesInv, NEW t \in ApiThreads, thread[t].pc = "lock"
    PROVE  LET calls == Recent(thread[t].now)
               wait  == WaitTime(thread[t].now)
           IN /\ wait \in Nat
              /\ Cardinality(calls) >= Slots =>
                    /\ wait > 0
                    /\ granted[Min(calls)] + Width <= clock + wait
<1> DEFINE now == thread[t].now
           calls == Recent(now)
           first == granted[Min(calls)] + Width + IF IsLlm THEN Margin ELSE 0
<1>1. RatesTypeOK /\ clock \in Nat /\ now \in Nat /\ now <= clock
    BY WindowAssumption DEF RatesInv, RatesTypeOK, WindowIsKept
<1>2. calls \subseteq DOMAIN granted /\ DOMAIN granted \subseteq Nat
    BY <1>1 DEF Recent, RatesTypeOK
<1>3. Cardinality(calls) \in Nat
    BY <1>1, <1>2, CallCounts
<1>4. CASE Cardinality(calls) < Slots
    <2>1. WaitTime(now) = 0
        BY <1>4 DEF WaitTime
    <2> QED
        BY <1>3, <1>4, <2>1, WindowAssumption
<1>5. CASE ~ (Cardinality(calls) < Slots)
    <2>1. calls # {}
        BY <1>5, FS_EmptySet, WindowAssumption
    <2>2. Min(calls) \in calls
        BY <1>2, <2>1, MinIsMember
    <2>3. /\ granted[Min(calls)] \in Nat /\ Width \in Nat /\ Margin \in Nat
          /\ now < granted[Min(calls)] + Width
        BY <1>1, <1>2, <2>2, WindowAssumption DEF Recent, RatesTypeOK
    <2>4. WaitTime(now) = first - now
        BY <1>5 DEF WaitTime
    <2> DEFINE g == granted[Min(calls)]
               m == IF IsLlm THEN Margin ELSE 0
    <2>5. m \in Nat
        BY <2>3
    <2>6. WaitTime(now) = (g + Width + m) - now
        BY <2>4
    <2> HIDE DEF g, m, now, calls
    <2>7. g \in Nat /\ now < g + Width
        BY <2>3 DEF g
    <2>8. WaitTime(now) \in Nat /\ WaitTime(now) > 0 /\ g + Width <= clock + WaitTime(now)
        BY <1>1, <2>3, <2>5, <2>6, <2>7
    <2> QED
        BY <2>8 DEF g, now, calls
<1> QED
    BY <1>4, <1>5

LEMMA EnterWindowInv ==
    ASSUME RatesInv, NEW t \in crowd, EnterWindow(t)
    PROVE  RatesInv'
<1> DEFINE calls == Recent(thread[t].now)
           wait == WaitTime(thread[t].now)
           pc == IF wait > 0 THEN "sleep" ELSE "stamp"
<1>1. t \in ApiThreads /\ RatesTypeOK /\ thread[t].pc = "lock"
    BY DEF RatesInv, RatesTypeOK, EnterWindow
<1>2. /\ \A u \in ApiThreads : ~ HoldsLock(u)
      /\ window' = calls
      /\ thread' = [thread EXCEPT ![t].pc = pc, ![t].wake = clock + wait]
      /\ UNCHANGED <<crowd, clock, granted, llmCall, late>>
    BY DEF EnterWindow
<1>3. /\ wait \in Nat
      /\ Cardinality(calls) >= Slots =>
            wait > 0 /\ granted[Min(calls)] + Width <= clock + wait
    BY <1>1, WaitReachesFirst
<1>4. calls \subseteq window /\ calls \subseteq DOMAIN granted /\ Cardinality(calls) \in Nat
      /\ window \subseteq DOMAIN granted
    <2>1. calls \subseteq window /\ window \subseteq DOMAIN granted
        BY <1>1 DEF Recent, RatesTypeOK
    <2> QED
        BY <1>1, <2>1, CallCounts
<1>5. ~ thread[t].stale => WindowInBudget(calls)
    BY <1>1 DEF RatesInv, FreshReading
<1>6. Unexpired \subseteq calls
    <2>1. /\ thread[t].now \in Nat /\ clock \in Nat /\ thread[t].now <= clock
          /\ \A i \in DOMAIN granted : granted[i] \in Nat
        BY <1>1, WindowAssumption DEF RatesInv, RatesTypeOK, WindowIsKept
    <2> QED
        BY <2>1, WindowAssumption DEF RatesInv, WindowIsKept, Unexpired, Recent
<1>7. clock \in Nat /\ clock + wait \in Nat
    BY <1>1, <1>3, WindowAssumption DEF RatesTypeOK
<1> HIDE DEF calls, wait
<1>8. /\ \A u \in ApiThreads \ {t} : thread'[u] = thread[u]
      /\ thread'[t].pc = pc /\ thread'[t].now = thread[t].now
      /\ thread'[t].wake = clock + wait /\ thread'[t].stale = thread[t].stale
    BY <1>1, <1>2 DEF RatesTypeOK
<1>9. RatesTypeOK'
    <2>1. pc \in {"sleep", "stamp"}
        OBVIOUS
    <2> HIDE DEF pc
    <2>2. thread' \in [ApiThreads -> [pc : {"idle", "lock", "sleep", "stamp", "post"},
                                      now : 0..Horizon, wake : Nat, stale : BOOLEAN]]
        BY <1>1, <1>2, <1>7, <2>1 DEF RatesTypeOK
    <2>3. window' \subseteq DOMAIN granted'
        BY <1>2, <1>4
    <2> QED
        BY <1>1, <1>2, <2>2, <2>3 DEF RatesTypeOK
<1>10. RateBudget'
    BY <1>2 DEF RatesInv, RateBudget
<1>11. WindowIsKept'
    BY <1>2, <1>6, <1>8 DEF RatesInv, WindowIsKept, Unexpired
<1>12. OneHolder'
    BY <1>2, <1>8 DEF OneHolder, HoldsLock
<1>13. FreshReading'
    <2> SUFFICES ASSUME NEW u \in ApiThreads \ {t}, thread[u].pc = "lock",
                        ~ thread[u].stale
                 PROVE  WindowInBudget(Recent(thread[u].now))'
        BY <1>8 DEF FreshReading
    <2>1. WindowInBudget(Recent(thread[u].now))
        BY DEF RatesInv, FreshReading
    <2>2. /\ Recent(thread[u].now)' \subseteq Recent(thread[u].now)
          /\ Recent(thread[u].now) \subseteq DOMAIN granted
        BY <1>2, <1>4, <1>8 DEF Recent
    <2>3. /\ Cardinality(Recent(thread[u].now)') \in Nat
          /\ Cardinality(Recent(thread[u].now)) \in Nat
          /\ Cardinality(Recent(thread[u].now)') <= Cardinality(Recent(thread[u].now))
        BY <1>1, <2>2, CallCounts
    <2>4. late' = late /\ late \in Nat /\ Slots \in Nat
        BY <1>1, <1>2, WindowAssumption DEF RatesTypeOK
    <2> QED
        BY <2>1, <2>3, <2>4 DEF WindowInBudget
<1>14. WaitsForFirst'
    <2> SUFFICES ASSUME NEW u \in ApiThreads, HoldsLock(u)', ~ HadRoom'
                 PROVE  /\ ~ thread'[u].stale => WindowInBudget(window)'
                        /\ thread'[u].pc = "sleep"
                              => granted'[Min(window')] + Width <= thread'[u].wake
                        /\ thread'[u].pc = "stamp"
                              => granted'[Min(window')] + Width <= clock'
        BY DEF WaitsForFirst
    <2>1. u = t
        BY <1>2, <1>8 DEF HoldsLock
    <2>2. Cardinality(calls) >= Slots
        BY <1>2, <1>4, WindowAssumption DEF HadRoom
    <2>3. wait > 0 /\ granted[Min(calls)] + Width <= clock + wait
        BY <1>3, <2>2
    <2> QED
        BY <1>2, <1>5, <1>8, <2>1, <2>3 DEF WindowInBudget
<1>15. AloneIsFresh'
    BY <1>1, <1>2, <1>8 DEF RatesInv, AloneIsFresh
<1> QED
    BY <1>9, <1>10, <1>11, <1>12, <1>13, <1>14, <1>15 DEF RatesInv

\* A thread that only moves on: from its sleep, or to its next model.
LEMMA ThreadGoesInv ==
    ASSUME RatesInv, NEW t \in crowd, NEW pc \in {"stamp", "idle"}, ThreadGoes(t, pc),
           pc = "stamp" => thread[t].pc = "sleep" /\ clock >= thread[t].wake,
           UNCHANGED <<crowd, clock, granted, window, late>>,
           llmCall' \in [failed : 0..Models - 1, tries : 0..CallTries - 1]
    PROVE  RatesInv'
<1>1. t \in ApiThreads /\ RatesTypeOK
    BY DEF RatesInv, RatesTypeOK
<1>2. /\ \A u \in ApiThreads \ {t} : thread'[u] = thread[u]
      /\ thread'[t].pc = pc /\ thread'[t].now = thread[t].now
      /\ thread'[t].stale = thread[t].stale
    BY <1>1 DEF RatesTypeOK, ThreadGoes
<1>3. RatesTypeOK'
    BY <1>1 DEF RatesTypeOK, ThreadGoes
<1>4. RateBudget'
    BY DEF RatesInv, RateBudget
<1>5. WindowIsKept' /\ OneHolder' /\ FreshReading'
    BY <1>2 DEF RatesInv, WindowIsKept, Unexpired, OneHolder, HoldsLock, FreshReading, Recent,
                WindowInBudget
<1>6. WaitsForFirst'
    <2> SUFFICES ASSUME NEW u \in ApiThreads, HoldsLock(u)', ~ HadRoom
                 PROVE  /\ ~ thread'[u].stale => WindowInBudget(window)
                        /\ thread'[u].pc = "sleep"
                              => granted[Min(window)] + Width <= thread'[u].wake
                        /\ thread'[u].pc = "stamp" => granted[Min(window)] + Width <= clock
        BY DEF WaitsForFirst, HadRoom, WindowInBudget
    <2>1. CASE u # t
        BY <1>2, <2>1 DEF RatesInv, WaitsForFirst, HoldsLock
    <2>2. CASE u = t
        <3>1. pc = "stamp" /\ HoldsLock(t)
            BY <1>2, <2>2 DEF HoldsLock
        <3>2. /\ granted[Min(window)] + Width <= thread[t].wake
              /\ ~ thread[t].stale => WindowInBudget(window)
            BY <1>1, <3>1 DEF RatesInv, WaitsForFirst
        <3>3. granted[Min(window)] \in Nat
            BY <1>1, FirstTimestamp
        <3>4. granted[Min(window)] + Width <= clock
            <4>1. clock \in Nat /\ thread[t].wake \in Nat /\ Width \in Nat
                BY <1>1, WindowAssumption DEF RatesTypeOK
            <4>2. clock >= thread[t].wake
                BY <3>1
            <4> QED
                BY <3>2, <3>3, <4>1, <4>2
        <3> QED
            BY <1>2, <2>2, <3>1, <3>2, <3>4
    <2> QED
        BY <2>1, <2>2
<1>7. AloneIsFresh'
    BY <1>1, <1>2 DEF RatesInv, AloneIsFresh
<1> QED
    BY <1>3, <1>4, <1>5, <1>6, <1>7 DEF RatesInv

LEMMA WakeUpInv ==
    ASSUME RatesInv, NEW t \in crowd, WakeUp(t)
    PROVE  RatesInv'
<1>1. llmCall' \in [failed : 0..Models - 1, tries : 0..CallTries - 1]
    BY DEF WakeUp, RatesInv, RatesTypeOK
<1> QED
    BY <1>1, ThreadGoesInv DEF WakeUp

LEMMA PostToModelInv ==
    ASSUME RatesInv, NEW t \in crowd, PostToModel(t)
    PROVE  RatesInv'
<1>1. llmCall' \in [failed : 0..Models - 1, tries : 0..CallTries - 1]
    <2>1. /\ llmCall = [failed |-> llmCall.failed, tries |-> llmCall.tries]
          /\ llmCall.failed \in 0..Models - 1 /\ llmCall.tries \in 0..CallTries - 1
        BY DEF RatesInv, RatesTypeOK
    <2>2. /\ Models \in Nat \ {0} /\ CallTries \in Nat \ {0}
          /\ 0 \in 0..Models - 1 /\ 0 \in 0..CallTries - 1
        BY WindowAssumption
    <2>3. CASE llmCall' = NewLlmCall
        BY <2>2, <2>3 DEF NewLlmCall
    <2>4. CASE llmCall.failed + 1 < Models /\ llmCall' = [llmCall EXCEPT !.failed = @ + 1]
        <3>1. llmCall.failed + 1 \in 0..Models - 1
            BY <2>1, <2>2, <2>4
        <3>2. llmCall' = [failed |-> llmCall.failed + 1, tries |-> llmCall.tries]
            BY <2>1, <2>4
        <3> QED
            BY <2>1, <3>1, <3>2
    <2>5. CASE /\ llmCall.tries + 1 < CallTries
               /\ llmCall' = [failed |-> 0, tries |-> llmCall.tries + 1]
        <3>1. llmCall.tries + 1 \in 0..CallTries - 1
            BY <2>1, <2>2, <2>5
        <3> QED
            BY <2>2, <2>5, <3>1
    <2> QED
        BY <2>3, <2>4, <2>5 DEF PostToModel, call_llm_goes_on
<1> QED
    BY <1>1, ThreadGoesInv DEF PostToModel

\* The call is one of the window; so are those ahead of it, but for the first if it had
\* to be waited for.
LEMMA StampWindowInv ==
    ASSUME RatesInv, NEW t \in crowd, StampWindow(t)
    PROVE  RatesInv'
<1> DEFINE n == Len(granted) + 1
<1>1. t \in ApiThreads /\ RatesTypeOK /\ thread[t].pc = "stamp" /\ HoldsLock(t)
    BY DEF RatesInv, RatesTypeOK, StampWindow, HoldsLock
<1>2. /\ granted' = Append(granted, clock)
      /\ thread' = [u \in ApiThreads |->
            IF u = t THEN [IdleThread EXCEPT !.pc = IF IsLlm THEN "post" ELSE "idle"]
            ELSE [thread[u] EXCEPT !.stale = @ \/ thread[u].pc = "lock"]]
      /\ UNCHANGED <<crowd, clock, llmCall>>
    BY DEF StampWindow
<1>3. /\ Len(granted) \in Nat /\ DOMAIN granted = 1..Len(granted)
      /\ clock \in 0..Horizon /\ clock \in Nat
      /\ granted \in Seq(0..Horizon) /\ late \in Nat /\ window \subseteq DOMAIN granted
    BY <1>1, WindowAssumption DEF RatesTypeOK
<1>4. /\ granted' \in Seq(0..Horizon) /\ Len(granted') = n /\ DOMAIN granted' = 1..n
      /\ granted'[n] = clock /\ \A i \in DOMAIN granted : granted'[i] = granted[i]
    BY <1>2, <1>3
<1>5. window' = window \cup {n}
    BY <1>4 DEF StampWindow
<1>6. ASSUME NEW u \in ApiThreads, u # t
      PROVE  /\ thread'[u].pc = thread[u].pc /\ thread'[u].now = thread[u].now
             /\ thread'[u].wake = thread[u].wake
             /\ thread'[u].stale = (thread[u].stale \/ thread[u].pc = "lock")
    BY <1>1, <1>2, <1>6 DEF RatesTypeOK
<1>7. /\ thread'[t].pc \in {"idle", "post"} /\ thread'[t].now = 0
      /\ thread'[t].wake = 0 /\ thread'[t].stale = FALSE
    BY <1>1, <1>2 DEF IdleThread
<1>8. ~ HadRoom => Min(window) \in window \ Unexpired
    <2> SUFFICES ASSUME ~ HadRoom
                 PROVE  Min(window) \in window \ Unexpired
        OBVIOUS
    <2>1. Min(window) \in window /\ granted[Min(window)] \in Nat
        BY <1>1, FirstTimestamp
    <2>2. granted[Min(window)] + Width <= clock
        BY <1>1 DEF RatesInv, WaitsForFirst
    <2> QED
        BY <1>3, <2>1, <2>2, WindowAssumption DEF Unexpired
<1>9. Unexpired' = Unexpired \cup {n}
    <2>1. clock < clock + Width
        BY <1>3, WindowAssumption
    <2>2. n \in 1..n /\ 1..n = DOMAIN granted \cup {n}
        BY <1>3
    <2> QED
        BY <1>2, <1>4, <2>1, <2>2 DEF Unexpired
<1>10. /\ Cardinality(Unexpired') = Cardinality(Unexpired) + 1
       /\ Cardinality(Unexpired) \in Nat /\ Cardinality(window) \in Nat
       /\ Cardinality(Unexpired) <= Cardinality(window)
       /\ ~ HadRoom => Cardinality(Unexpired) <= Cardinality(window) - 1
    <2>1. Unexpired \subseteq window
        BY DEF RatesInv, WindowIsKept
    <2>2. IsFiniteSet(Unexpired) /\ n \notin Unexpired
        <3>1. Unexpired \subseteq DOMAIN granted
            BY DEF Unexpired
        <3> QED
            BY <1>1, <1>3, <3>1, CallCounts
    <2>3. Cardinality(Unexpired') = Cardinality(Unexpired) + 1
        BY <1>9, <2>2, FS_AddElement
    <2>4. /\ Cardinality(Unexpired) \in Nat /\ Cardinality(window) \in Nat
          /\ Cardinality(Unexpired) <= Cardinality(window)
        BY <1>1, <1>3, <2>1, CallCounts
    <2>5. ASSUME ~ HadRoom
          PROVE  Cardinality(Unexpired) <= Cardinality(window) - 1
        <3> DEFINE rest == window \ {Min(window)}
        <3>1. Unexpired \subseteq rest /\ rest \subseteq DOMAIN granted /\ Min(window) \in window
            BY <1>3, <1>8, <2>1, <2>5
        <3>2. Cardinality(rest) = Cardinality(window) - 1
            BY <1>1, <1>3, <3>1, CallCounts
        <3> HIDE DEF rest
        <3>3. Cardinality(Unexpired) <= Cardinality(rest)
            BY <1>1, <3>1, CallCounts
        <3> QED
            BY <3>2, <3>3
    <2> QED
        BY <2>3, <2>4, <2>5
<1>11. late' \in Nat /\ Cardinality(Unexpired') <= Slots + late'
    <2>1. CASE HadRoom
        <3>1. late' = 0 /\ Cardinality(window) < Slots
            BY <2>1 DEF StampWindow, HadRoom
        <3> QED
            BY <1>10, <3>1, WindowAssumption
    <2>2. CASE ~ HadRoom /\ thread[t].stale
        <3>1. late' = late + 1
            BY <2>2 DEF StampWindow
        <3>2. Cardinality(Unexpired) <= Slots + late
            BY DEF RatesInv, RateBudget, Unexpired
        <3> QED
            BY <1>3, <1>10, <3>1, <3>2, WindowAssumption
    <2>3. CASE ~ HadRoom /\ ~ thread[t].stale
        <3>1. late' = late
            BY <2>3 DEF StampWindow
        <3>2. Cardinality(window) <= Slots + late
            BY <1>1, <2>3 DEF RatesInv, WaitsForFirst, WindowInBudget
        <3> QED
            BY <1>3, <1>10, <2>3, <3>1, <3>2, WindowAssumption
    <2> QED
        BY <2>1, <2>2, <2>3
<1>12. Cardinality(crowd) = 1 =>
          /\ \A u \in ApiThreads \ {t} : thread[u].pc # "lock"
          /\ late' = 0
    <2> SUFFICES ASSUME Cardinality(crowd) = 1
                 PROVE  /\ \A u \in ApiThreads \ {t} : thread[u].pc # "lock"
                        /\ late' = 0
        OBVIOUS
    <2>1. IsFiniteSet(crowd)
        BY <1>1, WindowAssumption, FS_Subset DEF RatesTypeOK
    <2>2. PICK c : crowd = {c}
        BY <2>1, FS_Singleton
    <2>3. late = 0 /\ ~ thread[t].stale
        BY <1>1 DEF RatesInv, RateBudget, AloneIsFresh
    <2>4. late' = 0
        BY <2>3 DEF StampWindow
    <2>5. \A u \in ApiThreads \ {t} : thread[u].pc = "idle"
        BY <2>2 DEF RatesInv, AloneIsFresh
    <2> QED
        BY <2>4, <2>5
<1>13. RateBudget'
    BY <1>2, <1>11, <1>12 DEF RateBudget, Unexpired
<1>14. RatesTypeOK'
    <2>1. thread' \in [ApiThreads -> [pc : {"idle", "lock", "sleep", "stamp", "post"},
                                      now : 0..Horizon, wake : Nat, stale : BOOLEAN]]
        <3>1. 0 \in 0..Horizon
            BY WindowAssumption
        <3>2. ASSUME NEW u \in ApiThreads
              PROVE  (thread[u].stale \/ thread[u].pc = "lock") \in BOOLEAN
            OBVIOUS
        <3> QED
            BY <1>1, <1>2, <3>1, <3>2 DEF RatesTypeOK, IdleThread
    <2>2. window' \subseteq DOMAIN granted'
        BY <1>3, <1>4, <1>5
    <2> QED
        BY <1>1, <1>2, <1>4, <1>11, <2>1, <2>2 DEF RatesTypeOK
<1>15. WindowIsKept'
    <2>1. \A i \in DOMAIN granted' : granted'[i] <= clock'
        <3>1. \A i \in DOMAIN granted : granted[i] <= clock
            BY DEF RatesInv, WindowIsKept
        <3>2. DOMAIN granted' = DOMAIN granted \cup {n}
            BY <1>3, <1>4
        <3> QED
            BY <1>2, <1>3, <1>4, <3>1, <3>2
    <2>2. Unexpired' \subseteq window'
        BY <1>5, <1>9 DEF RatesInv, WindowIsKept
    <2>3. \A u \in ApiThreads : thread'[u].now <= clock'
        BY <1>2, <1>3, <1>6, <1>7 DEF RatesInv, WindowIsKept
    <2> QED
        BY <2>1, <2>2, <2>3 DEF WindowIsKept
<1>16. \A u \in ApiThreads : ~ HoldsLock(u)'
    BY <1>1, <1>6, <1>7 DEF RatesInv, OneHolder, HoldsLock
<1>17. OneHolder' /\ WaitsForFirst'
    BY <1>16 DEF OneHolder, WaitsForFirst
<1>18. FreshReading'
    BY <1>6, <1>7 DEF FreshReading
<1>19. AloneIsFresh'
    BY <1>2, <1>6, <1>7, <1>12 DEF RatesInv, AloneIsFresh
<1> QED
    BY <1>13, <1>14, <1>15, <1>17, <1>18, <1>19 DEF RatesInv

LEMMA ClockTickInv ==
    ASSUME RatesInv, ClockTick
    PROVE  RatesInv'
<1>1. /\ clock' = clock + 1 /\ clock < Horizon
      /\ UNCHANGED <<crowd, granted, window, thread, llmCall, late>>
    BY DEF ClockTick
<1>2. RatesTypeOK /\ clock \in Nat /\ \A i \in DOMAIN granted : granted[i] \in Nat
    BY WindowAssumption DEF RatesInv, RatesTypeOK
<1>3. RatesTypeOK'
    BY <1>1, <1>2, WindowAssumption DEF RatesTypeOK
<1>4. Unexpired' \subseteq Unexpired /\ Unexpired \subseteq DOMAIN granted
    BY <1>1, <1>2, WindowAssumption DEF Unexpired
<1>5. RateBudget'
    <2>1. /\ Cardinality(Unexpired') \in Nat /\ Cardinality(Unexpired) \in Nat
          /\ Cardinality(Unexpired') <= Cardinality(Unexpired)
        BY <1>2, <1>4, CallCounts
    <2>2. Cardinality(Unexpired) <= Slots + late /\ late' = late /\ late \in Nat
        BY <1>1, <1>2 DEF RatesInv, RateBudget, Unexpired, RatesTypeOK
    <2>3. Cardinality(Unexpired') <= Slots + late'
        BY <2>1, <2>2, WindowAssumption
    <2> QED
        BY <1>1, <2>3 DEF RatesInv, RateBudget, Unexpired
<1>6. WindowIsKept'
    <2>1. \A t \in ApiThreads : thread[t].now \in Nat
        BY <1>2 DEF RatesTypeOK
    <2> QED
        BY <1>1, <1>2, <1>4, <2>1 DEF RatesInv, WindowIsKept
<1>7. OneHolder' /\ FreshReading' /\ AloneIsFresh'
    BY <1>1 DEF RatesInv, OneHolder, HoldsLock, FreshReading, Recent, WindowInBudget,
                AloneIsFresh
<1>8. WaitsForFirst'
    <2> SUFFICES ASSUME NEW t \in ApiThreads, HoldsLock(t), ~ HadRoom,
                        thread[t].pc = "stamp"
                 PROVE  granted[Min(window)] + Width <= clock + 1
        BY <1>1 DEF RatesInv, WaitsForFirst, HoldsLock, HadRoom, WindowInBudget
    <2>1. granted[Min(window)] + Width <= clock
        BY DEF RatesInv, WaitsForFirst
    <2>2. granted[Min(window)] \in Nat
        BY <1>2, FirstTimestamp
    <2> QED
        BY <1>2, <2>1, <2>2, WindowAssumption
<1> QED
    BY <1>3, <1>5, <1>6, <1>7, <1>8 DEF RatesInv

\* The invariant of the rate limiters holds in every state.
THEOREM RatesInvariant == RatesSpec => []RatesInv
<1>1. RatesInv /\ [RatesNext]_rateVars => RatesInv'
    <2> SUFFICES ASSUME RatesInv, [RatesNext]_rateVars
                 PROVE  RatesInv'
        OBVIOUS
    <2>1. CASE UNCHANGED rateVars
        BY <2>1
           DEF rateVars, RatesInv, RatesTypeOK, WindowIsKept, Unexpired, OneHolder,
               HoldsLock, FreshReading, Recent, WaitsForFirst, HadRoom, WindowInBudget,
               AloneIsFresh, RateBudget
    <2> QED
        BY <2>1, ReadClockInv, EnterWindowInv, WakeUpInv, StampWindowInv, PostToModelInv,
           ClockTickInv
           DEF RatesNext
<1> QED
    BY <1>1, RatesStart, PTL DEF RatesSpec

\* No window has more calls than slots, and one more for each late call since the
\* limiter had room; the agents' one thread is never late.
THEOREM RatesInBudget == RatesSpec => [](RatesTypeOK /\ RateBudget)
<1>1. RatesInv => RatesTypeOK /\ RateBudget
    BY DEF RatesInv
<1> QED
    BY <1>1, RatesInvariant, PTL

-----------------------------------------------------------------------------
(* The Gmail tools.                                                        *)

Ids == Messages \cup Threads
Mailing(q) == q.kind \in {"send", "createDraft"}

\* What may be left of the plan of a call: the request that mails is the last one; the
\* messages to be relabelled are the last of those asked for.
MailingPlan(plan) ==
    \A i \in 1..Len(plan) :
       /\ plan[i].kind \in {"getThread", "send", "createDraft"}
       /\ Mailing(plan[i]) <=> i = Len(plan)

RelabellingPlan(ask, plan) ==
    /\ Len(plan) <= Len(ask.ids) + 1
    /\ \A i \in 1..Len(plan) :
          LET k == i + Len(ask.ids) - Len(plan)
          IN IF k = 0 THEN plan[i].kind = "listLabels"
             ELSE plan[i] = ApiRequest(ask.tool, ask.ids[k])

PlanFits(ask, plan) ==
    /\ plan \in Seq(ApiCalls)
    /\ IF SendsMail(ask) THEN MailingPlan(plan)
       ELSE \A i \in 1..Len(plan) : ~ Mailing(plan[i])
    /\ Relabels(ask) => RelabellingPlan(ask, plan)
    /\ ask.tool = "deleteDraft" =>
          plan \in {<<>>, <<ApiRequest("deleteDraft", NoId)>>}

CallStates ==
    [pc : {"idle", "service", "request", "OK", "ERROR", "raised"}, ask : ToolCalls,
     plan : Seq(ApiCalls), tries : 0..(Attempts - 1), reached : SUBSET Messages]
\* The first n messages of a list.
Reached(reached, ids, n) == reached = {ids[i] : i \in 1..n}

Running(me) == me.pc \in {"service", "request"}

\* The plan of each call, and what the requests that are no longer in it have done.
CallFits(c) ==
    LET me == call[c]
    IN /\ me.pc = "idle" => me = NewCall /\ mailed[c] = 0
       /\ PlanFits(me.ask, me.plan)
       /\ Running(me) <=> me.plan # <<>>
       /\ Running(me) /\ SendsMail(me.ask) =>
             mailed[c] <= IF Len(me.plan) = 1 THEN me.tries ELSE 0
       /\ (Running(me) \/ me.pc = "OK") /\ Relabels(me.ask) =>
             Reached(me.reached, me.ask.ids, Len(me.ask.ids) - Len(me.plan))

\* ToolAnswersAreTrue of one call.
CallAnswerIsTrue(c) ==
    LET me == call[c]
    IN /\ mailed[c] <= IF SendsMail(me.ask) THEN Attempts ELSE 0
       /\ me.pc = "OK" =>
             /\ SendsMail(me.ask) => mailed[c] > 0
             /\ Relabels(me.ask) => me.reached = ToSet(me.ask.ids)
             /\ me.ask.tool = "deleteDraft" => ~ oldDraft
       /\ Relabels(me.ask) =>
             \E n \in 0..Len(me.ask.ids) : Reached(me.reached, me.ask.ids, n)

GmailInv ==
    /\ GmailTypeOK
    /\ \A c \in Calls : CallFits(c) /\ CallAnswerIsTrue(c)

-----------------------------------------------------------------------------
(* Sequences of requests.                                                  *)

LEMMA RequestsType ==
    ASSUME NEW S, NEW ids \in Seq(S), S \subseteq Ids, NEW kind,
           ApiRequest(kind, NoId) \in ApiCalls
    PROVE  /\ ApiRequests(kind, ids) \in Seq(ApiCalls)
           /\ Len(ApiRequests(kind, ids)) = Len(ids)
           /\ \A i \in 1..Len(ids) : ApiRequests(kind, ids)[i] = ApiRequest(kind, ids[i])
<1>1. \A i \in 1..Len(ids) : ApiRequest(kind, ids[i]) \in ApiCalls
    BY DEF ApiRequest, ApiCalls, Ids
<1> QED
    BY <1>1 DEF ApiRequests

LEMMA OneRequest ==
    ASSUME NEW q \in ApiCalls
    PROVE  <<q>> \in Seq(ApiCalls) /\ Len(<<q>>) = 1 /\ <<q>>[1] = q
OBVIOUS

LEMMA SequencesFollow ==
    ASSUME NEW s \in Seq(ApiCalls), NEW t \in Seq(ApiCalls)
    PROVE  /\ s \o t \in Seq(ApiCalls) /\ Len(s \o t) = Len(s) + Len(t)
           /\ \A i \in 1..Len(s \o t) :
                 (s \o t)[i] = IF i <= Len(s) THEN s[i] ELSE t[i - Len(s)]
OBVIOUS

\* SetToSeq lists a finite set.
LEMMA SetToSeqType ==
    ASSUME NEW S, IsFiniteSet(S)
    PROVE  SetToSeq(S) \in Seq(S)
<1>1. Cardinality(S) \in Nat /\ ExistsBijection(1..Cardinality(S), S)
    BY FS_CardinalityType
<1>2. PICK f \in [1..Cardinality(S) -> S] : IsInjective(f)
    BY <1>1 DEF ExistsBijection, Bijection, Injection, IsInjective
<1>3. SetToSeq(S) \in [1..Cardinality(S) -> S]
    BY <1>2 DEF SetToSeq
<1> QED
    BY <1>1, <1>3

-----------------------------------------------------------------------------
(* The plans.                                                              *)

\* A tool that neither mails, relabels nor deletes a draft asks for anything but mail.
LEMMA PlainPlan ==
    ASSUME NEW ask \in ToolCalls, ~ SendsMail(ask), ~ Relabels(ask),
           ask.tool # "deleteDraft",
           NEW plan \in Seq(ApiCalls), \A i \in 1..Len(plan) : ~ Mailing(plan[i])
    PROVE  PlanFits(ask, plan)
BY DEF PlanFits

LEMMA KnownRequests ==
    /\ \A kind \in {"listMessages", "getMessage", "send", "listThreads", "getThread",
                    "getProfile", "createDraft", "listDrafts", "getDraft", "deleteDraft",
                    "label", "archive", "listLabels", "move", "getAttachment"} :
          /\ ApiRequest(kind, NoId) \in ApiCalls /\ ApiRequest(kind, NoId).kind = kind
    /\ \A kind, id : ApiRequest(kind, id).kind = kind /\ ApiRequest(kind, id).id = id
BY DEF ApiRequest, ApiCalls

LEMMA PlansOfOne ==
    ASSUME NEW ask \in ToolCalls
    PROVE  /\ ask.tool \in {"list", "search"} =>
                 Plan(ask) = <<ApiRequest("listMessages", NoId)>>
           /\ ask.tool \in {"threads", "searchThreads"} =>
                 Plan(ask) = <<ApiRequest("listThreads", NoId)>>
           /\ ask.tool = "drafts" => Plan(ask) = <<ApiRequest("listDrafts", NoId)>>
           /\ ask.tool = "profile" => Plan(ask) = <<ApiRequest("getProfile", NoId)>>
           /\ ask.tool = "send" => Plan(ask) = <<ApiRequest("send", NoId)>>
           /\ ask.tool = "draft" => Plan(ask) = <<ApiRequest("createDraft", NoId)>>
           /\ ask.tool = "deleteDraft" => Plan(ask) = <<ApiRequest("deleteDraft", NoId)>>
           /\ ask.tool = "unanswered" => 
                 Plan(ask) = <<ApiRequest("getProfile", NoId), ApiRequest("listThreads", NoId)>>
BY DEF Plan, list_messages, search_messages, list_threads, search_threads, list_drafts,
       fetch_profile, send_email, create_draft, delete_draft, list_unanswered

LEMMA PlansOfMany ==
    ASSUME NEW ask \in ToolCalls
    PROVE  /\ ask.tool = "fetch" => Plan(ask) = ApiRequests("getMessage", ask.ids)
           /\ ask.tool \in {"thread", "summarize"} =>
                 Plan(ask) = ApiRequests("getThread", ask.ids)
           /\ ask.tool = "attachment" => Plan(ask) = ApiRequests("getAttachment", ask.ids)
           /\ ask.tool = "label" => Plan(ask) = ApiRequests("label", ask.ids)
           /\ ask.tool = "archive" => Plan(ask) = ApiRequests("archive", ask.ids)
           /\ ask.tool = "move" => Plan(ask) = <<ApiRequest("listLabels", NoId)>>
                                                  \o ApiRequests("move", ask.ids)
           /\ ask.tool = "reply" => Plan(ask) = ApiRequests("getThread", ask.ids)
                                                  \o <<ApiRequest("createDraft", NoId)>>
           /\ ask.tool = "followups" =>
                 Plan(ask) = <<ApiRequest("getProfile", NoId)>> \o
                    IF ask.ids = <<>> THEN <<ApiRequest("listThreads", NoId)>>
                    ELSE ApiRequests("getThread", ask.ids)
BY DEF Plan, fetch_message, fetch_thread, summarize_thread, get_attachment, auto_label,
       archive, move_to_folder, generate_reply_draft, create_draft, suggest_followups

\* Plans of requests that list or get something.
LEMMA GetsOnly ==
    ASSUME NEW ids \in Seq(Ids),
           NEW kind \in {"listMessages", "getMessage", "listThreads", "getThread",
                         "getProfile", "listDrafts", "getDraft", "getAttachment"}
    PROVE  /\ ApiRequests(kind, ids) \in Seq(ApiCalls)
           /\ \A i \in 1..Len(ApiRequests(kind, ids)) : ~ Mailing(ApiRequests(kind, ids)[i])
           /\ <<ApiRequest(kind, NoId)>> \in Seq(ApiCalls)
           /\ \A i \in 1..Len(<<ApiRequest(kind, NoId)>>) :
                 ~ Mailing(<<ApiRequest(kind, NoId)>>[i])
<1>1. ApiRequest(kind, NoId) \in ApiCalls /\ ~ Mailing(ApiRequest(kind, NoId))
    BY KnownRequests DEF Mailing
<1>2. \A i \in 1..Len(ids) : ~ Mailing(ApiRequest(kind, ids[i]))
    BY KnownRequests DEF Mailing
<1>3. /\ ApiRequests(kind, ids) \in Seq(ApiCalls) /\ Len(ApiRequests(kind, ids)) = Len(ids)
      /\ \A i \in 1..Len(ids) : ApiRequests(kind, ids)[i] = ApiRequest(kind, ids[i])
    BY <1>1, RequestsType
<1> QED
    BY <1>1, <1>2, <1>3

LEMMA GetsFollow ==
    ASSUME NEW s \in Seq(ApiCalls), NEW t \in Seq(ApiCalls),
           \A i \in 1..Len(s) : ~ Mailing(s[i]), \A i \in 1..Len(t) : ~ Mailing(t[i])
    PROVE  /\ s \o t \in Seq(ApiCalls)
           /\ \A i \in 1..Len(s \o t) : ~ Mailing((s \o t)[i])
<1>1. s \o t \in Seq(ApiCalls) /\ Len(s \o t) = Len(s) + Len(t)
    BY SequencesFollow
<1>2. ASSUME NEW i \in 1..Len(s \o t)
      PROVE  ~ Mailing((s \o t)[i])
    <2>1. (s \o t)[i] = IF i <= Len(s) THEN s[i] ELSE t[i - Len(s)]
        BY SequencesFollow
    <2>2. i \in Nat /\ Len(s) \in Nat /\ Len(t) \in Nat /\ i <= Len(s) + Len(t) /\ i >= 1
        BY <1>1
    <2>3. CASE i <= Len(s)
        BY <2>1, <2>2, <2>3
    <2>4. CASE ~ (i <= Len(s))
        <3>1. i - Len(s) \in 1..Len(t)
            BY <2>2, <2>4
        <3> QED
            BY <2>1, <2>4, <3>1
    <2> QED
        BY <2>3, <2>4
<1> QED
    BY <1>1, <1>2

LEMMA PlanStarts ==
    ASSUME NEW ask \in ToolCalls
    PROVE  /\ PlanFits(ask, Plan(ask))
           /\ Relabels(ask) => Len(Plan(ask)) >= Len(ask.ids)
<1>1. ask.ids \in Seq(Ids)
    BY DEF ToolCalls, Ids
<1>2. CASE ask.tool \in {"list", "search", "threads", "searchThreads", "drafts", "profile"}
    <2>1. PICK kind \in {"listMessages", "listThreads", "listDrafts", "getProfile"} :
             Plan(ask) = <<ApiRequest(kind, NoId)>>
        BY <1>2, PlansOfOne
    <2> QED
        BY <1>1, <1>2, <2>1, GetsOnly, PlainPlan DEF SendsMail, Relabels
<1>3. CASE ask.tool \in {"fetch", "thread", "summarize", "attachment"}
    <2>1. PICK kind \in {"getMessage", "getThread", "getAttachment"} :
             Plan(ask) = ApiRequests(kind, ask.ids)
        BY <1>3, PlansOfMany
    <2> QED
        BY <1>1, <1>3, <2>1, GetsOnly, PlainPlan DEF SendsMail, Relabels
<1>4. CASE ask.tool = "unanswered"
    <2>1. Plan(ask) = <<ApiRequest("getProfile", NoId)>> \o <<ApiRequest("listThreads", NoId)>>
        BY <1>4, PlansOfOne
    <2> QED
        BY <1>1, <1>4, <2>1, GetsOnly, GetsFollow, PlainPlan DEF SendsMail, Relabels
<1>5. CASE ask.tool = "followups"
    <2>1. \/ Plan(ask) = <<ApiRequest("getProfile", NoId)>> \o <<ApiRequest("listThreads", NoId)>>
          \/ Plan(ask) = <<ApiRequest("getProfile", NoId)>> \o ApiRequests("getThread", ask.ids)
        BY <1>5, PlansOfMany
    <2> QED
        BY <1>1, <1>5, <2>1, GetsOnly, GetsFollow, PlainPlan DEF SendsMail, Relabels
<1>6. CASE ask.tool \in {"send", "draft"}
    <2>1. PICK kind \in {"send", "createDraft"} : Plan(ask) = <<ApiRequest(kind, NoId)>>
        BY <1>6, PlansOfOne
    <2>2. MailingPlan(Plan(ask)) /\ Plan(ask) \in Seq(ApiCalls)
        BY <2>1, KnownRequests, OneRequest DEF MailingPlan, Mailing
    <2> QED
        BY <1>6, <2>2 DEF PlanFits, SendsMail, Relabels
<1>7. CASE ask.tool = "reply"
    <2> DEFINE gets == ApiRequests("getThread", ask.ids)
               draft == <<ApiRequest("createDraft", NoId)>>
               plan == gets \o draft
    <2>1. /\ gets \in Seq(ApiCalls)
          /\ \A i \in 1..Len(gets) : gets[i].kind = "getThread"
        <3>1. ApiRequest("getThread", NoId) \in ApiCalls
            BY KnownRequests
        <3> QED
            BY <1>1, <3>1, RequestsType, KnownRequests
    <2>2. draft \in Seq(ApiCalls) /\ Len(draft) = 1 /\ draft[1].kind = "createDraft"
        BY KnownRequests
    <2> HIDE DEF gets, draft
    <2>3. /\ plan \in Seq(ApiCalls) /\ Len(plan) = Len(gets) + 1 /\ Len(gets) \in Nat
          /\ \A i \in 1..Len(plan) :
                plan[i] = IF i <= Len(gets) THEN gets[i] ELSE draft[i - Len(gets)]
        <3>1. /\ plan \in Seq(ApiCalls) /\ Len(plan) = Len(gets) + Len(draft)
              /\ \A i \in 1..Len(plan) :
                    plan[i] = IF i <= Len(gets) THEN gets[i] ELSE draft[i - Len(gets)]
            BY <2>1, <2>2, SequencesFollow
        <3> QED
            BY <2>1, <2>2, <3>1
    <2> HIDE DEF plan
    <2>4. ASSUME NEW i \in 1..Len(plan)
          PROVE  plan[i].kind = IF i = Len(plan) THEN "createDraft" ELSE "getThread"
        <3>1. CASE i = Len(plan)
            <4>1. i - Len(gets) = 1 /\ ~ (i <= Len(gets))
                BY <2>3, <3>1
            <4> QED
                BY <2>2, <2>3, <3>1, <4>1
        <3>2. CASE i # Len(plan)
            <4>1. i \in 1..Len(gets)
                BY <2>3, <3>2
            <4> QED
                BY <2>1, <2>3, <3>2, <4>1
        <3> QED
            BY <3>1, <3>2
    <2>5. MailingPlan(plan)
        BY <2>4 DEF MailingPlan, Mailing
    <2>6. Plan(ask) = plan
        BY <1>7, PlansOfMany DEF plan, gets, draft
    <2> QED
        BY <1>7, <2>3, <2>5, <2>6 DEF PlanFits, SendsMail, Relabels
<1>8. CASE ask.tool = "deleteDraft"
    <2>1. Plan(ask) = <<ApiRequest("deleteDraft", NoId)>>
        BY <1>8, PlansOfOne
    <2>2. Plan(ask) \in Seq(ApiCalls) /\ \A i \in 1..Len(Plan(ask)) : ~ Mailing(Plan(ask)[i])
        BY <2>1, KnownRequests, OneRequest DEF Mailing
    <2> QED
        BY <1>8, <2>1, <2>2 DEF PlanFits, SendsMail, Relabels
<1>9. CASE ask.tool \in {"label", "archive"}
    <2>1. Plan(ask) = ApiRequests(ask.tool, ask.ids)
        BY <1>9, PlansOfMany
    <2>2. /\ Plan(ask) \in Seq(ApiCalls) /\ Len(Plan(ask)) = Len(ask.ids)
          /\ \A i \in 1..Len(ask.ids) : Plan(ask)[i] = ApiRequest(ask.tool, ask.ids[i])
        BY <1>1, <1>9, <2>1, RequestsType, KnownRequests
    <2>3. \A i \in 1..Len(Plan(ask)) : ~ Mailing(Plan(ask)[i])
        BY <1>9, <2>2, KnownRequests DEF Mailing
    <2>4. RelabellingPlan(ask, Plan(ask))
        BY <1>1, <2>2 DEF RelabellingPlan
    <2> QED
        BY <1>1, <1>9, <2>2, <2>3, <2>4 DEF PlanFits, SendsMail
<1>10. CASE ask.tool = "move"
    <2> DEFINE lists == <<ApiRequest("listLabels", NoId)>>
               moves == ApiRequests("move", ask.ids)
               plan == lists \o moves
    <2>1. lists \in Seq(ApiCalls) /\ Len(lists) = 1 /\ lists[1].kind = "listLabels"
        BY KnownRequests
    <2>2. /\ moves \in Seq(ApiCalls) /\ Len(moves) = Len(ask.ids)
          /\ \A i \in 1..Len(ask.ids) : moves[i] = ApiRequest(ask.tool, ask.ids[i])
        <3>1. ApiRequest("move", NoId) \in ApiCalls
            BY KnownRequests
        <3> QED
            BY <1>1, <1>10, <3>1, RequestsType
    <2> HIDE DEF lists, moves
    <2>3. /\ plan \in Seq(ApiCalls) /\ Len(plan) = Len(ask.ids) + 1 /\ Len(ask.ids) \in Nat
          /\ \A i \in 1..Len(plan) :
                plan[i] = IF i <= 1 THEN lists[i] ELSE moves[i - 1]
        <3>1. /\ plan \in Seq(ApiCalls) /\ Len(plan) = Len(lists) + Len(moves)
              /\ \A i \in 1..Len(plan) :
                    plan[i] = IF i <= Len(lists) THEN lists[i] ELSE moves[i - Len(lists)]
            BY <2>1, <2>2, SequencesFollow
        <3> QED
            BY <1>1, <2>1, <2>2, <3>1
    <2> HIDE DEF plan
    <2>4. ASSUME NEW i \in 1..Len(plan)
          PROVE  IF i = 1 THEN plan[i].kind = "listLabels"
                 ELSE i - 1 \in 1..Len(ask.ids) /\ plan[i] = ApiRequest(ask.tool, ask.ids[i - 1])
        <3>1. CASE i = 1
            BY <2>1, <2>3, <3>1
        <3>2. CASE i # 1
            <4>1. i - 1 \in 1..Len(ask.ids) /\ ~ (i <= 1)
                BY <2>3, <3>2
            <4> QED
                BY <2>2, <2>3, <3>2, <4>1
        <3> QED
            BY <3>1, <3>2
    <2>5. \A i \in 1..Len(plan) : ~ Mailing(plan[i])
        BY <1>10, <2>4, KnownRequests DEF Mailing
    <2>6. RelabellingPlan(ask, plan)
        <3>1. ASSUME NEW i \in 1..Len(plan)
              PROVE  /\ i + Len(ask.ids) - Len(plan) = i - 1
                     /\ i - 1 = 0 <=> i = 1
            BY <2>3
        <3> QED
            BY <2>3, <2>4, <3>1 DEF RelabellingPlan
    <2>7. Plan(ask) = plan
        BY <1>10, PlansOfMany DEF plan, lists, moves
    <2> QED
        BY <1>10, <2>3, <2>5, <2>6, <2>7 DEF PlanFits, SendsMail
<1> QED
    BY <1>2, <1>3, <1>4, <1>5, <1>6, <1>7, <1>8, <1>9, <1>10 DEF ToolCalls

\* The answer of a list adds requests that get something.
LEMMA ListedGets ==
    ASSUME GmailTypeOK, NEW kind
    PROVE  /\ Listed(kind) \in Seq(ApiCalls)
           /\ \A i \in 1..Len(Listed(kind)) : ~ Mailing(Listed(kind)[i])
           /\ kind \notin {"listMessages", "listThreads", "listDrafts"} => Listed(kind) = <<>>
<1>1. /\ DOMAIN labelsOf \subseteq Messages /\ IsFiniteSet(DOMAIN labelsOf)
      /\ IsFiniteSet(Threads)
    BY ToolsAssumption, FS_Subset DEF GmailTypeOK
<1>2. SetToSeq(DOMAIN labelsOf) \in Seq(Ids) /\ SetToSeq(Threads) \in Seq(Ids)
    <2>1. SetToSeq(DOMAIN labelsOf) \in Seq(DOMAIN labelsOf) /\ SetToSeq(Threads) \in Seq(Threads)
        BY <1>1, SetToSeqType
    <2>2. DOMAIN labelsOf \subseteq Ids /\ Threads \subseteq Ids
        BY <1>1 DEF Ids
    <2> QED
        BY <2>1, <2>2
<1>3. CASE kind = "listMessages"
    BY <1>2, <1>3, GetsOnly DEF Listed
<1>4. CASE kind = "listThreads"
    BY <1>2, <1>4, GetsOnly DEF Listed
<1>5. CASE kind = "listDrafts"
    <2>1. Listed(kind) = <<ApiRequest("getDraft", NoId)>> \/ Listed(kind) = <<>>
        BY <1>5 DEF Listed
    <2>2. CASE Listed(kind) = <<ApiRequest("getDraft", NoId)>>
        BY <1>2, <1>5, <2>2, GetsOnly
    <2>3. CASE Listed(kind) = <<>>
        <3>1. <<>> \in Seq(ApiCalls) /\ \A i \in 1..Len(<<>>) : FALSE
            OBVIOUS
        <3> QED
            BY <1>5, <2>3, <3>1
    <2> QED
        BY <2>1, <2>2, <2>3
<1>6. CASE kind \notin {"listMessages", "listThreads", "listDrafts"}
    BY <1>6 DEF Listed
<1> QED
    BY <1>3, <1>4, <1>5, <1>6

\* A call of a tool that mails, relabels or deletes a draft.
Acts(ask) == SendsMail(ask) \/ Relabels(ask) \/ ask.tool = "deleteDraft"

\* What is left after the first request, and what its answer adds, fits as well.
LEMMA RestFits ==
    ASSUME NEW ask \in ToolCalls, NEW plan, PlanFits(ask, plan), plan # <<>>
    PROVE  /\ PlanFits(ask, Tail(plan)) /\ Len(Tail(plan)) = Len(plan) - 1
           /\ Len(plan) \in Nat \ {0}
           /\ Head(plan) = plan[1] /\ Head(plan) \in ApiCalls
           /\ Acts(ask) => Head(plan).kind \notin {"listMessages", "listThreads", "listDrafts"}
<1>1. /\ plan \in Seq(ApiCalls) /\ Tail(plan) \in Seq(ApiCalls)
      /\ Len(plan) \in Nat \ {0} /\ Len(Tail(plan)) = Len(plan) - 1
      /\ Head(plan) = plan[1] /\ Head(plan) \in ApiCalls
      /\ \A i \in 1..Len(Tail(plan)) : Tail(plan)[i] = plan[i + 1]
    BY DEF PlanFits
<1>2. \A i \in 1..Len(Tail(plan)) : i + 1 \in 1..Len(plan) /\ (i = Len(Tail(plan)) <=> i + 1 = Len(plan))
    BY <1>1
<1>3. SendsMail(ask) => MailingPlan(Tail(plan))
    BY <1>1, <1>2 DEF PlanFits, MailingPlan
<1>4. ~ SendsMail(ask) => \A i \in 1..Len(Tail(plan)) : ~ Mailing(Tail(plan)[i])
    BY <1>1, <1>2 DEF PlanFits
<1>5. ask.tool = "deleteDraft" => Tail(plan) = <<>>
    BY <1>1 DEF PlanFits
<1>6. Relabels(ask) => RelabellingPlan(ask, Tail(plan))
    <2> SUFFICES ASSUME Relabels(ask) PROVE RelabellingPlan(ask, Tail(plan))
        OBVIOUS
    <2> DEFINE asked == Len(ask.ids)
               long == Len(plan)
               short == Len(Tail(plan))
    <2>1. RelabellingPlan(ask, plan) /\ asked \in Nat /\ long \in Nat /\ short = long - 1
        BY <1>1 DEF PlanFits, ToolCalls
    <2>2. long <= asked + 1
        BY <2>1 DEF RelabellingPlan
    <2>3. /\ short <= asked + 1
          /\ \A i \in 1..short : i + asked - short = (i + 1) + asked - long
        <3> HIDE DEF asked, long, short
        <3> QED
            BY <2>1, <2>2
    <2>4. ASSUME NEW i \in 1..short
          PROVE  IF i + asked - short = 0 THEN Tail(plan)[i].kind = "listLabels"
                 ELSE Tail(plan)[i] = ApiRequest(ask.tool, ask.ids[i + asked - short])
        <3>1. i + 1 \in 1..long /\ Tail(plan)[i] = plan[i + 1]
            BY <1>1, <1>2
        <3>2. IF (i + 1) + asked - long = 0 THEN plan[i + 1].kind = "listLabels"
              ELSE plan[i + 1] = ApiRequest(ask.tool, ask.ids[(i + 1) + asked - long])
            BY <2>1, <3>1 DEF RelabellingPlan
        <3>3. i + asked - short = (i + 1) + asked - long
            BY <2>3
        <3> HIDE DEF asked, long, short
        <3> QED
            BY ONLY <3>1, <3>2, <3>3
    <2> QED
        BY <2>3, <2>4 DEF RelabellingPlan
<1>7. Acts(ask) => Head(plan).kind \notin {"listMessages", "listThreads", "listDrafts"}
    <2>1. 1 \in 1..Len(plan)
        BY <1>1
    <2>2. CASE SendsMail(ask)
        BY <1>1, <2>1, <2>2 DEF PlanFits, MailingPlan
    <2>3. CASE Relabels(ask)
        <3>1. \E k : plan[1].kind = "listLabels" \/ plan[1] = ApiRequest(ask.tool, ask.ids[k])
            BY <2>1, <2>3 DEF PlanFits, RelabellingPlan
        <3>2. Head(plan).kind \in {"listLabels", ask.tool}
            BY <1>1, <3>1, KnownRequests
        <3> QED
            BY <2>3, <3>2 DEF Relabels
    <2>4. CASE ask.tool = "deleteDraft"
        BY <1>1, <2>4, KnownRequests DEF PlanFits
    <2> QED
        BY <2>2, <2>3, <2>4 DEF Acts
<1> QED
    BY <1>1, <1>3, <1>4, <1>5, <1>6, <1>7 DEF PlanFits

LEMMA AnsweredFits ==
    ASSUME GmailTypeOK, NEW ask \in ToolCalls, NEW plan, PlanFits(ask, plan), plan # <<>>
    PROVE  LET rest == Tail(plan) \o Listed(Head(plan).kind)
           IN PlanFits(ask, rest) /\ (Acts(ask) => rest = Tail(plan))
<1> DEFINE more == Listed(Head(plan).kind)
<1>1. PlanFits(ask, Tail(plan)) /\ Tail(plan) \in Seq(ApiCalls)
    BY RestFits DEF PlanFits
<1>2. /\ more \in Seq(ApiCalls) /\ \A i \in 1..Len(more) : ~ Mailing(more[i])
      /\ Acts(ask) => more = <<>>
    BY RestFits, ListedGets
<1>3. CASE Acts(ask)
    <2>1. more = <<>> /\ Tail(plan) \o <<>> = Tail(plan)
        BY <1>1, <1>2, <1>3
    <2> QED
        BY <1>1, <2>1
<1>4. CASE ~ Acts(ask)
    <2>1. \A i \in 1..Len(Tail(plan)) : ~ Mailing(Tail(plan)[i])
        BY <1>1, <1>4 DEF PlanFits, Acts
    <2> QED
        BY <1>1, <1>2, <1>4, <2>1, GetsFollow, PlainPlan DEF Acts
<1> QED
    BY <1>3, <1>4

-----------------------------------------------------------------------------
(* The steps.                                                              *)

LEMMA AnswersOfCalls == (\A c \in Calls : CallAnswerIsTrue(c)) <=> ToolAnswersAreTrue
BY DEF CallAnswerIsTrue, Reached, ToolAnswersAreTrue, MailBudget, OkIsTrue, FailureIsPartial

LEMMA EmptyPlanFits ==
    ASSUME NEW ask \in ToolCalls
    PROVE  PlanFits(ask, <<>>)
<1>1. <<>> \in Seq(ApiCalls) /\ Len(<<>>) = 0 /\ \A i \in 1..Len(<<>>) : FALSE
    OBVIOUS
<1>2. Len(ask.ids) \in Nat
    BY DEF ToolCalls
<1> QED
    BY <1>1, <1>2 DEF PlanFits, MailingPlan, RelabellingPlan

LEMMA NewCallFits ==
    /\ NewCall \in CallStates /\ NewCall.pc = "idle" /\ NewCall.plan = <<>>
    /\ NewCall.ask.tool = "profile" /\ NewCall.tries = 0 /\ NewCall.reached = {}
<1>1. Attempts \in Nat \ {0} /\ <<>> \in Seq(ApiCalls) /\ <<>> \in Seq(Messages \cup Threads)
    BY ToolsAssumption
<1> QED
    BY <1>1 DEF NewCall, CallStates, ToolCalls

LEMMA GmailStart == GmailInit => GmailInv
<1> SUFFICES ASSUME GmailInit PROVE GmailInv
    OBVIOUS
<1>1. GmailTypeOK
    <2>1. labelsOf \in UNION {[S -> SUBSET GmailLabels] : S \in SUBSET Messages}
        <3>1. labelsOf \in [Messages -> SUBSET GmailLabels]
            BY DEF GmailInit, GmailLabels
        <3> QED
            BY <3>1
    <2>2. call \in [Calls -> CallStates] /\ mailed \in [Calls -> Nat]
        BY NewCallFits DEF GmailInit
    <2>3. toolFaults \in 0..ToolFaults
        BY ToolsAssumption DEF GmailInit
    <2>4. /\ tokenFile \in {"absent", "valid", "expired", "revoked"}
          /\ cachedValid \in BOOLEAN /\ folder \in BOOLEAN /\ oldDraft \in BOOLEAN
        BY DEF GmailInit
    <2> QED
        BY <2>1, <2>2, <2>3, <2>4 DEF GmailTypeOK, CallStates
<1>2. ASSUME NEW c \in Calls
      PROVE  CallFits(c) /\ CallAnswerIsTrue(c)
    <2>1. call[c] = NewCall /\ mailed[c] = 0
        BY DEF GmailInit
    <2>2. NewCall.ask \in ToolCalls
        BY NewCallFits DEF CallStates
    <2>3. ~ SendsMail(NewCall.ask) /\ ~ Relabels(NewCall.ask)
        BY NewCallFits DEF SendsMail, Relabels
    <2> QED
        BY <2>1, <2>2, <2>3, NewCallFits, EmptyPlanFits DEF CallFits, CallAnswerIsTrue, Running
<1> QED
    BY <1>1, <1>2 DEF GmailInv

\* A step of one call leaves the others alone.
LEMMA CallMoves ==
    ASSUME GmailInv, NEW c \in Calls, NEW r \in CallStates,
           call' = [call EXCEPT ![c] = r],
           mailed' \in [Calls -> Nat], \A d \in Calls \ {c} : mailed'[d] = mailed[d],
           oldDraft' \in BOOLEAN, oldDraft' => oldDraft,
           tokenFile' \in {"absent", "valid", "expired", "revoked"}, cachedValid' \in BOOLEAN,
           labelsOf' \in UNION {[S -> SUBSET GmailLabels] : S \in SUBSET Messages},
           folder' \in BOOLEAN, toolFaults' \in 0..ToolFaults,
           call'[c] = r => CallFits(c)' /\ CallAnswerIsTrue(c)'
    PROVE  GmailInv'
<1>1. call \in [Calls -> CallStates]
    BY DEF GmailInv, GmailTypeOK, CallStates
<1>2. call' \in [Calls -> CallStates] /\ call'[c] = r
      /\ \A d \in Calls \ {c} : call'[d] = call[d]
    BY <1>1
<1>3. GmailTypeOK'
    BY <1>2 DEF GmailTypeOK, CallStates
<1>4. ASSUME NEW d \in Calls \ {c}
      PROVE  CallFits(d)' /\ CallAnswerIsTrue(d)'
    BY <1>2, <1>4 DEF GmailInv, CallFits, CallAnswerIsTrue
<1> QED
    BY <1>2, <1>3, <1>4 DEF GmailInv

LEMMA StartInv ==
    ASSUME GmailInv, NEW c \in Calls, Start(c)
    PROVE  GmailInv'
<1>1. PICK ask \in ToolAsks :
         call' = [call EXCEPT ![c].ask = ask, ![c].plan = Plan(ask),
                       ![c].pc = IF Plan(ask) = <<>> THEN "ERROR" ELSE "service"]
    BY DEF Start
<1>2. /\ ask \in ToolCalls /\ PlanFits(ask, Plan(ask)) /\ Plan(ask) \in Seq(ApiCalls)
      /\ Relabels(ask) => Len(Plan(ask)) >= Len(ask.ids)
    BY PlanStarts, ToolsAssumption DEF PlanFits
<1>3. /\ call[c] = NewCall /\ mailed[c] = 0
      /\ UNCHANGED <<tokenFile, cachedValid, labelsOf, folder, oldDraft, mailed, toolFaults>>
    BY DEF Start, GmailInv, CallFits, credentials, mailbox
<1> DEFINE r == [call[c] EXCEPT !.ask = ask, !.plan = Plan(ask),
                       !.pc = IF Plan(ask) = <<>> THEN "ERROR" ELSE "service"]
<1>4. call' = [call EXCEPT ![c] = r]
    BY <1>1 DEF GmailInv, GmailTypeOK
<1>5. /\ r \in CallStates /\ r.ask = ask /\ r.plan = Plan(ask) /\ r.tries = 0 /\ r.reached = {}
      /\ r.pc = IF Plan(ask) = <<>> THEN "ERROR" ELSE "service"
    BY <1>2, <1>3, NewCallFits DEF CallStates
<1> HIDE DEF r
<1>6. Relabels(ask) => Reached({}, ask.ids, Len(ask.ids) - Len(Plan(ask)))
    <2>1. Len(ask.ids) \in Nat /\ Len(Plan(ask)) \in Nat
        BY <1>2 DEF ToolCalls
    <2>2. Relabels(ask) => Len(ask.ids) - Len(Plan(ask)) <= 0
        BY <1>2, <2>1
    <2>3. Relabels(ask) => 1..(Len(ask.ids) - Len(Plan(ask))) = {}
        BY <2>1, <2>2
    <2> QED
        BY <2>3 DEF Reached
<1>7. ASSUME call'[c] = r
      PROVE  CallFits(c)' /\ CallAnswerIsTrue(c)'
    <2>1. mailed'[c] = 0 /\ Attempts \in Nat
        BY <1>3, ToolsAssumption
    <2>2. CallFits(c)'
        <3>1. ~ (r.pc = "idle") /\ (r.pc \in {"service", "request"} <=> r.plan # <<>>)
            BY <1>5
        <3>2. PlanFits(r.ask, r.plan)
            BY <1>2, <1>5
        <3>3. 0 <= IF Len(r.plan) = 1 THEN r.tries ELSE 0
            BY <1>5
        <3>4. Relabels(r.ask) => Reached(r.reached, r.ask.ids, Len(r.ask.ids) - Len(r.plan))
            BY <1>5, <1>6
        <3> QED
            BY <1>7, <2>1, <3>1, <3>2, <3>3, <3>4 DEF CallFits, Running
    <2>3. Relabels(ask) => \E n \in 0..Len(ask.ids) : Reached({}, ask.ids, n)
        <3>1. Len(ask.ids) \in Nat /\ Reached({}, ask.ids, 0)
            BY <1>2 DEF ToolCalls, Reached
        <3> QED
            BY <3>1
    <2>4. CallAnswerIsTrue(c)'
        <3>1. 0 <= IF SendsMail(r.ask) THEN Attempts ELSE 0
            BY <2>1
        <3>2. r.pc # "OK"
            BY <1>5
        <3>3. Relabels(r.ask) => \E n \in 0..Len(r.ask.ids) : Reached(r.reached, r.ask.ids, n)
            BY <1>5, <2>3
        <3> QED
            BY <1>7, <2>1, <3>1, <3>2, <3>3 DEF CallAnswerIsTrue
    <2> QED
        BY <2>2, <2>4
<1> QED
    BY <1>3, <1>4, <1>5, <1>7, CallMoves DEF GmailInv, GmailTypeOK

\* A call that goes on with its plan, with other credentials or one more attempt.
LEMMA CallGoesOn ==
    ASSUME GmailInv, NEW c \in Calls, Running(call[c]),
           NEW r \in CallStates, call' = [call EXCEPT ![c] = r],
           r.pc \in {"service", "request"}, r.ask = call[c].ask, r.plan = call[c].plan,
           r.reached = call[c].reached,
           SendsMail(r.ask) => mailed'[c] <= IF Len(r.plan) = 1 THEN r.tries ELSE 0,
           ~ SendsMail(r.ask) => mailed'[c] = 0,
           mailed' \in [Calls -> Nat], \A d \in Calls \ {c} : mailed'[d] = mailed[d],
           oldDraft' \in BOOLEAN, oldDraft' => oldDraft,
           tokenFile' \in {"absent", "valid", "expired", "revoked"}, cachedValid' \in BOOLEAN,
           labelsOf' \in UNION {[S -> SUBSET GmailLabels] : S \in SUBSET Messages},
           folder' \in BOOLEAN, toolFaults' \in 0..ToolFaults
    PROVE  GmailInv'
<1>1. CallFits(c) /\ CallAnswerIsTrue(c) /\ r.tries \in 0..(Attempts - 1) /\ Attempts \in Nat
    BY ToolsAssumption DEF GmailInv, CallStates
<1>2. ASSUME call'[c] = r
      PROVE  CallFits(c)' /\ CallAnswerIsTrue(c)'
    <2>1. CallFits(c)'
        BY <1>1, <1>2 DEF CallFits, Running
    <2>2. mailed'[c] <= IF SendsMail(r.ask) THEN Attempts ELSE 0
        BY <1>1
    <2>3. CallAnswerIsTrue(c)'
        BY <1>1, <1>2, <2>2 DEF CallAnswerIsTrue
    <2> QED
        BY <2>1, <2>3
<1> QED
    BY <1>2, CallMoves

\* A call that ends with an error has changed what it had changed before.
LEMMA CallFails ==
    ASSUME GmailInv, NEW c \in Calls, Running(call[c]),
           NEW pc \in {"ERROR", "raised"}, Done(c, pc),
           mailed'[c] <= IF SendsMail(call[c].ask) THEN Attempts ELSE 0,
           mailed' \in [Calls -> Nat], \A d \in Calls \ {c} : mailed'[d] = mailed[d],
           oldDraft' \in BOOLEAN, oldDraft' => oldDraft,
           tokenFile' \in {"absent", "valid", "expired", "revoked"}, cachedValid' \in BOOLEAN,
           labelsOf' \in UNION {[S -> SUBSET GmailLabels] : S \in SUBSET Messages},
           folder' \in BOOLEAN, toolFaults' \in 0..ToolFaults
    PROVE  GmailInv'
<1> DEFINE r == [call[c] EXCEPT !.pc = pc, !.plan = <<>>]
<1>1. CallFits(c) /\ CallAnswerIsTrue(c) /\ call[c] \in CallStates /\ <<>> \in Seq(ApiCalls)
    BY DEF GmailInv, GmailTypeOK, CallStates
<1>2. call' = [call EXCEPT ![c] = r]
    BY DEF Done, GmailInv, GmailTypeOK
<1>3. /\ r \in CallStates /\ r.pc = pc /\ r.plan = <<>>
      /\ r.ask = call[c].ask /\ r.reached = call[c].reached
    BY <1>1 DEF CallStates
<1> HIDE DEF r
<1>4. ASSUME call'[c] = r
      PROVE  CallFits(c)' /\ CallAnswerIsTrue(c)'
    <2>1. PlanFits(r.ask, <<>>)
        BY <1>1, <1>3, EmptyPlanFits DEF CallStates
    <2>2. CallFits(c)'
        BY <1>3, <1>4, <2>1 DEF CallFits, Running
    <2>3. CallAnswerIsTrue(c)'
        BY <1>1, <1>3, <1>4 DEF CallAnswerIsTrue
    <2> QED
        BY <2>2, <2>3
<1> QED
    BY <1>2, <1>3, <1>4, CallMoves

\* What the invariant says of one call and of the rest of the state.
LEMMA CallKnown ==
    ASSUME GmailInv, NEW c \in Calls
    PROVE  /\ call[c] \in CallStates /\ CallFits(c) /\ CallAnswerIsTrue(c)
           /\ call \in [Calls -> CallStates] /\ mailed \in [Calls -> Nat]
           /\ mailed[c] \in Nat /\ Attempts \in Nat \ {0}
           /\ tokenFile \in {"absent", "valid", "expired", "revoked"} /\ cachedValid \in BOOLEAN
           /\ labelsOf \in UNION {[S -> SUBSET GmailLabels] : S \in SUBSET Messages}
           /\ folder \in BOOLEAN /\ oldDraft \in BOOLEAN /\ toolFaults \in 0..ToolFaults
           /\ ~ SendsMail(call[c].ask) => mailed[c] = 0
<1>1. /\ call \in [Calls -> CallStates] /\ mailed \in [Calls -> Nat]
      /\ tokenFile \in {"absent", "valid", "expired", "revoked"} /\ cachedValid \in BOOLEAN
      /\ labelsOf \in UNION {[S -> SUBSET GmailLabels] : S \in SUBSET Messages}
      /\ folder \in BOOLEAN /\ oldDraft \in BOOLEAN /\ toolFaults \in 0..ToolFaults
    BY DEF GmailInv, GmailTypeOK, CallStates
<1>2. CallFits(c) /\ CallAnswerIsTrue(c) /\ Attempts \in Nat \ {0}
    BY ToolsAssumption DEF GmailInv
<1>3. mailed[c] \in Nat /\ (~ SendsMail(call[c].ask) => mailed[c] <= 0)
    BY <1>1, <1>2 DEF CallAnswerIsTrue
<1> QED
    BY <1>1, <1>2, <1>3

LEMMA LoadCredentialsInv ==
    ASSUME GmailInv, NEW c \in Calls, LoadCredentials(c)
    PROVE  GmailInv'
<1>1. call[c].pc = "service" /\ Running(call[c])
    BY DEF LoadCredentials, Running
<1>2. /\ UNCHANGED <<labelsOf, folder, oldDraft, mailed, toolFaults>>
      /\ tokenFile' \in {"absent", "valid", "expired", "revoked"} /\ cachedValid' \in BOOLEAN
      /\ call' = [call EXCEPT ![c].pc = "request"] \/ Done(c, "ERROR")
    BY CallKnown DEF LoadCredentials, credentials, mailbox
<1>3. CASE call' = [call EXCEPT ![c].pc = "request"]
    <2> DEFINE r == [call[c] EXCEPT !.pc = "request"]
    <2>1. call' = [call EXCEPT ![c] = r]
        BY <1>3, CallKnown
    <2>2. /\ r \in CallStates /\ r.pc = "request" /\ r.ask = call[c].ask
          /\ r.plan = call[c].plan /\ r.reached = call[c].reached /\ r.tries = call[c].tries
        BY CallKnown DEF CallStates
    <2> HIDE DEF r
    <2>3. /\ SendsMail(r.ask) => mailed[c] <= IF Len(r.plan) = 1 THEN r.tries ELSE 0
          /\ ~ SendsMail(r.ask) => mailed[c] = 0
        BY <1>1, <2>2, CallKnown DEF CallFits
    <2> QED
        BY <1>1, <1>2, <2>1, <2>2, <2>3, CallGoesOn, CallKnown
<1>4. CASE Done(c, "ERROR")
    BY <1>1, <1>2, <1>4, CallFails, CallKnown DEF CallAnswerIsTrue
<1> QED
    BY <1>2, <1>3, <1>4

LEMMA ListWithoutRequestInv ==
    ASSUME GmailInv, NEW c \in Calls, ListWithoutRequest(c)
    PROVE  GmailInv'
<1>1. /\ Running(call[c])
      /\ Done(c, "ERROR") \/ Done(c, "raised")
      /\ UNCHANGED <<tokenFile, cachedValid, labelsOf, folder, oldDraft, mailed, toolFaults>>
    BY DEF ListWithoutRequest, Running, Raises, credentials, mailbox
<1> QED
    BY <1>1, CallFails, CallKnown DEF CallAnswerIsTrue

\* What a request may have mailed, carried out or not.
LEMMA RequestMails ==
    ASSUME GmailInv, NEW c \in Calls, Running(call[c]),
           mailed' = mailed \/ mailed' = IF Mailing(Head(call[c].plan))
                                         THEN [mailed EXCEPT ![c] = @ + 1] ELSE mailed
    PROVE  /\ mailed' \in [Calls -> Nat] /\ \A d \in Calls \ {c} : mailed'[d] = mailed[d]
           /\ ~ SendsMail(call[c].ask) => mailed'[c] = 0
           /\ SendsMail(call[c].ask) =>
                 /\ mailed'[c] <= IF Len(call[c].plan) = 1 THEN call[c].tries + 1 ELSE 0
                 /\ Mailing(Head(call[c].plan)) <=> Len(call[c].plan) = 1
           /\ mailed'[c] <= IF SendsMail(call[c].ask) THEN Attempts ELSE 0
<1> DEFINE me == call[c]
           q == Head(call[c].plan)
<1>1. /\ me \in CallStates /\ PlanFits(me.ask, me.plan) /\ me.plan # <<>>
      /\ me.ask \in ToolCalls /\ me.tries \in 0..(Attempts - 1)
      /\ SendsMail(me.ask) => mailed[c] <= IF Len(me.plan) = 1 THEN me.tries ELSE 0
    BY CallKnown DEF CallFits, CallStates
<1>2. Len(me.plan) \in Nat \ {0} /\ q = me.plan[1] /\ 1 \in 1..Len(me.plan)
    BY <1>1, RestFits
<1>3. SendsMail(me.ask) => (Mailing(q) <=> Len(me.plan) = 1)
    BY <1>1, <1>2 DEF PlanFits, MailingPlan
<1>4. ~ SendsMail(me.ask) => ~ Mailing(q)
    BY <1>1, <1>2 DEF PlanFits
<1>5. /\ mailed' \in [Calls -> Nat] /\ \A d \in Calls \ {c} : mailed'[d] = mailed[d]
      /\ mailed'[c] \in Nat /\ mailed[c] \in Nat
      /\ mailed'[c] = mailed[c] \/ (Mailing(q) /\ mailed'[c] = mailed[c] + 1)
    <2> HIDE DEF me, q
    <2>1. mailed' = mailed \/ (Mailing(q) /\ mailed' = [mailed EXCEPT ![c] = @ + 1])
        BY DEF q
    <2>2. mailed \in [Calls -> Nat]
        BY CallKnown
    <2> QED
        BY <2>1, <2>2
<1>6. /\ me.tries \in Nat /\ me.tries + 1 <= Attempts /\ Attempts \in Nat \ {0}
      /\ ~ SendsMail(me.ask) => mailed[c] = 0
    BY <1>1, CallKnown
<1>7. ~ SendsMail(me.ask) => mailed'[c] = 0
    BY <1>4, <1>5, <1>6
<1>8. ASSUME SendsMail(me.ask)
      PROVE  /\ mailed'[c] <= IF Len(me.plan) = 1 THEN me.tries + 1 ELSE 0
             /\ mailed'[c] <= Attempts
    <2>1. CASE Len(me.plan) = 1
        <3>1. mailed[c] <= me.tries
            BY <1>1, <1>8, <2>1
        <3>2. mailed'[c] <= me.tries + 1
            BY <3>1, <1>5, <1>6
        <3>3. mailed'[c] <= Attempts
            BY <3>2, <1>5, <1>6
        <3> QED
            BY <2>1, <3>2, <3>3
    <2>2. CASE Len(me.plan) # 1
        <3>1. mailed[c] <= 0 /\ mailed'[c] = mailed[c]
            BY <1>1, <1>3, <1>5, <1>8, <2>2
        <3>2. mailed'[c] <= 0 /\ mailed'[c] <= Attempts
            BY <3>1, <1>5, <1>6
        <3> QED
            BY <2>2, <3>2
    <2> QED
        BY <2>1, <2>2
<1> QED
    BY <1>3, <1>5, <1>6, <1>7, <1>8

\* A request whose answer was lost, or that Gmail refuses, is sent again or raised.
LEMMA LostInv ==
    ASSUME GmailInv, NEW c \in Calls, Running(call[c]), call[c].pc = "request",
           Retried(c) \/ Raises(c),
           mailed' = mailed \/ mailed' = IF Mailing(Head(call[c].plan))
                                         THEN [mailed EXCEPT ![c] = @ + 1] ELSE mailed,
           oldDraft' \in BOOLEAN, oldDraft' => oldDraft,
           tokenFile' \in {"absent", "valid", "expired", "revoked"}, cachedValid' \in BOOLEAN,
           labelsOf' \in UNION {[S -> SUBSET GmailLabels] : S \in SUBSET Messages},
           folder' \in BOOLEAN, toolFaults' \in 0..ToolFaults
    PROVE  GmailInv'
<1>1. \/ call[c].tries + 1 < Attempts /\ call' = [call EXCEPT ![c].tries = @ + 1]
      \/ Done(c, "ERROR") \/ Done(c, "raised")
    BY DEF Retried, Raises
<1>2. CASE call[c].tries + 1 < Attempts /\ call' = [call EXCEPT ![c].tries = @ + 1]
    <2> DEFINE r == [call[c] EXCEPT !.tries = @ + 1]
    <2>1. call' = [call EXCEPT ![c] = r]
        BY <1>2, CallKnown
    <2>2. call[c].tries + 1 \in 0..(Attempts - 1)
        BY <1>2, CallKnown DEF CallStates
    <2>3. /\ r \in CallStates /\ r.pc = "request" /\ r.ask = call[c].ask
          /\ r.plan = call[c].plan /\ r.reached = call[c].reached
          /\ r.tries = call[c].tries + 1
        BY <2>2, CallKnown DEF CallStates
    <2> HIDE DEF r
    <2> QED
        BY <2>1, <2>3, RequestMails, CallGoesOn
<1>3. CASE Done(c, "ERROR") \/ Done(c, "raised")
    BY <1>3, RequestMails, CallFails
<1> QED
    BY <1>1, <1>2, <1>3

\* The message of a relabelling request is the next one of those asked for.
LEMMA NextReached ==
    ASSUME NEW ask \in ToolCalls, Relabels(ask), NEW plan, PlanFits(ask, plan), plan # <<>>,
           NEW reached, Reached(reached, ask.ids, Len(ask.ids) - Len(plan)),
           NEW q, q = Head(plan)
    PROVE  Reached(IF q.kind \in {"label", "archive", "move"} THEN reached \cup {q.id}
                   ELSE reached,
                   ask.ids, Len(ask.ids) - Len(Tail(plan)))
<1> DEFINE asked == Len(ask.ids)
           n == Len(ask.ids) - Len(plan)
<1>1. /\ Len(plan) \in Nat \ {0} /\ asked \in Nat /\ q = plan[1]
      /\ Len(Tail(plan)) = Len(plan) - 1 /\ 1 \in 1..Len(plan)
    BY RestFits DEF ToolCalls
<1>2. RelabellingPlan(ask, plan)
    BY DEF PlanFits
<1>3. /\ n \in Int /\ n >= -1 /\ 1 + asked - Len(plan) = n + 1
      /\ asked - Len(Tail(plan)) = n + 1
    <2>1. Len(plan) <= asked + 1
        BY <1>2 DEF RelabellingPlan
    <2> QED
        BY <1>1, <2>1
<1>4. IF n + 1 = 0 THEN q.kind = "listLabels" ELSE q = ApiRequest(ask.tool, ask.ids[n + 1])
    BY <1>1, <1>2, <1>3 DEF RelabellingPlan
<1> HIDE DEF n, asked
<1>5. reached = {ask.ids[i] : i \in 1..n}
    BY DEF Reached, n
<1>6. CASE n + 1 = 0
    <2>1. 1..n = {} /\ 1..(n + 1) = {}
        BY <1>3, <1>6
    <2>2. {ask.ids[i] : i \in 1..n} = {} /\ {ask.ids[i] : i \in 1..(n + 1)} = {}
        BY <2>1
    <2>3. q.kind \notin {"label", "archive", "move"}
        BY <1>4, <1>6
    <2> QED
        BY <1>3, <1>5, <2>2, <2>3 DEF Reached, asked
<1>7. CASE n + 1 # 0
    <2>1. n \in Nat /\ 1..(n + 1) = (1..n) \cup {n + 1}
        BY <1>3, <1>7
    <2>2. {ask.ids[i] : i \in 1..(n + 1)} = {ask.ids[i] : i \in 1..n} \cup {ask.ids[n + 1]}
        BY <2>1
    <2>3. q.kind \in {"label", "archive", "move"} /\ q.id = ask.ids[n + 1]
        BY <1>4, <1>7, KnownRequests DEF Relabels
    <2> QED
        BY <1>3, <1>5, <2>2, <2>3 DEF Reached, asked
<1> QED
    BY <1>6, <1>7

LEMMA AnsweredInv ==
    ASSUME GmailInv, NEW c \in Calls, Running(call[c]),
           NEW q, q = Head(call[c].plan), ~ Refused(q), CarriedOut(c, q), Answered(c, q),
           UNCHANGED <<tokenFile, cachedValid, toolFaults>>,
           labelsOf' \in UNION {[S -> SUBSET GmailLabels] : S \in SUBSET Messages}
    PROVE  GmailInv'
<1> DEFINE me == call[c]
           rest == Tail(me.plan) \o Listed(q.kind)
<1>1. /\ me \in CallStates /\ PlanFits(me.ask, me.plan) /\ me.plan # <<>>
      /\ me.ask \in ToolCalls /\ me.reached \in SUBSET Messages /\ GmailTypeOK
      /\ Relabels(me.ask) =>
             Reached(me.reached, me.ask.ids, Len(me.ask.ids) - Len(me.plan))
      /\ me.pc # "idle"
    BY CallKnown DEF CallFits, CallStates, Running, GmailInv
<1>2. /\ oldDraft' \in BOOLEAN /\ (oldDraft' => oldDraft) /\ folder' \in BOOLEAN
      /\ q.kind = "deleteDraft" => ~ oldDraft'
      /\ tokenFile' \in {"absent", "valid", "expired", "revoked"} /\ cachedValid' \in BOOLEAN
      /\ toolFaults' \in 0..ToolFaults
      /\ mailed' = IF Mailing(q) THEN [mailed EXCEPT ![c] = @ + 1] ELSE mailed
    BY CallKnown DEF CarriedOut, Mailing
<1>3. /\ mailed' \in [Calls -> Nat] /\ \A d \in Calls \ {c} : mailed'[d] = mailed[d]
      /\ ~ SendsMail(me.ask) => mailed'[c] = 0
      /\ SendsMail(me.ask) =>
            /\ mailed'[c] <= IF Len(me.plan) = 1 THEN me.tries + 1 ELSE 0
            /\ Mailing(q) <=> Len(me.plan) = 1
      /\ mailed'[c] <= IF SendsMail(me.ask) THEN Attempts ELSE 0
    BY <1>2, RequestMails
<1>4. CASE q.kind = "listLabels" /\ ~ folder
    <2>1. Done(c, "ERROR")
        BY <1>4 DEF Answered
    <2> HIDE DEF rest
    <2> QED
        BY <1>2, <1>3, <2>1, CallFails
<1>5. CASE ~ (q.kind = "listLabels" /\ ~ folder)
    <2> DEFINE pc == IF rest = <<>> THEN "OK"
                     ELSE IF ServiceAnew(me.ask) THEN "service" ELSE "request"
               reached == IF q.kind \in {"label", "archive", "move"}
                          THEN me.reached \cup {q.id} ELSE me.reached
               r == [me EXCEPT !.plan = rest, !.tries = 0, !.pc = pc, !.reached = reached]
    <2>1. call' = [call EXCEPT ![c].plan = rest, ![c].tries = 0, ![c].pc = pc,
                               ![c].reached = reached]
        BY <1>5 DEF Answered
    <2>2. /\ PlanFits(me.ask, rest) /\ rest \in Seq(ApiCalls)
          /\ Acts(me.ask) => rest = Tail(me.plan)
        BY <1>1, AnsweredFits DEF PlanFits
    <2>3. /\ Len(me.plan) \in Nat \ {0} /\ Len(Tail(me.plan)) = Len(me.plan) - 1
          /\ q = me.plan[1]
        BY <1>1, RestFits
    <2> HIDE DEF rest, me
    <2>4. reached \in SUBSET Messages
        <3>1. q.kind \in {"label", "archive", "move"} => q.id \in DOMAIN labelsOf
            BY DEF Refused
        <3>2. DOMAIN labelsOf \subseteq Messages
            BY <1>1 DEF GmailTypeOK
        <3> QED
            BY <1>1, <3>1, <3>2
    <2>5. pc \in {"OK", "service", "request"} /\ (pc = "OK" <=> rest = <<>>)
        OBVIOUS
    <2>6. Relabels(me.ask) => Reached(reached, me.ask.ids, Len(me.ask.ids) - Len(rest))
        <3>1. Relabels(me.ask) => rest = Tail(me.plan)
            BY <2>2 DEF Acts
        <3>2. q = Head(me.plan)
            BY DEF me
        <3> QED
            BY <1>1, <3>1, <3>2, NextReached
    <2>7. 0 \in 0..(Attempts - 1)
        BY ToolsAssumption
    <2> HIDE DEF pc, reached
    <2>8. call' = [call EXCEPT ![c] = r]
        BY <2>1, CallKnown DEF me
    <2>9. /\ r \in CallStates /\ r.pc = pc /\ r.ask = me.ask /\ r.plan = rest
          /\ r.tries = 0 /\ r.reached = reached
        BY <1>1, <2>2, <2>4, <2>5, <2>7 DEF CallStates
    <2> HIDE DEF r
    <2>10. SendsMail(me.ask) =>
              IF rest = <<>> THEN mailed'[c] > 0 ELSE mailed'[c] <= 0
        <3> SUFFICES ASSUME SendsMail(me.ask)
                     PROVE  IF rest = <<>> THEN mailed'[c] > 0 ELSE mailed'[c] <= 0
            OBVIOUS
        <3>1. rest = Tail(me.plan) /\ Len(rest) = Len(me.plan) - 1
            BY <2>2, <2>3 DEF Acts
        <3>2. rest = <<>> <=> Len(me.plan) = 1
            <4>1. rest = <<>> <=> Len(rest) = 0
                BY <2>2
            <4> QED
                BY <2>3, <3>1, <4>1
        <3>3. CASE rest = <<>>
            <4>1. Mailing(q)
                BY <1>3, <3>2, <3>3
            <4>2. mailed' = [mailed EXCEPT ![c] = @ + 1]
                BY <1>2, <4>1
            <4>3. mailed \in [Calls -> Nat]
                BY CallKnown
            <4> QED
                BY <3>3, <4>2, <4>3
        <3>4. CASE rest # <<>>
            BY <1>3, <3>2, <3>4
        <3> QED
            BY <3>3, <3>4
    <2>11. me.ask.tool = "deleteDraft" => ~ oldDraft'
        <3>1. me.ask.tool = "deleteDraft" => me.plan = <<ApiRequest("deleteDraft", NoId)>>
            BY <1>1 DEF PlanFits
        <3>2. me.ask.tool = "deleteDraft" => q.kind = "deleteDraft"
            BY <2>3, <3>1, KnownRequests
        <3> QED
            BY <1>2, <3>2
    <2>12. ASSUME call'[c] = r
           PROVE  CallFits(c)' /\ CallAnswerIsTrue(c)'
        <3>1. ~ (r.pc = "idle") /\ (r.pc \in {"service", "request"} <=> r.plan # <<>>)
            BY <2>5, <2>9
        <3>2. PlanFits(r.ask, r.plan)
            BY <2>2, <2>9
        <3>3. r.pc \in {"service", "request"} /\ SendsMail(r.ask) =>
                 mailed'[c] <= IF Len(r.plan) = 1 THEN r.tries ELSE 0
            BY <2>9, <2>10, <3>1
        <3>4. Relabels(r.ask) => Reached(r.reached, r.ask.ids, Len(r.ask.ids) - Len(r.plan))
            BY <2>6, <2>9
        <3>5. CallFits(c)'
            BY <2>12, <3>1, <3>2, <3>3, <3>4 DEF CallFits, Running
        <3>6. mailed'[c] <= IF SendsMail(r.ask) THEN Attempts ELSE 0
            BY <1>3, <2>9
        <3>7. Len(rest) \in Nat /\ Len(me.ask.ids) \in Nat /\ (rest = <<>> => Len(rest) = 0)
            BY <1>1, <2>2 DEF ToolCalls
        <3>8. r.pc = "OK" =>
                 /\ SendsMail(r.ask) => mailed'[c] > 0
                 /\ Relabels(r.ask) => r.reached = ToSet(r.ask.ids)
                 /\ r.ask.tool = "deleteDraft" => ~ oldDraft'
            <4> SUFFICES ASSUME rest = <<>>
                         PROVE  /\ SendsMail(me.ask) => mailed'[c] > 0
                                /\ Relabels(me.ask) => reached = ToSet(me.ask.ids)
                                /\ me.ask.tool = "deleteDraft" => ~ oldDraft'
                BY <2>5, <2>9
            <4>1. Len(me.ask.ids) - Len(rest) = Len(me.ask.ids)
                BY <3>7
            <4>2. Relabels(me.ask) => Reached(reached, me.ask.ids, Len(me.ask.ids))
                BY <2>6, <4>1
            <4>3. Relabels(me.ask) => reached = ToSet(me.ask.ids)
                BY <1>1, <4>2 DEF Reached, ToSet, ToolCalls
            <4> QED
                BY <2>10, <2>11, <4>3
        <3>9. Relabels(r.ask) => \E n \in 0..Len(r.ask.ids) : Reached(r.reached, r.ask.ids, n)
            <4> SUFFICES ASSUME Relabels(me.ask)
                         PROVE  \E n \in 0..Len(me.ask.ids) : Reached(reached, me.ask.ids, n)
                BY <2>9
            <4>1. Len(rest) = Len(me.plan) - 1 /\ Len(me.plan) <= Len(me.ask.ids) + 1
                BY <1>1, <2>2, <2>3 DEF Acts, PlanFits, RelabellingPlan
            <4>2. Len(me.ask.ids) - Len(rest) \in 0..Len(me.ask.ids)
                <5> DEFINE asked == Len(me.ask.ids)
                           due == Len(rest)
                <5>1. asked \in Nat /\ due \in Nat /\ due <= asked
                    BY <2>3, <3>7, <4>1
                <5> HIDE DEF asked, due
                <5>2. asked - due \in 0..asked
                    BY <5>1
                <5> QED
                    BY <5>2 DEF asked, due
            <4> QED
                BY <2>6, <4>2
        <3>10. CallAnswerIsTrue(c)'
            BY <2>12, <3>6, <3>8, <3>9 DEF CallAnswerIsTrue
        <3> QED
            BY <3>5, <3>10
    <2> QED
        BY <1>2, <1>3, <2>8, <2>9, <2>12, CallMoves
<1> QED
    BY <1>4, <1>5

LEMMA SendRequestInv ==
    ASSUME GmailInv, NEW c \in Calls, SendRequest(c)
    PROVE  GmailInv'
<1> DEFINE q == Head(call[c].plan)
<1>1. call[c].pc = "request" /\ Running(call[c]) /\ UNCHANGED <<tokenFile, cachedValid>>
    BY DEF SendRequest, Running, credentials
<1>2. \/ /\ ~ Refused(q) /\ CarriedOut(c, q)
         /\ \/ Answered(c, q) /\ UNCHANGED toolFaults
            \/ Fault /\ (Retried(c) \/ Raises(c))
      \/ /\ (Retried(c) \/ Raises(c)) /\ UNCHANGED <<labelsOf, folder, oldDraft, mailed>>
         /\ Fault \/ UNCHANGED toolFaults
    BY DEF SendRequest, mailbox
<1>3. Fault => toolFaults' \in 0..ToolFaults
    <2>1. toolFaults \in 0..ToolFaults /\ ToolFaults \in Nat
        BY ToolsAssumption, CallKnown
    <2> QED
        BY <2>1 DEF Fault
<1>4. CASE ~ Refused(q) /\ CarriedOut(c, q)
    <2>1. labelsOf' \in UNION {[S -> SUBSET GmailLabels] : S \in SUBSET Messages}
        <3>1. PICK S \in SUBSET Messages : labelsOf \in [S -> SUBSET GmailLabels]
            BY CallKnown
        <3>2. CASE q.kind \in {"label", "archive", "move"}
            <4>1. q.id \in S
                BY <1>4, <3>1, <3>2 DEF Refused
            <4>2. Relabelled(q) \in SUBSET GmailLabels
                BY <3>1, <3>2, <4>1 DEF Relabelled, GmailLabels
            <4>3. labelsOf' = [labelsOf EXCEPT ![q.id] = Relabelled(q)]
                BY <1>4, <3>2 DEF CarriedOut
            <4>4. labelsOf' \in [S -> SUBSET GmailLabels]
                BY <3>1, <4>2, <4>3
            <4> QED
                BY <4>4
        <3>3. CASE q.kind \notin {"label", "archive", "move"}
            BY <1>4, <3>3, CallKnown DEF CarriedOut
        <3> QED
            BY <3>2, <3>3
    <2>2. CASE Answered(c, q) /\ UNCHANGED toolFaults
        BY <1>1, <1>4, <2>1, <2>2, AnsweredInv
    <2>3. CASE Fault /\ (Retried(c) \/ Raises(c))
        <3>1. /\ oldDraft' \in BOOLEAN /\ (oldDraft' => oldDraft) /\ folder' \in BOOLEAN
              /\ mailed' = IF Mailing(q) THEN [mailed EXCEPT ![c] = @ + 1] ELSE mailed
            BY <1>4, CallKnown DEF CarriedOut, Mailing
        <3>2. tokenFile' \in {"absent", "valid", "expired", "revoked"} /\ cachedValid' \in BOOLEAN
            BY <1>1, CallKnown
        <3> QED
            BY <1>1, <1>3, <2>1, <2>3, <3>1, <3>2, LostInv
    <2>4. CASE (Retried(c) \/ Raises(c)) /\ UNCHANGED <<labelsOf, folder, oldDraft, mailed>>
               /\ (Fault \/ UNCHANGED toolFaults)
        BY <1>1, <1>3, <2>4, CallKnown, LostInv
    <2> QED
        BY <1>2, <2>2, <2>3, <2>4
<1>5. CASE (Retried(c) \/ Raises(c)) /\ UNCHANGED <<labelsOf, folder, oldDraft, mailed>>
           /\ (Fault \/ UNCHANGED toolFaults)
    BY <1>1, <1>3, <1>5, CallKnown, LostInv
<1> QED
    BY <1>2, <1>4, <1>5

LEMMA MeanwhileInv ==
    ASSUME GmailInv, Meanwhile
    PROVE  GmailInv'
<1>1. /\ UNCHANGED <<call, mailed>> /\ toolFaults' \in 0..ToolFaults
      /\ oldDraft' \in BOOLEAN /\ (oldDraft' => oldDraft)
    <2>1. toolFaults \in 0..ToolFaults /\ ToolFaults \in Nat
        BY ToolsAssumption DEF GmailInv, GmailTypeOK
    <2>2. toolFaults' \in 0..ToolFaults
        BY <2>1 DEF Meanwhile, Fault
    <2>3. oldDraft \in BOOLEAN
        BY DEF GmailInv, GmailTypeOK
    <2>4. UNCHANGED oldDraft \/ oldDraft' = FALSE
        BY DEF Meanwhile, mailbox
    <2>5. UNCHANGED <<call, mailed>>
        BY DEF Meanwhile
    <2>6. oldDraft' \in BOOLEAN /\ (oldDraft' => oldDraft)
        <3>1. CASE oldDraft' = oldDraft
            BY <2>3, <3>1
        <3>2. CASE oldDraft' = FALSE
            BY <3>2
        <3> QED
            BY <2>4, <3>1, <3>2
    <2> QED
        BY <2>2, <2>5, <2>6
<1>2. /\ tokenFile' \in {"absent", "valid", "expired", "revoked"} /\ cachedValid' \in BOOLEAN
      /\ folder' \in BOOLEAN
    BY DEF Meanwhile, mailbox, credentials, GmailInv, GmailTypeOK
<1>3. labelsOf' \in UNION {[S -> SUBSET GmailLabels] : S \in SUBSET Messages}
    <2>1. PICK S \in SUBSET Messages : labelsOf \in [S -> SUBSET GmailLabels]
        BY DEF GmailInv, GmailTypeOK
    <2>2. \/ \E msg \in S : labelsOf' \in [S \ {msg} -> SUBSET GmailLabels]
          \/ labelsOf' \in [S -> SUBSET GmailLabels]
        BY <2>1 DEF Meanwhile, mailbox
    <2> QED
        BY <2>2
<1>4. GmailTypeOK'
    BY <1>1, <1>2, <1>3 DEF GmailInv, GmailTypeOK
<1>5. ASSUME NEW c \in Calls
      PROVE  CallFits(c)' /\ CallAnswerIsTrue(c)'
    BY <1>1 DEF GmailInv, CallFits, CallAnswerIsTrue
<1> QED
    BY <1>4, <1>5 DEF GmailInv

LEMMA GmailStutters ==
    ASSUME GmailInv, UNCHANGED gmailVars
    PROVE  GmailInv'
<1>1. UNCHANGED <<tokenFile, cachedValid, labelsOf, folder, oldDraft, call, mailed, toolFaults>>
    BY DEF gmailVars
<1>2. GmailTypeOK'
    BY <1>1 DEF GmailInv, GmailTypeOK
<1>3. ASSUME NEW c \in Calls
      PROVE  CallFits(c)' /\ CallAnswerIsTrue(c)'
    BY <1>1 DEF GmailInv, CallFits, CallAnswerIsTrue
<1> QED
    BY <1>2, <1>3 DEF GmailInv

\* What is left of a call's plan and what its requests have done fit what it was asked,
\* whatever Gmail loses and whatever others do meanwhile.
THEOREM GmailInvariant == GmailSpec => []GmailInv
<1>1. GmailInit => GmailInv
    BY GmailStart
<1>2. GmailInv /\ [GmailNext]_gmailVars => GmailInv'
    BY StartInv, LoadCredentialsInv, SendRequestInv, ListWithoutRequestInv, MeanwhileInv,
       GmailStutters DEF GmailNext
<1> QED
    BY <1>1, <1>2, PTL DEF GmailSpec

\* A call mails no more than its attempts, OK means that what was asked for happened, and
\* a failure leaves the first messages of the list changed: for any asks, calls and faults.
THEOREM ToolsTrue == GmailSpec => [](GmailTypeOK /\ ToolAnswersAreTrue)
<1>1. GmailInv => GmailTypeOK /\ ToolAnswersAreTrue
    BY AnswersOfCalls DEF GmailInv
<1> QED
    BY <1>1, GmailInvariant, PTL

-----------------------------------------------------------------------------
(* The labels.                                                             *)

\* BootstrapIsComplete while the bootstrap runs: what the hierarchy names exists or is
\* still to be created.
BootstrapOnItsWay ==
    mainProc.clean /\ mainProc.pc = "create" =>
       all_label_names(labelConfig) \subseteq gmailLabels \cup mainProc.todo

\* A message with a key wears a label or was unlabelled.
Accounted(x) == worn[x] # {} \/ x \in takenOff
KeysAreTrue == \A x \in dedupKey : Accounted(x)
AnswerIsTrue == mainProc.said => mainProc.pc = "polling" /\ Accounted(mainProc.mail)

\* What is left to create was named by the configuration or by the organiser, and the
\* label of an email is one.
LabelsAreNamed ==
    /\ mainProc.pc = "create" => mainProc.todo \subseteq all_label_names(labelConfig)
    /\ organiser.pc = "create" => organiser.todo \subseteq MyLabels
    /\ mainProc.pc \in {"apply", "modify"} => mainProc.target \in LabelNames

LabelsInv ==
    /\ LabelsTypeOK /\ LabelsAreNamed
    /\ BootstrapOnItsWay /\ BootstrapIsComplete
    /\ KeysAreTrue /\ AnswerIsTrue

LEMMA SomeMail == (CHOOSE x \in Mails : TRUE) \in Mails
BY LabelsAssumption

LEMMA MainDownType ==
    /\ MainDown \in MainStates
    /\ MainDown.pc = "down" /\ ~ MainDown.clean /\ ~ MainDown.said
BY SomeMail DEF MainDown, MainStates

LEMMA OrganiserIdleType == OrganiserIdle \in OrganiserStates /\ OrganiserIdle.pc = "idle"
BY SomeMail DEF OrganiserIdle, OrganiserStates

LEMMA ConfiguredNames ==
    ASSUME NEW cfg \in LabelConfigs
    PROVE  /\ all_label_names(cfg) \subseteq LabelNames
           /\ \A category \in DOMAIN cfg.alias : cfg.alias[category] \in LabelNames
           /\ cfg.prefixed \subseteq LabelNames
BY LabelsAssumption DEF all_label_names, ToSet

LEMMA MyLabelsType == MyLabels \subseteq LabelNames
BY LabelsAssumption DEF MyLabels, ToSet

\* The next label to create is one of those still to be created.
LEMMA FirstIsOneOfThem ==
    ASSUME NEW list \in Seq(LabelNames), NEW names, names # {}, names \subseteq ToSet(list)
    PROVE  FirstOf(list, names) \in names
<1> DEFINE places == {i \in DOMAIN list : list[i] \in names}
<1>1. places \in SUBSET Nat /\ places # {}
    BY DEF ToSet
<1>2. Min(places) \in places
    BY <1>1, MinIsMember
<1> QED BY <1>2 DEF FirstOf

LEMMA LabelsStart == LabelsInit => LabelsInv
<1> SUFFICES ASSUME LabelsInit PROVE LabelsInv
    OBVIOUS
<1>1. mainProc = MainDown /\ organiser = OrganiserIdle /\ organiser.pc = "idle"
    BY DEF LabelsInit, OrganiserIdle
<1>2. LabelsTypeOK
    BY <1>1, MainDownType, OrganiserIdleType, LabelsAssumption DEF LabelsInit, LabelsTypeOK
<1>3. BootstrapOnItsWay /\ BootstrapIsComplete /\ AnswerIsTrue /\ LabelsAreNamed
    BY <1>1, MainDownType DEF BootstrapOnItsWay, BootstrapIsComplete, AnswerIsTrue, LabelsAreNamed
<1>4. KeysAreTrue
    BY DEF LabelsInit, KeysAreTrue
<1> QED
    BY <1>2, <1>3, <1>4 DEF LabelsInv

LEMMA LabelFaultType ==
    ASSUME labelFaults \in 0..LabelFaults, LabelFault \/ UNCHANGED labelFaults
    PROVE  labelFaults' \in 0..LabelFaults
BY LabelsAssumption DEF LabelFault

\* main.py moves to another state and nothing else changes, except where it takes more
\* labels to be there.
LEMMA MainMoves ==
    ASSUME LabelsInv, NEW pc, NEW todo,
           pc \in {"list", "delete", "create", "polling", "apply", "modify"},
           todo \subseteq LabelNames,
           MainGoes(pc, todo) \/ Soiled(pc, todo)
    PROVE  /\ mainProc' \in MainStates /\ mainProc'.target = mainProc.target
           /\ mainProc'.pc = pc /\ mainProc'.todo = todo
           /\ mainProc'.clean => mainProc.clean
           /\ mainProc'.mail = mainProc.mail /\ mainProc'.said = mainProc.said
BY DEF LabelsInv, LabelsTypeOK, MainStates, MainGoes, Soiled

LEMMA StartMainInv ==
    ASSUME LabelsInv, StartMain
    PROVE  LabelsInv'
<1>1. /\ mainProc' \in MainStates /\ mainProc'.pc = "list" /\ labelConfig' \in LabelConfigs
      /\ ~ mainProc'.said
      /\ UNCHANGED <<gmailLabels, worn, dedupKey, organiser, takenOff, labelFaults>>
    BY MainDownType DEF StartMain, MainStates
<1>2. LabelsTypeOK'
    BY <1>1 DEF LabelsInv, LabelsTypeOK
<1>3. (BootstrapOnItsWay /\ BootstrapIsComplete /\ AnswerIsTrue)'
    BY <1>1 DEF BootstrapOnItsWay, BootstrapIsComplete, AnswerIsTrue
<1>4. KeysAreTrue' /\ LabelsAreNamed'
    BY <1>1 DEF LabelsInv, KeysAreTrue, Accounted, LabelsAreNamed
<1> QED
    BY <1>2, <1>3, <1>4 DEF LabelsInv

LEMMA ListManagedInv ==
    ASSUME LabelsInv, ListManaged
    PROVE  LabelsInv'
<1>1. PICK todo : /\ todo \subseteq LabelNames
                  /\ MainGoes("delete", todo) \/ Soiled("delete", todo)
                  /\ (LabelFault \/ UNCHANGED labelFaults)
                  /\ UNCHANGED <<gmailLabels, worn, dedupKey, labelConfig, organiser, takenOff>>
    <2>1. gmailLabels \cap labelConfig.prefixed \subseteq LabelNames
        BY DEF LabelsInv, LabelsTypeOK
    <2> QED
        BY <2>1 DEF ListManaged
<1>2. mainProc' \in MainStates /\ mainProc'.pc = "delete" /\ ~ mainProc'.said
    BY <1>1, MainMoves DEF ListManaged, LabelsInv, AnswerIsTrue
<1>3. LabelsTypeOK'
    BY <1>1, <1>2, LabelFaultType DEF LabelsInv, LabelsTypeOK
<1>4. (BootstrapOnItsWay /\ BootstrapIsComplete /\ AnswerIsTrue)'
    BY <1>2 DEF BootstrapOnItsWay, BootstrapIsComplete, AnswerIsTrue
<1>5. KeysAreTrue' /\ LabelsAreNamed'
    BY <1>1, <1>2 DEF LabelsInv, KeysAreTrue, Accounted, LabelsAreNamed
<1> QED
    BY <1>3, <1>4, <1>5 DEF LabelsInv

\* A deleted label leaves its messages, which are then unlabelled.
LEMMA DeletedLabel ==
    ASSUME LabelsInv, NEW n \in LabelNames, Deleted(n)
    PROVE  /\ gmailLabels' \subseteq LabelNames
           /\ worn' \in [Mails -> SUBSET LabelNames] /\ takenOff' \subseteq Mails
           /\ organiser' \in OrganiserStates
           /\ organiser'.pc = organiser.pc /\ organiser'.todo = organiser.todo
           /\ \A x \in Mails : Accounted(x) => Accounted(x)'
<1> USE DEF LabelsInv, LabelsTypeOK
<1>1. /\ gmailLabels' \subseteq LabelNames
      /\ worn' \in [Mails -> SUBSET LabelNames] /\ takenOff' \subseteq Mails
    BY DEF Deleted
<1>2. \A x \in Mails : Accounted(x) => Accounted(x)'
    BY DEF Deleted, Accounted
<1>3. CASE organiser.pc = "list"
    <2>1. organiser' = [organiser EXCEPT !.had = @ \ {n}]
        BY <1>3 DEF Deleted
    <2>2. organiser' \in OrganiserStates
          /\ organiser'.pc = organiser.pc /\ organiser'.todo = organiser.todo
        BY <2>1 DEF OrganiserStates
    <2> QED BY <1>1, <1>2, <2>2
<1>4. CASE organiser.pc # "list"
    <2>1. organiser' = [organiser EXCEPT !.known[n] = IF @ = "valid" THEN "deleted" ELSE @]
        BY <1>4 DEF Deleted
    <2>2. organiser' \in OrganiserStates
          /\ organiser'.pc = organiser.pc /\ organiser'.todo = organiser.todo
        BY <2>1 DEF OrganiserStates
    <2> QED BY <1>1, <1>2, <2>2
<1> QED BY <1>3, <1>4

LEMMA DeleteManagedInv ==
    ASSUME LabelsInv, DeleteManaged
    PROVE  LabelsInv'
<1> USE DEF LabelsInv
<1>1. mainProc.pc = "delete" /\ mainProc.todo \subseteq LabelNames
      /\ UNCHANGED <<dedupKey, labelConfig>>
    BY DEF DeleteManaged, LabelsTypeOK, MainStates
<1>2. CASE /\ MainGoes("create", all_label_names(labelConfig))
           /\ UNCHANGED <<gmailLabels, worn, organiser, takenOff, labelFaults>>
    <2>1. all_label_names(labelConfig) \subseteq LabelNames
        BY ConfiguredNames DEF LabelsTypeOK
    <2>2. /\ mainProc' \in MainStates
          /\ mainProc'.pc = "create" /\ mainProc'.todo = all_label_names(labelConfig)
          /\ ~ mainProc'.said
        BY <1>1, <1>2, <2>1, MainMoves DEF AnswerIsTrue
    <2>3. LabelsTypeOK'
        BY <1>1, <1>2, <2>2 DEF LabelsTypeOK
    <2>4. (BootstrapOnItsWay /\ BootstrapIsComplete /\ AnswerIsTrue)'
        BY <1>1, <2>2 DEF BootstrapOnItsWay, BootstrapIsComplete, AnswerIsTrue
    <2>5. KeysAreTrue' /\ LabelsAreNamed'
        BY <1>1, <1>2, <2>2 DEF KeysAreTrue, Accounted, LabelsAreNamed
    <2> QED
        BY <2>3, <2>4, <2>5
<1>3. ASSUME NEW n \in mainProc.todo,
             Deleted(n) \/ UNCHANGED <<gmailLabels, worn, organiser, takenOff>>,
             \/ MainGoes("delete", mainProc.todo \ {n})
             \/ Soiled("delete", mainProc.todo \ {n}),
             LabelFault \/ UNCHANGED labelFaults
      PROVE  LabelsInv'
    <2>1. mainProc' \in MainStates /\ mainProc'.pc = "delete" /\ ~ mainProc'.said
        BY <1>1, <1>3, MainMoves DEF AnswerIsTrue
    <2>2. /\ gmailLabels' \subseteq LabelNames
          /\ worn' \in [Mails -> SUBSET LabelNames] /\ takenOff' \subseteq Mails
          /\ organiser' \in OrganiserStates
          /\ organiser'.pc = organiser.pc /\ organiser'.todo = organiser.todo
          /\ \A x \in Mails : Accounted(x) => Accounted(x)'
        <3>1. CASE Deleted(n)
            BY <1>1, <3>1, DeletedLabel
        <3>2. CASE UNCHANGED <<gmailLabels, worn, organiser, takenOff>>
            BY <3>2 DEF LabelsTypeOK, Accounted
        <3> QED BY <1>3, <3>1, <3>2
    <2>3. LabelsTypeOK'
        BY <1>1, <1>3, <2>1, <2>2, LabelFaultType DEF LabelsTypeOK
    <2>4. (BootstrapOnItsWay /\ BootstrapIsComplete /\ AnswerIsTrue)'
        BY <2>1 DEF BootstrapOnItsWay, BootstrapIsComplete, AnswerIsTrue
    <2>5. KeysAreTrue' /\ LabelsAreNamed'
        BY <1>1, <2>1, <2>2 DEF KeysAreTrue, LabelsAreNamed, LabelsTypeOK
    <2> QED
        BY <2>3, <2>4, <2>5
<1> QED
    BY <1>2, <1>3 DEF DeleteManaged, Deepest

LEMMA CreateConfiguredInv ==
    ASSUME LabelsInv, CreateConfigured
    PROVE  LabelsInv'
<1> DEFINE n == FirstOf(labelConfig.labels, mainProc.todo)
<1> USE DEF LabelsInv
<1>1. /\ mainProc.pc = "create"
      /\ mainProc.todo \subseteq all_label_names(labelConfig)
      /\ all_label_names(labelConfig) \subseteq LabelNames
      /\ labelConfig.labels \in Seq(LabelNames)
      /\ UNCHANGED <<worn, dedupKey, labelConfig, organiser, takenOff>>
    BY ConfiguredNames, LabelsAssumption DEF CreateConfigured, LabelsAreNamed, LabelsTypeOK
<1>2. CASE mainProc.todo = {}
    <2>1. MainGoes("polling", {}) /\ UNCHANGED <<gmailLabels, labelFaults>>
        BY <1>2 DEF CreateConfigured
    <2>2. /\ mainProc' \in MainStates /\ mainProc'.pc = "polling" /\ ~ mainProc'.said
          /\ mainProc'.clean => mainProc.clean
        BY <1>1, <2>1, MainMoves DEF AnswerIsTrue
    <2>3. LabelsTypeOK' /\ LabelsAreNamed' /\ KeysAreTrue'
        BY <1>1, <2>1, <2>2 DEF LabelsTypeOK, LabelsAreNamed, KeysAreTrue, Accounted
    <2>4. BootstrapOnItsWay' /\ BootstrapIsComplete'
        BY <1>1, <1>2, <2>1, <2>2 DEF BootstrapOnItsWay, BootstrapIsComplete
    <2>5. AnswerIsTrue'
        BY <2>2 DEF AnswerIsTrue
    <2> QED
        BY <2>3, <2>4, <2>5
<1>3. CASE mainProc.todo # {}
    <2>1. n \in mainProc.todo
        BY <1>1, <1>3, FirstIsOneOfThem DEF all_label_names
    <2> HIDE DEF n
    <2>2. /\ \/ MainGoes("create", mainProc.todo \ {n}) /\ gmailLabels' = gmailLabels \cup {n}
             \/ /\ Soiled("create", mainProc.todo \ {n})
                /\ gmailLabels' \in {gmailLabels, gmailLabels \cup {n}}
          /\ (LabelFault \/ UNCHANGED labelFaults)
        BY <1>3 DEF CreateConfigured, n
    <2>3. /\ mainProc' \in MainStates /\ mainProc'.pc = "create"
          /\ mainProc'.todo = mainProc.todo \ {n} /\ ~ mainProc'.said
          /\ mainProc'.clean => mainProc.clean
        BY <1>1, <2>2, MainMoves DEF AnswerIsTrue
    <2>4. LabelsTypeOK' /\ LabelsAreNamed' /\ KeysAreTrue'
        BY <1>1, <2>1, <2>2, <2>3, LabelFaultType
           DEF LabelsTypeOK, LabelsAreNamed, KeysAreTrue, Accounted
    <2>5. BootstrapOnItsWay'
        <3>1. mainProc'.clean => gmailLabels' = gmailLabels \cup {n}
            BY <2>2 DEF Soiled, LabelsTypeOK, MainStates
        <3> QED
            BY <1>1, <2>1, <2>3, <3>1 DEF BootstrapOnItsWay
    <2>6. BootstrapIsComplete' /\ AnswerIsTrue'
        BY <2>3 DEF BootstrapIsComplete, AnswerIsTrue
    <2> QED
        BY <2>4, <2>5, <2>6
<1> QED BY <1>2, <1>3

LEMMA RestartMainInv ==
    ASSUME LabelsInv, RestartMain
    PROVE  LabelsInv'
<1>1. /\ mainProc' \in MainStates /\ mainProc'.pc = "down" /\ ~ mainProc'.said
      /\ LabelFault
      /\ UNCHANGED <<gmailLabels, worn, dedupKey, labelConfig, organiser, takenOff>>
    BY MainDownType DEF RestartMain
<1>2. LabelsTypeOK'
    BY <1>1, LabelFaultType DEF LabelsInv, LabelsTypeOK
<1>3. (BootstrapOnItsWay /\ BootstrapIsComplete /\ AnswerIsTrue)'
    BY <1>1 DEF BootstrapOnItsWay, BootstrapIsComplete, AnswerIsTrue
<1>4. KeysAreTrue' /\ LabelsAreNamed'
    BY <1>1 DEF LabelsInv, KeysAreTrue, Accounted, LabelsAreNamed
<1> QED
    BY <1>2, <1>3, <1>4 DEF LabelsInv

LEMMA ResolvedName ==
    ASSUME LabelsInv, NEW category, NEW team, NEW n \in resolve_label(category, team)
    PROVE  n \in LabelNames
<1>1. /\ all_label_names(labelConfig) \subseteq LabelNames
      /\ \A k \in DOMAIN labelConfig.alias : labelConfig.alias[k] \in LabelNames
      /\ FallbackLabel \in LabelNames
    BY ConfiguredNames, LabelsAssumption DEF LabelsInv, LabelsTypeOK
<1> QED
    BY <1>1 DEF resolve_label

\* Steps of main.py after the bootstrap: the labels and the configuration stay.
LEMMA AfterBootstrap ==
    ASSUME LabelsInv,
           mainProc.pc \in {"polling", "apply", "modify"},
           mainProc' \in MainStates, mainProc'.pc \in {"polling", "apply", "modify"},
           mainProc'.clean => mainProc.clean,
           mainProc'.pc \in {"apply", "modify"} => mainProc'.target \in LabelNames,
           labelFaults' \in 0..LabelFaults,
           worn' \in [Mails -> SUBSET LabelNames],
           takenOff' \subseteq Mails, dedupKey' \subseteq Mails,
           KeysAreTrue', AnswerIsTrue',
           UNCHANGED <<gmailLabels, labelConfig, organiser>>
    PROVE  LabelsInv'
BY DEF LabelsInv, LabelsTypeOK, LabelsAreNamed, BootstrapOnItsWay, BootstrapIsComplete

LEMMA StartApplyInv ==
    ASSUME LabelsInv, StartApply
    PROVE  LabelsInv'
<1> USE DEF LabelsInv
<1>1. /\ mainProc.pc = "polling" /\ (LabelFault \/ UNCHANGED labelFaults)
      /\ UNCHANGED <<gmailLabels, worn, dedupKey, labelConfig, organiser, takenOff>>
    BY DEF StartApply
<1>2. KeysAreTrue' /\ labelFaults' \in 0..LabelFaults
    BY <1>1, LabelFaultType DEF KeysAreTrue, Accounted, LabelsTypeOK
<1>3. PICK x \in Mails :
          \/ x \in dedupKey /\ mainProc' = [mainProc EXCEPT !.mail = x, !.said = TRUE]
          \/ \E ask \in LabelAsks : \E n \in resolve_label(ask[1], ask[2]) :
                mainProc' = [mainProc EXCEPT !.pc = "apply", !.mail = x, !.target = n,
                                             !.said = FALSE]
    BY DEF StartApply
<1>4. CASE x \in dedupKey /\ mainProc' = [mainProc EXCEPT !.mail = x, !.said = TRUE]
    <2>1. /\ mainProc' \in MainStates /\ mainProc'.pc = "polling" /\ mainProc'.mail = x
          /\ mainProc'.clean = mainProc.clean
        BY <1>1, <1>4 DEF LabelsTypeOK, MainStates
    <2>2. AnswerIsTrue'
        BY <1>1, <1>4, <2>1 DEF AnswerIsTrue, KeysAreTrue, Accounted
    <2> QED
        BY <1>1, <1>2, <2>1, <2>2, AfterBootstrap DEF LabelsTypeOK
<1>5. ASSUME NEW ask \in LabelAsks, NEW n \in resolve_label(ask[1], ask[2]),
             mainProc' = [mainProc EXCEPT !.pc = "apply", !.mail = x, !.target = n,
                                          !.said = FALSE]
      PROVE  LabelsInv'
    <2>1. n \in LabelNames
        BY <1>5, ResolvedName
    <2>2. /\ mainProc' \in MainStates /\ mainProc'.pc = "apply" /\ ~ mainProc'.said
          /\ mainProc'.clean = mainProc.clean /\ mainProc'.target = n
        BY <1>1, <1>5, <2>1 DEF LabelsTypeOK, MainStates
    <2>3. AnswerIsTrue'
        BY <2>2 DEF AnswerIsTrue
    <2> QED
        BY <1>1, <1>2, <2>1, <2>2, <2>3, AfterBootstrap DEF LabelsTypeOK
<1> QED
    BY <1>3, <1>4, <1>5

LEMMA AnswerGiven ==
    ASSUME LabelsInv, NEW said \in BOOLEAN, Answers(said)
    PROVE  /\ mainProc' \in MainStates /\ mainProc'.pc = "polling" /\ mainProc'.said = said
           /\ mainProc'.mail = mainProc.mail /\ mainProc'.clean = mainProc.clean
BY DEF LabelsInv, LabelsTypeOK, MainStates, Answers

LEMMA FindLabelInv ==
    ASSUME LabelsInv, FindLabel
    PROVE  LabelsInv'
<1>1. /\ mainProc.pc = "apply" /\ (LabelFault \/ UNCHANGED labelFaults)
      /\ MainGoes("modify", {}) \/ Answers(FALSE)
      /\ UNCHANGED <<gmailLabels, worn, dedupKey, labelConfig, organiser, takenOff>>
    BY DEF FindLabel
<1>2. KeysAreTrue' /\ labelFaults' \in 0..LabelFaults
    BY <1>1, LabelFaultType DEF LabelsInv, KeysAreTrue, Accounted, LabelsTypeOK
<1>3. /\ mainProc' \in MainStates /\ mainProc'.pc \in {"polling", "modify"}
      /\ ~ mainProc'.said /\ (mainProc'.clean => mainProc.clean)
      /\ (mainProc'.pc = "modify" => mainProc'.target \in LabelNames)
    <2>1. CASE MainGoes("modify", {})
        BY <1>1, <2>1, MainMoves DEF LabelsInv, AnswerIsTrue, LabelsAreNamed
    <2>2. CASE Answers(FALSE)
        BY <1>1, <2>2, AnswerGiven
    <2> QED
        BY <1>1, <2>1, <2>2
<1>4. AnswerIsTrue'
    BY <1>3 DEF AnswerIsTrue
<1> QED
    BY <1>1, <1>2, <1>3, <1>4, AfterBootstrap DEF LabelsInv, LabelsTypeOK

LEMMA AddLabelInv ==
    ASSUME LabelsInv, AddLabel
    PROVE  LabelsInv'
<1> DEFINE x == mainProc.mail
<1> USE DEF LabelsInv
<1>1. /\ mainProc.pc = "modify" /\ x \in Mails /\ (LabelFault \/ UNCHANGED labelFaults)
      /\ UNCHANGED <<gmailLabels, labelConfig, organiser>>
    BY DEF AddLabel, LabelsTypeOK, MainStates
<1>2. labelFaults' \in 0..LabelFaults
    BY <1>1, LabelFaultType DEF LabelsTypeOK
<1>3. CASE /\ worn' = [worn EXCEPT ![x] = @ \cup {mainProc.target}]
           /\ takenOff' = takenOff \ {x}
           /\ dedupKey' \in {dedupKey, dedupKey \cup {x}}
           /\ \E said \in BOOLEAN : Answers(said)
    <2>1. /\ mainProc' \in MainStates /\ mainProc'.pc = "polling"
          /\ mainProc'.mail = x /\ mainProc'.clean = mainProc.clean
        BY <1>3, AnswerGiven
    <2>2. \A y \in Mails : y = x \/ Accounted(y) => Accounted(y)'
        BY <1>1, <1>3 DEF Accounted, LabelsTypeOK
    <2>3. KeysAreTrue' /\ AnswerIsTrue'
        BY <1>1, <1>3, <2>1, <2>2 DEF KeysAreTrue, AnswerIsTrue, LabelsTypeOK
    <2>4. worn' \in [Mails -> SUBSET LabelNames]
        BY <1>1, <1>3 DEF LabelsTypeOK, LabelsAreNamed
    <2> QED
        BY <1>1, <1>2, <1>3, <2>1, <2>3, <2>4, AfterBootstrap DEF LabelsTypeOK
<1>4. CASE Answers(FALSE) /\ UNCHANGED <<worn, takenOff, dedupKey>>
    <2>1. /\ mainProc' \in MainStates /\ mainProc'.pc = "polling" /\ ~ mainProc'.said
          /\ mainProc'.clean = mainProc.clean
        BY <1>4, AnswerGiven
    <2>2. KeysAreTrue' /\ AnswerIsTrue'
        BY <1>4, <2>1 DEF KeysAreTrue, Accounted, AnswerIsTrue
    <2> QED
        BY <1>1, <1>2, <1>4, <2>1, <2>2, AfterBootstrap DEF LabelsTypeOK
<1> QED
    BY <1>3, <1>4 DEF AddLabel

LEMMA DedupExpiresInv ==
    ASSUME LabelsInv, DedupExpires
    PROVE  LabelsInv'
<1>1. /\ dedupKey' \subseteq dedupKey
      /\ UNCHANGED <<gmailLabels, worn, labelConfig, mainProc, organiser, takenOff, labelFaults>>
    BY DEF DedupExpires
<1>2. LabelsTypeOK' /\ LabelsAreNamed' /\ KeysAreTrue'
    BY <1>1 DEF LabelsInv, LabelsTypeOK, LabelsAreNamed, KeysAreTrue, Accounted
<1>3. (BootstrapOnItsWay /\ BootstrapIsComplete /\ AnswerIsTrue)'
    BY <1>1 DEF LabelsInv, BootstrapOnItsWay, BootstrapIsComplete, AnswerIsTrue, Accounted
<1> QED
    BY <1>2, <1>3 DEF LabelsInv

\* Steps of the organiser: labels are only added and unlabelled messages are noted.
LEMMA OrganiserMoves ==
    ASSUME LabelsInv, organiser' \in OrganiserStates,
           organiser'.pc = "create" => organiser'.todo \subseteq MyLabels,
           gmailLabels \subseteq gmailLabels', gmailLabels' \subseteq LabelNames,
           labelFaults' \in 0..LabelFaults,
           worn' \in [Mails -> SUBSET LabelNames], takenOff' \subseteq Mails,
           \A x \in Mails : Accounted(x) => Accounted(x)',
           UNCHANGED <<dedupKey, labelConfig, mainProc>>
    PROVE  LabelsInv'
<1> USE DEF LabelsInv
<1>1. LabelsTypeOK' /\ LabelsAreNamed'
    BY DEF LabelsTypeOK, LabelsAreNamed
<1>2. KeysAreTrue' /\ AnswerIsTrue'
    BY DEF LabelsTypeOK, KeysAreTrue, AnswerIsTrue, MainStates
<1>3. BootstrapOnItsWay' /\ BootstrapIsComplete'
    BY DEF BootstrapOnItsWay, BootstrapIsComplete
<1> QED
    BY <1>1, <1>2, <1>3

LEMMA OrganiserReadsInv ==
    ASSUME LabelsInv, OrganiserReads
    PROVE  LabelsInv'
<1>1. PICK x \in Mails :
          organiser' = [organiser EXCEPT !.pc = "list", !.mail = x, !.had = worn[x]]
    BY DEF OrganiserReads
<1>2. organiser' \in OrganiserStates /\ organiser'.pc = "list"
    BY <1>1 DEF LabelsInv, LabelsTypeOK, OrganiserStates
<1>3. UNCHANGED <<gmailLabels, worn, dedupKey, labelConfig, mainProc, takenOff, labelFaults>>
    BY DEF OrganiserReads
<1> QED
    BY <1>2, <1>3, OrganiserMoves DEF LabelsInv, LabelsTypeOK, Accounted

LEMMA OrganiserListsInv ==
    ASSUME LabelsInv, OrganiserLists
    PROVE  LabelsInv'
<1>1. /\ UNCHANGED <<gmailLabels, worn, dedupKey, labelConfig, mainProc, takenOff>>
      /\ (LabelFault \/ UNCHANGED labelFaults)
    BY DEF OrganiserLists
<1>2. CASE organiser' = [organiser EXCEPT !.pc = "create",
                 !.todo = MyLabels \ gmailLabels,
                 !.known = [n \in LabelNames |-> IF n \in gmailLabels THEN "valid" ELSE "none"]]
    <2>1. organiser' \in OrganiserStates /\ organiser'.todo \subseteq MyLabels
        BY <1>2, MyLabelsType DEF LabelsInv, LabelsTypeOK, OrganiserStates
    <2> QED
        BY <1>1, <2>1, OrganiserMoves, LabelFaultType DEF LabelsInv, LabelsTypeOK, Accounted
<1>3. CASE OrganiserEnds
    BY <1>1, <1>3, OrganiserIdleType, OrganiserMoves, LabelFaultType
       DEF LabelsInv, LabelsTypeOK, Accounted, OrganiserEnds
<1> QED
    BY <1>2, <1>3 DEF OrganiserLists

LEMMA OrganiserCreatesInv ==
    ASSUME LabelsInv, OrganiserCreates
    PROVE  LabelsInv'
<1> DEFINE n == FirstOf(OrganiserLabels, organiser.todo)
<1>1. /\ organiser.pc = "create" /\ organiser.todo \subseteq MyLabels
      /\ OrganiserLabels \in Seq(LabelNames) /\ MyLabels \subseteq LabelNames
      /\ UNCHANGED <<worn, dedupKey, labelConfig, mainProc, takenOff>>
    BY LabelsAssumption, MyLabelsType DEF OrganiserCreates, LabelsInv, LabelsAreNamed
<1>2. organiser.todo # {} => n \in organiser.todo
    BY <1>1, FirstIsOneOfThem DEF MyLabels
<1> HIDE DEF n
<1>3. CASE organiser.todo = {}
    <2>1. /\ organiser' = [organiser EXCEPT !.pc = "label"]
          /\ UNCHANGED <<gmailLabels, labelFaults>>
        BY <1>3 DEF OrganiserCreates
    <2>2. organiser' \in OrganiserStates /\ organiser'.pc = "label"
        BY <2>1 DEF LabelsInv, LabelsTypeOK, OrganiserStates
    <2> QED
        BY <1>1, <2>1, <2>2, OrganiserMoves DEF LabelsInv, LabelsTypeOK, Accounted
<1>4. CASE organiser.todo # {}
    <2>1. /\ gmailLabels' \in {gmailLabels, gmailLabels \cup {n}}
          /\ (LabelFault \/ UNCHANGED labelFaults)
          /\ \/ organiser' = [organiser EXCEPT !.todo = @ \ {n}, !.known[n] = "valid"]
             \/ OrganiserEnds
        BY <1>4 DEF OrganiserCreates, n
    <2>2. /\ organiser' \in OrganiserStates
          /\ organiser'.pc = "create" => organiser'.todo \subseteq MyLabels
        <3>1. CASE organiser' = [organiser EXCEPT !.todo = @ \ {n}, !.known[n] = "valid"]
            BY <1>1, <3>1 DEF LabelsInv, LabelsTypeOK, OrganiserStates
        <3>2. CASE OrganiserEnds
            BY <3>2, OrganiserIdleType DEF OrganiserEnds, OrganiserIdle
        <3> QED
            BY <2>1, <3>1, <3>2
    <2> QED
        BY <1>1, <1>2, <1>4, <2>1, <2>2, OrganiserMoves, LabelFaultType
           DEF LabelsInv, LabelsTypeOK, Accounted
<1> QED
    BY <1>3, <1>4

\* What the organiser takes off a message is noted, and its own label is on it.
LEMMA RelabelAccounts ==
    ASSUME LabelsInv, NEW n \in MyLabels, Relabel(n)
    PROVE  /\ worn' \in [Mails -> SUBSET LabelNames] /\ takenOff' \subseteq Mails
           /\ \A x \in Mails : Accounted(x) => Accounted(x)'
<1>1. organiser.mail \in Mails /\ n \in LabelNames
    BY MyLabelsType DEF LabelsInv, LabelsTypeOK, OrganiserStates
<1>2. CASE UNCHANGED <<worn, takenOff>>
    BY <1>2 DEF LabelsInv, LabelsTypeOK, Accounted
<1>3. PICK removed :
         \/ UNCHANGED <<worn, takenOff>>
         \/ /\ worn' = [worn EXCEPT ![organiser.mail] = (@ \ removed) \cup {n}]
            /\ takenOff' \in {takenOff, takenOff \cup {organiser.mail}}
    BY DEF Relabel
<1>4. CASE /\ worn' = [worn EXCEPT ![organiser.mail] = (@ \ removed) \cup {n}]
           /\ takenOff' \in {takenOff, takenOff \cup {organiser.mail}}
    <2>1. worn' \in [Mails -> SUBSET LabelNames] /\ takenOff' \subseteq Mails
        BY <1>1, <1>4 DEF LabelsInv, LabelsTypeOK
    <2>2. \A x \in Mails : Accounted(x) => Accounted(x)'
        BY <1>1, <1>4 DEF LabelsInv, LabelsTypeOK, Accounted
    <2> QED
        BY <2>1, <2>2
<1> QED
    BY <1>2, <1>3, <1>4

LEMMA OrganiserAppliesInv ==
    ASSUME LabelsInv, OrganiserApplies
    PROVE  LabelsInv'
<1>1. /\ UNCHANGED <<gmailLabels, dedupKey, labelConfig, mainProc>>
      /\ organiser' = OrganiserIdle /\ organiser'.pc = "idle"
      /\ (LabelFault \/ UNCHANGED labelFaults)
    BY DEF OrganiserApplies, OrganiserEnds, OrganiserIdle
<1>2. PICK n \in MyLabels : Relabel(n) \/ UNCHANGED <<worn, takenOff>>
    BY DEF OrganiserApplies
<1>3. /\ worn' \in [Mails -> SUBSET LabelNames] /\ takenOff' \subseteq Mails
      /\ \A x \in Mails : Accounted(x) => Accounted(x)'
    <2>1. CASE UNCHANGED <<worn, takenOff>>
        BY <2>1 DEF LabelsInv, LabelsTypeOK, Accounted
    <2> QED
        BY <1>2, <2>1, RelabelAccounts
<1> QED
    BY <1>1, <1>3, OrganiserIdleType, OrganiserMoves, LabelFaultType
       DEF LabelsInv, LabelsTypeOK

LEMMA LabelsStutter ==
    ASSUME LabelsInv, UNCHANGED labelVars
    PROVE  LabelsInv'
<1>1. UNCHANGED <<gmailLabels, worn, dedupKey, labelConfig, mainProc, organiser, takenOff,
                  labelFaults>>
    BY DEF labelVars
<1>2. LabelsTypeOK' /\ LabelsAreNamed' /\ KeysAreTrue'
    BY <1>1 DEF LabelsInv, LabelsTypeOK, LabelsAreNamed, KeysAreTrue, Accounted
<1>3. (BootstrapOnItsWay /\ BootstrapIsComplete /\ AnswerIsTrue)'
    BY <1>1 DEF LabelsInv, BootstrapOnItsWay, BootstrapIsComplete, AnswerIsTrue, Accounted
<1> QED
    BY <1>2, <1>3 DEF LabelsInv

\* Every step of main.py, of the organiser and of Redis keeps the invariant.
THEOREM LabelsInvariant == LabelsSpec => []LabelsInv
<1>1. LabelsInv /\ [LabelsNext]_labelVars => LabelsInv'
    BY StartMainInv, ListManagedInv, DeleteManagedInv, CreateConfiguredInv, RestartMainInv,
       StartApplyInv, FindLabelInv, AddLabelInv, DedupExpiresInv, OrganiserReadsInv,
       OrganiserListsInv, OrganiserCreatesInv, OrganiserAppliesInv, LabelsStutter
       DEF LabelsNext
<1> QED
    BY <1>1, LabelsStart, PTL DEF LabelsSpec

\* LabelsAreTrue of utils/gmail_label_manager and email_ai/label_manager on one mailbox,
\* for any names, configurations, messages and faults: a bootstrap in which no call
\* failed leaves every configured label there, and "labelled" is true of the message
\* or someone unlabelled it since.
THEOREM LabelsTrue == LabelsSpec => [](LabelsTypeOK /\ LabelsAreTrue)
<1>1. LabelsInv => LabelsTypeOK /\ LabelsAreTrue
    BY DEF LabelsInv, KeysAreTrue, AnswerIsTrue, Accounted, LabelsAreTrue, LabelledIsTrue
<1> QED
    BY <1>1, LabelsInvariant, PTL

-----------------------------------------------------------------------------
(* The parts side by side.                                                 *)

LEMMA PartsStart ==
    MCInit => /\ KeysInit /\ JobsInit /\ SessionsInit /\ GmailInit /\ LabelsInit
              /\ ResponseInit /\ RatesInit
BY DEF MCInit

\* A step of one part leaves the others where they are.
LEMMA PartsStep ==
    ASSUME [MCNext]_mcVars
    PROVE  /\ [KeysNext]_keyVars /\ [JobsNext]_jobVars /\ [SessionsNext]_sessionVars
           /\ [GmailNext]_gmailVars /\ [LabelsNext]_labelVars /\ [ResponseNext]_responseVars
           /\ [RatesNext]_rateVars
<1>1. CASE UNCHANGED mcVars
    BY <1>1 DEF mcVars
<1>2. CASE MCNext
    <2>1. (part = "keys" /\ KeysNext) \/ UNCHANGED keyVars
        BY <1>2 DEF MCNext, Rests
    <2>2. (part = "jobs" /\ JobsNext) \/ UNCHANGED jobVars
        BY <1>2 DEF MCNext, Rests
    <2>3. (part = "sessions" /\ SessionsNext) \/ UNCHANGED sessionVars
        BY <1>2 DEF MCNext, Rests
    <2>4. (part = "tools" /\ GmailNext) \/ UNCHANGED gmailVars
        BY <1>2 DEF MCNext, Rests
    <2>5. (part = "labels" /\ LabelsNext) \/ UNCHANGED labelVars
        BY <1>2 DEF MCNext, Rests
    <2>6. (part = "response" /\ ResponseNext) \/ UNCHANGED responseVars
        BY <1>2 DEF MCNext, Rests
    <2>7. (part = "rates" /\ RatesNext) \/ UNCHANGED rateVars
        BY <1>2 DEF MCNext, Rests
    <2> QED
        BY <2>1, <2>2, <2>3, <2>4, <2>5, <2>6, <2>7
<1> QED
    BY <1>1, <1>2

\* A behaviour of MC_ApiServer is one of every part, so that what is proved of a part
\* holds of what the run checks.
THEOREM PartsImplement ==
    MCSpec => /\ KeysSpec /\ JobsSpec /\ SessionsSpec /\ GmailSpec /\ LabelsSpec
              /\ ResponseSpec /\ RatesSpec
BY PartsStart, PartsStep, PTL
   DEF MCSpec, KeysSpec, JobsSpec, SessionsSpec, GmailSpec, LabelsSpec, ResponseSpec, RatesSpec

\* TypeOK of MC_ApiServer: every part keeps its types, for every value of the constants.
THEOREM PartsTyped == MCSpec => []TypeOK
<1>1. JobsInv => JobsTypeOK
    BY DEF JobsInv
<1>2. JobsSpec => []JobsTypeOK
    BY <1>1, JobsInvariant, PTL
<1>3. /\ KeysTypeOK /\ JobsTypeOK /\ SessionsTypeOK /\ GmailTypeOK /\ LabelsTypeOK
      /\ ResponseTypeOK /\ RatesTypeOK
      => TypeOK
    BY DEF TypeOK
<1> QED
    BY <1>2, <1>3, PartsImplement, KeysConsistent, SessionsListed, ToolsTrue, LabelsTrue,
       ResponsesSafe, RatesInBudget, PTL
=============================================================================
