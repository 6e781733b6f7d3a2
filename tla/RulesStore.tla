----------------------------- MODULE RulesStore -----------------------------
(***************************************************************************)
(* The routing rules of one tenant: the table rules_versions, edited by    *)
(* update_rules and rollback of app/api/routers/v1/rules.py, and the Redis *)
(* copy filled by load_rules of utils/rules_engine.py.                     *)
(*                                                                         *)
(* Edits are transactions at READ COMMITTED: the first UPDATE touches all  *)
(* rows its snapshot sees and waits for their locks; the second statement  *)
(* sees what was committed in the meantime, and the partial unique index   *)
(* on is_active lets one active row in.  The cache is deleted after the    *)
(* commit.  A loader that misses the cache reads the table and writes the  *)
(* copy back in a later step.  Any access to Redis or the database may     *)
(* fail.                                                                   *)
(***************************************************************************)
EXTENDS Naturals, FiniteSets, Sequences, SequencesExt, RulesEngine

CONSTANTS
    Editors,    \* PUT and rollback requests under way at a time
    Loaders,    \* routing nodes and /test requests that evaluate the rules
    Payloads,   \* the names of the payloads an editor may save
    RulesOf,    \* the list of rules of each payload
    MaxEdits    \* bound: committed edits

ASSUME RulesAssumption ==
    /\ \A p \in Payloads : RulesOf[p] \in Seq(Rules)
    /\ MaxEdits \in Nat

VARIABLES
    versions,   \* rules_json of the committed rows, by version
    active,     \* the versions with is_active
    activated,  \* history: the rules each commit made active, in order
    cache,      \* which of them Redis holds under rules:{tenant}; 0 is none
    expires,    \* the cached copy has a TTL
    editor,     \* per editor: where it stands, its operation, its snapshot
    loader,     \* per loader: where it stands and what it used
    live        \* history: the newest commit a user was told is live

vars == <<versions, active, activated, cache, expires, editor, loader, live>>

Idle == [pc |-> "idle", put |-> {}, target |-> 0, seen |-> {}, commit |-> 0]
NotLoading == [pc |-> "idle", used |-> 0, since |-> 0]

\* The default tenant starts with one row, any other with none.
Init ==
    /\ versions \in {<<>>} \cup {<<p>> : p \in Payloads}
    /\ active = DOMAIN versions
    /\ activated = versions
    /\ cache = 0
    /\ expires = FALSE
    /\ editor = [e \in Editors |-> Idle]
    /\ loader = [l \in Loaders |-> NotLoading]
    /\ live = 0

----------------------------------------------------------------------------
(* update_rules and rollback.                                              *)

tableVars == <<versions, active, activated>>
cacheVars == <<cache, expires>>

\* UPDATE ... SET is_active=FALSE: the snapshot of the statement.
Deactivate(e) ==
    /\ editor[e].pc = "idle"
    /\ Len(activated) < MaxEdits
    /\ \/ \E p \in Payloads :
            editor' = [editor EXCEPT ![e] = [Idle EXCEPT
                !.pc = "lock", !.put = {p}, !.seen = DOMAIN versions]]
       \/ \E v \in 1 .. MaxEdits :
            editor' = [editor EXCEPT ![e] = [Idle EXCEPT
                !.pc = "lock", !.target = v, !.seen = DOMAIN versions]]
    /\ UNCHANGED <<tableVars, cacheVars, loader, live>>

\* The UPDATE gets the locks of the rows it saw.
GetLocks(e) ==
    /\ editor[e].pc = "lock"
    /\ \A o \in Editors \ {e} :
        editor[o].pc \in {"locked", "written"} => editor[o].seen \cap editor[e].seen = {}
    /\ editor' = [editor EXCEPT ![e].pc = "locked"]
    /\ UNCHANGED <<tableVars, cacheVars, loader, live>>

\* A PUT carries its payload, a rollback its version.  The row the edit makes active
\* has MAX(version)+1 of what is committed now, or that version.
IsPut(e) == editor[e].put # {}
Target(e) == IF IsPut(e) THEN Len(versions) + 1 ELSE editor[e].target

\* Mutant: there is no unique index.
NoIndex(e) == FALSE

\* Another active row is in the index, and this edit did not deactivate it.
IndexConflict(e) == active \ (editor[e].seen \cup {Target(e)}) # {}

\* INSERT, or UPDATE ... SET is_active=TRUE.  It waits while another transaction has
\* an entry in the index that is not yet committed.
Activate(e) ==
    /\ editor[e].pc = "locked"
    /\ \A o \in Editors : editor[o].pc # "written"
    /\ ~IndexConflict(e)
    /\ IsPut(e) \/ Target(e) \in DOMAIN versions
    /\ editor' = [editor EXCEPT ![e].pc = "written"]
    /\ UNCHANGED <<tableVars, cacheVars, loader, live>>

\* The index refuses the row, the version is not found (404), or the connection is
\* lost: the transaction is rolled back.
EditFails(e) ==
    /\ editor[e].pc \in {"lock", "locked", "written"}
    /\ editor' = [editor EXCEPT ![e] = Idle]
    /\ UNCHANGED <<tableVars, cacheVars, loader, live>>

Commit(e) ==
    /\ editor[e].pc = "written"
    /\ Len(activated) < MaxEdits
    /\ versions' = IF IsPut(e) THEN Append(versions, CHOOSE p \in editor[e].put : TRUE)
                   ELSE versions
    /\ active' = (active \ editor[e].seen) \cup {Target(e)}
    /\ activated' = Append(activated, versions'[Target(e)])
    /\ editor' = [editor EXCEPT ![e].pc = "invalidate", ![e].commit = Len(activated')]
    /\ UNCHANGED <<cacheVars, loader, live>>

\* redis.delete, and the answer "Rules are live".
Invalidate(e) ==
    /\ editor[e].pc = "invalidate"
    /\ cache' = 0
    /\ expires' = FALSE
    /\ live' = IF editor[e].commit > live THEN editor[e].commit ELSE live
    /\ editor' = [editor EXCEPT ![e] = Idle]
    /\ UNCHANGED <<tableVars, loader>>

\* Redis fails or the server dies after the commit: an error, but the edit stands.
InvalidateFails(e) ==
    /\ editor[e].pc = "invalidate"
    /\ editor' = [editor EXCEPT ![e] = Idle]
    /\ UNCHANGED <<tableVars, cacheVars, loader, live>>

----------------------------------------------------------------------------
(* load_rules and evaluate.                                                *)

\* Mutant: the rules after the ones that were read.
ReturnNext(l, n) == loader' = [loader EXCEPT ![l].pc = "returned", ![l].used = n + 1]

\* The load returns the rules of commit n (0: none).
Return(l, n) == loader' = [loader EXCEPT ![l].pc = "returned", ![l].used = n]

\* What evaluate, and routing_node after it, make of the rules a load returned.
Decision(l) == DecidingRule(RulesOf[activated[loader[l].used]])

\* redis.get: a hit is used as it is; a miss or an error goes to the table.
StartLoad(l) ==
    /\ loader[l].pc = "idle"
    /\ \/ /\ cache # 0
          /\ loader' = [loader EXCEPT
                ![l] = [pc |-> "returned", used |-> cache, since |-> live]]
       \/ loader' = [loader EXCEPT ![l] = [NotLoading EXCEPT !.pc = "read", !.since = live]]
    /\ UNCHANGED <<tableVars, cacheVars, editor, live>>

\* SELECT ... WHERE is_active: no row and a database error both return [].
ReadTable(l) ==
    /\ loader[l].pc = "read"
    /\ \/ /\ active # {}
          /\ loader' = [loader EXCEPT ![l].pc = "fill", ![l].used = Len(activated)]
       \/ Return(l, 0)
    /\ UNCHANGED <<tableVars, cacheVars, editor, live>>

\* Mutant: redis.set, without a TTL.
FillCacheForever(l) ==
    /\ loader[l].pc = "fill"
    /\ \/ cache' = loader[l].used /\ expires' = FALSE
       \/ UNCHANGED cacheVars
    /\ Return(l, loader[l].used)
    /\ UNCHANGED <<tableVars, editor, live>>

\* redis.setex(key, 3600, ...), its errors ignored.
FillCache(l) ==
    /\ loader[l].pc = "fill"
    /\ \/ cache' = loader[l].used /\ expires' = TRUE
       \/ UNCHANGED cacheVars
    /\ Return(l, loader[l].used)
    /\ UNCHANGED <<tableVars, editor, live>>

\* The caller is done with the result.
EndLoad(l) ==
    /\ loader[l].pc = "returned"
    /\ loader' = [loader EXCEPT ![l] = NotLoading]
    /\ UNCHANGED <<tableVars, cacheVars, editor, live>>

----------------------------------------------------------------------------
(* Redis.                                                                  *)

Expire ==
    /\ cache # 0 /\ expires
    /\ cache' = 0
    /\ expires' = FALSE
    /\ UNCHANGED <<tableVars, editor, loader, live>>

----------------------------------------------------------------------------

EditorStep(e) ==
    \/ GetLocks(e)
    \/ Activate(e)
    \/ EditFails(e)
    \/ Commit(e)
    \/ Invalidate(e)
    \/ InvalidateFails(e)

LoaderStep(l) ==
    \/ ReadTable(l)
    \/ FillCache(l)
    \/ EndLoad(l)

Next ==
    \/ \E e \in Editors : Deactivate(e) \/ EditorStep(e)
    \/ \E l \in Loaders : StartLoad(l) \/ LoaderStep(l)
    \/ Expire

Spec == Init /\ [][Next]_vars

\* Loads under way finish and a key with a TTL expires.
FairSpec ==
    /\ Spec
    /\ \A l \in Loaders : WF_vars(LoaderStep(l))
    /\ WF_vars(Expire)

----------------------------------------------------------------------------
(* Properties                                                              *)

TypeOK ==
    /\ versions \in Seq(Payloads)
    /\ active \subseteq Nat
    /\ activated \in Seq(Payloads)
    /\ cache \in 0 .. Len(activated) /\ expires \in BOOLEAN
    /\ \A e \in Editors :
        /\ editor[e].pc \in {"idle", "lock", "locked", "written", "invalidate"}
        /\ editor[e].seen \subseteq DOMAIN versions
    /\ \A l \in Loaders :
        /\ loader[l].pc \in {"idle", "read", "fill", "returned"}
        /\ loader[l].used \in 0 .. Len(activated)
    /\ live \in 0 .. Len(activated)

\* Whatever edits overlap, a tenant that has rules has one active version, and it
\* holds the rules of the edit that committed last.
OneActiveVersion ==
    versions # <<>> =>
        \E v \in DOMAIN versions : active = {v} /\ versions[v] = Last(activated)

\* Edits that overlap act one after the other on the versions: each commit saves or rolls
\* back as if it were alone, and none takes away what another had saved.
Register == INSTANCE RulesRegister
ImplementsRegister == Register!RegisterSpec

\* The rule that decides about an email is the one its priority and its place in the
\* list make first; the static matrix decides only when there is none.
DecisionIsFirstMatch ==
    \A l \in Loaders : loader[l].pc = "returned" /\ loader[l].used # 0 =>
        LET rules == RulesOf[activated[loader[l].used]]
            names == {j \in DOMAIN rules : rules[j].actions \cap
                        {"route_to", "apply_label", "hold_for_review"} # {}}
        IN  IF Decision(l) # 0
            THEN IsFirstMatch(rules, Decision(l))
            ELSE ~\E j \in names : IsFirstMatch(rules, j)

\* Stale rules do not stay in the cache for good: it ends up empty or with the rules of
\* the last commit, also after a lost invalidation or a late fill.
CacheCatchesUp == []<>(cache \in {0, Len(activated)})

\* rules.py:186 answers "Rules are live - next email will use updated rules": a load
\* that starts after the answer uses the rules of that edit or of a later one.
RulesAreLive ==
    \A l \in Loaders : loader[l].pc = "returned" /\ loader[l].used # 0 =>
        loader[l].used >= loader[l].since

=============================================================================
