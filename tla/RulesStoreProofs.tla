-------------------------- MODULE RulesStoreProofs --------------------------
(***************************************************************************)
(* Overlapping edits leave one active version, that of the last commit,    *)
(* and so act one after the other: TypeOK, OneActiveVersion and            *)
(* ImplementsRegister of RulesStore, for any editors, loaders, payloads    *)
(* and number of edits.  The rule that decides about an email is the first *)
(* match: DecisionIsFirstMatch, for any lists of rules.                    *)
(***************************************************************************)
EXTENDS RulesStore, FiniteSetTheorems, WellFoundedInduction, TLAPS

----------------------------------------------------------------------------
(* The inductive invariant.                                                *)

\* The records that stand for an edit and for a load.
Edits == [pc : {"idle", "lock", "locked", "written", "invalidate"},
          put : SUBSET Payloads, target : Nat, seen : SUBSET Nat, commit : Nat]
Loads == [pc : {"idle", "read", "fill", "returned"}, used : Nat, since : Nat]

RecordsOK ==
    /\ editor \in [Editors -> Edits]
    /\ loader \in [Loaders -> Loads]
    /\ \A e \in Editors : editor[e].commit <= Len(activated)

\* The unique index lets one edit at a time hold an entry that is not committed ...
OneWriter ==
    \A d, e \in Editors : editor[d].pc = "written" /\ editor[e].pc = "written" => d = e

\* ... and that edit has deactivated every other active row, and activates a row that
\* exists or that it inserts.
WriterHasTheIndex ==
    \A e \in Editors : editor[e].pc = "written" =>
        /\ ~IndexConflict(e)
        /\ IsPut(e) \/ Target(e) \in DOMAIN versions

\* Every copy in Redis has a TTL.
CopyExpires == cache # 0 => expires

RulesInv ==
    TypeOK /\ RecordsOK /\ OneWriter /\ WriterHasTheIndex /\ OneActiveVersion /\ CopyExpires

----------------------------------------------------------------------------

\* The database and Redis as they are set up.
LEMMA InitRulesInv == Init => RulesInv
<1> SUFFICES ASSUME Init PROVE RulesInv
    OBVIOUS
<1>1. /\ versions \in Seq(Payloads) /\ Len(versions) \in {0, 1}
      /\ active = 1 .. Len(versions) /\ activated = versions
      /\ versions # <<>> => Len(versions) = 1
    <2>1. CASE versions = <<>>
        BY <2>1 DEF Init
    <2>2. CASE \E p \in Payloads : versions = <<p>>
        BY <2>2 DEF Init
    <2> QED
        BY <2>1, <2>2 DEF Init
<1>2. /\ editor = [e \in Editors |-> Idle] /\ loader = [l \in Loaders |-> NotLoading]
      /\ cache = 0 /\ expires = FALSE /\ live = 0
    BY DEF Init
<1>3. TypeOK
    <2>1. /\ active \subseteq Nat /\ activated \in Seq(Payloads)
          /\ 0 \in 0 .. Len(activated)
        BY <1>1
    <2>2. \A e \in Editors : editor[e].pc = "idle" /\ editor[e].seen = {}
        BY <1>2 DEF Idle
    <2>3. \A l \in Loaders : loader[l].pc = "idle" /\ loader[l].used = 0
        BY <1>2 DEF NotLoading
    <2> QED
        BY <1>1, <1>2, <2>1, <2>2, <2>3 DEF TypeOK
<1>4. RecordsOK
    BY <1>1, <1>2 DEF RecordsOK, Edits, Loads, Idle, NotLoading
<1>5. OneWriter /\ WriterHasTheIndex
    BY <1>2 DEF OneWriter, WriterHasTheIndex, Idle
<1>6. OneActiveVersion
    <2> SUFFICES ASSUME versions # <<>>
                 PROVE  \E v \in DOMAIN versions : active = {v} /\ versions[v] = Last(activated)
        BY DEF OneActiveVersion
    <2>1. Len(versions) = 1 /\ 1 \in DOMAIN versions /\ active = {1}
        <3>1. Len(versions) = 1
            BY <1>1
        <3>2. active = 1 .. Len(versions) /\ versions \in Seq(Payloads)
            BY ONLY <1>1
        <3>4. DOMAIN versions = 1 .. Len(versions)
            BY ONLY <3>2
        <3>3. 1 .. 1 = {1}
            OBVIOUS
        <3> QED
            BY ONLY <3>1, <3>2, <3>3, <3>4
    <2>2. Last(activated) = versions[1]
        BY <1>1, <2>1 DEF Last
    <2> QED
        BY <2>1, <2>2
<1> QED
    BY <1>2, <1>3, <1>4, <1>5, <1>6 DEF RulesInv, CopyExpires

\* What becomes of Redis: it keeps or loses its copy, or it holds one that expires.
KeptOrLost ==
    \/ cache' = cache /\ expires' = expires
    \/ cache' = 0 /\ expires' = FALSE
GoodCopy == cache' \in 0 .. Len(activated) /\ expires' \in BOOLEAN /\ CopyExpires'

\* An edit that moves, but not to the index entry, disturbs nothing; Redis may lose its
\* copy meanwhile.
LEMMA EditorMoves ==
    ASSUME RulesInv, NEW e \in Editors, NEW r \in Edits, r.pc # "written",
           r.seen \subseteq DOMAIN versions, r.commit <= Len(activated),
           editor' = [editor EXCEPT ![e] = r],
           versions' = versions, active' = active, activated' = activated, loader' = loader,
           KeptOrLost, live' \in 0 .. Len(activated)
    PROVE  RulesInv'
<1>1. /\ TypeOK /\ RecordsOK /\ OneWriter /\ WriterHasTheIndex /\ OneActiveVersion
      /\ CopyExpires
    BY DEF RulesInv
<1>2. versions' = versions /\ active' = active /\ activated' = activated /\ loader' = loader
    OBVIOUS
<1>3. /\ editor' \in [Editors -> Edits]
      /\ \A d \in Editors : editor'[d] = IF d = e THEN r ELSE editor[d]
    BY <1>1 DEF RecordsOK
<1>4. GoodCopy
    <2>1. activated \in Seq(Payloads) /\ 0 \in 0 .. Len(activated)
        BY <1>1 DEF TypeOK
    <2> QED
        BY <1>1, <2>1 DEF TypeOK, CopyExpires, KeptOrLost, GoodCopy
<1>5. TypeOK'
    <2>1. \A d \in Editors : editor'[d].seen \subseteq DOMAIN versions
        BY <1>1, <1>3 DEF TypeOK
    <2>2. \A d \in Editors : editor'[d].pc \in {"idle", "lock", "locked", "written", "invalidate"}
        BY <1>3 DEF Edits
    <2> QED
        BY <1>1, <1>2, <1>4, <2>1, <2>2 DEF TypeOK, GoodCopy
<1>6. RecordsOK'
    BY <1>1, <1>2, <1>3 DEF RecordsOK
<1>7. OneWriter'
    BY <1>1, <1>3 DEF OneWriter
<1>8. WriterHasTheIndex'
    <2> SUFFICES ASSUME NEW d \in Editors, editor'[d].pc = "written"
                 PROVE  ~IndexConflict(d)' /\ (IsPut(d)' \/ Target(d)' \in DOMAIN versions')
        BY DEF WriterHasTheIndex
    <2>1. editor'[d] = editor[d]
        BY <1>3
    <2> QED
        BY <1>1, <1>2, <2>1 DEF WriterHasTheIndex, IndexConflict, IsPut, Target
<1>9. OneActiveVersion' /\ CopyExpires'
    BY <1>1, <1>2, <1>4 DEF OneActiveVersion, GoodCopy
<1> QED
    BY <1>5, <1>6, <1>7, <1>8, <1>9 DEF RulesInv

\* Nothing disturbs the table when only loads and Redis move.
LEMMA LoaderMoves ==
    ASSUME RulesInv, versions' = versions, active' = active, activated' = activated,
           editor' = editor, live' = live,
           loader' \in [Loaders -> Loads],
           \A l \in Loaders : loader'[l].used \in 0 .. Len(activated),
           GoodCopy
    PROVE  RulesInv'
<1>1. /\ TypeOK /\ RecordsOK /\ OneWriter /\ WriterHasTheIndex /\ OneActiveVersion
    BY DEF RulesInv
<1>2. /\ versions' = versions /\ active' = active /\ activated' = activated
      /\ editor' = editor /\ live' = live
    OBVIOUS
<1>3. \A l \in Loaders : loader'[l].pc \in {"idle", "read", "fill", "returned"}
    BY DEF Loads
<1>4. TypeOK'
    BY <1>1, <1>2, <1>3 DEF TypeOK, GoodCopy
<1>5. RecordsOK' /\ OneWriter' /\ OneActiveVersion' /\ CopyExpires'
    BY <1>1, <1>2 DEF RecordsOK, OneWriter, OneActiveVersion, GoodCopy
<1>6. WriterHasTheIndex'
    BY <1>1, <1>2 DEF WriterHasTheIndex, IndexConflict, IsPut, Target
<1> QED
    BY <1>4, <1>5, <1>6 DEF RulesInv

\* The edit that enters the index is alone there and conflicts with no active row.
LEMMA ActivateRulesInv ==
    ASSUME RulesInv, NEW e \in Editors, Activate(e)
    PROVE  RulesInv'
<1>1. /\ TypeOK /\ RecordsOK /\ OneWriter /\ WriterHasTheIndex /\ OneActiveVersion
      /\ CopyExpires
    BY DEF RulesInv
<1>2. /\ versions' = versions /\ active' = active /\ activated' = activated
      /\ loader' = loader /\ live' = live /\ cache' = cache /\ expires' = expires
    BY DEF Activate, tableVars, cacheVars, KeptOrLost
<1>3. /\ editor' \in [Editors -> Edits]
      /\ \A d \in Editors : d # e => editor'[d] = editor[d]
      /\ editor'[e] = [editor[e] EXCEPT !.pc = "written"]
      /\ editor'[e].seen = editor[e].seen /\ editor'[e].put = editor[e].put
      /\ editor'[e].target = editor[e].target /\ editor'[e].commit = editor[e].commit
    BY <1>1 DEF RecordsOK, Edits, Activate
<1>4. \A d \in Editors : IsPut(d)' = IsPut(d) /\ Target(d)' = Target(d)
                         /\ IndexConflict(d)' = IndexConflict(d)
    <2> SUFFICES ASSUME NEW d \in Editors
                 PROVE  /\ IsPut(d)' = IsPut(d) /\ Target(d)' = Target(d)
                        /\ IndexConflict(d)' = IndexConflict(d)
        OBVIOUS
    <2>1. /\ editor'[d].seen = editor[d].seen /\ editor'[d].put = editor[d].put
          /\ editor'[d].target = editor[d].target
        BY <1>3
    <2> QED
        BY <1>2, <2>1 DEF IsPut, Target, IndexConflict
<1>5. TypeOK'
    <2>1. \A d \in Editors :
            /\ editor'[d].seen \subseteq DOMAIN versions
            /\ editor'[d].pc \in {"idle", "lock", "locked", "written", "invalidate"}
        BY <1>1, <1>3 DEF TypeOK, Edits
    <2> QED
        BY <1>1, <1>2, <2>1 DEF TypeOK
<1>6. RecordsOK'
    BY <1>1, <1>2, <1>3 DEF RecordsOK
<1>7. OneWriter'
    BY <1>3 DEF OneWriter, Activate
<1>8. WriterHasTheIndex'
    BY <1>1, <1>2, <1>3, <1>4 DEF WriterHasTheIndex, Activate
<1>9. OneActiveVersion' /\ CopyExpires'
    BY <1>1, <1>2 DEF OneActiveVersion, CopyExpires
<1> QED
    BY <1>5, <1>6, <1>7, <1>8, <1>9 DEF RulesInv

\* The commit leaves the row that it activates as the only active one.
LEMMA CommitRulesInv ==
    ASSUME RulesInv, NEW e \in Editors, Commit(e)
    PROVE  RulesInv'
<1>1. /\ TypeOK /\ RecordsOK /\ OneWriter /\ WriterHasTheIndex /\ CopyExpires
    BY DEF RulesInv
<1> DEFINE t == Target(e)
<1>2. /\ versions \in Seq(Payloads) /\ activated \in Seq(Payloads) /\ editor[e] \in Edits
    BY <1>1 DEF TypeOK, RecordsOK
<1>3. /\ versions' \in Seq(Payloads) /\ Len(versions') \in Nat
      /\ DOMAIN versions \subseteq DOMAIN versions' /\ t \in DOMAIN versions'
    <2>1. CASE IsPut(e)
        <3>1. (CHOOSE p \in editor[e].put : TRUE) \in Payloads
            BY <1>2, <2>1 DEF IsPut, Edits
        <3>2. versions' = Append(versions, CHOOSE p \in editor[e].put : TRUE)
            BY <2>1 DEF Commit
        <3>3. t = Len(versions) + 1
            BY <2>1 DEF Target
        <3> HIDE DEF t
        <3> QED
            BY <1>2, <3>1, <3>2, <3>3
    <2>2. CASE ~IsPut(e)
        <3>1. versions' = versions
            BY <2>2 DEF Commit
        <3>2. t \in DOMAIN versions
            BY <1>1, <2>2 DEF WriterHasTheIndex, Commit
        <3> HIDE DEF t
        <3> QED
            BY <1>2, <3>1, <3>2
    <2> QED
        BY <2>1, <2>2
<1>4. active' = {t}
    <2>1. active \ (editor[e].seen \cup {t}) = {}
        BY <1>1 DEF WriterHasTheIndex, IndexConflict, Commit
    <2> QED
        BY <2>1 DEF Commit
<1>5. /\ activated' \in Seq(Payloads) /\ Len(activated') = Len(activated) + 1
      /\ Last(activated') = versions'[t]
    <2>1. activated' = Append(activated, versions'[t])
        BY DEF Commit
    <2>2. versions'[t] \in Payloads
        BY <1>3
    <2> HIDE DEF t
    <2> QED
        BY <1>2, <2>1, <2>2 DEF Last
<1> HIDE DEF t
<1>6. cache' = cache /\ expires' = expires /\ loader' = loader /\ live' = live
    BY DEF Commit, cacheVars
<1>7. /\ editor' \in [Editors -> Edits]
      /\ \A d \in Editors : d # e => editor'[d] = editor[d]
      /\ editor'[e].pc = "invalidate" /\ editor'[e].seen = editor[e].seen
      /\ editor'[e].commit = Len(activated')
    <2>1. Len(activated') \in Nat
        BY <1>5
    <2>2. editor' = [editor EXCEPT ![e].pc = "invalidate", ![e].commit = Len(activated')]
        BY DEF Commit
    <2>3. [editor[e] EXCEPT !.pc = "invalidate", !.commit = Len(activated')] \in Edits
        BY <1>2, <2>1 DEF Edits
    <2>4. editor \in [Editors -> Edits]
        BY <1>1 DEF RecordsOK
    <2> QED
        BY <2>1, <2>2, <2>3, <2>4 DEF Edits
<1>8. Len(activated) \in Nat /\ 0 .. Len(activated) \subseteq 0 .. Len(activated')
    BY <1>2, <1>5
<1>9. TypeOK'
    <2>1. active' \subseteq Nat
        BY <1>3, <1>4
    <2>2. \A d \in Editors :
            /\ editor'[d].pc \in {"idle", "lock", "locked", "written", "invalidate"}
            /\ editor'[d].seen \subseteq DOMAIN versions'
        BY <1>1, <1>3, <1>7 DEF TypeOK
    <2>3. \A l \in Loaders :
            /\ loader'[l].pc \in {"idle", "read", "fill", "returned"}
            /\ loader'[l].used \in 0 .. Len(activated')
        BY <1>1, <1>6, <1>8 DEF TypeOK
    <2>4. cache' \in 0 .. Len(activated') /\ expires' \in BOOLEAN /\ live' \in 0 .. Len(activated')
        BY <1>1, <1>6, <1>8 DEF TypeOK
    <2> QED
        BY <1>3, <1>5, <2>1, <2>2, <2>3, <2>4 DEF TypeOK
<1>10. RecordsOK'
    <2>1. \A d \in Editors : editor'[d].commit <= Len(activated')
        <3> SUFFICES ASSUME NEW d \in Editors PROVE editor'[d].commit <= Len(activated')
            OBVIOUS
        <3>1. editor[d].commit \in Nat /\ editor[d].commit <= Len(activated)
            BY <1>1 DEF RecordsOK, Edits
        <3> QED
            BY <1>5, <1>7, <1>8, <3>1
    <2> QED
        BY <1>1, <1>6, <1>7, <2>1 DEF RecordsOK
<1>11. OneWriter' /\ WriterHasTheIndex'
    <2>1. \A d \in Editors : editor'[d].pc # "written"
        BY <1>1, <1>7 DEF OneWriter, Commit
    <2> QED
        BY <2>1 DEF OneWriter, WriterHasTheIndex
<1>12. OneActiveVersion'
    BY <1>3, <1>4, <1>5 DEF OneActiveVersion
<1>13. CopyExpires'
    BY <1>1, <1>6 DEF CopyExpires
<1> QED
    BY <1>9, <1>10, <1>11, <1>12, <1>13 DEF RulesInv

\* Every step keeps the invariant.
LEMMA NextRulesInv == RulesInv /\ [Next]_vars => RulesInv'
<1> SUFFICES ASSUME RulesInv, [Next]_vars PROVE RulesInv'
    OBVIOUS
<1>0. TypeOK /\ RecordsOK /\ CopyExpires
    BY DEF RulesInv
<1>1. /\ versions \in Seq(Payloads) /\ Len(activated) \in Nat /\ live \in 0 .. Len(activated)
      /\ cache \in 0 .. Len(activated) /\ expires \in BOOLEAN
      /\ \A e \in Editors : /\ editor[e] \in Edits /\ editor[e].seen \subseteq DOMAIN versions
                            /\ editor[e].commit <= Len(activated)
      /\ loader \in [Loaders -> Loads]
      /\ \A l \in Loaders : loader[l].used \in 0 .. Len(activated)
    BY <1>0 DEF TypeOK, RecordsOK
<1>2. Idle \in Edits /\ Idle.pc = "idle" /\ Idle.seen = {} /\ Idle.commit = 0
    BY DEF Idle, Edits
<1>3. ASSUME NEW e \in Editors, Deactivate(e)
      PROVE  RulesInv'
    <2>1. DOMAIN versions \subseteq Nat
        BY <1>1
    <2>2. PICK r \in Edits :
            /\ editor' = [editor EXCEPT ![e] = r]
            /\ r.pc = "lock" /\ r.seen = DOMAIN versions /\ r.commit = 0
        <3>1. CASE \E p \in Payloads :
                    editor' = [editor EXCEPT ![e] = [Idle EXCEPT
                        !.pc = "lock", !.put = {p}, !.seen = DOMAIN versions]]
            <4>1. PICK p \in Payloads :
                    editor' = [editor EXCEPT ![e] = [Idle EXCEPT
                        !.pc = "lock", !.put = {p}, !.seen = DOMAIN versions]]
                BY <3>1
            <4> DEFINE r == [Idle EXCEPT !.pc = "lock", !.put = {p}, !.seen = DOMAIN versions]
            <4>2. r \in Edits /\ r.pc = "lock" /\ r.seen = DOMAIN versions /\ r.commit = 0
                BY <2>1 DEF Idle, Edits
            <4> QED
                BY <4>1, <4>2
        <3>2. CASE \E v \in 1 .. MaxEdits :
                    editor' = [editor EXCEPT ![e] = [Idle EXCEPT
                        !.pc = "lock", !.target = v, !.seen = DOMAIN versions]]
            <4>1. PICK v \in 1 .. MaxEdits :
                    editor' = [editor EXCEPT ![e] = [Idle EXCEPT
                        !.pc = "lock", !.target = v, !.seen = DOMAIN versions]]
                BY <3>2
            <4> DEFINE r == [Idle EXCEPT !.pc = "lock", !.target = v, !.seen = DOMAIN versions]
            <4>2. r \in Edits /\ r.pc = "lock" /\ r.seen = DOMAIN versions /\ r.commit = 0
                <5>1. v \in Nat
                    BY RulesAssumption
                <5> QED
                    BY <2>1, <5>1 DEF Idle, Edits
            <4> QED
                BY <4>1, <4>2
        <3> QED
            BY <1>3, <3>1, <3>2 DEF Deactivate
    <2>3. r.pc # "written" /\ r.seen \subseteq DOMAIN versions /\ r.commit <= Len(activated)
        BY <1>1, <2>2
    <2>4. /\ versions' = versions /\ active' = active /\ activated' = activated /\ loader' = loader
          /\ live' \in 0 .. Len(activated)
        BY <1>1, <1>3 DEF Deactivate, tableVars
    <2>5. KeptOrLost
        BY <1>3 DEF Deactivate, cacheVars, KeptOrLost
    <2> QED
        BY ONLY RulesInv, e \in Editors, r \in Edits, <2>2, <2>3, <2>4, <2>5, EditorMoves
<1>4. ASSUME NEW e \in Editors, GetLocks(e)
      PROVE  RulesInv'
    <2> DEFINE r == [editor[e] EXCEPT !.pc = "locked"]
    <2>1. /\ r \in Edits /\ r.pc = "locked"
          /\ r.seen = editor[e].seen /\ r.commit = editor[e].commit
        BY <1>1 DEF Edits
    <2>2. editor' = [editor EXCEPT ![e] = r]
        BY <1>4 DEF GetLocks
    <2> HIDE DEF r
    <2>3. r.pc # "written" /\ r.seen \subseteq DOMAIN versions /\ r.commit <= Len(activated)
        BY <1>1, <2>1
    <2>4. /\ versions' = versions /\ active' = active /\ activated' = activated /\ loader' = loader
          /\ live' \in 0 .. Len(activated)
        BY <1>1, <1>4 DEF GetLocks, tableVars
    <2>5. KeptOrLost
        BY <1>4 DEF GetLocks, cacheVars, KeptOrLost
    <2> QED
        BY ONLY RulesInv, e \in Editors, <2>1, <2>2, <2>3, <2>4, <2>5, EditorMoves
<1>5. ASSUME NEW e \in Editors, Activate(e)
      PROVE  RulesInv'
    BY <1>5, ActivateRulesInv
<1>6. ASSUME NEW e \in Editors, EditFails(e) \/ InvalidateFails(e)
      PROVE  RulesInv'
    <2>1. Idle.pc # "written" /\ Idle.seen \subseteq DOMAIN versions /\ Idle.commit <= Len(activated)
        BY <1>1, <1>2
    <2>2. /\ editor' = [editor EXCEPT ![e] = Idle]
          /\ versions' = versions /\ active' = active /\ activated' = activated /\ loader' = loader
          /\ live' \in 0 .. Len(activated)
        BY <1>1, <1>6 DEF EditFails, InvalidateFails, tableVars
    <2>3. KeptOrLost
        BY <1>6 DEF EditFails, InvalidateFails, cacheVars, KeptOrLost
    <2> QED
        BY ONLY RulesInv, e \in Editors, <1>2, <2>1, <2>2, <2>3, EditorMoves
<1>7. ASSUME NEW e \in Editors, Commit(e)
      PROVE  RulesInv'
    BY <1>7, CommitRulesInv
<1>8. ASSUME NEW e \in Editors, Invalidate(e)
      PROVE  RulesInv'
    <2>1. editor[e].commit \in Nat
        BY <1>1 DEF Edits
    <2>2. live' \in 0 .. Len(activated)
        BY <1>1, <1>8, <2>1 DEF Invalidate
    <2>3. Idle.pc # "written" /\ Idle.seen \subseteq DOMAIN versions /\ Idle.commit <= Len(activated)
        BY <1>1, <1>2
    <2>4. /\ editor' = [editor EXCEPT ![e] = Idle]
          /\ versions' = versions /\ active' = active /\ activated' = activated /\ loader' = loader
          /\ KeptOrLost
        BY <1>8 DEF Invalidate, tableVars, KeptOrLost
    <2> QED
        BY ONLY RulesInv, e \in Editors, <1>2, <2>2, <2>3, <2>4, EditorMoves
<1>9. ASSUME NEW l \in Loaders, StartLoad(l) \/ LoaderStep(l)
      PROVE  RulesInv'
    <2>1. loader[l] \in Loads
        BY <1>1
    <2>2. PICK r \in Loads :
            /\ loader' = [loader EXCEPT ![l] = r]
            /\ r.used \in 0 .. Len(activated)
        <3>1. CASE StartLoad(l)
            <4>1. [pc |-> "returned", used |-> cache, since |-> live] \in Loads
                BY <1>1 DEF Loads
            <4>2. /\ [NotLoading EXCEPT !.pc = "read", !.since = live] \in Loads
                  /\ [NotLoading EXCEPT !.pc = "read", !.since = live].used = 0
                <5>1. live \in Nat
                    BY <1>1
                <5> QED
                    BY <5>1 DEF Loads, NotLoading
            <4>3. 0 \in 0 .. Len(activated)
                BY <1>1
            <4>4. [pc |-> "returned", used |-> cache, since |-> live].used = cache
                OBVIOUS
            <4> QED
                BY <1>1, <3>1, <4>1, <4>2, <4>3, <4>4 DEF StartLoad
        <3>2. CASE ReadTable(l)
            <4>1. \A n \in 0 .. Len(activated), p \in {"fill", "returned"} :
                    /\ [loader[l] EXCEPT !.pc = p, !.used = n] \in Loads
                    /\ [loader[l] EXCEPT !.pc = p, !.used = n].used = n
                <5>1. \A n \in 0 .. Len(activated) : n \in Nat
                    BY <1>1
                <5> QED
                    BY <2>1, <5>1 DEF Loads
            <4>2. Len(activated) \in 0 .. Len(activated) /\ 0 \in 0 .. Len(activated)
                BY <1>1
            <4>3. \/ loader' = [loader EXCEPT
                        ![l] = [loader[l] EXCEPT !.pc = "fill", !.used = Len(activated)]]
                  \/ loader' = [loader EXCEPT
                        ![l] = [loader[l] EXCEPT !.pc = "returned", !.used = 0]]
                BY <1>1, <3>2 DEF ReadTable, Return
            <4> QED
                BY <4>1, <4>2, <4>3
        <3>3. CASE FillCache(l)
            <4> DEFINE r == [loader[l] EXCEPT !.pc = "returned", !.used = loader[l].used]
            <4>1. r \in Loads /\ r.used = loader[l].used
                BY <2>1 DEF Loads
            <4>2. loader' = [loader EXCEPT ![l] = r]
                BY <1>1, <3>3 DEF FillCache, Return
            <4> QED
                BY <1>1, <4>1, <4>2
        <3>4. CASE EndLoad(l)
            <4>1. NotLoading \in Loads /\ NotLoading.used = 0
                BY DEF NotLoading, Loads
            <4>2. loader' = [loader EXCEPT ![l] = NotLoading] /\ 0 \in 0 .. Len(activated)
                BY <1>1, <3>4 DEF EndLoad
            <4> QED
                BY <4>1, <4>2
        <3> QED
            BY <1>9, <3>1, <3>2, <3>3, <3>4 DEF LoaderStep
    <2>3. /\ loader' \in [Loaders -> Loads]
          /\ \A k \in Loaders : loader'[k].used \in 0 .. Len(activated)
        BY <1>1, <2>2
    <2>4. GoodCopy
        BY <1>0, <1>1, <1>9 DEF StartLoad, LoaderStep, ReadTable, FillCache, EndLoad, cacheVars,
                                CopyExpires, GoodCopy
    <2>5. /\ versions' = versions /\ active' = active /\ activated' = activated
          /\ editor' = editor /\ live' = live
        BY <1>9 DEF StartLoad, LoaderStep, ReadTable, FillCache, EndLoad, tableVars
    <2> QED
        BY ONLY RulesInv, <2>3, <2>4, <2>5, LoaderMoves
<1>10. CASE Expire
    <2>1. /\ versions' = versions /\ active' = active /\ activated' = activated
          /\ editor' = editor /\ live' = live /\ loader' = loader
        BY <1>1, <1>10 DEF Expire, tableVars
    <2>2. /\ loader' \in [Loaders -> Loads]
          /\ \A l \in Loaders : loader'[l].used \in 0 .. Len(activated)
        BY <1>1, <2>1
    <2>3. GoodCopy
        <3>1. cache' = 0 /\ expires' = FALSE /\ 0 \in 0 .. Len(activated)
            BY <1>1, <1>10 DEF Expire
        <3> QED
            BY <3>1 DEF GoodCopy, CopyExpires
    <2> QED
        BY ONLY RulesInv, <2>1, <2>2, <2>3, LoaderMoves
<1>11. CASE UNCHANGED vars
    <2>1. /\ versions' = versions /\ active' = active /\ activated' = activated
          /\ editor' = editor /\ live' = live
          /\ loader' = loader
        BY <1>11 DEF vars, tableVars
    <2>2. /\ loader' \in [Loaders -> Loads]
          /\ \A l \in Loaders : loader'[l].used \in 0 .. Len(activated)
        BY <1>1, <2>1
    <2>3. GoodCopy
        <3>1. cache' = cache /\ expires' = expires
            BY <1>11 DEF vars, cacheVars
        <3> QED
            BY <1>0, <1>1, <3>1 DEF GoodCopy, CopyExpires
    <2> QED
        BY ONLY RulesInv, <2>1, <2>2, <2>3, LoaderMoves
<1> QED
    BY <1>3, <1>4, <1>5, <1>6, <1>7, <1>8, <1>9, <1>10, <1>11 DEF Next, EditorStep

\* The invariant holds in every reachable state.
LEMMA RulesInvariant == Spec => []RulesInv
BY InitRulesInv, NextRulesInv, PTL DEF Spec

\* The table, the cache and the requests stay well formed under any overlap of edits.
THEOREM RulesTyping == Spec => []TypeOK
<1>1. RulesInv => TypeOK
    BY DEF RulesInv
<1> QED
    BY <1>1, RulesInvariant, PTL

\* A tenant that has rules has one active version, and it holds the rules of the edit
\* that committed last, however PUT and rollback requests overlap.
THEOREM RulesOneActiveVersion == Spec => []OneActiveVersion
<1>1. RulesInv => OneActiveVersion
    BY DEF RulesInv
<1> QED
    BY <1>1, RulesInvariant, PTL

----------------------------------------------------------------------------
(* The table implements RulesRegister.                                     *)

LEMMA RegisterStarts == Init => Register!RegisterInit
BY DEF Init, Register!RegisterInit

\* A commit is a save or a rollback: no other row stays active, because the index lets
\* none in that the edit has not deactivated.
LEMMA CommitRefines ==
    ASSUME RulesInv, NEW e \in Editors, Commit(e)
    PROVE  Register!RegisterNext
<1>1. /\ editor[e] \in Edits /\ ~IndexConflict(e) /\ versions \in Seq(Payloads)
      /\ IsPut(e) \/ Target(e) \in DOMAIN versions
    BY DEF RulesInv, TypeOK, RecordsOK, WriterHasTheIndex, Commit
<1>2. active' = {Target(e)}
    <2>1. active \ (editor[e].seen \cup {Target(e)}) = {}
        BY <1>1 DEF IndexConflict
    <2> QED
        BY <2>1 DEF Commit
<1>3. CASE IsPut(e)
    <2> DEFINE p == CHOOSE q \in editor[e].put : TRUE
    <2>1. p \in Payloads /\ versions' = Append(versions, p) /\ Target(e) = Len(versions) + 1
        BY <1>1, <1>3 DEF Commit, IsPut, Edits, Target
    <2> HIDE DEF p
    <2>2. versions'[Len(versions) + 1] = p
        BY <1>1, <2>1
    <2>3. activated' = Append(activated, p)
        BY <2>1, <2>2 DEF Commit
    <2>4. Register!Save(p)
        BY <1>2, <2>1, <2>3 DEF Register!Save
    <2> QED
        BY <2>1, <2>4 DEF Register!RegisterNext
<1>4. CASE ~IsPut(e)
    <2>1. /\ versions' = versions /\ Target(e) \in DOMAIN versions
          /\ activated' = Append(activated, versions[Target(e)])
        BY <1>1, <1>4 DEF Commit
    <2>2. Register!RollBack(Target(e))
        BY <1>2, <2>1 DEF Register!RollBack
    <2> QED
        BY <2>1, <2>2 DEF Register!RegisterNext
<1> QED
    BY <1>3, <1>4

\* Every other step leaves the table as it is.
LEMMA RegisterSteps == RulesInv /\ [Next]_vars => [Register!RegisterNext]_(Register!registerVars)
<1> SUFFICES ASSUME RulesInv, [Next]_vars
             PROVE  Register!RegisterNext \/ UNCHANGED Register!registerVars
    OBVIOUS
<1>1. CASE \E e \in Editors : Commit(e)
    BY <1>1, CommitRefines
<1>2. CASE UNCHANGED <<versions, active, activated>>
    BY <1>2 DEF Register!registerVars
<1>3. (\E e \in Editors : Commit(e)) \/ UNCHANGED <<versions, active, activated>>
    BY DEF Next, vars, EditorStep, LoaderStep, Deactivate, GetLocks, Activate, EditFails,
           Invalidate, InvalidateFails, StartLoad, ReadTable, FillCache, EndLoad, Expire,
           tableVars
<1> QED
    BY <1>1, <1>2, <1>3

\* ImplementsRegister of RulesStore: whatever transactions of PUT and rollback requests
\* overlap at READ COMMITTED, fail or are rolled back, their commits are the steps of a
\* register that is written one edit at a time.
THEOREM RulesImplementRegister == Spec => ImplementsRegister
BY RegisterStarts, RegisterSteps, RulesInvariant, PTL
   DEF Spec, ImplementsRegister, Register!RegisterSpec

----------------------------------------------------------------------------
(* The evaluation of a list of rules.                                      *)

\* A nonempty set of natural numbers has a least element.
LEMMA LeastNumber ==
    ASSUME NEW I \in SUBSET Nat, I # {}
    PROVE  \E x \in I : \A y \in I : x <= y
<1> DEFINE R == {p \in Nat \X Nat : p[1] < p[2]}
<1>1. IsWellFoundedOn(R, Nat)
    BY NatLessThanWellFounded DEF OpToRel
<1>2. PICK x \in I : \A y \in I : <<y, x>> \notin R
    BY <1>1, WFMin
<1>3. ASSUME NEW y \in I
      PROVE  x <= y
    <2>1. x \in Nat /\ y \in Nat /\ <<y, x>> \notin R
        BY <1>2
    <2>2. y < x => <<y, x>> \in R
        BY <2>1
    <2> QED
        BY <2>1, <2>2
<1> QED
    BY <1>3

\* The ranks are numbers, so Before orders the rules of a list totally.
LEMMA RankType == \A rule : Rank(rule) \in 0..3
BY DEF Rank

LEMMA BeforeOrders ==
    ASSUME NEW rules \in Seq(Rules)
    PROVE  \A i, j, k \in DOMAIN rules :
              /\ ~ Before(rules, i, i)
              /\ Before(rules, i, j) => ~ Before(rules, j, i)
              /\ Before(rules, i, j) /\ Before(rules, j, k) => Before(rules, i, k)
              /\ i # j => Before(rules, i, j) \/ Before(rules, j, i)
<1> SUFFICES ASSUME NEW i \in DOMAIN rules, NEW j \in DOMAIN rules, NEW k \in DOMAIN rules
             PROVE  /\ ~ Before(rules, i, i)
                    /\ Before(rules, i, j) => ~ Before(rules, j, i)
                    /\ Before(rules, i, j) /\ Before(rules, j, k) => Before(rules, i, k)
                    /\ i # j => Before(rules, i, j) \/ Before(rules, j, i)
    OBVIOUS
<1>1. i \in Nat /\ j \in Nat /\ k \in Nat
    OBVIOUS
<1>2. Rank(rules[i]) \in 0..3 /\ Rank(rules[j]) \in 0..3 /\ Rank(rules[k]) \in 0..3
    BY RankType
<1> QED
    BY <1>1, <1>2 DEF Before

\* An order is stably sorted when it goes from a rule to a later one.
LEMMA SortedIsBefore ==
    ASSUME NEW rules \in Seq(Rules), NEW n \in Nat,
           NEW order \in [1..n -> ActiveRules(rules)]
    PROVE  StablySorted(rules, order) <=>
              \A p, q \in 1..n : p < q => Before(rules, order[p], order[q])
<1>1. ASSUME NEW p \in 1..n, NEW q \in 1..n
      PROVE  Before(rules, order[p], order[q]) <=>
                /\ Rank(rules[order[p]]) <= Rank(rules[order[q]])
                /\ Rank(rules[order[p]]) = Rank(rules[order[q]]) => order[p] < order[q]
    <2>1. Rank(rules[order[p]]) \in 0..3 /\ Rank(rules[order[q]]) \in 0..3
        BY RankType
    <2>2. order[p] \in Nat /\ order[q] \in Nat
        BY DEF ActiveRules
    <2> QED
        BY <2>1, <2>2 DEF Before
<1> QED
    BY <1>1 DEF StablySorted

LEMMA ActiveRulesFinite ==
    ASSUME NEW rules \in Seq(Rules)
    PROVE  IsFiniteSet(ActiveRules(rules)) /\ Cardinality(ActiveRules(rules)) \in Nat
<1>1. IsFiniteSet(1..Len(rules))
    BY FS_Interval
<1>2. ActiveRules(rules) \in SUBSET (1..Len(rules))
    BY DEF ActiveRules
<1> QED
    BY <1>1, <1>2, FS_Subset, FS_CardinalityType

\* The sort exists: each active rule has its place behind those before it, and there
\* are as many places as rules.
LEMMA SortExists ==
    ASSUME NEW rules \in Seq(Rules)
    PROVE  \E order \in [1..Cardinality(ActiveRules(rules)) -> ActiveRules(rules)] :
              StablySorted(rules, order)
<1> DEFINE A == ActiveRules(rules)
           n == Cardinality(A)
           earlier(i) == {j \in A : Before(rules, j, i)}
           count(i) == Cardinality(earlier(i))
           place == [i \in A |-> count(i) + 1]
<1>1. IsFiniteSet(A) /\ n \in Nat /\ A \subseteq DOMAIN rules
    BY ActiveRulesFinite DEF ActiveRules
<1> HIDE DEF A, n
<1>2. ASSUME NEW i \in A
      PROVE  /\ IsFiniteSet(earlier(i)) /\ Cardinality(earlier(i)) \in Nat
             /\ Cardinality(earlier(i)) < n
    <2>1. earlier(i) \in SUBSET A /\ i \notin earlier(i)
        BY <1>1, BeforeOrders
    <2>2. /\ IsFiniteSet(earlier(i)) /\ Cardinality(earlier(i)) <= n
          /\ Cardinality(earlier(i)) # n
        BY <1>1, <2>1, FS_Subset DEF n
    <2> QED
        BY <1>1, <2>2, FS_CardinalityType
<1>3. ASSUME NEW i \in A, NEW j \in A, Before(rules, i, j)
      PROVE  place[i] < place[j]
    <2>1. earlier(i) \in SUBSET earlier(j) /\ i \in earlier(j) /\ i \notin earlier(i)
        BY <1>1, <1>3, BeforeOrders
    <2>2. /\ Cardinality(earlier(i)) <= Cardinality(earlier(j))
          /\ Cardinality(earlier(i)) # Cardinality(earlier(j))
        BY <1>2, <2>1, FS_Subset
    <2>3. count(i) \in Nat /\ count(j) \in Nat
        BY <1>2
    <2>4. place[i] = count(i) + 1 /\ place[j] = count(j) + 1
        OBVIOUS
    <2> HIDE DEF place, count
    <2>5. count(i) <= count(j) /\ count(i) # count(j)
        BY <2>2 DEF count
    <2> QED
        BY <2>3, <2>4, <2>5
<1>4. place \in [A -> 1..n]
    <2>1. \A i \in A : count(i) \in Nat /\ count(i) < n
        BY <1>2
    <2> HIDE DEF count
    <2>2. \A i \in A : count(i) + 1 \in 1..n
        BY <1>1, <2>1
    <2> QED
        BY <2>2
<1>5. \A i, j \in A : place[i] = place[j] => i = j
    <2> SUFFICES ASSUME NEW i \in A, NEW j \in A, i # j
                 PROVE  place[i] # place[j]
        OBVIOUS
    <2>1. place[i] < place[j] \/ place[j] < place[i]
        BY <1>1, <1>3, BeforeOrders
    <2>2. place[i] \in Nat /\ place[j] \in Nat
        BY <1>4
    <2> QED
        BY <2>1, <2>2
<1> HIDE DEF place
<1>6. place \in Surjection(A, 1..n)
    <2>1. IsFiniteSet(1..n) /\ Cardinality(1..n) = n
        BY <1>1, FS_Interval
    <2>2. place \in Injection(A, 1..n)
        BY <1>4, <1>5 DEF Injection, IsInjective
    <2> QED
        BY <1>1, <2>1, <2>2, FS_Injection DEF n
<1> DEFINE order == [p \in 1..n |-> CHOOSE i \in A : place[i] = p]
<1>7. \A p \in 1..n : order[p] \in A /\ place[order[p]] = p
    BY <1>6 DEF Surjection
<1>8. order \in [1..n -> A]
    BY <1>7
<1> HIDE DEF order
<1>9. ASSUME NEW p \in 1..n, NEW q \in 1..n, p < q
      PROVE  Before(rules, order[p], order[q])
    <2>1. order[p] # order[q] /\ ~ (place[order[q]] < place[order[p]])
        BY <1>7, <1>9
    <2> QED
        BY <1>1, <1>3, <1>7, <2>1, BeforeOrders
<1> QED
    BY <1>1, <1>8, <1>9, SortedIsBefore DEF A, n

\* What sorted returns: the active rules, each of them, every rule behind those before it.
LEMMA EvaluationOrderSorts ==
    ASSUME NEW rules \in Seq(Rules)
    PROVE  \E n \in Nat :
              /\ EvaluationOrder(rules) \in [1..n -> ActiveRules(rules)]
              /\ \A p, q \in 1..n :
                    p < q => Before(rules, EvaluationOrder(rules)[p], EvaluationOrder(rules)[q])
              /\ \A i \in ActiveRules(rules) : \E p \in 1..n : EvaluationOrder(rules)[p] = i
<1> DEFINE A == ActiveRules(rules)
           n == Cardinality(A)
           order == EvaluationOrder(rules)
<1>1. IsFiniteSet(A) /\ n \in Nat /\ A \subseteq DOMAIN rules
    BY ActiveRulesFinite DEF ActiveRules
<1>2. order \in [1..n -> A] /\ StablySorted(rules, order)
    BY SortExists DEF EvaluationOrder
<1> HIDE DEF A, n, order
<1>3. \A p, q \in 1..n : p < q => Before(rules, order[p], order[q])
    BY <1>1, <1>2, SortedIsBefore DEF A
<1>4. \A p, q \in 1..n : order[p] = order[q] => p = q
    <2> SUFFICES ASSUME NEW p \in 1..n, NEW q \in 1..n, p # q
                 PROVE  order[p] # order[q]
        OBVIOUS
    <2>1. p < q \/ q < p
        BY <1>1
    <2>2. order[p] \in DOMAIN rules /\ order[q] \in DOMAIN rules
        BY <1>1, <1>2
    <2> QED
        BY <1>3, <2>1, <2>2, BeforeOrders
<1>5. order \in Surjection(1..n, A)
    <2>1. IsFiniteSet(1..n) /\ Cardinality(1..n) = n
        BY <1>1, FS_Interval
    <2>2. order \in Injection(1..n, A)
        BY <1>2, <1>4 DEF Injection, IsInjective
    <2> QED
        BY <1>1, <2>1, <2>2, FS_Injection DEF n
<1> QED
    BY <1>1, <1>2, <1>3, <1>5 DEF Surjection, A, order

\* The rule evaluate returns is the first match, and if it returns none there is none.
LEMMA EvaluateIsFirstMatch ==
    ASSUME NEW rules \in Seq(Rules)
    PROVE  IF Evaluate(rules) # 0
           THEN Evaluate(rules) \in DOMAIN rules /\ IsFirstMatch(rules, Evaluate(rules))
           ELSE ~ \E j \in DOMAIN rules : IsFirstMatch(rules, j)
<1> DEFINE order == EvaluationOrder(rules)
<1>1. PICK n \in Nat : /\ order \in [1..n -> ActiveRules(rules)]
                       /\ \A p, q \in 1..n : p < q => Before(rules, order[p], order[q])
                       /\ \A i \in ActiveRules(rules) : \E p \in 1..n : order[p] = i
    BY EvaluationOrderSorts
<1> DEFINE decides(p) == RuleRaises(rules[order[p]]) \/ RuleMatches(rules[order[p]])
           deciding == {p \in DOMAIN order : decides(p)}
           first == CHOOSE p \in deciding : \A q \in deciding : p <= q
<1>2. DOMAIN order = 1..n
    BY <1>1
<1>3. Evaluate(rules) = IF deciding = {} \/ RuleRaises(rules[order[first]]) THEN 0 ELSE order[first]
    BY DEF Evaluate
<1>4. \A p \in 1..n : order[p] \in DOMAIN rules /\ rules[order[p]].active
    BY <1>1 DEF ActiveRules
<1>5. ASSUME NEW j \in DOMAIN rules, rules[j].active
      PROVE  \E p \in 1..n : order[p] = j
    BY <1>1, <1>5 DEF ActiveRules
<1> HIDE DEF order
<1>6. CASE deciding = {}
    <2>1. ASSUME NEW j \in DOMAIN rules, IsFirstMatch(rules, j)
          PROVE  FALSE
        <3>1. PICK p \in 1..n : order[p] = j
            BY <1>5, <2>1 DEF IsFirstMatch
        <3>2. p \in deciding
            BY <1>2, <2>1, <3>1 DEF IsFirstMatch
        <3> QED
            BY <1>6, <3>2
    <2> QED
        BY <1>3, <1>6, <2>1
<1>7. CASE deciding # {}
    <2>1. first \in deciding /\ \A q \in deciding : first <= q
        <3>1. deciding \in SUBSET Nat
            BY <1>2
        <3> HIDE DEF deciding
        <3> QED
            BY <1>7, <3>1, LeastNumber
    <2> HIDE DEF first
    <2>2. first \in 1..n /\ decides(first)
        BY <1>2, <2>1
    <2>3. \A p \in 1..n : p < first => ~ decides(p)
        BY <1>2, <2>1
    <2> HIDE DEF deciding
    <2>4. CASE RuleRaises(rules[order[first]])
        <3>1. ASSUME NEW j \in DOMAIN rules, IsFirstMatch(rules, j)
              PROVE  FALSE
            <4>1. PICK p \in 1..n : order[p] = j
                BY <1>5, <3>1 DEF IsFirstMatch
            <4>2. decides(p) /\ p # first
                BY <2>4, <3>1, <4>1 DEF IsFirstMatch
            <4>3. first < p
                BY <2>2, <2>3, <4>2
            <4>4. Before(rules, order[first], j)
                BY <1>1, <2>2, <4>1, <4>3
            <4> QED
                BY <1>4, <2>2, <2>4, <3>1, <4>4 DEF IsFirstMatch
        <3> QED
            BY <1>3, <2>4, <3>1
    <2>5. CASE ~ RuleRaises(rules[order[first]])
        <3>1. Evaluate(rules) = order[first] /\ order[first] \in DOMAIN rules /\ order[first] # 0
            BY <1>3, <1>4, <1>7, <2>2, <2>5
        <3>2. /\ rules[order[first]].active /\ RuleMatches(rules[order[first]])
              /\ ~ RuleRaises(rules[order[first]])
            BY <1>4, <2>2, <2>5
        <3>3. ASSUME NEW i \in DOMAIN rules, rules[i].active, Before(rules, i, order[first])
              PROVE  ~ RuleMatches(rules[i]) /\ ~ RuleRaises(rules[i])
            <4>1. PICK p \in 1..n : order[p] = i
                BY <1>5, <3>3
            <4>2. ~ (first < p) /\ p # first
                BY <1>1, <2>2, <3>1, <3>3, <4>1, BeforeOrders
            <4>3. p < first
                BY <2>2, <4>2
            <4> QED
                BY <2>3, <4>1, <4>3
        <3> QED
            BY <3>1, <3>2, <3>3 DEF IsFirstMatch
    <2> QED
        BY <2>4, <2>5
<1> QED
    BY <1>6, <1>7

\* There is one first match at most.
LEMMA FirstMatchIsUnique ==
    ASSUME NEW rules \in Seq(Rules), NEW i \in DOMAIN rules, NEW j \in DOMAIN rules,
           IsFirstMatch(rules, i), IsFirstMatch(rules, j)
    PROVE  i = j
BY BeforeOrders DEF IsFirstMatch

\* The rule that decides about an email is the first match if it names a team or holds
\* the email, and none otherwise.
LEMMA DecidingRuleIsFirstMatch ==
    ASSUME NEW rules \in Seq(Rules)
    PROVE  IF DecidingRule(rules) # 0
           THEN IsFirstMatch(rules, DecidingRule(rules))
           ELSE ~ \E j \in DOMAIN rules :
                     /\ rules[j].actions \cap {"route_to", "apply_label", "hold_for_review"} # {}
                     /\ IsFirstMatch(rules, j)
<1> DEFINE i == Evaluate(rules)
           decides(k) == rules[k].actions \cap {"route_to", "apply_label", "hold_for_review"} # {}
<1>1. DecidingRule(rules) = IF i # 0 /\ decides(i) THEN i ELSE 0
    BY DEF DecidingRule
<1>2. CASE i = 0
    BY <1>1, <1>2, EvaluateIsFirstMatch
<1>3. CASE i # 0
    <2>1. i \in DOMAIN rules /\ IsFirstMatch(rules, i)
        BY <1>3, EvaluateIsFirstMatch
    <2> HIDE DEF i, decides
    <2>2. \A j \in DOMAIN rules : IsFirstMatch(rules, j) => j = i
        BY <2>1, FirstMatchIsUnique
    <2>3. CASE decides(i)
        BY <1>1, <1>3, <2>1, <2>3
    <2>4. CASE ~ decides(i)
        <3>1. DecidingRule(rules) = 0
            BY <1>1, <2>4
        <3>2. \A j \in DOMAIN rules : IsFirstMatch(rules, j) => ~ decides(j)
            BY <2>2, <2>4
        <3> QED
            BY <3>1, <3>2 DEF decides
    <2> QED
        BY <2>3, <2>4
<1> QED
    BY <1>2, <1>3

\* The table holds rule lists, and a load returns what a commit made active.
LEMMA UsedRulesAreRules ==
    ASSUME TypeOK, NEW l \in Loaders, loader[l].used # 0
    PROVE  RulesOf[activated[loader[l].used]] \in Seq(Rules)
<1>1. loader[l].used \in 1..Len(activated) /\ activated \in Seq(Payloads)
    BY DEF TypeOK
<1>2. activated[loader[l].used] \in Payloads
    BY <1>1
<1> QED
    BY <1>2, RulesAssumption

\* The rule that decides about an email is the one its priority and its place in the
\* list make first, for any rules an administrator saves: sorted() and the loop of
\* evaluate, and routing_node after them, find it, and the static matrix decides only
\* when there is none.
THEOREM RulesDecideFirstMatch == Spec => []DecisionIsFirstMatch
<1>1. TypeOK => DecisionIsFirstMatch
    BY UsedRulesAreRules, DecidingRuleIsFirstMatch DEF DecisionIsFirstMatch, Decision
<1> QED
    BY <1>1, RulesTyping, PTL

=============================================================================
