--------------------------- MODULE RulesRegister ---------------------------
(***************************************************************************)
(* What the rules page promises to an administrator, whoever else edits:   *)
(* a tenant has one active version of its rules, and a save or a rollback  *)
(* replaces it in one step.  A saved version keeps its number and its      *)
(* rules, so it can be rolled back to.                                     *)
(***************************************************************************)
EXTENDS Naturals, Sequences

CONSTANT Payloads    \* the names of the payloads an administrator may save

VARIABLES versions,  \* the saved payloads, by version
          active,    \* the active versions: one, or none before the first save
          activated  \* what was active, in order

registerVars == <<versions, active, activated>>

RegisterInit ==
    /\ versions \in {<<>>} \cup {<<p>> : p \in Payloads}
    /\ active = DOMAIN versions
    /\ activated = versions

Save(p) ==
    /\ versions' = Append(versions, p)
    /\ active' = {Len(versions) + 1}
    /\ activated' = Append(activated, p)

RollBack(v) ==
    /\ active' = {v}
    /\ activated' = Append(activated, versions[v])
    /\ UNCHANGED versions

RegisterNext ==
    \/ \E p \in Payloads : Save(p)
    \/ \E v \in DOMAIN versions : RollBack(v)

RegisterSpec == RegisterInit /\ [][RegisterNext]_registerVars
=============================================================================
