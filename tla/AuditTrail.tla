----------------------------- MODULE AuditTrail -----------------------------
(***************************************************************************)
(* What the audit component promises to the agents that hand it events:    *)
(* an event that was handed over stays pending until it is recorded in the *)
(* audit_log table, unless its email row does not exist (an orphan, which  *)
(* is discarded) or the process holding it crashes.  Recorded events are   *)
(* never taken back.                                                       *)
(***************************************************************************)

CONSTANTS Events,    \* the audit events agents can emit
          Orphans    \* those whose email_id names no row of emails

VARIABLES pending,   \* handed over and neither settled nor lost
          recorded,  \* have a row in audit_log
          discarded, \* dropped by the orphan guard
          lost       \* were pending when a process crashed

trailVars == <<pending, recorded, discarded, lost>>

TrailInit ==
    /\ pending = {}
    /\ recorded = {}
    /\ discarded = {}
    /\ lost = {}

Submit(S) ==
    /\ pending' = pending \cup S
    /\ UNCHANGED <<recorded, discarded, lost>>

\* A row is written.  The event may stay pending: the writer does not know yet
\* that its row was committed, or holds another copy of the event.
Record(e) ==
    /\ e \in pending
    /\ recorded' = recorded \cup {e}
    /\ pending' \in {pending, pending \ {e}}
    /\ UNCHANGED <<discarded, lost>>

Discard(e) ==
    /\ e \in pending \cap Orphans
    /\ discarded' = discarded \cup {e}
    /\ pending' \in {pending, pending \ {e}}
    /\ UNCHANGED <<recorded, lost>>

\* Only an event that is recorded or discarded may be forgotten.
Settle(e) ==
    /\ e \in pending \cap (recorded \cup discarded)
    /\ pending' = pending \ {e}
    /\ UNCHANGED <<recorded, discarded, lost>>

LosePending ==
    /\ lost' = lost \cup pending
    /\ pending' = {}
    /\ UNCHANGED <<recorded, discarded>>

TrailNext ==
    \/ \E S \in SUBSET Events : Submit(S)
    \/ \E e \in Events : Record(e) \/ Discard(e) \/ Settle(e)
    \/ LosePending

TrailSpec == TrailInit /\ [][TrailNext]_trailVars

=============================================================================
