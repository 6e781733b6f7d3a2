--------------------------- MODULE MC_AuditWriter ---------------------------
(* A small instance of AuditWriter: a storable event, an orphan and an event *)
(* that cannot be stored, two writer threads, and the flush thread.          *)
EXTENDS AuditWriter

CONSTANTS good, orphan, unstorable

MCEvents == {good, orphan, unstorable}
MCOrphans == {orphan}
MCUnstorable == {unstorable}
MCBatches == {<<good>>, <<unstorable, good>>, <<orphan, good>>}

=============================================================================
