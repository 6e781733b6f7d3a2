---------------------------- MODULE AuditWriter ----------------------------
(***************************************************************************)
(* agents/audit_agent.py: the singleton AuditWriter of AG-06.              *)
(*                                                                         *)
(* audit_node runs in a worker thread of the pipeline (a synchronous node  *)
(* of an asynchronous graph) and hands the accumulated event_queue to      *)
(* AuditWriter.write, which persists the events one by one or buffers them *)
(* in memory.  A daemon thread empties the buffer every ten seconds.  The  *)
(* two share the buffer (under a lock), and the _db_available hint (with   *)
(* no lock).  A cancelled node leaves its thread running, so more than one *)
(* writer can be inside write at a time.                                   *)
(*                                                                         *)
(* Two events that carry the same fields are equal dictionaries: Events    *)
(* are the distinct dictionaries, and a batch may hold one that was handed *)
(* over before (event_queue only accumulates, and audit runs twice in one  *)
(* pipeline run).                                                          *)
(***************************************************************************)
EXTENDS Naturals, FiniteSets, Sequences, SequencesExt

CONSTANTS
    Events,         \* the distinct audit events
    Orphans,        \* events whose email_id has no row in emails
    Unstorable,     \* events whose email_id is "": the guard is skipped and the
                    \*   uuid cast of the INSERT fails each time
    Batches,        \* the event queues a pipeline may hand to audit_node
    Writers,        \* the worker threads that run audit_node
    MaxSubmits,     \* bound: how many times one event is handed over
    MaxAmbiguous,   \* bound: how many commits of one event are followed by an error
    MaxCrashes      \* bound: crashes of the process

ASSUME AuditAssumption ==
    /\ Orphans \subseteq Events
    /\ Unstorable \subseteq Events \ Orphans
    /\ Batches \subseteq Seq(Events) \ {<<>>}
    /\ IsFiniteSet(Writers)
    /\ MaxSubmits \in Nat /\ MaxAmbiguous \in Nat /\ MaxCrashes \in Nat

VARIABLES
    dbUp,           \* the PostgreSQL server answers
    dbAvailable,    \* AuditWriter._db_available
    auditLog,       \* the rows of audit_log, in insertion order
    discarded,      \* events the orphan guard dropped
    buffer,         \* AuditWriter._in_memory_buffer
    todo,           \* per writer: the events of its batch not yet dealt with
    wpc,            \* per writer: where it stands in _write_one
    pending,        \* the flush thread's snapshot, less what it has tried
    fpc,            \* where the flush thread stands
    flushed,        \* "flushed > 0" in _attempt_flush
    submitted,      \* history: how often each event was handed to write
    ambiguous,      \* history: commits of each event reported as failures
    lost,           \* history: events in memory at a crash
    crashes

writerVars == <<todo, wpc>>
flushVars  == <<pending, fpc, flushed>>
vars == <<dbUp, dbAvailable, auditLog, discarded, buffer, todo, wpc, pending,
          fpc, flushed, submitted, ambiguous, lost, crashes>>

Init ==
    /\ dbUp \in BOOLEAN
    /\ dbAvailable = TRUE
    /\ auditLog = <<>>
    /\ discarded = {}
    /\ buffer = <<>>
    /\ todo = [w \in Writers |-> <<>>]
    /\ wpc = [w \in Writers |-> "check"]
    /\ pending = <<>>
    /\ fpc = "sleep"
    /\ flushed = FALSE
    /\ submitted = [e \in Events |-> 0]
    /\ ambiguous = [e \in Events |-> 0]
    /\ lost = {}
    /\ crashes = 0

----------------------------------------------------------------------------
(* _persist_to_db and _async_persist_to_db: one connection, the orphan     *)
(* guard, the INSERT, and the close in the finally clause.                 *)

\* The INSERT commits and everything after it succeeds.
Written(e) ==
    /\ dbUp
    /\ e \notin Orphans \cup Unstorable
    /\ auditLog' = Append(auditLog, e)
    /\ UNCHANGED <<discarded, ambiguous>>

\* The guard finds no email row: return without an error.
GuardDiscards(e) ==
    /\ dbUp
    /\ e \in Orphans
    /\ discarded' = discarded \cup {e}
    /\ UNCHANGED <<auditLog, ambiguous>>

\* The INSERT commits, and its reply or the close raises.
CommittedButRaised(e) ==
    /\ dbUp
    /\ e \notin Orphans \cup Unstorable
    /\ ambiguous[e] < MaxAmbiguous
    /\ ambiguous' = [ambiguous EXCEPT ![e] = @ + 1]
    /\ auditLog' = Append(auditLog, e)
    /\ UNCHANGED discarded

\* Nothing is written and an exception is raised.
RaisedOnly(e) ==
    /\ ~dbUp \/ e \in Unstorable
    /\ UNCHANGED <<auditLog, discarded, ambiguous>>

PersistReturns(e) == Written(e) \/ GuardDiscards(e)
PersistRaises(e) == CommittedButRaised(e) \/ RaisedOnly(e)

----------------------------------------------------------------------------
(* audit_node / AuditWriter.write / _write_one, in a worker thread.        *)

Occurrences(s, e) == Cardinality({i \in DOMAIN s : s[i] = e})

\* Mutant: the batch itself is kept as one entry, not its events.
StartWriteNested(w) ==
    /\ todo[w] = <<>>
    /\ \E b \in Batches :
        /\ \A e \in Events : submitted[e] + Occurrences(b, e) <= MaxSubmits
        /\ todo' = [todo EXCEPT ![w] = <<b>>]
        /\ submitted' = [e \in Events |-> submitted[e] + Occurrences(b, e)]
    /\ UNCHANGED <<dbUp, dbAvailable, auditLog, discarded, buffer, wpc,
                   flushVars, ambiguous, lost, crashes>>

\* audit_node hands a nonempty event_queue to write.
StartWrite(w) ==
    /\ todo[w] = <<>>
    /\ \E b \in Batches :
        /\ \A e \in Events : submitted[e] + Occurrences(b, e) <= MaxSubmits
        /\ todo' = [todo EXCEPT ![w] = b]
        /\ submitted' = [e \in Events |-> submitted[e] + Occurrences(b, e)]
    /\ UNCHANGED <<dbUp, dbAvailable, auditLog, discarded, buffer, wpc,
                   flushVars, ambiguous, lost, crashes>>

\* "if self._db_available": the hint is read here and acted on later.
CheckAvailable(w) ==
    /\ todo[w] # <<>> /\ wpc[w] = "check"
    /\ wpc' = [wpc EXCEPT ![w] = IF dbAvailable THEN "persist" ELSE "buffer"]
    /\ UNCHANGED <<dbUp, dbAvailable, auditLog, discarded, buffer, todo,
                   flushVars, submitted, ambiguous, lost, crashes>>

WriterPersists(w) ==
    /\ todo[w] # <<>> /\ wpc[w] = "persist"
    /\ PersistReturns(Head(todo[w]))
    /\ todo' = [todo EXCEPT ![w] = Tail(@)]
    /\ wpc' = [wpc EXCEPT ![w] = "check"]
    /\ UNCHANGED <<dbUp, dbAvailable, buffer, flushVars, submitted, lost, crashes>>

\* Mutant: the failure is logged and the event is not buffered.
WriterPersistFailsUnbuffered(w) ==
    /\ todo[w] # <<>> /\ wpc[w] = "persist"
    /\ PersistRaises(Head(todo[w]))
    /\ dbAvailable' = FALSE
    /\ todo' = [todo EXCEPT ![w] = Tail(@)]
    /\ wpc' = [wpc EXCEPT ![w] = "check"]
    /\ UNCHANGED <<dbUp, buffer, flushVars, submitted, lost, crashes>>

WriterPersistFails(w) ==
    /\ todo[w] # <<>> /\ wpc[w] = "persist"
    /\ PersistRaises(Head(todo[w]))
    /\ dbAvailable' = FALSE
    /\ wpc' = [wpc EXCEPT ![w] = "buffer"]
    /\ UNCHANGED <<dbUp, buffer, todo, flushVars, submitted, lost, crashes>>

\* _buffer, under the lock.
BufferEvent(w) ==
    /\ todo[w] # <<>> /\ wpc[w] = "buffer"
    /\ buffer' = Append(buffer, Head(todo[w]))
    /\ todo' = [todo EXCEPT ![w] = Tail(@)]
    /\ wpc' = [wpc EXCEPT ![w] = "check"]
    /\ UNCHANGED <<dbUp, dbAvailable, auditLog, discarded, flushVars, submitted,
                   ambiguous, lost, crashes>>

----------------------------------------------------------------------------
(* _flush_loop / _attempt_flush, in the daemon thread.                     *)

\* The ten seconds are over and the buffer is not empty: copy it under the lock.
Snapshot ==
    /\ fpc = "sleep"
    /\ buffer # <<>>
    /\ pending' = buffer
    /\ flushed' = FALSE
    /\ fpc' = "persist"
    /\ UNCHANGED <<dbUp, dbAvailable, auditLog, discarded, buffer, writerVars,
                   submitted, ambiguous, lost, crashes>>

FlushPersists ==
    /\ fpc = "persist" /\ pending # <<>>
    /\ PersistReturns(Head(pending))
    /\ fpc' = "remove"
    /\ UNCHANGED <<dbUp, dbAvailable, buffer, writerVars, pending, flushed,
                   submitted, lost, crashes>>

\* Mutant: a flushed event is left in the buffer.
RemoveFlushedKept ==
    /\ fpc = "remove"
    /\ pending' = Tail(pending)
    /\ flushed' = TRUE
    /\ fpc' = "persist"
    /\ UNCHANGED <<dbUp, dbAvailable, auditLog, discarded, buffer, writerVars,
                   submitted, ambiguous, lost, crashes>>

\* "if event in buffer: buffer.remove(event)", under the lock: the first equal one.
RemoveFlushed ==
    /\ fpc = "remove"
    /\ buffer' = RemoveFirst(buffer, Head(pending))
    /\ pending' = Tail(pending)
    /\ flushed' = TRUE
    /\ fpc' = "persist"
    /\ UNCHANGED <<dbUp, dbAvailable, auditLog, discarded, writerVars, submitted,
                   ambiguous, lost, crashes>>

\* Mutant: the event is removed from the buffer whatever the attempt did.
FlushFailsRemoves ==
    /\ fpc = "persist" /\ pending # <<>>
    /\ PersistRaises(Head(pending))
    /\ dbAvailable' = FALSE
    /\ buffer' = RemoveFirst(buffer, Head(pending))
    /\ pending' = Tail(pending)
    /\ UNCHANGED <<dbUp, writerVars, fpc, flushed, submitted, lost, crashes>>

\* Mutant: the first failure ends the pass (a break instead of the next event).
FlushFailsBreaks ==
    /\ fpc = "persist" /\ pending # <<>>
    /\ PersistRaises(Head(pending))
    /\ dbAvailable' = FALSE
    /\ pending' = <<>>
    /\ UNCHANGED <<dbUp, buffer, writerVars, fpc, flushed, submitted, lost, crashes>>

FlushFails ==
    /\ fpc = "persist" /\ pending # <<>>
    /\ PersistRaises(Head(pending))
    /\ dbAvailable' = FALSE
    /\ pending' = Tail(pending)
    /\ UNCHANGED <<dbUp, buffer, writerVars, fpc, flushed, submitted, lost, crashes>>

\* One success is enough to declare the database available, whatever failed after it.
EndFlush ==
    /\ fpc = "persist" /\ pending = <<>>
    /\ dbAvailable' = (flushed \/ dbAvailable)
    /\ fpc' = "sleep"
    /\ UNCHANGED <<dbUp, auditLog, discarded, buffer, writerVars, pending, flushed,
                   submitted, ambiguous, lost, crashes>>

----------------------------------------------------------------------------
(* The environment: the database server and the process.                   *)

DbFails ==
    /\ dbUp
    /\ dbUp' = FALSE
    /\ UNCHANGED <<dbAvailable, auditLog, discarded, buffer, writerVars, flushVars,
                   submitted, ambiguous, lost, crashes>>

DbRecovers ==
    /\ ~dbUp
    /\ dbUp' = TRUE
    /\ UNCHANGED <<dbAvailable, auditLog, discarded, buffer, writerVars, flushVars,
                   submitted, ambiguous, lost, crashes>>

\* What is held in memory only: the writers' batches and the buffer (the flush
\* thread's snapshot is a copy of entries that stay in the buffer).
InMemory == ToSet(buffer) \cup UNION {ToSet(todo[w]) : w \in Writers}

\* The process ends and starts again.  The buffer is not persisted anywhere.
Crash ==
    /\ crashes < MaxCrashes
    /\ crashes' = crashes + 1
    /\ lost' = lost \cup InMemory
    /\ dbAvailable' = TRUE
    /\ buffer' = <<>>
    /\ todo' = [w \in Writers |-> <<>>]
    /\ wpc' = [w \in Writers |-> "check"]
    /\ pending' = <<>>
    /\ fpc' = "sleep"
    /\ flushed' = FALSE
    /\ UNCHANGED <<dbUp, auditLog, discarded, submitted, ambiguous>>

----------------------------------------------------------------------------

WriterStep(w) ==
    \/ CheckAvailable(w)
    \/ WriterPersists(w)
    \/ WriterPersistFails(w)
    \/ BufferEvent(w)

FlushStep ==
    \/ Snapshot
    \/ FlushPersists
    \/ RemoveFlushed
    \/ FlushFails
    \/ EndFlush

Next ==
    \/ \E w \in Writers : StartWrite(w) \/ WriterStep(w)
    \/ FlushStep
    \/ DbFails
    \/ DbRecovers
    \/ Crash

Spec == Init /\ [][Next]_vars

\* A started batch is worked off by its thread, and the daemon thread keeps
\* looping; nothing is assumed of the database, the crashes or new batches.
Fairness == (\A w \in Writers : WF_vars(WriterStep(w))) /\ WF_vars(FlushStep)

FairSpec == Spec /\ Fairness

----------------------------------------------------------------------------
(* Properties                                                              *)

TypeOK ==
    /\ dbUp \in BOOLEAN
    /\ dbAvailable \in BOOLEAN
    /\ auditLog \in Seq(Events)
    /\ discarded \subseteq Events
    /\ buffer \in Seq(Events)
    /\ todo \in [Writers -> Seq(Events)]
    /\ wpc \in [Writers -> {"check", "persist", "buffer"}]
    /\ pending \in Seq(Events)
    /\ fpc \in {"sleep", "persist", "remove"}
    /\ flushed \in BOOLEAN
    /\ submitted \in [Events -> Nat]
    /\ ambiguous \in [Events -> Nat]
    /\ lost \subseteq Events
    /\ crashes \in Nat

Accepted == {e \in Events : submitted[e] > 0}

\* No event vanishes while both threads hand it around: whatever was given to
\* write is in audit_log, was dropped by the orphan guard, is still held by a
\* writer or the buffer, or was in memory at a crash.
NothingVanishes ==
    Accepted \subseteq ToSet(auditLog) \cup discarded \cup InMemory \cup lost

\* The copies of e in the batches f of the writers, as <<writer, place in its batch>>.
Copies(f, e) ==
    {c \in UNION {{w} \X DOMAIN f[w] : w \in Writers} : f[c[1]][c[2]] = e}

\* Entries that will still be persisted: a buffer entry whose row is already
\* written and that waits for its removal is not one of them.
Outstanding(e) ==
    LET settled == IF fpc = "remove" /\ Head(pending) = e THEN 1 ELSE 0
    IN  Occurrences(buffer, e) + Cardinality(Copies(todo, e)) - settled

\* What makes NothingVanishes inductive: the flush thread removes an event from the
\* buffer only after that very event was recorded or discarded.
FlushedIsSettled ==
    fpc = "remove" =>
        /\ pending # <<>>
        /\ Head(pending) \in ToSet(auditLog) \cup discarded

AuditInv == TypeOK /\ NothingVanishes /\ FlushedIsSettled

\* An event gets one audit_log row per time it was handed over, and one more per
\* commit that was reported as a failure: the flush thread and the writers never
\* write a copy twice between them.
RowsAreAccountedFor ==
    \A e \in Events :
        Occurrences(auditLog, e) + Outstanding(e) <= submitted[e] + ambiguous[e]

\* The two threads together implement the promise of AuditTrail.
Trail == INSTANCE AuditTrail WITH
            pending <- InMemory,
            recorded <- ToSet(auditLog),
            discarded <- discarded,
            lost <- lost

ImplementsTrail == Trail!TrailSpec

\* Once the database stays up, every event that can be stored leaves memory for
\* good, even when an event that can never be stored sits before it in the buffer.
StorableEventsSettle ==
    <>[]dbUp => \A e \in Events \ Unstorable : <>[](e \notin InMemory)

\* The module's docstring, line 13: "NEVER DROP an audit event".  While the
\* process lives, an accepted event is in the table or still held.
NeverDropped ==
    crashes = 0 => Accepted \subseteq ToSet(auditLog) \cup InMemory

=============================================================================
