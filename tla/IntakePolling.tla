--------------------------- MODULE IntakePolling ---------------------------
(***************************************************************************)
(* main.py polling_loop, agents/intake_agent.py poll_and_ingest and the    *)
(* part of intake_node that touches the outside world: the mailbox, the    *)
(* acknowledgement and the INSERT into emails.                             *)
(*                                                                         *)
(* One process polls.  It lists the unanswered threads once per poll and   *)
(* deals with them one by one, each call being an await during which       *)
(* customers and operators write to the same threads.  A message is        *)
(* acknowledged before its row is inserted, the row is what the next poll  *)
(* recognises it by, and an exception ends the poll.                       *)
(***************************************************************************)
EXTENDS Naturals, FiniteSets, Sequences, SequencesExt

CONSTANTS
    Threads,            \* Gmail threads
    Poison,             \* messages <<t, i>> whose INSERT the table refuses each time
                        \*   (a From of more than 255 characters, a NUL in the body)
    PipelineOutcomes,   \* how run_pipeline ends after intake: {"returns", "raises"}
    AckPlaces,          \* where Gmail files an acknowledgement that is sent with a
                        \*   threadId, a new subject and no In-Reply-To header:
                        \*   {"thread", "elsewhere"}
    MaxResults,         \* max_results of gmail_list_unanswered (20 in the code)
    MaxMessages,        \* bound: messages of one thread that are not ACKs
    MaxFaults,          \* bound: outages of a server and crashes of the process
    MaxCount            \* bound: acks are counted up to MaxCount, missed up to one less

Ids == Threads \X (1 .. 2 * MaxMessages)

ASSUME IntakeAssumption ==
    /\ IsFiniteSet(Threads)
    /\ Poison \subseteq Ids
    /\ PipelineOutcomes \subseteq {"returns", "raises"}
    /\ AckPlaces \subseteq {"thread", "elsewhere"}
    /\ MaxResults \in Nat \ {0} /\ MaxMessages \in Nat
    /\ MaxFaults \in Nat /\ MaxCount \in Nat \ {0}

VARIABLES
    mailbox,    \* per thread, its messages: "customer", "operator" or "ack"
    later,      \* per thread, the threads written to since its last message
    rows,       \* external_id of the rows of emails (the column is unique)
    acks,       \* history: acknowledgements that left for each message
    missed,     \* history: per message, ingests that left no row, and dedup
                \*   checks that failed open
    pc,         \* where poll_and_ingest stands
    queue,      \* threads of this poll still to do
    cur,        \* the message being ingested
    dbUp, mcpUp,
    faults

poller == <<pc, queue, cur>>
vars == <<mailbox, later, rows, acks, missed, pc, queue, cur, dbUp, mcpUp, faults>>

NoMessage == <<>>

Missed(m) == [missed EXCEPT ![m] = IF @ < MaxCount - 1 THEN @ + 1 ELSE @]

Init ==
    /\ mailbox = [t \in Threads |-> <<>>]
    /\ later = [t \in Threads |-> {}]
    /\ rows = {}
    /\ acks = [m \in Ids |-> 0]
    /\ missed = [m \in Ids |-> 0]
    /\ pc = "sleep"
    /\ queue = <<>>
    /\ cur = NoMessage
    /\ dbUp = TRUE
    /\ mcpUp = TRUE
    /\ faults = 0

----------------------------------------------------------------------------
(* Gmail, as far as the poller sees it.                                    *)

LastOf(t) == Last(mailbox[t])
LastId(t) == <<t, Len(mailbox[t])>>

\* Mutant: threads whose last message is ours are listed too.
AnyThread(t) == mailbox[t] # <<>>

\* gmail_list_unanswered: the last message is not from this account.
Unanswered(t) == mailbox[t] # <<>> /\ LastOf(t) = "customer"

Listed ==
    {t \in Threads : /\ Unanswered(t)
                     /\ Cardinality({u \in later[t] : Unanswered(u)}) < MaxResults}

\* The latest thread first.
InOrder(S) ==
    {s \in [1 .. Cardinality(S) -> S] :
        \A i, j \in 1 .. Cardinality(S) : i < j => s[i] \in later[s[j]]}

Deliver(t, who) ==
    /\ mailbox' = [mailbox EXCEPT ![t] = Append(@, who)]
    /\ later' = [u \in Threads |-> IF u = t THEN {} ELSE later[u] \cup {t}]

\* A message of the customer, or a reply written by hand from the account.
SomeoneWrites(t) ==
    /\ Cardinality({i \in DOMAIN mailbox[t] : mailbox[t][i] # "ack"}) < MaxMessages
    /\ \E who \in {"customer", "operator"} :
        /\ who = "operator" => mailbox[t] # <<>>
        /\ Deliver(t, who)
    /\ UNCHANGED <<rows, acks, missed, poller, dbUp, mcpUp, faults>>

----------------------------------------------------------------------------
(* poll_and_ingest.                                                        *)

\* The next thread of the poll, or the end of it.
NextThread ==
    /\ cur' = NoMessage
    /\ pc' = IF queue' = <<>> THEN "sleep" ELSE "thread"

\* poll_inbox: an error status ends the poll.
PollInbox ==
    /\ pc = "sleep"
    /\ IF mcpUp THEN queue' \in InOrder(Listed) ELSE queue' = <<>>
    /\ NextThread
    /\ UNCHANGED <<mailbox, later, rows, acks, missed, dbUp, mcpUp, faults>>

\* fetch_thread: the last message as of now, which need not be the one that was
\* listed.  An error status leaves no messages and the thread is skipped.
FetchThread ==
    /\ pc = "thread"
    /\ IF mcpUp
       THEN /\ cur' = LastId(Head(queue))
            /\ pc' = "message"
            /\ UNCHANGED queue
       ELSE /\ queue' = Tail(queue)
            /\ NextThread
    /\ UNCHANGED <<mailbox, later, rows, acks, missed, dbUp, mcpUp, faults>>

FetchMessage ==
    /\ pc = "message"
    /\ IF mcpUp
       THEN /\ pc' = "dedup"
            /\ UNCHANGED <<queue, cur>>
       ELSE /\ queue' = Tail(queue)
            /\ NextThread
    /\ UNCHANGED <<mailbox, later, rows, acks, missed, dbUp, mcpUp, faults>>

\* Mutant: the query's result is not used.
CheckDuplicateIgnored ==
    /\ pc = "dedup"
    /\ pc' = "ack"
    /\ UNCHANGED <<mailbox, later, rows, acks, missed, queue, cur, dbUp, mcpUp, faults>>

\* Mutant: a duplicate ends the poll (return instead of continue).
CheckDuplicateEndsPoll ==
    /\ pc = "dedup"
    /\ \/ /\ dbUp /\ cur \in rows
          /\ queue' = <<>>
          /\ NextThread
          /\ UNCHANGED missed
       \/ /\ ~(dbUp /\ cur \in rows)
          /\ pc' = "ack"
          /\ missed' = IF cur \in rows THEN Missed(cur) ELSE missed
          /\ UNCHANGED <<queue, cur>>
    /\ UNCHANGED <<mailbox, later, rows, acks, dbUp, mcpUp, faults>>

\* is_duplicate: any database error counts as "not a duplicate".
CheckDuplicate ==
    /\ pc = "dedup"
    /\ \/ /\ dbUp /\ cur \in rows
          /\ queue' = Tail(queue)
          /\ NextThread
          /\ UNCHANGED missed
       \/ /\ ~(dbUp /\ cur \in rows)
          /\ pc' = "ack"
          /\ missed' = IF cur \in rows THEN Missed(cur) ELSE missed
          /\ UNCHANGED <<queue, cur>>
    /\ UNCHANGED <<mailbox, later, rows, acks, dbUp, mcpUp, faults>>

\* intake_node, ack_engine.send: send_reply reports errors in a status nobody reads,
\* so intake goes on as if the ACK were sent.
SendAck ==
    /\ pc = "ack"
    /\ pc' = "insert"
    /\ \/ /\ mcpUp
          /\ acks' = [acks EXCEPT ![cur] = IF @ < MaxCount THEN @ + 1 ELSE @]
          /\ \/ "thread" \in AckPlaces /\ Deliver(cur[1], "ack")
             \/ "elsewhere" \in AckPlaces /\ UNCHANGED <<mailbox, later>>
       \/ ~mcpUp /\ UNCHANGED <<acks, mailbox, later>>
    /\ UNCHANGED <<rows, missed, queue, cur, dbUp, mcpUp, faults>>

\* Mutant: the thread id is stored as external_id.
InsertRowByThread ==
    /\ pc = "insert"
    /\ pc' = "pipeline"
    /\ IF dbUp /\ cur \notin Poison
       THEN rows' = rows \cup {cur[1]} /\ UNCHANGED missed
       ELSE missed' = Missed(cur) /\ UNCHANGED rows
    /\ UNCHANGED <<mailbox, later, acks, queue, cur, dbUp, mcpUp, faults>>

\* The INSERT of intake_node; a failure is logged and the pipeline goes on.
InsertRow ==
    /\ pc = "insert"
    /\ pc' = "pipeline"
    /\ IF dbUp /\ cur \notin Poison
       THEN rows' = rows \cup {cur} /\ UNCHANGED missed
       ELSE missed' = Missed(cur) /\ UNCHANGED rows
    /\ UNCHANGED <<mailbox, later, acks, queue, cur, dbUp, mcpUp, faults>>

\* run_pipeline returns, or raises and the rest of the poll is dropped.
PipelineEnds ==
    /\ pc = "pipeline"
    /\ \/ "returns" \in PipelineOutcomes /\ queue' = Tail(queue)
       \/ "raises" \in PipelineOutcomes /\ queue' = <<>>
    /\ NextThread
    /\ UNCHANGED <<mailbox, later, rows, acks, missed, dbUp, mcpUp, faults>>

----------------------------------------------------------------------------
(* Faults.                                                                 *)

ServersChange ==
    /\ \/ /\ faults < MaxFaults
          /\ faults' = faults + 1
          /\ \/ dbUp /\ dbUp' = FALSE /\ UNCHANGED mcpUp
             \/ mcpUp /\ mcpUp' = FALSE /\ UNCHANGED dbUp
       \/ /\ ~(dbUp /\ mcpUp)
          /\ dbUp' = TRUE /\ mcpUp' = TRUE
          /\ UNCHANGED faults
    /\ UNCHANGED <<mailbox, later, rows, acks, missed, poller>>

\* The process dies and is started again.
Crash ==
    /\ pc # "sleep"
    /\ faults < MaxFaults
    /\ faults' = faults + 1
    /\ missed' = IF pc = "insert" THEN Missed(cur) ELSE missed
    /\ pc' = "sleep"
    /\ queue' = <<>>
    /\ cur' = NoMessage
    /\ UNCHANGED <<mailbox, later, rows, acks, dbUp, mcpUp>>

----------------------------------------------------------------------------

PollerStep ==
    \/ PollInbox
    \/ FetchThread
    \/ FetchMessage
    \/ CheckDuplicate
    \/ SendAck
    \/ InsertRow
    \/ PipelineEnds

Next ==
    \/ \E t \in Threads : SomeoneWrites(t)
    \/ PollerStep
    \/ ServersChange
    \/ Crash

Spec == Init /\ [][Next]_vars

\* polling_loop never stops; nothing is assumed of the mailbox and the servers.
FairSpec == Spec /\ WF_vars(PollerStep)

----------------------------------------------------------------------------
(* Properties                                                              *)

TypeOK ==
    /\ mailbox \in [Threads -> Seq({"customer", "operator", "ack"})]
    /\ later \in [Threads -> SUBSET Threads]
    /\ rows \subseteq Ids
    /\ acks \in [Ids -> Nat] /\ missed \in [Ids -> Nat]
    /\ pc \in {"sleep", "thread", "message", "dedup", "ack", "insert", "pipeline"}
    /\ queue \in Seq(Threads)
    /\ cur \in Ids \cup {NoMessage}
    /\ dbUp \in BOOLEAN /\ mcpUp \in BOOLEAN
    /\ faults \in Nat

KindOf(m) == mailbox[m[1]][m[2]]

\* The system never answers its own acknowledgement, though it looks at the last
\* message of a thread some time after the thread was listed.
NoAckLoop ==
    \A m \in rows \cup {x \in Ids : acks[x] > 0} : KindOf(m) # "ack"

\* A message is acknowledged again only after an ingest of it that left no row or a
\* duplicate check that could not be made: one more ACK for each of those.
AckBudget ==
    \A m \in Ids : acks[m] <= 1 + missed[m]

\* While the thread is listed and no refused message is in the way, the message at its
\* end is recorded in the end, whichever pipelines raise and drop the rest of a poll.
PoisonInTheWay == \E t \in Threads : Unanswered(t) /\ LastId(t) \in Poison

ListedIsRecorded ==
    <>[](dbUp /\ mcpUp /\ ~PoisonInTheWay) =>
        \A t \in Threads : <>[](t \in Listed) => <>(LastId(t) \in rows)

\* db/schema.sql:28 calls emails the "Core intake record, one row per inbound email":
\* with the servers up, each message a customer writes gets its row, unless someone
\* answers it by hand.
EveryMessageIsRecorded ==
    <>[](dbUp /\ mcpUp) =>
        \A t \in Threads : \A i \in 1 .. 2 * MaxMessages :
            (i <= Len(mailbox[t]) /\ mailbox[t][i] = "customer")
                ~> (<<t, i>> \in rows \/ "operator" \in ToSet(mailbox[t]))

=============================================================================
