------------------------ MODULE IntakePollingProofs ------------------------
(***************************************************************************)
(* The poller never answers its own acknowledgements and repeats one only  *)
(* with an excuse: TypeOK, NoAckLoop and AckBudget of IntakePolling, for   *)
(* any number of threads, messages, faults and acknowledgements.           *)
(***************************************************************************)
EXTENDS IntakePolling, FiniteSetTheorems, FunctionTheorems, TLAPS

----------------------------------------------------------------------------
(* The inductive invariant.                                                *)

Kinds == {"customer", "operator", "ack"}
Places == {"sleep", "thread", "message", "dedup", "ack", "insert", "pipeline"}

\* The places in s of the messages that are not acknowledgements.
Writes(s) == {i \in DOMAIN s : s[i] # "ack"}

\* An acknowledgement follows a message that is none.
NoAckTwice(s) == \A i \in 1 .. Len(s) : s[i] = "ack" => i > 1 /\ s[i - 1] # "ack"

MailboxOK ==
    \A t \in Threads :
        /\ NoAckTwice(mailbox[t])
        /\ Cardinality(Writes(mailbox[t])) <= MaxMessages

\* The last message of t is not an acknowledgement.
Open(t) == mailbox[t] # <<>> /\ LastOf(t) # "ack"

\* The threads of a poll are distinct, and each stays without an acknowledgement at its
\* end until its turn has come.
QueueOK ==
    /\ \A t \in Threads : t \notin later[t]
    /\ pc = "sleep" <=> queue = <<>>
    /\ \A i, j \in 1 .. Len(queue) : queue[i] = queue[j] => i = j
    /\ \A i \in 1 .. Len(queue) :
          i > 1 \/ pc \notin {"insert", "pipeline"} => Open(queue[i])

\* The messages that people wrote.
Written == {m \in Ids : m[2] <= Len(mailbox[m[1]]) /\ KindOf(m) # "ack"}

\* The message being ingested was written by someone, in the thread at the head of the
\* queue.
CurOK ==
    IF pc \in {"message", "dedup", "ack", "insert", "pipeline"}
    THEN cur \in Written /\ cur[1] = queue[1]
    ELSE cur = NoMessage

\* So was whatever has a row or an acknowledgement.
DealtWithAreWritten ==
    \A m \in Ids : m \in rows \/ acks[m] > 0 => m \in Written

\* An acknowledgement that is about to leave, and what one is free for: the row of the
\* message, or an ingest of it under way that may leave none.
Unsent(m) == IF cur = m /\ pc = "ack" THEN 1 ELSE 0
Free(m) == IF m \in rows \/ (cur = m /\ pc \in {"ack", "insert"}) THEN 1 ELSE 0

PaidFor(m) ==
    /\ acks[m] <= MaxCount
    /\ missed[m] <= MaxCount - 1
    /\ missed[m] < MaxCount - 1 => acks[m] + Unsent(m) <= missed[m] + Free(m)

AcksArePaidFor == \A m \in Ids : PaidFor(m)

IntakeInv ==
    /\ TypeOK
    /\ MailboxOK
    /\ QueueOK
    /\ CurOK
    /\ DealtWithAreWritten
    /\ AcksArePaidFor

----------------------------------------------------------------------------
(* Threads and their messages.                                             *)

\* A thread without two acknowledgements in a row is at most twice as long as what
\* people wrote to it.
LEMMA ThreadLength ==
    ASSUME NEW s \in Seq(Kinds), NEW n \in Nat, NoAckTwice(s), Cardinality(Writes(s)) <= n
    PROVE  Len(s) <= 2 * n
<1> DEFINE A == {i \in DOMAIN s : s[i] = "ack"}
           W == Writes(s)
           f == [i \in A |-> i - 1]
<1>1. Len(s) \in Nat /\ DOMAIN s = 1 .. Len(s)
    OBVIOUS
<1>2. IsFiniteSet(1 .. Len(s)) /\ Cardinality(1 .. Len(s)) = Len(s)
    <2>1. \A b \in Int : /\ IsFiniteSet(1 .. b)
                          /\ Cardinality(1 .. b) = IF 1 > b THEN 0 ELSE b - 1 + 1
        BY ONLY FS_Interval
    <2> QED
        BY ONLY <2>1, <1>1
<1>3. IsFiniteSet(A) /\ IsFiniteSet(W)
    <2>1. A \in SUBSET (1 .. Len(s)) /\ W \in SUBSET (1 .. Len(s))
        BY <1>1 DEF Writes
    <2> QED
        BY <2>1, <1>2, FS_Subset
<1>4. f \in Injection(A, W)
    <2>1. ASSUME NEW i \in A
          PROVE  i - 1 \in W
        BY <1>1 DEF NoAckTwice, Writes
    <2>2. f \in [A -> W]
        BY <2>1
    <2>3. ASSUME NEW i \in A, NEW j \in A, f[i] = f[j]
          PROVE  i = j
        BY <1>1, <2>3
    <2> QED
        BY <2>2, <2>3 DEF Injection, IsInjective
<1>5. Cardinality(A) <= Cardinality(W)
    BY <1>3, <1>4, FS_Injection
<1>6. A \cup W = 1 .. Len(s) /\ A \cap W = {}
    BY <1>1 DEF Writes
<1>7. Cardinality(A \cup W) = Cardinality(A) + Cardinality(W) - Cardinality(A \cap W)
    BY <1>3, FS_Union
<1>8. Cardinality(A) \in Nat /\ Cardinality(W) \in Nat /\ Cardinality({}) = 0
    BY <1>3, FS_CardinalityType, FS_EmptySet
<1>9. Cardinality(W) <= n
    OBVIOUS
<1> HIDE DEF A, W
<1>10. Cardinality(A \cup W) = Len(s) /\ Cardinality(A \cap W) = 0
    BY <1>2, <1>6, <1>8
<1> QED
    BY ONLY <1>1, <1>5, <1>7, <1>8, <1>9, <1>10, n \in Nat

\* The end of a thread after a message was added.
LEMMA Added ==
    ASSUME NEW s \in Seq(Kinds), NEW k \in Kinds
    PROVE  /\ Append(s, k) \in Seq(Kinds) /\ Append(s, k) # <<>>
           /\ Len(Append(s, k)) = Len(s) + 1 /\ Len(s) \in Nat
           /\ Last(Append(s, k)) = k
           /\ \A i \in 1 .. Len(s) : Append(s, k)[i] = s[i]
           /\ Append(s, k)[Len(s) + 1] = k
BY DEF Last

\* A message that may be added to a thread.
LEMMA AddedWrites ==
    ASSUME NEW s \in Seq(Kinds), NEW k \in Kinds, NoAckTwice(s),
           Cardinality(Writes(s)) <= MaxMessages,
           k = "ack" => s # <<>> /\ Last(s) # "ack",
           k # "ack" => Cardinality(Writes(s)) < MaxMessages
    PROVE  /\ NoAckTwice(Append(s, k))
           /\ Cardinality(Writes(Append(s, k))) <= MaxMessages
<1> DEFINE r == Append(s, k)
<1>1. /\ Len(r) = Len(s) + 1 /\ Len(s) \in Nat
      /\ \A i \in 1 .. Len(s) : r[i] = s[i]
      /\ r[Len(s) + 1] = k /\ DOMAIN r = 1 .. Len(r) /\ DOMAIN s = 1 .. Len(s)
    BY Added
<1>2. IsFiniteSet(Writes(s)) /\ Cardinality(Writes(s)) \in Nat
    <2>1. IsFiniteSet(1 .. Len(s)) /\ Writes(s) \in SUBSET (1 .. Len(s))
        BY <1>1, FS_Interval DEF Writes
    <2> QED
        BY <2>1, FS_Subset, FS_CardinalityType
<1> HIDE DEF r
<1>3. k = "ack" => Len(s) > 0 /\ s[Len(s)] # "ack"
    BY <1>1 DEF Last
<1>4. NoAckTwice(r)
    <2>1. ASSUME NEW i \in 1 .. Len(r), r[i] = "ack"
          PROVE  i > 1 /\ r[i - 1] # "ack"
        <3>1. CASE i = Len(s) + 1
            BY <3>1, <2>1, <1>1, <1>3
        <3>2. CASE i \in 1 .. Len(s)
            <4>1. i > 1 /\ s[i - 1] # "ack"
                BY <3>2, <2>1, <1>1 DEF NoAckTwice
            <4> QED
                BY <4>1, <3>2, <1>1
        <3> QED
            BY <3>1, <3>2, <1>1
    <2> QED
        BY <2>1 DEF NoAckTwice
<1>5. CASE k = "ack"
    <2>1. Writes(r) = Writes(s)
        BY <1>1, <1>5 DEF Writes
    <2> QED
        BY <2>1, <1>4 DEF r
<1>6. CASE k # "ack"
    <2>1. Writes(r) = Writes(s) \cup {Len(s) + 1} /\ Len(s) + 1 \notin Writes(s)
        BY <1>1, <1>6 DEF Writes
    <2>2. Cardinality(Writes(r)) = Cardinality(Writes(s)) + 1
        BY <2>1, <1>2, FS_AddElement
    <2>3. Cardinality(Writes(s)) < MaxMessages
        BY <1>6
    <2>4. Cardinality(Writes(r)) <= MaxMessages
        BY ONLY <2>2, <2>3, <1>2, IntakeAssumption
    <2> QED
        BY <2>4, <1>4 DEF r
<1> QED
    BY <1>5, <1>6

\* What a thread's last message is named.
LEMMA LastIdIsWritten ==
    ASSUME TypeOK, MailboxOK, NEW t \in Threads, Open(t)
    PROVE  LastId(t) \in Written
<1> DEFINE s == mailbox[t]
<1>1. s \in Seq(Kinds) /\ NoAckTwice(s) /\ Cardinality(Writes(s)) <= MaxMessages
    BY DEF TypeOK, MailboxOK, Kinds
<1>2. Len(s) \in Nat /\ Len(s) <= 2 * MaxMessages
    BY <1>1, ThreadLength, IntakeAssumption
<1>3. Len(s) >= 1 /\ s[Len(s)] # "ack"
    BY <1>1 DEF Open, LastOf, Last
<1>4. LastId(t) \in Ids /\ LastId(t)[1] = t /\ LastId(t)[2] = Len(s)
    BY <1>2, <1>3, IntakeAssumption DEF LastId, Ids
<1> QED
    BY <1>2, <1>3, <1>4 DEF Written, KindOf

\* A message delivered to t: the mailbox stays well-formed, what was written stays so,
\* and the other threads end as they did.
LEMMA DeliverKeeps ==
    ASSUME TypeOK, MailboxOK, \A u \in Threads : u \notin later[u],
           NEW t \in Threads, NEW who \in Kinds, Deliver(t, who),
           who = "ack" => Open(t),
           who # "ack" => Cardinality(Writes(mailbox[t])) < MaxMessages
    PROVE  /\ mailbox' \in [Threads -> Seq(Kinds)]
           /\ later' \in [Threads -> SUBSET Threads]
           /\ MailboxOK'
           /\ \A u \in Threads : u \notin later'[u]
           /\ Written \subseteq Written'
           /\ \A u \in Threads \ {t} : Open(u) => Open(u)'
           /\ who # "ack" => Open(t)'
<1> DEFINE s == mailbox[t]
<1>1. s \in Seq(Kinds) /\ mailbox \in [Threads -> Seq(Kinds)]
    BY DEF TypeOK, Kinds
<1>2. mailbox' = [mailbox EXCEPT ![t] = Append(s, who)]
    BY DEF Deliver
<1>3. /\ Append(s, who) \in Seq(Kinds) /\ Append(s, who) # <<>>
      /\ Len(Append(s, who)) = Len(s) + 1 /\ Len(s) \in Nat
      /\ Last(Append(s, who)) = who
      /\ \A i \in 1 .. Len(s) : Append(s, who)[i] = s[i]
    BY <1>1, Added
<1>4. /\ mailbox' \in [Threads -> Seq(Kinds)]
      /\ mailbox'[t] = Append(s, who)
      /\ \A u \in Threads \ {t} : mailbox'[u] = mailbox[u]
    BY <1>1, <1>2, <1>3
<1>5. /\ later' \in [Threads -> SUBSET Threads]
      /\ \A u \in Threads : u \notin later'[u]
    BY DEF Deliver, TypeOK
<1>6. MailboxOK'
    <2>1. NoAckTwice(s) /\ Cardinality(Writes(s)) <= MaxMessages
        BY DEF MailboxOK
    <2>2. who = "ack" => s # <<>> /\ Last(s) # "ack"
        BY DEF Open, LastOf
    <2>3. NoAckTwice(mailbox'[t]) /\ Cardinality(Writes(mailbox'[t])) <= MaxMessages
        BY <1>1, <1>4, <2>1, <2>2, AddedWrites
    <2> QED
        BY <1>4, <2>3 DEF MailboxOK
<1>7. Written \subseteq Written'
    <2>1. ASSUME NEW m \in Written
          PROVE  m \in Written'
        <3>1. /\ m \in Ids /\ m[1] \in Threads /\ m[2] \in 1 .. Len(mailbox[m[1]])
              /\ mailbox[m[1]][m[2]] # "ack"
            <4>1. m \in Ids /\ m[2] <= Len(mailbox[m[1]]) /\ KindOf(m) # "ack"
                BY DEF Written
            <4>2. m[1] \in Threads /\ m[2] \in Nat /\ m[2] >= 1
                BY <4>1, IntakeAssumption DEF Ids
            <4>3. Len(mailbox[m[1]]) \in Nat
                BY <4>2, <1>1
            <4> QED
                BY <4>1, <4>2, <4>3 DEF KindOf
        <3>2. CASE m[1] = t
            <4>1. /\ m[2] <= Len(mailbox'[m[1]])
                  /\ mailbox'[m[1]][m[2]] = mailbox[m[1]][m[2]]
                BY <3>1, <3>2, <1>3, <1>4
            <4> QED
                BY <3>1, <4>1 DEF Written, KindOf
        <3>3. CASE m[1] # t
            <4>1. mailbox'[m[1]] = mailbox[m[1]]
                BY <3>1, <3>3, <1>4
            <4> QED
                BY <3>1, <4>1 DEF Written, KindOf
        <3> QED
            BY <3>2, <3>3
    <2> QED
        BY <2>1
<1>8. /\ \A u \in Threads \ {t} : Open(u) => Open(u)'
      /\ who # "ack" => Open(t)'
    BY <1>3, <1>4 DEF Open, LastOf
<1> QED
    BY <1>4, <1>5, <1>6, <1>7, <1>8

\* Where nothing is delivered.
LEMMA MailboxUnchanged ==
    ASSUME UNCHANGED <<mailbox, later>>
    PROVE  /\ MailboxOK => MailboxOK'
           /\ Written' = Written
           /\ \A u \in Threads : Open(u)' <=> Open(u)
BY DEF MailboxOK, Written, KindOf, Open, LastOf

----------------------------------------------------------------------------
(* The parts of the poller's state.                                        *)

\* What was dealt with stays written while no row and no acknowledgement is added.
LEMMA DealtKept ==
    ASSUME DealtWithAreWritten, Written \subseteq Written', UNCHANGED <<rows, acks>>
    PROVE  DealtWithAreWritten'
BY DEF DealtWithAreWritten

\* Away from the acknowledgement and the INSERT nothing has to be paid for.
LEMMA PaidElsewhere ==
    ASSUME AcksArePaidFor, UNCHANGED <<rows, acks, missed>>,
           pc \notin {"ack", "insert"}, pc' \notin {"ack", "insert"}
    PROVE  AcksArePaidFor'
<1>1. \A m : Unsent(m) = 0 /\ Unsent(m)' = 0 /\ Free(m)' = Free(m)
    BY DEF Unsent, Free
<1> QED
    BY <1>1 DEF AcksArePaidFor, PaidFor

LEMMA PaidSame ==
    ASSUME AcksArePaidFor, UNCHANGED <<rows, acks, missed, pc, cur>>
    PROVE  AcksArePaidFor'
<1>1. \A m : Unsent(m)' = Unsent(m) /\ Free(m)' = Free(m)
    BY DEF Unsent, Free
<1> QED
    BY <1>1 DEF AcksArePaidFor, PaidFor

\* A message the step is not about.
LEMMA OthersPaid ==
    ASSUME NEW m \in Ids, PaidFor(m),
           cur # m \/ pc \notin {"ack", "insert"}, cur' # m \/ pc' \notin {"ack", "insert"},
           acks'[m] = acks[m], missed'[m] = missed[m], m \in rows' <=> m \in rows
    PROVE  PaidFor(m)'
<1>1. Unsent(m) = 0 /\ Unsent(m)' = 0 /\ Free(m)' = Free(m)
    BY DEF Unsent, Free
<1> QED
    BY <1>1 DEF PaidFor

\* An excuse is counted once, as long as excuses are counted.
LEMMA MissedOnce ==
    ASSUME TypeOK, NEW m \in Ids, PaidFor(m), missed' = Missed(m)
    PROVE  /\ missed' \in [Ids -> Nat]
           /\ \A x \in Ids \ {m} : missed'[x] = missed[x]
           /\ missed'[m] <= MaxCount - 1
           /\ missed'[m] < MaxCount - 1 =>
                 missed[m] < MaxCount - 1 /\ missed'[m] = missed[m] + 1
<1>1. missed \in [Ids -> Nat] /\ missed[m] \in Nat /\ missed[m] <= MaxCount - 1
    BY DEF TypeOK, PaidFor
<1>2. missed' = [missed EXCEPT ![m] = IF missed[m] < MaxCount - 1 THEN missed[m] + 1
                                      ELSE missed[m]]
    BY DEF Missed
<1>3. MaxCount \in Nat
    BY IntakeAssumption
<1> QED
    BY <1>1, <1>2, <1>3

\* An excuse pays for the acknowledgement of the message that is being ingested.
LEMMA ExcusePays ==
    ASSUME TypeOK, AcksArePaidFor, cur \in Ids, missed' = Missed(cur),
           UNCHANGED <<rows, acks>>, pc \in {"dedup", "insert"},
           pc' # "ack" \/ (pc' = "ack" /\ cur' = cur), pc' # "insert"
    PROVE  missed' \in [Ids -> Nat] /\ AcksArePaidFor'
<1>1. /\ missed' \in [Ids -> Nat]
      /\ \A x \in Ids \ {cur} : missed'[x] = missed[x]
      /\ missed'[cur] <= MaxCount - 1
      /\ missed'[cur] < MaxCount - 1 =>
            missed[cur] < MaxCount - 1 /\ missed'[cur] = missed[cur] + 1
    BY MissedOnce DEF AcksArePaidFor
<1>2. ASSUME NEW m \in Ids, m # cur
      PROVE  PaidFor(m)'
    <2>1. missed'[m] = missed[m] /\ PaidFor(m)
        BY <1>1, <1>2 DEF AcksArePaidFor
    <2> QED
        BY <1>2, <2>1, OthersPaid
<1>3. ASSUME NEW m \in Ids, m = cur
      PROVE  PaidFor(m)'
    <2>1. /\ acks[m] <= MaxCount /\ missed[m] <= MaxCount - 1
          /\ missed[m] < MaxCount - 1 => acks[m] + Unsent(m) <= missed[m] + Free(m)
        BY DEF AcksArePaidFor, PaidFor
    <2>2. acks[m] \in Nat /\ missed[m] \in Nat /\ missed'[m] \in Nat /\ acks'[m] = acks[m]
        BY <1>1 DEF TypeOK
    <2>3. Unsent(m) = 0 /\ Free(m) \in {0, 1}
        BY DEF Unsent, Free
    <2>4. Unsent(m)' \in {0, 1} /\ Free(m)' \in {0, 1} /\ Free(m)' >= Unsent(m)'
        BY DEF Unsent, Free
    <2>5. /\ missed'[m] <= MaxCount - 1
          /\ missed'[m] < MaxCount - 1 =>
                missed[m] < MaxCount - 1 /\ missed'[m] = missed[m] + 1
        BY <1>1, <1>3
    <2>6. MaxCount \in Nat
        BY IntakeAssumption
    <2>7. missed'[m] < MaxCount - 1 => acks'[m] + Unsent(m)' <= missed'[m] + Free(m)'
        BY ONLY <2>1, <2>2, <2>3, <2>4, <2>5, <2>6
    <2>8. acks'[m] <= MaxCount
        BY <2>1, <2>2
    <2> QED
        BY <2>5, <2>7, <2>8 DEF PaidFor
<1> QED
    BY <1>1, <1>2, <1>3 DEF AcksArePaidFor

\* The thread at the head of the queue is done.
LEMMA HeadIsDone ==
    ASSUME TypeOK, QueueOK, pc # "sleep", UNCHANGED <<mailbox, later>>,
           queue' = Tail(queue), NextThread
    PROVE  /\ queue' \in Seq(Threads)
           /\ QueueOK' /\ CurOK'
           /\ pc' \in {"sleep", "thread"} /\ cur' = NoMessage
<1>1. /\ queue \in Seq(Threads) /\ queue # <<>>
      /\ \A i, j \in 1 .. Len(queue) : queue[i] = queue[j] => i = j
    BY DEF TypeOK, QueueOK
<1>2. /\ queue' \in Seq(Threads) /\ Len(queue') = Len(queue) - 1 /\ Len(queue) \in Nat
      /\ \A i \in 1 .. Len(queue') : queue'[i] = queue[i + 1]
    BY <1>1
<1>3. pc' = IF queue' = <<>> THEN "sleep" ELSE "thread"
    BY DEF NextThread
<1>4. \A i, j \in 1 .. Len(queue') : queue'[i] = queue'[j] => i = j
    <2>1. ASSUME NEW i \in 1 .. Len(queue'), NEW j \in 1 .. Len(queue'),
                 queue'[i] = queue'[j]
          PROVE  i = j
        <3>1. /\ i + 1 \in 1 .. Len(queue) /\ j + 1 \in 1 .. Len(queue)
              /\ queue[i + 1] = queue[j + 1]
            BY <1>2, <2>1
        <3>2. i + 1 = j + 1
            BY <3>1, <1>1
        <3> QED
            BY <3>2, <1>2
    <2> QED
        BY <2>1
<1>5. \A i \in 1 .. Len(queue') :
          mailbox'[queue'[i]] # <<>> /\ Last(mailbox'[queue'[i]]) # "ack"
    <2>1. ASSUME NEW i \in 1 .. Len(queue')
          PROVE  mailbox'[queue'[i]] # <<>> /\ Last(mailbox'[queue'[i]]) # "ack"
        <3>1. i + 1 \in 1 .. Len(queue) /\ i + 1 > 1 /\ queue'[i] = queue[i + 1]
            BY <1>2
        <3>2. Open(queue[i + 1])
            BY <3>1 DEF QueueOK
        <3> QED
            BY <3>1, <3>2 DEF Open, LastOf
    <2> QED
        BY <2>1
<1>6. QueueOK'
    <2>1. pc' = "sleep" <=> queue' = <<>>
        BY <1>3
    <2>2. \A u \in Threads : u \notin later'[u]
        BY DEF QueueOK
    <2> QED
        BY <2>1, <2>2, <1>4, <1>5 DEF QueueOK, Open, LastOf
<1>7. CurOK' /\ cur' = NoMessage
    BY <1>3 DEF CurOK, NextThread
<1> QED
    BY <1>2, <1>3, <1>6, <1>7

\* The rest of the poll is dropped.
LEMMA QueueIsDropped ==
    ASSUME QueueOK, UNCHANGED later, queue' = <<>>, pc' = "sleep", cur' = NoMessage
    PROVE  queue' \in Seq(Threads) /\ QueueOK' /\ CurOK'
<1>1. Len(<<>>) = 0
    OBVIOUS
<1>2. \A i \in 1 .. Len(queue') : FALSE
    BY <1>1
<1> QED
    BY <1>2 DEF QueueOK, CurOK

\* The poller goes on with the same thread, before its acknowledgement has left.
LEMMA SameHead ==
    ASSUME QueueOK, UNCHANGED <<mailbox, later, queue>>,
           pc # "sleep", pc' # "sleep",
           pc \notin {"insert", "pipeline"} \/ pc' \in {"insert", "pipeline"}
    PROVE  QueueOK'
BY DEF QueueOK, Open, LastOf

----------------------------------------------------------------------------
(* The invariant holds initially and every step preserves it.              *)

LEMMA InitInv == Init => IntakeInv
<1> SUFFICES ASSUME Init
             PROVE  IntakeInv
    OBVIOUS
<1>1. <<>> \in Seq(Kinds) /\ <<>> \in Seq(Threads) /\ Len(<<>>) = 0
    OBVIOUS
<1>2. MaxCount \in Nat /\ MaxCount >= 1 /\ MaxMessages \in Nat
    BY IntakeAssumption
<1>3. TypeOK
    BY <1>1 DEF Init, TypeOK, Kinds
<1>4. MailboxOK
    <2>1. ASSUME NEW t \in Threads
          PROVE  NoAckTwice(mailbox[t]) /\ Cardinality(Writes(mailbox[t])) <= MaxMessages
        <3>1. mailbox[t] = <<>>
            BY DEF Init
        <3>2. NoAckTwice(<<>>) /\ Writes(<<>>) = {}
            BY <1>1 DEF NoAckTwice, Writes
        <3>3. Cardinality({}) = 0
            BY FS_EmptySet
        <3> QED
            <4>1. Cardinality(Writes(<<>>)) = 0 /\ 0 <= MaxMessages
                BY <3>2, <3>3, <1>2
            <4> QED
                BY ONLY <3>1, <3>2, <4>1
    <2> QED
        BY <2>1 DEF MailboxOK
<1>5. QueueOK /\ CurOK
    BY <1>1 DEF Init, QueueOK, CurOK
<1>6. DealtWithAreWritten
    BY DEF Init, DealtWithAreWritten
<1>7. AcksArePaidFor
    BY <1>2 DEF Init, AcksArePaidFor, PaidFor, Unsent, Free
<1> QED
    BY <1>3, <1>4, <1>5, <1>6, <1>7 DEF IntakeInv

LEMMA SomeoneWritesInv ==
    ASSUME IntakeInv, NEW t \in Threads, SomeoneWrites(t)
    PROVE  IntakeInv'
<1> USE DEF IntakeInv
<1>1. PICK who \in {"customer", "operator"} : Deliver(t, who)
    BY DEF SomeoneWrites
<1>2. Cardinality(Writes(mailbox[t])) < MaxMessages
    BY DEF SomeoneWrites, Writes
<1>3. \A u \in Threads : u \notin later[u]
    BY DEF QueueOK
<1>4. who \in Kinds /\ who # "ack"
    BY DEF Kinds
<1>5. /\ mailbox' \in [Threads -> Seq(Kinds)]
      /\ later' \in [Threads -> SUBSET Threads]
      /\ MailboxOK'
      /\ \A u \in Threads : u \notin later'[u]
      /\ Written \subseteq Written'
      /\ \A u \in Threads \ {t} : Open(u) => Open(u)'
      /\ Open(t)'
    BY <1>1, <1>2, <1>3, <1>4, DeliverKeeps
<1>6. UNCHANGED <<rows, acks, missed, pc, queue, cur, dbUp, mcpUp, faults>>
    BY DEF SomeoneWrites, poller
<1>7. TypeOK'
    BY <1>5, <1>6 DEF TypeOK, Kinds
<1>8. QueueOK'
    <2>1. ASSUME NEW i \in 1 .. Len(queue), i > 1 \/ pc \notin {"insert", "pipeline"}
          PROVE  Open(queue[i])'
        <3>1. Open(queue[i]) /\ queue[i] \in Threads
            BY <2>1 DEF QueueOK, TypeOK
        <3> QED
            BY <3>1, <1>5, <1>6
    <2> QED
        BY <2>1, <1>5, <1>6 DEF QueueOK
<1>9. CurOK'
    BY <1>5, <1>6 DEF CurOK
<1>10. DealtWithAreWritten'
    BY <1>5, <1>6, DealtKept
<1>11. AcksArePaidFor'
    BY <1>6, PaidSame
<1> QED
    BY <1>5, <1>7, <1>8, <1>9, <1>10, <1>11

LEMMA PollInboxInv ==
    ASSUME IntakeInv, PollInbox
    PROVE  IntakeInv'
<1> USE DEF IntakeInv
<1>1. UNCHANGED <<mailbox, later, rows, acks, missed, dbUp, mcpUp, faults>> /\ pc = "sleep"
    BY DEF PollInbox
<1>2. pc' = (IF queue' = <<>> THEN "sleep" ELSE "thread") /\ cur' = NoMessage
    BY DEF PollInbox, NextThread
<1>3. /\ queue' \in Seq(Threads)
      /\ \A i \in 1 .. Len(queue') : Open(queue'[i])
      /\ \A i, j \in 1 .. Len(queue') : queue'[i] = queue'[j] => i = j
    <2>1. CASE queue' \in InOrder(Listed)
        <3> DEFINE n == Cardinality(Listed)
        <3>1. n \in Nat
            <4>1. Listed \in SUBSET Threads
                BY DEF Listed
            <4> QED
                BY <4>1, IntakeAssumption, FS_Subset, FS_CardinalityType
        <3> HIDE DEF n
        <3>2. /\ queue' \in [1 .. n -> Listed]
              /\ \A i, j \in 1 .. n : i < j => queue'[i] \in later[queue'[j]]
            BY <2>1 DEF InOrder, n
        <3>3. \A u \in Listed : u \in Threads /\ Open(u)
            BY DEF Listed, Unanswered, Open
        <3>4. queue' \in Seq(Threads) /\ Len(queue') = n
            BY <3>1, <3>2, <3>3
        <3>5. ASSUME NEW i \in 1 .. n, NEW j \in 1 .. n, queue'[i] = queue'[j]
              PROVE  i = j
            <4>1. queue'[i] \in Threads /\ queue'[i] \notin later[queue'[i]]
                BY <3>2, <3>3 DEF QueueOK
            <4>2. ~(i < j) /\ ~(j < i)
                BY <4>1, <3>2, <3>5
            <4> QED
                BY <4>2, <3>1
        <3> QED
            BY <3>2, <3>3, <3>4, <3>5
    <2>2. CASE queue' = <<>>
        <3>1. <<>> \in Seq(Threads) /\ Len(<<>>) = 0
            OBVIOUS
        <3> QED
            BY <2>2, <3>1
    <2> QED
        BY <2>1, <2>2 DEF PollInbox
<1>4. TypeOK'
    BY <1>1, <1>2, <1>3 DEF TypeOK
<1>5. MailboxOK' /\ Written' = Written /\ \A u \in Threads : Open(u)' <=> Open(u)
    BY <1>1, MailboxUnchanged
<1>6. QueueOK'
    <2>1. \A i \in 1 .. Len(queue') :
              mailbox'[queue'[i]] # <<>> /\ Last(mailbox'[queue'[i]]) # "ack"
        BY <1>1, <1>3 DEF Open, LastOf
    <2>2. pc' = "sleep" <=> queue' = <<>>
        BY <1>2
    <2>3. \A u \in Threads : u \notin later'[u]
        BY <1>1 DEF QueueOK
    <2> QED
        BY <1>3, <2>1, <2>2, <2>3 DEF QueueOK, Open, LastOf
<1>7. CurOK'
    BY <1>2 DEF CurOK
<1>8. DealtWithAreWritten'
    BY <1>1, <1>5, DealtKept
<1>9. AcksArePaidFor'
    BY <1>1, <1>2, PaidElsewhere
<1> QED
    BY <1>4, <1>5, <1>6, <1>7, <1>8, <1>9

\* A step that ends with its thread, before a message of it was acknowledged.
LEMMA ThreadSkipped ==
    ASSUME IntakeInv, pc \in {"thread", "message", "dedup", "pipeline"},
           queue' = Tail(queue), NextThread,
           UNCHANGED <<mailbox, later, rows, acks, missed, dbUp, mcpUp, faults>>
    PROVE  IntakeInv'
<1> USE DEF IntakeInv
<1>1. /\ queue' \in Seq(Threads) /\ QueueOK' /\ CurOK'
      /\ pc' \in {"sleep", "thread"} /\ cur' = NoMessage
    BY HeadIsDone
<1>2. TypeOK'
    BY <1>1 DEF TypeOK
<1>3. MailboxOK' /\ Written' = Written
    BY MailboxUnchanged
<1>4. DealtWithAreWritten'
    BY <1>3, DealtKept
<1>5. AcksArePaidFor'
    BY <1>1, PaidElsewhere
<1> QED
    BY <1>1, <1>2, <1>3, <1>4, <1>5

LEMMA FetchThreadInv ==
    ASSUME IntakeInv, FetchThread
    PROVE  IntakeInv'
<1> USE DEF IntakeInv
<1>1. UNCHANGED <<mailbox, later, rows, acks, missed, dbUp, mcpUp, faults>> /\ pc = "thread"
    BY DEF FetchThread
<1>2. CASE mcpUp
    <2>1. pc' = "message" /\ queue' = queue /\ cur' = LastId(Head(queue))
        BY <1>2 DEF FetchThread
    <2>2. MailboxOK' /\ Written' = Written
        BY <1>1, MailboxUnchanged
    <2>3. queue \in Seq(Threads) /\ queue # <<>>
        BY <1>1 DEF TypeOK, QueueOK
    <2>4. Head(queue) = queue[1] /\ 1 \in 1 .. Len(queue) /\ queue[1] \in Threads
        BY <2>3
    <2>5. Open(queue[1])
        BY <2>4, <1>1 DEF QueueOK
    <2>6. cur' \in Written /\ cur'[1] = queue[1]
        BY <2>1, <2>4, <2>5, LastIdIsWritten DEF LastId
    <2>7. TypeOK'
        BY <1>1, <2>1, <2>6 DEF TypeOK, Written
    <2>8. QueueOK'
        BY <1>1, <2>1, SameHead
    <2>9. CurOK'
        BY <2>1, <2>2, <2>6 DEF CurOK
    <2>10. DealtWithAreWritten'
        BY <1>1, <2>2, DealtKept
    <2>11. AcksArePaidFor'
        BY <1>1, <2>1, PaidElsewhere
    <2> QED
        BY <2>2, <2>7, <2>8, <2>9, <2>10, <2>11
<1>3. CASE ~mcpUp
    BY <1>1, <1>3, ThreadSkipped DEF FetchThread
<1> QED
    BY <1>2, <1>3

LEMMA FetchMessageInv ==
    ASSUME IntakeInv, FetchMessage
    PROVE  IntakeInv'
<1> USE DEF IntakeInv
<1>1. UNCHANGED <<mailbox, later, rows, acks, missed, dbUp, mcpUp, faults>> /\ pc = "message"
    BY DEF FetchMessage
<1>2. CASE mcpUp
    <2>1. pc' = "dedup" /\ queue' = queue /\ cur' = cur
        BY <1>2 DEF FetchMessage
    <2>2. MailboxOK' /\ Written' = Written
        BY <1>1, MailboxUnchanged
    <2>3. TypeOK'
        BY <1>1, <2>1 DEF TypeOK
    <2>4. QueueOK'
        BY <1>1, <2>1, SameHead
    <2>5. CurOK'
        BY <1>1, <2>1, <2>2 DEF CurOK
    <2>6. DealtWithAreWritten'
        BY <1>1, <2>2, DealtKept
    <2>7. AcksArePaidFor'
        BY <1>1, <2>1, PaidElsewhere
    <2> QED
        BY <2>2, <2>3, <2>4, <2>5, <2>6, <2>7
<1>3. CASE ~mcpUp
    BY <1>1, <1>3, ThreadSkipped DEF FetchMessage
<1> QED
    BY <1>2, <1>3

LEMMA CheckDuplicateInv ==
    ASSUME IntakeInv, CheckDuplicate
    PROVE  IntakeInv'
<1> USE DEF IntakeInv
<1>1. UNCHANGED <<mailbox, later, rows, acks, dbUp, mcpUp, faults>> /\ pc = "dedup"
    BY DEF CheckDuplicate
<1>2. CASE queue' = Tail(queue) /\ NextThread /\ UNCHANGED missed
    BY <1>1, <1>2, ThreadSkipped
<1>3. CASE /\ pc' = "ack"
           /\ missed' = IF cur \in rows THEN Missed(cur) ELSE missed
           /\ ~(dbUp /\ cur \in rows)
           /\ UNCHANGED <<queue, cur>>
    <2>1. cur \in Ids /\ cur \in Written
        BY <1>1 DEF CurOK, Written
    <2>2. MailboxOK' /\ Written' = Written
        BY <1>1, MailboxUnchanged
    <2>3. missed' \in [Ids -> Nat] /\ AcksArePaidFor'
        <3>1. CASE cur \in rows
            <4>1. missed' = Missed(cur)
                BY <1>3, <3>1
            <4> QED
                BY <1>1, <1>3, <2>1, <4>1, ExcusePays
        <3>2. CASE cur \notin rows
            <4>1. missed' = missed /\ missed \in [Ids -> Nat]
                BY <1>3, <3>2 DEF TypeOK
            <4>2. ASSUME NEW m \in Ids, m # cur
                  PROVE  PaidFor(m)'
                BY <1>1, <1>3, <4>1, <4>2, OthersPaid DEF AcksArePaidFor
            <4>3. PaidFor(cur)'
                <5> DEFINE m == cur
                <5>1. /\ acks[m] <= MaxCount /\ missed[m] <= MaxCount - 1
                      /\ missed[m] < MaxCount - 1 => acks[m] + Unsent(m) <= missed[m] + Free(m)
                    BY <2>1 DEF AcksArePaidFor, PaidFor
                <5>2. Unsent(m) = 0 /\ Free(m) = 0
                    BY <1>1, <3>2 DEF Unsent, Free
                <5>3. Unsent(m)' = 1 /\ Free(m)' = 1 /\ m' = m
                    BY <1>1, <1>3, <3>2 DEF Unsent, Free
                <5>4. acks[m] \in Nat /\ missed[m] \in Nat
                    BY <2>1 DEF TypeOK
                <5>5. missed[m] < MaxCount - 1 => acks[m] + 1 <= missed[m] + 1
                    BY ONLY <5>1, <5>2, <5>4
                <5> QED
                    BY <1>1, <1>3, <4>1, <5>1, <5>3, <5>5 DEF PaidFor
            <4> QED
                BY <1>3, <4>1, <4>2, <4>3 DEF AcksArePaidFor
        <3> QED
            BY <3>1, <3>2
    <2>4. TypeOK'
        BY <1>1, <1>3, <2>3 DEF TypeOK
    <2>5. QueueOK'
        BY <1>1, <1>3, SameHead
    <2>6. CurOK'
        BY <1>1, <1>3, <2>2 DEF CurOK
    <2>7. DealtWithAreWritten'
        BY <1>1, <2>2, DealtKept
    <2> QED
        BY <2>2, <2>3, <2>4, <2>5, <2>6, <2>7
<1> QED
    BY <1>2, <1>3 DEF CheckDuplicate

LEMMA SendAckInv ==
    ASSUME IntakeInv, SendAck
    PROVE  IntakeInv'
<1> USE DEF IntakeInv
<1>1. UNCHANGED <<rows, missed, queue, cur, dbUp, mcpUp, faults>>
    BY DEF SendAck
<1>2. pc = "ack" /\ pc' = "insert"
    BY DEF SendAck
<1>3. /\ cur \in Written /\ cur \in Ids /\ cur[1] = queue[1] /\ cur[1] \in Threads
      /\ queue \in Seq(Threads) /\ 1 \in 1 .. Len(queue)
    <2>1. cur \in Written /\ cur \in Ids /\ cur[1] = queue[1]
        BY <1>2 DEF CurOK, Written
    <2>2. queue \in Seq(Threads) /\ queue # <<>>
        BY <1>2 DEF TypeOK, QueueOK
    <2>3. 1 \in 1 .. Len(queue) /\ queue[1] \in Threads
        BY <2>2
    <2> QED
        BY <2>1, <2>2, <2>3
<1>4. Open(cur[1])
    BY <1>2, <1>3 DEF QueueOK
<1>5. \A u \in Threads : u \notin later[u]
    BY DEF QueueOK
<1>6. /\ mailbox' \in [Threads -> Seq(Kinds)] /\ later' \in [Threads -> SUBSET Threads]
      /\ MailboxOK'
      /\ \A u \in Threads : u \notin later'[u]
      /\ Written \subseteq Written'
      /\ \A u \in Threads \ {cur[1]} : Open(u) => Open(u)'
    <2>1. CASE Deliver(cur[1], "ack")
        <3>1. PICK t \in Threads : t = cur[1]
            BY <1>3
        <3>2. Deliver(t, "ack") /\ Open(t) /\ "ack" \in Kinds
            BY <2>1, <3>1, <1>4 DEF Kinds
        <3> QED
            BY <3>1, <3>2, <1>5, DeliverKeeps
    <2>2. CASE UNCHANGED <<mailbox, later>>
        BY <2>2, <1>5, MailboxUnchanged DEF TypeOK, Kinds
    <2> QED
        BY <2>1, <2>2 DEF SendAck
<1>7. \/ acks' = [acks EXCEPT ![cur] = IF acks[cur] < MaxCount THEN acks[cur] + 1 ELSE acks[cur]]
      \/ acks' = acks
    BY DEF SendAck
<1>8. /\ acks \in [Ids -> Nat] /\ acks' \in [Ids -> Nat]
      /\ \A m \in Ids \ {cur} : acks'[m] = acks[m]
      /\ acks[cur] <= MaxCount => acks'[cur] <= MaxCount
      /\ acks'[cur] <= acks[cur] + 1
    <2>1. acks \in [Ids -> Nat] /\ acks[cur] \in Nat /\ MaxCount \in Nat
        BY <1>3, IntakeAssumption DEF TypeOK
    <2> QED
        BY <1>3, <1>7, <2>1
<1>9. TypeOK'
    BY <1>1, <1>2, <1>6, <1>8 DEF TypeOK, Kinds
<1>10. QueueOK'
    <2>1. ASSUME NEW i \in 1 .. Len(queue), i > 1
          PROVE  Open(queue[i])'
        <3>1. Open(queue[i]) /\ queue[i] \in Threads
            BY <2>1, <1>3 DEF QueueOK
        <3>2. queue[i] # cur[1]
            BY <2>1, <1>3 DEF QueueOK
        <3> QED
            BY <3>1, <3>2, <1>1, <1>6
    <2> QED
        BY <1>1, <1>2, <1>6, <2>1 DEF QueueOK
<1>11. CurOK'
    BY <1>1, <1>2, <1>3, <1>6 DEF CurOK
<1>12. DealtWithAreWritten'
    BY <1>1, <1>3, <1>6, <1>8 DEF DealtWithAreWritten
<1>13. AcksArePaidFor'
    <2>1. ASSUME NEW m \in Ids, m # cur
          PROVE  PaidFor(m)'
        BY <1>1, <1>8, <2>1, OthersPaid DEF AcksArePaidFor
    <2>2. PaidFor(cur)'
        <3> DEFINE m == cur
        <3>1. /\ acks[m] <= MaxCount /\ missed[m] <= MaxCount - 1
              /\ missed[m] < MaxCount - 1 => acks[m] + Unsent(m) <= missed[m] + Free(m)
            BY <1>3 DEF AcksArePaidFor, PaidFor
        <3>2. Unsent(m) = 1 /\ Free(m) = 1
            BY <1>2 DEF Unsent, Free
        <3>3. Unsent(m)' = 0 /\ Free(m)' = 1
            BY <1>1, <1>2 DEF Unsent, Free
        <3>4. acks[m] \in Nat /\ acks'[m] \in Nat /\ missed[m] \in Nat
            BY <1>3, <1>8 DEF TypeOK
        <3>5. missed[m] < MaxCount - 1 => acks'[m] + 0 <= missed[m] + 1
            BY ONLY <3>1, <3>2, <3>4, <1>8
        <3> QED
            BY <1>1, <1>8, <3>1, <3>3, <3>5 DEF PaidFor
    <2> QED
        BY <1>1, <2>1, <2>2 DEF AcksArePaidFor
<1> QED
    BY <1>6, <1>9, <1>10, <1>11, <1>12, <1>13

LEMMA InsertRowInv ==
    ASSUME IntakeInv, InsertRow
    PROVE  IntakeInv'
<1> USE DEF IntakeInv
<1>1. UNCHANGED <<mailbox, later, acks, queue, cur, dbUp, mcpUp, faults>>
    BY DEF InsertRow
<1>2. pc = "insert" /\ pc' = "pipeline"
    BY DEF InsertRow
<1>3. cur \in Written /\ cur \in Ids
    BY <1>2 DEF CurOK, Written
<1>4. MailboxOK' /\ Written' = Written
    BY <1>1, MailboxUnchanged
<1>5. QueueOK'
    BY <1>1, <1>2, SameHead
<1>6. CurOK'
    BY <1>1, <1>2, <1>4 DEF CurOK
<1>7. CASE rows' = rows \cup {cur} /\ missed' = missed
    <2>1. TypeOK'
        BY <1>1, <1>2, <1>3, <1>7 DEF TypeOK
    <2>2. DealtWithAreWritten'
        BY <1>1, <1>3, <1>4, <1>7 DEF DealtWithAreWritten
    <2>3. ASSUME NEW m \in Ids
          PROVE  PaidFor(m)'
        <3>1. PaidFor(m)
            BY DEF AcksArePaidFor
        <3>2. CASE m # cur
            BY <1>1, <1>7, <3>1, <3>2, OthersPaid
        <3>3. CASE m = cur
            <4>1. Unsent(m) = 0 /\ Unsent(m)' = 0 /\ Free(m)' = 1 /\ Free(m) = 1
                BY <1>1, <1>2, <1>7, <3>3 DEF Unsent, Free
            <4> QED
                BY <1>1, <1>7, <3>1, <4>1 DEF PaidFor
        <3> QED
            BY <3>2, <3>3
    <2> QED
        BY <1>4, <1>5, <1>6, <2>1, <2>2, <2>3 DEF AcksArePaidFor
<1>8. CASE missed' = Missed(cur) /\ rows' = rows
    <2>1. missed' \in [Ids -> Nat] /\ AcksArePaidFor'
        BY <1>1, <1>2, <1>3, <1>8, ExcusePays
    <2>2. TypeOK'
        BY <1>1, <1>2, <1>8, <2>1 DEF TypeOK
    <2>3. DealtWithAreWritten'
        BY <1>1, <1>4, <1>8, DealtKept
    <2> QED
        BY <1>4, <1>5, <1>6, <2>1, <2>2, <2>3
<1> QED
    BY <1>7, <1>8 DEF InsertRow

\* A poll that ends before its queue does.
LEMMA PollEnds ==
    ASSUME IntakeInv, queue' = <<>>, pc' = "sleep", cur' = NoMessage,
           UNCHANGED <<mailbox, later, rows, acks, dbUp, mcpUp>>,
           faults' \in Nat, missed' \in [Ids -> Nat], AcksArePaidFor'
    PROVE  IntakeInv'
<1> USE DEF IntakeInv
<1>1. queue' \in Seq(Threads) /\ QueueOK' /\ CurOK'
    BY QueueIsDropped
<1>2. MailboxOK' /\ Written' = Written
    BY MailboxUnchanged
<1>3. TypeOK'
    BY <1>1 DEF TypeOK
<1>4. DealtWithAreWritten'
    BY <1>2, DealtKept
<1> QED
    BY <1>1, <1>2, <1>3, <1>4

LEMMA PipelineEndsInv ==
    ASSUME IntakeInv, PipelineEnds
    PROVE  IntakeInv'
<1> USE DEF IntakeInv
<1>1. UNCHANGED <<mailbox, later, rows, acks, missed, dbUp, mcpUp, faults>> /\ pc = "pipeline"
    BY DEF PipelineEnds
<1>2. CASE queue' = Tail(queue)
    BY <1>1, <1>2, ThreadSkipped DEF PipelineEnds
<1>3. CASE queue' = <<>>
    <2>1. pc' = "sleep" /\ cur' = NoMessage
        BY <1>3 DEF PipelineEnds, NextThread
    <2>2. AcksArePaidFor'
        BY <1>1, <2>1, PaidElsewhere
    <2>3. faults' \in Nat /\ missed' \in [Ids -> Nat]
        BY <1>1 DEF TypeOK
    <2> QED
        BY <1>1, <1>3, <2>1, <2>2, <2>3, PollEnds
<1> QED
    BY <1>2, <1>3 DEF PipelineEnds

LEMMA ServersChangeInv ==
    ASSUME IntakeInv, ServersChange
    PROVE  IntakeInv'
<1> USE DEF IntakeInv
<1>1. UNCHANGED <<mailbox, later, rows, acks, missed, pc, queue, cur>>
    BY DEF ServersChange, poller
<1>2. faults' \in Nat /\ dbUp' \in BOOLEAN /\ mcpUp' \in BOOLEAN
    <2>1. faults \in Nat /\ dbUp \in BOOLEAN /\ mcpUp \in BOOLEAN
        BY DEF TypeOK
    <2>2. faults' = faults \/ faults' = faults + 1
        BY DEF ServersChange
    <2>3. dbUp' = dbUp \/ dbUp' = TRUE \/ dbUp' = FALSE
        BY Zenon DEF ServersChange
    <2>4. mcpUp' = mcpUp \/ mcpUp' = TRUE \/ mcpUp' = FALSE
        BY Zenon DEF ServersChange
    <2>5. dbUp' \in BOOLEAN /\ mcpUp' \in BOOLEAN
        BY Zenon, <2>1, <2>3, <2>4
    <2> QED
        BY <2>1, <2>2, <2>5
<1>3. TypeOK'
    BY <1>1, <1>2 DEF TypeOK
<1>4. MailboxOK' /\ Written' = Written
    BY <1>1, MailboxUnchanged
<1>5. QueueOK' /\ CurOK'
    BY <1>1, <1>4 DEF QueueOK, CurOK, Open, LastOf
<1>6. DealtWithAreWritten' /\ AcksArePaidFor'
    BY <1>1, <1>4, DealtKept, PaidSame
<1> QED
    BY <1>3, <1>4, <1>5, <1>6

LEMMA CrashInv ==
    ASSUME IntakeInv, Crash
    PROVE  IntakeInv'
<1> USE DEF IntakeInv
<1>1. UNCHANGED <<mailbox, later, rows, acks, dbUp, mcpUp>>
    BY DEF Crash
<1>2. pc' = "sleep" /\ queue' = <<>> /\ cur' = NoMessage /\ faults' = faults + 1
    BY DEF Crash
<1>3. faults' \in Nat
    BY <1>2 DEF TypeOK
<1>4. missed' \in [Ids -> Nat] /\ AcksArePaidFor'
    <2>1. CASE pc = "insert"
        <3>1. cur \in Ids
            BY <2>1 DEF CurOK, Written
        <3>2. missed' = Missed(cur)
            BY <2>1 DEF Crash
        <3> QED
            BY <1>1, <1>2, <2>1, <3>1, <3>2, ExcusePays
    <2>2. CASE pc # "insert"
        <3>1. missed' = missed /\ missed \in [Ids -> Nat]
            BY <2>2 DEF Crash, TypeOK
        <3>2. ASSUME NEW m \in Ids
              PROVE  PaidFor(m)'
            <4>1. /\ acks[m] <= MaxCount /\ missed[m] <= MaxCount - 1
                  /\ missed[m] < MaxCount - 1 => acks[m] + Unsent(m) <= missed[m] + Free(m)
                BY DEF AcksArePaidFor, PaidFor
            <4>2. acks[m] \in Nat /\ missed[m] \in Nat
                BY DEF TypeOK
            <4>3. /\ Unsent(m)' = 0 /\ Unsent(m) \in {0, 1}
                  /\ Free(m) \in {0, 1} /\ Free(m)' \in {0, 1}
                  /\ Free(m) = 1 => Unsent(m) = 1 \/ Free(m)' = 1
                BY <1>1, <1>2, <2>2 DEF Unsent, Free
            <4>4. missed[m] < MaxCount - 1 => acks[m] + Unsent(m)' <= missed[m] + Free(m)'
                BY ONLY <4>1, <4>2, <4>3
            <4> QED
                BY <1>1, <3>1, <4>1, <4>4 DEF PaidFor
        <3> QED
            BY <3>1, <3>2 DEF AcksArePaidFor
    <2> QED
        BY <2>1, <2>2
<1> QED
    BY <1>1, <1>2, <1>3, <1>4, PollEnds

LEMMA NextInv == IntakeInv /\ [Next]_vars => IntakeInv'
<1> SUFFICES ASSUME IntakeInv, [Next]_vars
             PROVE  IntakeInv'
    OBVIOUS
<1>1. ASSUME NEW t \in Threads, SomeoneWrites(t)
      PROVE  IntakeInv'
    BY <1>1, SomeoneWritesInv
<1>2. CASE PollInbox
    BY <1>2, PollInboxInv
<1>3. CASE FetchThread
    BY <1>3, FetchThreadInv
<1>4. CASE FetchMessage
    BY <1>4, FetchMessageInv
<1>5. CASE CheckDuplicate
    BY <1>5, CheckDuplicateInv
<1>6. CASE SendAck
    BY <1>6, SendAckInv
<1>7. CASE InsertRow
    BY <1>7, InsertRowInv
<1>8. CASE PipelineEnds
    BY <1>8, PipelineEndsInv
<1>9. CASE ServersChange
    BY <1>9, ServersChangeInv
<1>10. CASE Crash
    BY <1>10, CrashInv
<1>11. CASE UNCHANGED vars
    <2>1. UNCHANGED <<mailbox, later, rows, acks, missed, pc, queue, cur, dbUp, mcpUp, faults>>
        BY <1>11 DEF vars
    <2>2. MailboxOK' /\ Written' = Written
        BY <2>1, MailboxUnchanged DEF IntakeInv
    <2>3. DealtWithAreWritten' /\ AcksArePaidFor'
        BY <2>1, <2>2, DealtKept, PaidSame DEF IntakeInv
    <2>4. TypeOK' /\ QueueOK' /\ CurOK'
        BY <2>1, <2>2 DEF IntakeInv, TypeOK, QueueOK, CurOK, Open, LastOf
    <2> QED
        BY <2>2, <2>3, <2>4 DEF IntakeInv
<1> QED
    BY <1>1, <1>2, <1>3, <1>4, <1>5, <1>6, <1>7, <1>8, <1>9, <1>10, <1>11 DEF Next, PollerStep

LEMMA Invariance == Spec => []IntakeInv
<1> QED
    BY InitInv, NextInv, PTL DEF Spec

----------------------------------------------------------------------------
(* The theorems.                                                           *)

\* The poller's state and the mailbox have their types; in particular no thread grows
\* beyond one acknowledgement for each message people wrote.
THEOREM IntakeTyping == Spec => []TypeOK
<1>1. IntakeInv => TypeOK
    BY DEF IntakeInv
<1> QED
    BY <1>1, Invariance, PTL

\* The system never answers its own acknowledgement, whatever arrives between the list
\* and the fetch.
THEOREM IntakeNoAckLoop == Spec => []NoAckLoop
<1>1. IntakeInv => NoAckLoop
    <2> SUFFICES ASSUME IntakeInv, NEW m \in rows \cup {x \in Ids : acks[x] > 0}
                 PROVE  KindOf(m) # "ack"
        BY DEF NoAckLoop
    <2>1. m \in Ids
        BY DEF IntakeInv, TypeOK
    <2>2. m \in Written
        BY <2>1 DEF IntakeInv, DealtWithAreWritten
    <2> QED
        BY <2>2 DEF Written
<1> QED
    BY <1>1, Invariance, PTL

\* One message is acknowledged once, and once more for each ingest of it that left no
\* row or duplicate check that could not be made.
THEOREM IntakeAckBudget == Spec => []AckBudget
<1>1. IntakeInv => AckBudget
    <2> SUFFICES ASSUME IntakeInv, NEW m \in Ids
                 PROVE  acks[m] <= 1 + missed[m]
        BY DEF AckBudget
    <2>1. /\ acks[m] <= MaxCount /\ missed[m] <= MaxCount - 1
          /\ missed[m] < MaxCount - 1 => acks[m] + Unsent(m) <= missed[m] + Free(m)
        BY DEF IntakeInv, AcksArePaidFor, PaidFor
    <2>2. acks[m] \in Nat /\ missed[m] \in Nat
        BY DEF IntakeInv, TypeOK
    <2>3. MaxCount \in Nat
        BY IntakeAssumption
    <2>4. Unsent(m) \in {0, 1} /\ Free(m) \in {0, 1}
        BY DEF Unsent, Free
    <2> QED
        BY ONLY <2>1, <2>2, <2>3, <2>4
<1> QED
    BY <1>1, Invariance, PTL

=============================================================================
