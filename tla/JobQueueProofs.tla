-------------------------- MODULE JobQueueProofs --------------------------
(***************************************************************************)
(* A queued job runs at most once and its record does not lie:             *)
(* JobReportIsTrue of JobQueue, for any jobs, workers and number of faults.*)
(***************************************************************************)
EXTENDS JobQueue, SequenceTheorems, TLAPS

-----------------------------------------------------------------------------
(* The inductive invariant.                                                *)

Holds(w) == worker[w].pc \notin {"off", "dequeue"}

\* A job is in one place at most: its submitter, one slot of the queue, or one worker.
OnePlace ==
    /\ \A i, k \in 1..Len(queue) : queue[i] = queue[k] => i = k
    /\ \A w \in Workers : Holds(w) => worker[w].job \in Jobs
    /\ \A w \in Workers, i \in 1..Len(queue) : Holds(w) => worker[w].job # queue[i]
    /\ \A v, w \in Workers :
          Holds(v) /\ Holds(w) /\ worker[v].job = worker[w].job => v = w
    /\ \A j \in Jobs : submitter[j] \in {"idle", "stored"} =>
          /\ \A i \in 1..Len(queue) : queue[i] # j
          /\ \A w \in Workers : Holds(w) => worker[w].job # j

\* Where a job is tells whether its tool has run.
NotYetRun ==
    /\ \A j \in Jobs : ran[j] = 0 => ~ succeeded[j]
    /\ \A j \in Jobs : submitter[j] \in {"idle", "stored"} => ran[j] = 0
    /\ \A i \in 1..Len(queue) : ran[queue[i]] = 0
    /\ \A w \in Workers :
          worker[w].pc \in {"lookup", "mark", "marking", "execute"} => ran[worker[w].job] = 0

\* What a worker is about to report is what happened.
ReportsAreTrue ==
    \A w \in Workers :
       /\ worker[w].pc \in {"complete", "completing"} =>
             ran[worker[w].job] = 1 /\ succeeded[worker[w].job]
       /\ worker[w].pc \in {"fail", "failing"} =>
             /\ ran[worker[w].job] = 1
             /\ ~ succeeded[worker[w].job] \/ misreported[worker[w].job]

JobsInv == JobsTypeOK /\ OnePlace /\ NotYetRun /\ ReportsAreTrue /\ JobReportIsTrue

-----------------------------------------------------------------------------
(* The tables of worker_loop.                                              *)

\* Which record each write of the worker leaves.
LEMMA MarkTable ==
    /\ DOMAIN Mark = {"marking", "completing", "failing"}
    /\ Mark["marking"] = "RUNNING"
    /\ Mark["completing"] = "COMPLETED"
    /\ Mark["failing"] = "FAILED"
BY DEF Mark

\* Which write follows each read.
LEMMA WritingTable ==
    /\ DOMAIN Writing = {"mark", "complete", "fail"}
    /\ Writing["mark"] = "marking"
    /\ Writing["complete"] = "completing"
    /\ Writing["fail"] = "failing"
BY DEF Writing

\* The states of a worker, spelled out.
LEMMA WorkerStatesTable ==
    WorkerStates = {"off", "dequeue", "lookup", "mark", "execute", "complete", "fail",
                    "marking", "completing", "failing"}
BY MarkTable DEF WorkerStates

-----------------------------------------------------------------------------
(* A worker that keeps its job, or lets go of it, moves no other job.      *)

\* What a worker's move makes of the workers.
LEMMA WorkerMoves ==
    ASSUME JobsTypeOK, NEW w \in Workers, NEW pc \in WorkerStates,
           NEW j \in Jobs \cup {NoJob}, WorkerGoes(w, pc, j)
    PROVE  /\ worker' \in [Workers -> [pc : WorkerStates, job : Jobs \cup {NoJob}]]
           /\ worker'[w].pc = pc /\ worker'[w].job = j
           /\ \A v \in Workers \ {w} : worker'[v] = worker[v]
BY DEF JobsTypeOK, WorkerGoes

\* ... and such a move leaves every job in one place.
LEMMA PlacesKept ==
    ASSUME JobsTypeOK, OnePlace, NEW w \in Workers, NEW pc \in WorkerStates,
           NEW j \in Jobs \cup {NoJob}, WorkerGoes(w, pc, j),
           pc \in {"off", "dequeue"} \/ (Holds(w) /\ j = worker[w].job),
           UNCHANGED <<queue, submitter>>
    PROVE  OnePlace'
<1>1. \A v \in Workers : Holds(v)' => Holds(v) /\ worker'[v].job = worker[v].job
    BY WorkerMoves DEF Holds
<1> QED
    BY <1>1 DEF OnePlace

-----------------------------------------------------------------------------
(* The initial states and the steps.                                       *)

\* A step that loses no access leaves the count of failed ones; one that does adds one.
LEMMA FaultsBounded ==
    ASSUME JobsTypeOK, UNCHANGED jobFaults \/ JobFault
    PROVE  jobFaults' \in 0..JobFaults
BY JobFaultsAssumption DEF JobsTypeOK, JobFault

\* At the start no job is anywhere, and nothing has been run or reported.
LEMMA JobsInitInv == JobsInit => JobsInv
<1> SUFFICES ASSUME JobsInit PROVE JobsInv
    OBVIOUS
<1>1. JobsTypeOK
    BY JobFaultsAssumption, WorkerStatesTable DEF JobsInit, JobsTypeOK, RecordStatuses
<1>2. \A w \in Workers : worker[w].pc \in {"off", "dequeue"}
    BY DEF JobsInit
<1>3. OnePlace
    BY <1>2 DEF JobsInit, OnePlace, Holds
<1>4. NotYetRun /\ ReportsAreTrue
    BY <1>2 DEF JobsInit, NotYetRun, ReportsAreTrue
<1>5. JobReportIsTrue
    <2> SUFFICES ASSUME NEW j \in Jobs
                 PROVE  /\ ran[j] <= 1
                        /\ record[j] \notin {"COMPLETED", "FAILED"}
        BY Zenon DEF JobReportIsTrue
    <2>1. ran[j] = 0 /\ record[j] = "none"
        BY DEF JobsInit
    <2> QED
        BY <2>1
<1> QED
    BY <1>1, <1>3, <1>4, <1>5 DEF JobsInv

\* submit_job: the record is stored, or not; the job is nowhere else yet.
LEMMA StorePendingStep ==
    ASSUME JobsInv, NEW j \in Jobs, StorePending(j)
    PROVE  JobsInv'
<1>1. JobsTypeOK'
    <2>1. UNCHANGED <<queue, worker, ran, succeeded, misreported>>
        BY DEF StorePending, jobHistory
    <2>2. /\ record' \in [Jobs -> RecordStatuses] /\ volatile' \in [Jobs -> BOOLEAN]
        BY DEF JobsInv, JobsTypeOK, StorePending, SetRecord, RecordStatuses
    <2>3. submitter' \in [Jobs -> {"idle", "stored", "returned", "raised"}]
        BY DEF JobsInv, JobsTypeOK, StorePending
    <2>4. jobFaults' \in 0..JobFaults
        BY FaultsBounded DEF JobsInv, StorePending
    <2> QED
        BY <2>1, <2>2, <2>3, <2>4 DEF JobsInv, JobsTypeOK
<1>2. UNCHANGED <<queue, worker, ran, succeeded, misreported>> /\ submitter[j] = "idle"
    BY DEF StorePending, jobHistory
<1>3. \A k \in Jobs : submitter'[k] \in {"idle", "stored"} => submitter[k] \in {"idle", "stored"}
    BY <1>2 DEF JobsInv, JobsTypeOK, StorePending
<1>4. \A k \in Jobs : record'[k] \in {"COMPLETED", "FAILED"} => record'[k] = record[k]
    BY DEF JobsInv, JobsTypeOK, StorePending, SetRecord
<1>5. OnePlace'
    BY <1>2, <1>3 DEF JobsInv, OnePlace, Holds
<1>6. NotYetRun'
    BY <1>2, <1>3 DEF JobsInv, NotYetRun
<1>7. ReportsAreTrue'
    BY <1>2 DEF JobsInv, ReportsAreTrue
<1>8. JobReportIsTrue'
    BY <1>2, <1>4 DEF JobsInv, JobReportIsTrue
<1> QED
    BY <1>1, <1>5, <1>6, <1>7, <1>8 DEF JobsInv

\* enqueue_job: the job goes from its submitter to the queue, or nowhere.
LEMMA PushStep ==
    ASSUME JobsInv, NEW j \in Jobs, Push(j)
    PROVE  JobsInv'
<1>1. JobsTypeOK'
    <2>1. UNCHANGED <<record, volatile, worker, ran, succeeded, misreported>>
        BY DEF Push, jobHistory
    <2>2. queue' \in Seq(Jobs)
        <3>1. queue \in Seq(Jobs)
            BY DEF JobsInv, JobsTypeOK
        <3>2. queue' = queue \/ queue' = Append(queue, j)
            BY DEF Push
        <3> QED
            BY <3>1, <3>2
    <2>3. submitter' \in [Jobs -> {"idle", "stored", "returned", "raised"}]
        BY DEF JobsInv, JobsTypeOK, Push
    <2>4. jobFaults' \in 0..JobFaults
        BY FaultsBounded DEF JobsInv, Push
    <2> QED
        BY <2>1, <2>2, <2>3, <2>4 DEF JobsInv, JobsTypeOK
<1>2. /\ UNCHANGED <<record, worker, ran, succeeded, misreported>>
      /\ submitter[j] = "stored" /\ queue' \in {queue, Append(queue, j)}
    BY DEF Push, jobHistory
<1>3. /\ submitter'[j] = "returned" \/ submitter'[j] = "raised"
      /\ \A k \in Jobs \ {j} : submitter'[k] = submitter[k]
    BY DEF JobsInv, JobsTypeOK, Push
<1>4. queue \in Seq(Jobs)
    BY DEF JobsInv, JobsTypeOK
<1>5. OnePlace'
    <2>1. CASE queue' = queue
        BY <1>2, <1>3, <2>1 DEF JobsInv, OnePlace, Holds
    <2>2. CASE queue' = Append(queue, j)
        <3>1. /\ Len(queue') = Len(queue) + 1 /\ queue'[Len(queue) + 1] = j
              /\ \A i \in 1..Len(queue) : queue'[i] = queue[i] /\ queue[i] # j
              /\ Len(queue) \in Nat
            BY <1>2, <1>4, <2>2 DEF JobsInv, OnePlace
        <3>2. \A i \in 1..Len(queue') : i \in 1..Len(queue) \/ i = Len(queue) + 1
            BY <3>1
        <3>3. \A w \in Workers : Holds(w) => worker[w].job # j
            BY <1>2 DEF JobsInv, OnePlace
        <3>4. \A i, k \in 1..Len(queue') : queue'[i] = queue'[k] => i = k
            BY <3>1, <3>2 DEF JobsInv, OnePlace
        <3>5. \A w \in Workers, i \in 1..Len(queue') : Holds(w) => worker[w].job # queue'[i]
            BY <3>1, <3>2, <3>3 DEF JobsInv, OnePlace
        <3>6. \A k \in Jobs : submitter'[k] \in {"idle", "stored"} =>
                 /\ \A i \in 1..Len(queue') : queue'[i] # k
                 /\ \A w \in Workers : Holds(w) => worker[w].job # k
            BY <1>3, <3>1, <3>2 DEF JobsInv, OnePlace
        <3> QED
            BY <1>2, <3>4, <3>5, <3>6 DEF JobsInv, OnePlace, Holds
    <2> QED
        BY <1>2, <2>1, <2>2
<1>6. NotYetRun'
    <2>1. ran[j] = 0
        BY <1>2 DEF JobsInv, NotYetRun
    <2>2. \A i \in 1..Len(queue') : queue'[i] = j \/ \E k \in 1..Len(queue) : queue'[i] = queue[k]
        BY <1>2, <1>4
    <2> QED
        BY <1>2, <1>3, <2>1, <2>2 DEF JobsInv, NotYetRun
<1>7. ReportsAreTrue' /\ JobReportIsTrue'
    BY <1>2 DEF JobsInv, ReportsAreTrue, JobReportIsTrue
<1> QED
    BY <1>1, <1>5, <1>6, <1>7 DEF JobsInv

\* A record that expires claims nothing.
LEMMA ExpireStep ==
    ASSUME JobsInv, NEW j \in Jobs, Expire(j)
    PROVE  JobsInv'
<1>1. UNCHANGED <<queue, submitter, worker, ran, succeeded, misreported, jobFaults>>
    BY DEF Expire, jobHistory
<1>2. JobsTypeOK'
    BY DEF JobsInv, JobsTypeOK, Expire, RecordStatuses, jobHistory
<1>3. \A k \in Jobs : record'[k] \in {"COMPLETED", "FAILED"} => record'[k] = record[k]
    BY DEF JobsInv, JobsTypeOK, Expire
<1>4. OnePlace' /\ NotYetRun' /\ ReportsAreTrue'
    BY <1>1 DEF JobsInv, OnePlace, Holds, NotYetRun, ReportsAreTrue
<1>5. JobReportIsTrue'
    BY <1>1, <1>3 DEF JobsInv, JobReportIsTrue
<1> QED
    BY <1>2, <1>4, <1>5 DEF JobsInv

-----------------------------------------------------------------------------
(* The steps of a worker.                                                  *)

\* dequeue_job: the head of the queue is the worker's alone, or lost.
LEMMA DequeueStep ==
    ASSUME JobsInv, NEW w \in Workers, Dequeue(w)
    PROVE  JobsInv'
<1> DEFINE j == Head(queue)
<1>1. /\ UNCHANGED <<record, volatile, submitter, ran, succeeded, misreported>>
      /\ worker[w].pc = "dequeue" /\ queue # <<>> /\ queue' = Tail(queue)
      /\ UNCHANGED jobFaults \/ JobFault
      /\ WorkerGoes(w, "lookup", j) \/ WorkerGoes(w, "dequeue", NoJob)
    BY DEF Dequeue, NextRound, jobHistory
<1>2. /\ queue \in Seq(Jobs) /\ Len(queue) \in Nat
      /\ 1 \in 1..Len(queue) /\ j = queue[1] /\ j \in Jobs
      /\ queue' \in Seq(Jobs) /\ Len(queue') = Len(queue) - 1
      /\ \A i \in 1..Len(queue') : i + 1 \in 1..Len(queue) /\ queue'[i] = queue[i + 1]
    BY <1>1 DEF JobsInv, JobsTypeOK
<1>3. PICK pc \in {"lookup", "dequeue"}, k \in Jobs \cup {NoJob} :
          /\ WorkerGoes(w, pc, k)
          /\ pc = "lookup" => k = j
    BY <1>1, <1>2
<1>4. /\ worker' \in [Workers -> [pc : WorkerStates, job : Jobs \cup {NoJob}]]
      /\ worker'[w].pc = pc /\ worker'[w].job = k
      /\ \A v \in Workers \ {w} : worker'[v] = worker[v]
    BY <1>3, WorkerMoves, WorkerStatesTable DEF JobsInv
<1>5. JobsTypeOK'
    BY <1>1, <1>2, <1>4, FaultsBounded DEF JobsInv, JobsTypeOK
<1>6. \A v \in Workers : Holds(v)' =>
          \/ v = w /\ worker'[v].job = queue[1]
          \/ v # w /\ Holds(v) /\ worker'[v].job = worker[v].job
    BY <1>2, <1>3, <1>4 DEF Holds
<1>7. OnePlace'
    <2>1. \A i, m \in 1..Len(queue') : queue'[i] = queue'[m] => i = m
        BY <1>2 DEF JobsInv, OnePlace
    <2>2. \A v \in Workers : Holds(v)' => worker'[v].job \in Jobs
        BY <1>2, <1>6 DEF JobsInv, OnePlace
    <2>3. \A i \in 1..Len(queue') : queue'[i] # queue[1]
        BY <1>2 DEF JobsInv, OnePlace
    <2>4. \A v \in Workers, i \in 1..Len(queue') : Holds(v)' => worker'[v].job # queue'[i]
        BY <1>2, <1>6, <2>3 DEF JobsInv, OnePlace
    <2>5. \A u, v \in Workers :
              Holds(u)' /\ Holds(v)' /\ worker'[u].job = worker'[v].job => u = v
        BY <1>2, <1>6 DEF JobsInv, OnePlace
    <2>6. \A m \in Jobs : submitter'[m] \in {"idle", "stored"} =>
              /\ \A i \in 1..Len(queue') : queue'[i] # m
              /\ \A v \in Workers : Holds(v)' => worker'[v].job # m
        BY <1>1, <1>2, <1>6 DEF JobsInv, OnePlace
    <2> QED
        BY <2>1, <2>2, <2>4, <2>5, <2>6 DEF OnePlace
<1>8. NotYetRun'
    <2>1. ran[j] = 0 /\ \A i \in 1..Len(queue') : ran[queue'[i]] = 0
        BY <1>2 DEF JobsInv, NotYetRun
    <2>2. \A v \in Workers :
              worker'[v].pc \in {"lookup", "mark", "marking", "execute"} => ran[worker'[v].job] = 0
        BY <1>3, <1>4, <2>1 DEF JobsInv, NotYetRun
    <2> QED
        BY <1>1, <2>1, <2>2 DEF JobsInv, NotYetRun
<1>9. ReportsAreTrue'
    BY <1>1, <1>3, <1>4 DEF JobsInv, ReportsAreTrue
<1>10. JobReportIsTrue'
    BY <1>1 DEF JobsInv, JobReportIsTrue
<1> QED
    BY <1>5, <1>7, <1>8, <1>9, <1>10 DEF JobsInv

\* A worker that goes on with its job, or lets go of it, keeps the invariant when
\* what its next state says of the job is true.
LEMMA WorkerGoesOn ==
    ASSUME JobsInv, NEW w \in Workers, NEW pc \in WorkerStates,
           NEW j \in Jobs \cup {NoJob}, WorkerGoes(w, pc, j),
           pc \in {"off", "dequeue"} \/ (Holds(w) /\ j = worker[w].job),
           UNCHANGED <<queue, submitter, ran, succeeded>>,
           \A k \in Jobs : misreported[k] => misreported'[k],
           pc \in {"lookup", "mark", "marking", "execute"} => ran[j] = 0,
           pc \in {"complete", "completing"} => ran[j] = 1 /\ succeeded[j],
           pc \in {"fail", "failing"} => ran[j] = 1 /\ (~ succeeded[j] \/ misreported'[j])
    PROVE  /\ worker' \in [Workers -> [pc : WorkerStates, job : Jobs \cup {NoJob}]]
           /\ OnePlace' /\ NotYetRun' /\ ReportsAreTrue'
<1>1. /\ worker' \in [Workers -> [pc : WorkerStates, job : Jobs \cup {NoJob}]]
      /\ worker'[w].pc = pc /\ worker'[w].job = j
      /\ \A v \in Workers \ {w} : worker'[v] = worker[v]
    BY WorkerMoves DEF JobsInv
<1>2. OnePlace'
    BY PlacesKept DEF JobsInv
<1>3. NotYetRun'
    BY <1>1 DEF JobsInv, NotYetRun
<1>4. ReportsAreTrue'
    <2> SUFFICES ASSUME NEW v \in Workers
                 PROVE  /\ worker'[v].pc \in {"complete", "completing"} =>
                              ran[worker'[v].job] = 1 /\ succeeded[worker'[v].job]
                        /\ worker'[v].pc \in {"fail", "failing"} =>
                              /\ ran[worker'[v].job] = 1
                              /\ ~ succeeded[worker'[v].job] \/ misreported'[worker'[v].job]
        BY DEF ReportsAreTrue
    <2>1. CASE v = w
        BY <1>1, <2>1
    <2>2. CASE v # w
        <3>1. worker'[v] = worker[v]
            BY <1>1, <2>2
        <3>2. worker[v].pc \in {"fail", "failing"} => worker[v].job \in Jobs
            BY DEF JobsInv, OnePlace, Holds
        <3> QED
            BY <3>1, <3>2 DEF JobsInv, ReportsAreTrue
    <2> QED
        BY <2>1, <2>2
<1> QED
    BY <1>1, <1>2, <1>3, <1>4

\* The status record of the popped job is looked up; the job goes on or is dropped.
LEMMA LookupStep ==
    ASSUME JobsInv, NEW w \in Workers, Lookup(w)
    PROVE  JobsInv'
<1>1. /\ UNCHANGED <<record, volatile, queue, submitter, ran, succeeded, misreported>>
      /\ UNCHANGED jobFaults \/ JobFault
      /\ worker[w].pc = "lookup"
      /\ WorkerGoes(w, "mark", worker[w].job) \/ WorkerGoes(w, "dequeue", NoJob)
    BY DEF Lookup, NextRound, jobHistory
<1>2. Holds(w) /\ worker[w].job \in Jobs /\ ran[worker[w].job] = 0
    BY <1>1 DEF JobsInv, OnePlace, NotYetRun, Holds
<1>3. /\ worker' \in [Workers -> [pc : WorkerStates, job : Jobs \cup {NoJob}]]
      /\ OnePlace' /\ NotYetRun' /\ ReportsAreTrue'
    <2>1. CASE WorkerGoes(w, "mark", worker[w].job)
        BY <1>1, <1>2, <2>1, WorkerGoesOn, WorkerStatesTable
    <2>2. CASE WorkerGoes(w, "dequeue", NoJob)
        BY <1>1, <2>2, WorkerGoesOn, WorkerStatesTable
    <2> QED
        BY <1>1, <2>1, <2>2
<1>4. JobsTypeOK'
    BY <1>1, <1>3, FaultsBounded DEF JobsInv, JobsTypeOK
<1>5. JobReportIsTrue'
    BY <1>1 DEF JobsInv, JobReportIsTrue
<1> QED
    BY <1>3, <1>4, <1>5 DEF JobsInv

\* Between two rounds, or as its process dies, a worker lets go of its job.
LEMMA LettingGoStep ==
    ASSUME JobsInv, NEW w \in Workers, StopWorker(w) \/ WorkerCrash(w)
    PROVE  JobsInv'
<1>1. /\ UNCHANGED <<record, volatile, queue, submitter, ran, succeeded, misreported>>
      /\ UNCHANGED jobFaults \/ JobFault
    BY DEF StopWorker, WorkerCrash, jobHistory
<1>2. PICK pc \in {"off", "dequeue"} : WorkerGoes(w, pc, NoJob)
    BY DEF StopWorker, WorkerCrash, NextRound
<1>3. /\ worker' \in [Workers -> [pc : WorkerStates, job : Jobs \cup {NoJob}]]
      /\ OnePlace' /\ NotYetRun' /\ ReportsAreTrue'
    BY <1>1, <1>2, WorkerGoesOn, WorkerStatesTable
<1>4. JobsTypeOK'
    BY <1>1, <1>3, FaultsBounded DEF JobsInv, JobsTypeOK
<1>5. JobReportIsTrue'
    BY <1>1 DEF JobsInv, JobReportIsTrue
<1> QED
    BY <1>3, <1>4, <1>5 DEF JobsInv

\* What update_job_status can do to the worker, raising or not, before the write and
\* after it: the worker's next state is true of its job in each case.
LEMMA UpdateOutcome ==
    ASSUME JobsInv, NEW w \in Workers, NEW j, j = worker[w].job,
           worker[w].pc \in DOMAIN Writing \cup DOMAIN Mark,
           Proceeds(w, j) \/ (Caught(w, j) /\ JobFault),
           UNCHANGED <<queue, submitter>>
    PROVE  /\ worker' \in [Workers -> [pc : WorkerStates, job : Jobs \cup {NoJob}]]
           /\ misreported' \in [Jobs -> BOOLEAN]
           /\ \A k \in Jobs : misreported[k] => misreported'[k]
           /\ UNCHANGED <<ran, succeeded>>
           /\ UNCHANGED jobFaults \/ JobFault
           /\ OnePlace' /\ NotYetRun' /\ ReportsAreTrue'
<1>1. /\ worker[w].pc \in {"mark", "complete", "fail", "marking", "completing", "failing"}
      /\ Holds(w) /\ j \in Jobs
    BY MarkTable, WritingTable DEF JobsInv, OnePlace, Holds
<1>2. /\ UNCHANGED <<ran, succeeded>>
      /\ UNCHANGED jobFaults \/ JobFault
    BY DEF Proceeds, Caught, jobHistory
<1>3. /\ misreported' \in [Jobs -> BOOLEAN]
      /\ \A k \in Jobs : misreported[k] => misreported'[k]
    <2>1. misreported \in [Jobs -> BOOLEAN]
        BY DEF JobsInv, JobsTypeOK
    <2>2. misreported' = misreported \/ misreported' = [misreported EXCEPT ![j] = TRUE]
        BY DEF Proceeds, Caught, jobHistory
    <2> QED
        BY <2>1, <2>2
<1>4. CASE WorkerGoes(w, "dequeue", NoJob)
    BY <1>2, <1>3, <1>4, WorkerGoesOn, WorkerStatesTable
<1>5. CASE WorkerGoes(w, "execute", j) /\ worker[w].pc \in {"mark", "marking"}
    <2>1. ran[j] = 0
        BY <1>5 DEF JobsInv, NotYetRun
    <2> QED
        BY <1>1, <1>2, <1>3, <1>5, <2>1, WorkerGoesOn, WorkerStatesTable
<1>6. CASE /\ WorkerGoes(w, "fail", j) /\ worker[w].pc \in {"complete", "completing"}
           /\ misreported' = [misreported EXCEPT ![j] = TRUE]
    <2>1. ran[j] = 1
        BY <1>6 DEF JobsInv, ReportsAreTrue
    <2>2. misreported'[j]
        BY <1>1, <1>6 DEF JobsInv, JobsTypeOK
    <2> QED
        BY <1>1, <1>2, <1>3, <1>6, <2>1, <2>2, WorkerGoesOn, WorkerStatesTable
<1>7. \/ WorkerGoes(w, "dequeue", NoJob)
      \/ WorkerGoes(w, "execute", j) /\ worker[w].pc \in {"mark", "marking"}
      \/ /\ WorkerGoes(w, "fail", j) /\ worker[w].pc \in {"complete", "completing"}
         /\ misreported' = [misreported EXCEPT ![j] = TRUE]
    BY DEF Proceeds, Caught, NextRound
<1> QED
    BY <1>2, <1>3, <1>4, <1>5, <1>6, <1>7

\* update_job_status reads the record before it writes it.
LEMMA ReadRecordStep ==
    ASSUME JobsInv, NEW w \in Workers, ReadRecord(w)
    PROVE  JobsInv'
<1> DEFINE j == worker[w].job
<1>1. /\ worker[w].pc \in {"mark", "complete", "fail"}
      /\ UNCHANGED <<record, volatile, queue, submitter>>
      /\ \/ /\ WorkerGoes(w, Writing[worker[w].pc], j)
            /\ UNCHANGED <<jobHistory, jobFaults>>
         \/ Proceeds(w, j) \/ (Caught(w, j) /\ JobFault)
    BY WritingTable DEF ReadRecord
<1>2. /\ worker' \in [Workers -> [pc : WorkerStates, job : Jobs \cup {NoJob}]]
      /\ misreported' \in [Jobs -> BOOLEAN]
      /\ \A k \in Jobs : misreported[k] => misreported'[k]
      /\ UNCHANGED <<ran, succeeded>>
      /\ UNCHANGED jobFaults \/ JobFault
      /\ OnePlace' /\ NotYetRun' /\ ReportsAreTrue'
    <2>1. CASE Proceeds(w, j) \/ (Caught(w, j) /\ JobFault)
        BY <1>1, <2>1, UpdateOutcome, WritingTable
    <2>2. CASE WorkerGoes(w, Writing[worker[w].pc], j) /\ UNCHANGED <<jobHistory, jobFaults>>
        <3>1. PICK pc \in {"marking", "completing", "failing"} :
                  /\ pc = Writing[worker[w].pc]
                  /\ pc = "marking" => worker[w].pc = "mark"
                  /\ pc = "completing" => worker[w].pc = "complete"
                  /\ pc = "failing" => worker[w].pc = "fail"
            BY <1>1, WritingTable
        <3>2. Holds(w) /\ j \in Jobs
            BY <1>1 DEF JobsInv, OnePlace, Holds
        <3>3. UNCHANGED <<ran, succeeded, misreported, jobFaults>>
            BY <2>2 DEF jobHistory
        <3>4. /\ pc = "marking" => ran[j] = 0
              /\ pc = "completing" => ran[j] = 1 /\ succeeded[j]
              /\ pc = "failing" => ran[j] = 1 /\ (~ succeeded[j] \/ misreported[j])
            BY <3>1 DEF JobsInv, NotYetRun, ReportsAreTrue
        <3>5. misreported' \in [Jobs -> BOOLEAN]
            BY <3>3 DEF JobsInv, JobsTypeOK
        <3> QED
            BY <1>1, <2>2, <3>1, <3>2, <3>3, <3>4, <3>5, WorkerGoesOn, WorkerStatesTable
    <2> QED
        BY <1>1, <2>1, <2>2
<1>3. JobsTypeOK'
    BY <1>1, <1>2, FaultsBounded DEF JobsInv, JobsTypeOK
<1>4. JobReportIsTrue'
    BY <1>1, <1>2 DEF JobsInv, JobReportIsTrue
<1> QED
    BY <1>2, <1>3, <1>4 DEF JobsInv

\* ... and what it writes is what the worker knows of its job.
LEMMA WriteRecordStep ==
    ASSUME JobsInv, NEW w \in Workers, WriteRecord(w)
    PROVE  JobsInv'
<1> DEFINE j == worker[w].job
<1>1. /\ worker[w].pc \in {"marking", "completing", "failing"}
      /\ UNCHANGED <<queue, submitter>>
      /\ Proceeds(w, j) \/ (Caught(w, j) /\ JobFault)
      /\ SetRecord(j, Mark[worker[w].pc]) \/ UNCHANGED <<record, volatile>>
    BY MarkTable DEF WriteRecord
<1>2. /\ worker' \in [Workers -> [pc : WorkerStates, job : Jobs \cup {NoJob}]]
      /\ misreported' \in [Jobs -> BOOLEAN]
      /\ \A k \in Jobs : misreported[k] => misreported'[k]
      /\ UNCHANGED <<ran, succeeded>>
      /\ UNCHANGED jobFaults \/ JobFault
      /\ OnePlace' /\ NotYetRun' /\ ReportsAreTrue'
    BY <1>1, UpdateOutcome, MarkTable
<1>3. j \in Jobs
    BY <1>1 DEF JobsInv, OnePlace, Holds
<1>4. /\ record \in [Jobs -> RecordStatuses] /\ volatile \in [Jobs -> BOOLEAN]
      /\ Mark[worker[w].pc] \in {"RUNNING", "COMPLETED", "FAILED"}
    BY <1>1, MarkTable DEF JobsInv, JobsTypeOK
<1>5. record' \in [Jobs -> RecordStatuses] /\ volatile' \in [Jobs -> BOOLEAN]
    BY <1>1, <1>4 DEF SetRecord, RecordStatuses
<1>6. JobsTypeOK'
    BY <1>1, <1>2, <1>5, FaultsBounded DEF JobsInv, JobsTypeOK
<1>7. JobReportIsTrue'
    <2> SUFFICES ASSUME NEW k \in Jobs
                 PROVE  /\ ran[k] <= 1
                        /\ record'[k] = "COMPLETED" => succeeded[k]
                        /\ record'[k] = "FAILED" =>
                              ran[k] = 1 /\ (~ succeeded[k] \/ misreported'[k])
        BY <1>2 DEF JobReportIsTrue
    <2>1. CASE record'[k] = record[k]
        BY <1>2, <2>1 DEF JobsInv, JobReportIsTrue
    <2>2. CASE k = j /\ record'[j] = Mark[worker[w].pc]
        <3>1. /\ worker[w].pc = "completing" => succeeded[j]
              /\ worker[w].pc = "failing" => ran[j] = 1 /\ (~ succeeded[j] \/ misreported[j])
            BY DEF JobsInv, ReportsAreTrue
        <3>2. /\ record'[j] = "COMPLETED" => worker[w].pc = "completing"
              /\ record'[j] = "FAILED" => worker[w].pc = "failing"
            BY <1>1, <2>2, MarkTable
        <3>3. ran[k] <= 1
            BY DEF JobsInv, JobReportIsTrue
        <3> QED
            BY <1>2, <2>2, <3>1, <3>2, <3>3
    <2>3. record'[k] = record[k] \/ (k = j /\ record'[j] = Mark[worker[w].pc])
        BY <1>1, <1>3, <1>4 DEF SetRecord
    <2> QED
        BY <2>1, <2>2, <2>3
<1> QED
    BY <1>2, <1>6, <1>7 DEF JobsInv

\* call_tool: the job's first run, whose outcome no other worker's report is about.
LEMMA ExecuteToolStep ==
    ASSUME JobsInv, NEW w \in Workers, ExecuteTool(w)
    PROVE  JobsInv'
<1> DEFINE j == worker[w].job
<1>1. /\ UNCHANGED <<record, volatile, queue, submitter, misreported, jobFaults>>
      /\ worker[w].pc = "execute"
      /\ ran' = [ran EXCEPT ![j] = @ + 1]
    BY DEF ExecuteTool
<1>2. Holds(w) /\ j \in Jobs /\ ran[j] = 0
    BY <1>1 DEF JobsInv, OnePlace, NotYetRun, Holds
<1>3. /\ ran' \in [Jobs -> Nat] /\ ran'[j] = 1
      /\ \A k \in Jobs \ {j} : ran'[k] = ran[k]
    BY <1>1, <1>2 DEF JobsInv, JobsTypeOK
<1>4. PICK pc \in {"complete", "fail"} :
          /\ WorkerGoes(w, pc, j)
          /\ pc = "complete" => succeeded' = [succeeded EXCEPT ![j] = TRUE]
          /\ pc = "fail" => succeeded' = succeeded
    BY DEF ExecuteTool
<1>5. succeeded \in [Jobs -> BOOLEAN]
    BY DEF JobsInv, JobsTypeOK
<1>6. /\ succeeded' \in [Jobs -> BOOLEAN]
      /\ pc = "complete" => succeeded'[j]
      /\ \A k \in Jobs \ {j} : succeeded'[k] = succeeded[k]
      /\ \A k \in Jobs : succeeded[k] => succeeded'[k]
    BY <1>2, <1>4, <1>5
<1>7. /\ worker' \in [Workers -> [pc : WorkerStates, job : Jobs \cup {NoJob}]]
      /\ worker'[w].pc = pc /\ worker'[w].job = j
      /\ \A v \in Workers \ {w} : worker'[v] = worker[v]
    BY <1>2, <1>4, WorkerMoves, WorkerStatesTable DEF JobsInv
<1>8. JobsTypeOK'
    BY <1>1, <1>3, <1>6, <1>7 DEF JobsInv, JobsTypeOK
<1>9. OnePlace'
    BY <1>1, <1>2, <1>4, PlacesKept, WorkerStatesTable DEF JobsInv
<1>10. NotYetRun'
    <2>1. \A k \in Jobs : submitter[k] \in {"idle", "stored"} => k # j
        BY <1>2 DEF JobsInv, OnePlace
    <2>2. \A i \in 1..Len(queue) : queue[i] # j /\ queue[i] \in Jobs
        BY <1>2 DEF JobsInv, OnePlace, JobsTypeOK
    <2>3. \A v \in Workers \ {w} : Holds(v) => worker[v].job \in Jobs \ {j}
        BY <1>2 DEF JobsInv, OnePlace
    <2>4. \A v \in Workers :
              worker'[v].pc \in {"lookup", "mark", "marking", "execute"} => ran'[worker'[v].job] = 0
        BY <1>3, <1>7, <2>3 DEF JobsInv, NotYetRun, Holds
    <2>5. \A k \in Jobs : ran'[k] = 0 => ~ succeeded'[k]
        BY <1>3, <1>6 DEF JobsInv, NotYetRun
    <2>6. \A k \in Jobs : submitter'[k] \in {"idle", "stored"} => ran'[k] = 0
        BY <1>1, <1>3, <2>1 DEF JobsInv, NotYetRun
    <2>7. \A i \in 1..Len(queue') : ran'[queue'[i]] = 0
        BY <1>1, <1>3, <2>2 DEF JobsInv, NotYetRun
    <2> QED
        BY <2>4, <2>5, <2>6, <2>7 DEF NotYetRun
<1>11. ReportsAreTrue'
    <2> SUFFICES ASSUME NEW v \in Workers
                 PROVE  /\ worker'[v].pc \in {"complete", "completing"} =>
                              ran'[worker'[v].job] = 1 /\ succeeded'[worker'[v].job]
                        /\ worker'[v].pc \in {"fail", "failing"} =>
                              /\ ran'[worker'[v].job] = 1
                              /\ ~ succeeded'[worker'[v].job] \/ misreported[worker'[v].job]
        BY <1>1 DEF ReportsAreTrue
    <2>1. CASE v # w
        <3>1. worker'[v] = worker[v]
            BY <1>7, <2>1
        <3>2. Holds(v) => worker[v].job \in Jobs \ {j}
            BY <1>2, <2>1 DEF JobsInv, OnePlace
        <3> QED
            BY <1>3, <1>6, <3>1, <3>2 DEF JobsInv, ReportsAreTrue, Holds
    <2>2. CASE v = w
        <3>1. ~ succeeded[j]
            BY <1>2 DEF JobsInv, NotYetRun
        <3> QED
            BY <1>3, <1>4, <1>6, <1>7, <2>2, <3>1
    <2> QED
        BY <2>1, <2>2
<1>12. JobReportIsTrue'
    BY <1>1, <1>2, <1>3, <1>6 DEF JobsInv, JobReportIsTrue
<1> QED
    BY <1>8, <1>9, <1>10, <1>11, <1>12 DEF JobsInv

-----------------------------------------------------------------------------
(* The theorems.                                                           *)

\* Each step of a submitter, of a worker or of Redis keeps the invariant.
LEMMA JobsInvInductive ==
    ASSUME JobsInv, [JobsNext]_jobVars
    PROVE  JobsInv'
<1>1. ASSUME NEW j \in Jobs, StorePending(j) \/ Push(j) \/ Expire(j)
      PROVE  JobsInv'
    BY <1>1, StorePendingStep, PushStep, ExpireStep
<1>2. ASSUME NEW w \in Workers, WorkerStep(w)
      PROVE  JobsInv'
    BY <1>2, DequeueStep, LookupStep, ReadRecordStep, WriteRecordStep, ExecuteToolStep
    DEF WorkerStep
<1>3. ASSUME NEW w \in Workers, StopWorker(w) \/ WorkerCrash(w)
      PROVE  JobsInv'
    BY <1>3, LettingGoStep
<1>4. CASE UNCHANGED jobVars
    <2>1. UNCHANGED <<record, volatile, queue, submitter, worker, ran, succeeded,
                      misreported, jobFaults>>
        BY <1>4 DEF jobVars
    <2> QED
        BY <2>1 DEF JobsInv, JobsTypeOK, OnePlace, NotYetRun, ReportsAreTrue,
                    JobReportIsTrue, Holds
<1> QED
    BY <1>1, <1>2, <1>3, <1>4 DEF JobsNext

\* Type correctness of the job queue, and the invariant all of it rests on: a job is
\* in one place at most, and the place tells whether its tool has run.
THEOREM JobsInvariant == JobsSpec => []JobsInv
<1>1. JobsInit => JobsInv
    BY JobsInitInv
<1>2. JobsInv /\ [JobsNext]_jobVars => JobsInv'
    BY JobsInvInductive
<1> QED
    BY <1>1, <1>2, PTL DEF JobsSpec

\* submit_job and worker_loop: for any jobs, any workers and any number of raising
\* accesses and crashes, a job's tool is called at most once, COMPLETED means that it
\* returned, and FAILED that it raised or that the report of its success did.
THEOREM JobReports == JobsSpec => []JobReportIsTrue
<1>1. JobsInv => JobReportIsTrue
    BY DEF JobsInv
<1> QED
    BY <1>1, JobsInvariant, PTL

=============================================================================
