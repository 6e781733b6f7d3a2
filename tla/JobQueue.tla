----------------------------- MODULE JobQueue -----------------------------
(***************************************************************************)
(* The Redis job queue: submit_job, get_job_status and worker_loop.        *)
(*                                                                         *)
(* A submission stores a status record and then pushes the job's id; a     *)
(* worker pops an id, reads the record, marks it, runs the tool and        *)
(* reports.  Each access to Redis is a step of its own, may raise, and may *)
(* have been carried out although it raised.  A popped id is nowhere but   *)
(* in the worker's memory.  app/api/main.py imports worker_loop and never  *)
(* starts it, so a worker may be off for good.                             *)
(***************************************************************************)
EXTENDS Naturals, Sequences

CONSTANTS Jobs, Workers, JobFaults   \* JobFaults bounds the failed accesses and crashes

ASSUME JobFaultsAssumption == JobFaults \in Nat

NoJob == "no job"

VARIABLES
    record,     \* the status record of a job, which keeps the tool and its arguments
    volatile,   \* whether the record will expire
    queue,      \* mcp:jobs:queue
    submitter,  \* where enqueue_job is
    worker,     \* where worker_loop is, its job and the record it last read
    ran,        \* history: how often the tool ran
    succeeded,  \* history: it returned
    misreported,\* history: the report of its success raised
    jobFaults   \* failed accesses and crashes so far

jobVars == <<record, volatile, queue, submitter, worker, ran, succeeded, misreported, jobFaults>>
jobHistory == <<ran, succeeded, misreported>>

Mark == [pc \in {"marking", "completing", "failing"} |->
            CASE pc = "marking"    -> "RUNNING"
              [] pc = "completing" -> "COMPLETED"
              [] pc = "failing"    -> "FAILED"]
RecordStatuses == {"none", "PENDING", "RUNNING", "COMPLETED", "FAILED"}
WorkerStates == {"off", "dequeue", "lookup", "mark", "execute", "complete", "fail"}
                \cup DOMAIN Mark

JobsTypeOK ==
    /\ record \in [Jobs -> RecordStatuses]
    /\ volatile \in [Jobs -> BOOLEAN]
    /\ queue \in Seq(Jobs)
    /\ submitter \in [Jobs -> {"idle", "stored", "returned", "raised"}]
    /\ worker \in [Workers -> [pc : WorkerStates, job : Jobs \cup {NoJob}]]
    /\ ran \in [Jobs -> Nat]
    /\ succeeded \in [Jobs -> BOOLEAN] /\ misreported \in [Jobs -> BOOLEAN]
    /\ jobFaults \in 0..JobFaults

JobsInit ==
    /\ record = [j \in Jobs |-> "none"]
    /\ volatile = [j \in Jobs |-> FALSE]
    /\ queue = <<>>
    /\ submitter = [j \in Jobs |-> "idle"]
    /\ worker \in [Workers -> [pc : {"off", "dequeue"}, job : {NoJob}]]
    /\ ran = [j \in Jobs |-> 0]
    /\ succeeded = [j \in Jobs |-> FALSE]
    /\ misreported = [j \in Jobs |-> FALSE]
    /\ jobFaults = 0

-----------------------------------------------------------------------------

\* Mutant: the key never expires.
SetRecordForever(j, status) ==
    /\ record' = [record EXCEPT ![j] = status]
    /\ volatile' = [volatile EXCEPT ![j] = FALSE]

\* SET key value EX JOB_RESULT_TTL.
SetRecord(j, status) ==
    /\ record' = [record EXCEPT ![j] = status]
    /\ volatile' = [volatile EXCEPT ![j] = TRUE]

\* An access raises; it may have been carried out all the same.
JobFault == jobFaults < JobFaults /\ jobFaults' = jobFaults + 1

StorePending(j) ==
    /\ submitter[j] = "idle"
    /\ \/ /\ SetRecord(j, "PENDING")
          /\ \/ submitter' = [submitter EXCEPT ![j] = "stored"] /\ UNCHANGED jobFaults
             \/ submitter' = [submitter EXCEPT ![j] = "raised"] /\ JobFault
       \/ /\ submitter' = [submitter EXCEPT ![j] = "raised"] /\ JobFault
          /\ UNCHANGED <<record, volatile>>
    /\ UNCHANGED <<queue, worker, jobHistory>>

\* The record stays PENDING when the push raises.
Push(j) ==
    /\ submitter[j] = "stored"
    /\ \/ /\ queue' = Append(queue, j)
          /\ \/ submitter' = [submitter EXCEPT ![j] = "returned"] /\ UNCHANGED jobFaults
             \/ submitter' = [submitter EXCEPT ![j] = "raised"] /\ JobFault
       \/ /\ submitter' = [submitter EXCEPT ![j] = "raised"] /\ JobFault
          /\ UNCHANGED queue
    /\ UNCHANGED <<record, volatile, worker, jobHistory>>

-----------------------------------------------------------------------------

WorkerGoes(w, pc, j) == worker' = [worker EXCEPT ![w] = [pc |-> pc, job |-> j]]
NextRound(w) == WorkerGoes(w, "dequeue", NoJob)

\* dequeue_job: a raising BLPOP is answered with None, whatever it popped.
Dequeue(w) ==
    /\ worker[w].pc = "dequeue" /\ queue # <<>>
    /\ queue' = Tail(queue)
    /\ \/ WorkerGoes(w, "lookup", Head(queue)) /\ UNCHANGED jobFaults
       \/ NextRound(w) /\ JobFault
    /\ UNCHANGED <<record, volatile, submitter, jobHistory>>

\* A job without a record is dropped; an access that raises ends the round.
Lookup(w) ==
    /\ worker[w].pc = "lookup"
    /\ \/ record[worker[w].job] # "none" /\ WorkerGoes(w, "mark", worker[w].job) /\ UNCHANGED jobFaults
       \/ record[worker[w].job] = "none" /\ NextRound(w) /\ UNCHANGED jobFaults
       \/ NextRound(w) /\ JobFault
    /\ UNCHANGED <<record, volatile, queue, submitter, jobHistory>>

Writing == [pc \in {"mark", "complete", "fail"} |->
               CASE pc = "mark"     -> "marking"
                 [] pc = "complete" -> "completing"
                 [] pc = "fail"     -> "failing"]

\* Where an exception of update_job_status goes: the inner handler reports a failure,
\* the outer one starts the next round.
Caught(w, j) ==
    /\ IF worker[w].pc \in {"complete", "completing"}
       THEN WorkerGoes(w, "fail", j) /\ misreported' = [misreported EXCEPT ![j] = TRUE]
       ELSE NextRound(w) /\ UNCHANGED misreported
    /\ UNCHANGED <<ran, succeeded>>

\* A marked job is executed; a reported one is done with.
Proceeds(w, j) ==
    /\ IF worker[w].pc \in {"mark", "marking"} THEN WorkerGoes(w, "execute", j) ELSE NextRound(w)
    /\ UNCHANGED <<jobHistory, jobFaults>>

\* update_job_status reads the record; one that has expired is not written again.
ReadRecord(w) ==
    LET pc == worker[w].pc
        j == worker[w].job
    IN /\ pc \in DOMAIN Writing
       /\ \/ /\ record[j] # "none" /\ WorkerGoes(w, Writing[pc], j)
             /\ UNCHANGED <<jobHistory, jobFaults>>
          \/ record[j] = "none" /\ Proceeds(w, j)
          \/ Caught(w, j) /\ JobFault
       /\ UNCHANGED <<record, volatile, queue, submitter>>

\* ... and writes it back with the new status.
WriteRecord(w) ==
    LET pc == worker[w].pc
        j == worker[w].job
    IN /\ pc \in DOMAIN Mark
       /\ \/ /\ SetRecord(j, Mark[pc])
             /\ Proceeds(w, j) \/ (Caught(w, j) /\ JobFault)
          \/ Caught(w, j) /\ JobFault /\ UNCHANGED <<record, volatile>>
       /\ UNCHANGED <<queue, submitter>>

\* Mutant: a tool that raises is reported like one that returns.
ExecuteToolIgnoresErrors(w) ==
    LET j == worker[w].job
    IN /\ worker[w].pc = "execute"
       /\ ran' = [ran EXCEPT ![j] = @ + 1]
       /\ WorkerGoes(w, "complete", j)
       /\ succeeded' \in {succeeded, [succeeded EXCEPT ![j] = TRUE]}
       /\ UNCHANGED <<record, volatile, queue, submitter, misreported, jobFaults>>

\* call_tool returns or raises.
ExecuteTool(w) ==
    LET j == worker[w].job
    IN /\ worker[w].pc = "execute"
       /\ ran' = [ran EXCEPT ![j] = @ + 1]
       /\ \/ WorkerGoes(w, "complete", j) /\ succeeded' = [succeeded EXCEPT ![j] = TRUE]
          \/ WorkerGoes(w, "fail", j) /\ UNCHANGED succeeded
       /\ UNCHANGED <<record, volatile, queue, submitter, misreported, jobFaults>>

\* stop_worker is looked at between two rounds.
StopWorker(w) ==
    /\ worker[w].pc = "dequeue"
    /\ WorkerGoes(w, "off", NoJob)
    /\ UNCHANGED <<record, volatile, queue, submitter, jobHistory, jobFaults>>

\* The process dies with the job it has in hand; the next one starts a worker.
WorkerCrash(w) ==
    /\ worker[w].pc # "off" /\ JobFault
    /\ NextRound(w)
    /\ UNCHANGED <<record, volatile, queue, submitter, jobHistory>>

Expire(j) ==
    /\ record[j] # "none" /\ volatile[j]
    /\ record' = [record EXCEPT ![j] = "none"]
    /\ volatile' = [volatile EXCEPT ![j] = FALSE]
    /\ UNCHANGED <<queue, submitter, worker, jobHistory, jobFaults>>

WorkerStep(w) ==
    Dequeue(w) \/ Lookup(w) \/ ReadRecord(w) \/ WriteRecord(w) \/ ExecuteTool(w)

JobsNext ==
    \/ \E j \in Jobs : StorePending(j) \/ Push(j) \/ Expire(j)
    \/ \E w \in Workers : WorkerStep(w) \/ StopWorker(w) \/ WorkerCrash(w)

\* A key with a TTL expires; nothing is assumed of workers, which may be off.
JobsFairness == \A j \in Jobs : WF_jobVars(Expire(j))

JobsSpec == JobsInit /\ [][JobsNext]_jobVars /\ JobsFairness

-----------------------------------------------------------------------------

(* Properties                                                              *)

\* A job runs at most once, whoever crashed or lost an answer, and its record tells
\* the truth: COMPLETED means the tool returned, FAILED that it raised or that the
\* report of its success did.  A job whose tool has not been called reports neither.
JobReportIsTrue ==
    \A j \in Jobs :
       /\ ran[j] <= 1
       /\ record[j] = "COMPLETED" => succeeded[j]
       /\ record[j] = "FAILED" => ran[j] = 1 /\ (~ succeeded[j] \/ misreported[j])

\* Whoever polls get_job_status does not see an unfinished job for good: its record
\* is finished or expires, also when its worker died or the push was lost.
JobSettles ==
    \A j \in Jobs :
       record[j] \in {"PENDING", "RUNNING"} ~> record[j] \notin {"PENDING", "RUNNING"}
=============================================================================
