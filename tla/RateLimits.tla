----------------------------- MODULE RateLimits -----------------------------
(***************************************************************************)
(* The two sliding-window rate limiters and the calls they guard.          *)
(*                                                                         *)
(* _RateLimiter of mcp_tools/llm_client.py is used by one thread, which    *)
(* tries up to three models and acquires for each; its callers repeat the  *)
(* whole call.  _check_rate_limit of the Gmail client is used by threads   *)
(* at a time: each reads the clock before it waits for the lock, and       *)
(* sleeps with the lock held until the oldest timestamp is a window old.   *)
(***************************************************************************)
EXTENDS Naturals, Sequences, FiniteSets, FiniteSetsExt

CONSTANTS
    ApiThreads,  \* threads that call Gmail
    Slots,       \* rpm, MAX_REQUESTS_PER_SECOND
    Width,       \* length of the window in ticks
    Margin,      \* what the LLM limiter sleeps longer
    Models,      \* GROQ_MODEL and its fallbacks
    CallTries,   \* calls of call_llm by a function under retry_with_backoff
    Horizon      \* bound of the clock

ASSUME WindowAssumption ==
    /\ Slots \in Nat \ {0} /\ Width \in Nat \ {0} /\ Margin \in Nat /\ Horizon \in Nat
    /\ Models \in Nat \ {0} /\ CallTries \in Nat \ {0}
    /\ IsFiniteSet(ApiThreads) /\ ApiThreads # {}

VARIABLES
    crowd,    \* the threads that use the limiter: all of them, or the one of the agents
    clock,
    granted,  \* history: when a call was let through, in this order
    window,   \* the list of timestamps the limiter keeps, as positions in granted
    thread,   \* where each thread is, the time it has read, when it wakes up, and
              \*   whether a call was let through since it read the time
    llmCall,  \* how many models and tries have failed
    late      \* history: calls since the limiter last had room that waited by a clock
              \*   which was read before the call ahead of them was let through

rateVars == <<crowd, clock, granted, window, thread, llmCall, late>>

AgentsThread == CHOOSE t \in ApiThreads : TRUE
NewLlmCall == [failed |-> 0, tries |-> 0]
IdleThread == [pc |-> "idle", now |-> 0, wake |-> 0, stale |-> FALSE]

RatesTypeOK ==
    /\ crowd \in SUBSET ApiThreads
    /\ clock \in 0..Horizon
    /\ granted \in Seq(0..Horizon) /\ window \subseteq DOMAIN granted
    /\ thread \in [ApiThreads -> [pc : {"idle", "lock", "sleep", "stamp", "post"},
                                  now : 0..Horizon, wake : Nat, stale : BOOLEAN]]
    /\ llmCall \in [failed : 0..Models - 1, tries : 0..CallTries - 1]
    /\ late \in Nat

RatesInit ==
    /\ crowd \in {ApiThreads, {AgentsThread}}
    /\ clock = 0
    /\ granted = <<>> /\ window = {}
    /\ thread = [t \in ApiThreads |-> IdleThread]
    /\ llmCall = NewLlmCall
    /\ late = 0

-----------------------------------------------------------------------------

IsLlm == crowd = {AgentsThread}
ThreadGoes(t, pc) == thread' = [thread EXCEPT ![t].pc = pc]

\* now is read ahead of the lock.  (The agents have no lock and no second thread.)
ReadClock(t) ==
    /\ thread[t].pc = "idle"
    /\ thread' = [thread EXCEPT ![t].pc = "lock", ![t].now = clock]
    /\ UNCHANGED <<crowd, clock, granted, window, llmCall, late>>

HoldsLock(t) == thread[t].pc \in {"sleep", "stamp"}

Recent(now) == {i \in window : now < granted[i] + Width}

\* Mutant: one call more than there are slots.
WaitTimeOneMore(now) ==
    LET first == granted[Min(Recent(now))] + Width + IF IsLlm THEN Margin ELSE 0
    IN IF Cardinality(Recent(now)) <= Slots THEN 0 ELSE first - now

\* How long a caller sleeps that finds no slot.  A now that is older than the first
\* timestamp makes it longer.
WaitTime(now) ==
    LET first == granted[Min(Recent(now))] + Width + IF IsLlm THEN Margin ELSE 0
    IN IF Cardinality(Recent(now)) < Slots THEN 0 ELSE first - now

EnterWindow(t) ==
    LET now == thread[t].now
    IN /\ thread[t].pc = "lock"
       /\ \A u \in ApiThreads : ~ HoldsLock(u)
       /\ window' = Recent(now)
       /\ thread' = [thread EXCEPT
             ![t].pc = IF WaitTime(now) > 0 THEN "sleep" ELSE "stamp",
             ![t].wake = clock + WaitTime(now)]
       /\ UNCHANGED <<crowd, clock, granted, llmCall, late>>

WakeUp(t) ==
    /\ thread[t].pc = "sleep" /\ clock >= thread[t].wake
    /\ ThreadGoes(t, "stamp")
    /\ UNCHANGED <<crowd, clock, granted, window, llmCall, late>>

HadRoom == Cardinality(window) < Slots

StampWindow(t) ==
    /\ thread[t].pc = "stamp"
    /\ granted' = Append(granted, clock)
    /\ window' = window \cup {Len(granted')}
    /\ thread' = [u \in ApiThreads |->
          IF u = t THEN [IdleThread EXCEPT !.pc = IF IsLlm THEN "post" ELSE "idle"]
          ELSE [thread[u] EXCEPT !.stale = @ \/ thread[u].pc = "lock"]]
    /\ late' = CASE HadRoom -> 0
                 [] ~ HadRoom /\ thread[t].stale -> late + 1
                 [] OTHER -> late
    /\ UNCHANGED <<crowd, clock, llmCall>>

\* A model that fails means the next one; the failure of the last one raises, and the
\* caller repeats the call, or not any more.
call_llm_goes_on ==
    \/ llmCall.failed + 1 < Models /\ llmCall' = [llmCall EXCEPT !.failed = @ + 1]
    \/ /\ llmCall.failed + 1 = Models
       /\ llmCall' = IF llmCall.tries + 1 < CallTries
                     THEN [failed |-> 0, tries |-> llmCall.tries + 1] ELSE NewLlmCall

\* One model's answer ends the call.
PostToModel(t) ==
    /\ thread[t].pc = "post"
    /\ ThreadGoes(t, "idle")
    /\ llmCall' = NewLlmCall \/ call_llm_goes_on
    /\ UNCHANGED <<crowd, clock, granted, window, late>>

ClockTick ==
    /\ clock < Horizon
    /\ clock' = clock + 1
    /\ UNCHANGED <<crowd, granted, window, thread, llmCall, late>>

RatesNext ==
    \/ \E t \in crowd : \/ ReadClock(t) \/ EnterWindow(t) \/ WakeUp(t)
                        \/ StampWindow(t) \/ PostToModel(t)
    \/ ClockTick

RatesSpec == RatesInit /\ [][RatesNext]_rateVars

-----------------------------------------------------------------------------

(* Properties                                                              *)

\* "Enforce per-second rate limit": no window has more calls than slots for the agents'
\* one thread, retries and fallbacks included.  With several threads a thread that read
\* the clock before the call ahead of its own was let through waits for the same slot as
\* that call, and is one too many.  A caller waits for one slot only, so as long as the
\* limiter is full the excess stays, and grows with each such call.
RateBudget ==
    /\ Cardinality({i \in DOMAIN granted : clock < granted[i] + Width}) <= Slots + late
    /\ Cardinality(crowd) = 1 => late = 0
=============================================================================
