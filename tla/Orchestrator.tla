---------------------------- MODULE Orchestrator ----------------------------
(***************************************************************************)
(* The task orchestrator of package goroutinew                             *)
(* (v2/goroutinew/orchestrator.go).                                        *)
(*                                                                         *)
(* One caller registers handlers and inputs (plain maps, so never while    *)
(* Run is in progress) and calls Run, possibly again and again.  Run       *)
(* starts one goroutine per job under a semaphore of maxWorkers slots,     *)
(* waits for all of them, and returns the first recorded error.  Results   *)
(* and errors live in the Orchestrator and are not reset by Run.           *)
(*                                                                         *)
(* Data: job <<k, 0>> is the single input of key k (batchIndex -1) and     *)
(* <<k, i>> the i-th item of its batch.  A handler's result is known only  *)
(* by the job it belongs to.                                               *)
(***************************************************************************)
EXTENDS Integers, Sequences, FiniteSets

CONSTANTS
    StepKeys,       \* keys of steps
    MaxWorkers,     \* WithMaxWorkers
    MaxItems,       \* bound: items of a batch
    MaxCalls,       \* bound: registration calls
    MaxRuns         \* bound: calls of Run

(* 0 workers make an unbuffered semaphore: Run would block on its first job. *)
ASSUME OrchestratorAssumption ==
    MaxWorkers \in Nat \ {0} /\ MaxItems \in Nat /\ MaxCalls \in Nat /\ MaxRuns \in Nat

VARIABLES
    steps, singleInput, batchInput,     \* registrations
    calls, runs,                        \* how many calls were made (bound the model)
    pc,                                 \* where the caller is
    todo, cur,                          \* jobs not yet taken, the one taken
    worker,                             \* where each job's goroutine is
    semaphore, wg,                      \* slots taken; WaitGroup counter
    timeoutCtx,                         \* state of Run's context
    results, errors,                    \* fields of the Orchestrator
    failed,                             \* jobs of this Run whose handler failed
    runError                            \* what the last Run returned

registrations == <<steps, singleInput, batchInput, calls>>
vars == <<registrations, runs, pc, todo, cur, worker, semaphore, wg, timeoutCtx,
          results, errors, failed, runError>>

Jobs  == StepKeys \X (0 .. MaxItems)
NoJob == <<>>
Deadline == <<"deadline">>
NoError  == <<"nil">>

(* A key's entry in results: missing, a single result, or a slice whose     *)
(* slot i holds the result of item i (i) or nil (0).                        *)
Missing == [kind |-> "missing", slots |-> <<>>]
Single  == [kind |-> "single", slots |-> <<>>]
Slice(slots) == [kind |-> "slice", slots |-> slots]

(* Jobs are queued for keys with a handler: single inputs, then the items   *)
(* of each batch; -1 items stand for a key without a batch.                 *)
Queued ==
    {<<k, 0>> : k \in steps \cap singleInput}
      \cup UNION {{<<k, i>> : i \in 1 .. batchInput[k]} : k \in steps}
Preallocated ==
    [k \in StepKeys |-> IF k \in steps /\ batchInput[k] >= 0
                        THEN Slice([i \in 1 .. batchInput[k] |-> 0]) ELSE results[k]]

(* The order of the jobs slice: single jobs first, the keys in a random map *)
(* order, the items of one batch together and in order.                     *)
NextInQueue(j) ==
    /\ j \in todo
    /\ j[2] > 0 => \A i \in todo : i[2] > 0 /\ (i[1] = j[1] => j[2] <= i[2])
    /\ j[2] > 1 \/ \A k \in StepKeys \ {j[1]} : \A i \in todo :
          i[1] = k /\ i[2] > 0 => <<k, 1>> \in todo

-----------------------------------------------------------------------------
Init ==
    /\ steps = {} /\ singleInput = {}
    /\ batchInput = [k \in StepKeys |-> -1]
    /\ calls = 0 /\ runs = 0
    /\ pc = "idle"
    /\ todo = {} /\ cur = NoJob
    /\ worker = [j \in Jobs |-> "off"]
    /\ semaphore = 0 /\ wg = 0
    /\ timeoutCtx = "live"
    /\ results = [k \in StepKeys |-> Missing]
    /\ errors = <<>>
    /\ failed = {}
    /\ runError = NoError

Register ==
    /\ pc = "idle"
    /\ calls < MaxCalls
    /\ calls' = calls + 1
    /\ UNCHANGED <<runs, pc, todo, cur, worker, semaphore, wg, timeoutCtx,
                   results, errors, failed, runError>>

AddStep(k) ==
    /\ Register
    /\ steps' = steps \cup {k}
    /\ UNCHANGED <<singleInput, batchInput>>

AddInput(k) ==
    /\ Register
    /\ singleInput' = singleInput \cup {k}
    /\ UNCHANGED <<steps, batchInput>>

AddBatchInput(k, n) ==
    /\ Register
    /\ batchInput' = [batchInput EXCEPT ![k] = n]
    /\ UNCHANGED <<steps, singleInput>>

(* Fault: a slice of the right length keeps what an earlier Run left there. *)
BeginRunKeepingSlices ==
    /\ pc = "idle"
    /\ runs < MaxRuns
    /\ runs' = runs + 1
    /\ pc' = "loop"
    /\ todo' = Queued
    /\ timeoutCtx' = "live"
    /\ results' = [k \in StepKeys |-> IF results[k].kind = "slice" /\ DOMAIN results[k].slots = 1 .. batchInput[k]
                                      THEN results[k] ELSE Preallocated[k]]
    /\ failed' = {}
    /\ UNCHANGED <<registrations, cur, worker, semaphore, wg, errors, runError>>

(* Run queues its jobs and makes room for every batch's results. *)
BeginRun ==
    /\ pc = "idle"
    /\ runs < MaxRuns
    /\ runs' = runs + 1
    /\ pc' = "loop"
    /\ todo' = Queued
    /\ timeoutCtx' = "live"
    /\ results' = Preallocated
    /\ failed' = {}
    /\ UNCHANGED <<registrations, cur, worker, semaphore, wg, errors, runError>>

(* The deadline passes, or the caller's context is cancelled. *)
ContextDone(how) ==
    /\ pc \in {"loop", "acquire", "wait"}
    /\ timeoutCtx = "live"
    /\ timeoutCtx' = how
    /\ UNCHANGED <<registrations, runs, pc, todo, cur, worker, semaphore, wg,
                   results, errors, failed, runError>>

TakeJob(j) ==
    /\ pc = "loop"
    /\ NextInQueue(j)
    /\ todo' = todo \ {j}
    /\ cur' = j
    /\ wg' = wg + 1
    /\ pc' = "acquire"
    /\ UNCHANGED <<registrations, runs, worker, semaphore, timeoutCtx,
                   results, errors, failed, runError>>

StartJob ==
    /\ pc = "acquire"
    /\ semaphore < MaxWorkers
    /\ semaphore' = semaphore + 1
    /\ worker' = [worker EXCEPT ![cur] = "exec"]
    /\ cur' = NoJob
    /\ pc' = "loop"
    /\ UNCHANGED <<registrations, runs, todo, wg, timeoutCtx, results, errors, failed, runError>>

EndLoop ==
    /\ pc = "loop"
    /\ todo = {}
    /\ pc' = "wait"
    /\ UNCHANGED <<registrations, runs, todo, cur, worker, semaphore, wg, timeoutCtx,
                   results, errors, failed, runError>>

(* The handler fails: the error is recorded and no result is stored. *)
FailJob(j) ==
    /\ pc # "crashed"
    /\ worker[j] = "exec"
    /\ errors' = Append(errors, j)
    /\ failed' = failed \cup {j}
    /\ worker' = [worker EXCEPT ![j] = "release"]
    /\ UNCHANGED <<registrations, runs, pc, todo, cur, semaphore, wg, timeoutCtx, results, runError>>

(* The handler succeeds.  A single result replaces the key's entry; a batch *)
(* result goes to its slot of the slice.                                    *)
StoreResult(j) ==
    /\ pc # "crashed"
    /\ worker[j] = "exec"
    /\ j[2] > 0 => results[j[1]].kind = "slice"
    /\ results' = [results EXCEPT ![j[1]] =
          IF j[2] = 0 THEN Single ELSE Slice([@.slots EXCEPT ![j[2]] = j[2]])]
    /\ worker' = [worker EXCEPT ![j] = "release"]
    /\ UNCHANGED <<registrations, runs, pc, todo, cur, semaphore, wg, timeoutCtx,
                   errors, failed, runError>>

(* The process ends when a handler panics, or when the slice of a batch was *)
(* replaced by the single result of the same key: val.([]any) panics.       *)
Crash(j) ==
    /\ pc # "crashed"
    /\ worker[j] = "exec"
    /\ pc' = "crashed"
    /\ UNCHANGED <<registrations, runs, todo, cur, worker, semaphore, wg, timeoutCtx,
                   results, errors, failed, runError>>

(* Fault: a slot is not given back. *)
ReleaseSlotLeaking(j) ==
    /\ pc # "crashed"
    /\ worker[j] = "release"
    /\ worker' = [worker EXCEPT ![j] = "finish"]
    /\ UNCHANGED <<registrations, runs, pc, todo, cur, semaphore, wg, timeoutCtx,
                   results, errors, failed, runError>>

ReleaseSlot(j) ==
    /\ pc # "crashed"
    /\ worker[j] = "release"
    /\ semaphore' = semaphore - 1
    /\ worker' = [worker EXCEPT ![j] = "finish"]
    /\ UNCHANGED <<registrations, runs, pc, todo, cur, wg, timeoutCtx,
                   results, errors, failed, runError>>

WgDone(j) ==
    /\ pc # "crashed"
    /\ worker[j] = "finish"
    /\ wg' = wg - 1
    /\ worker' = [worker EXCEPT ![j] = "off"]
    /\ UNCHANGED <<registrations, runs, pc, todo, cur, semaphore, timeoutCtx,
                   results, errors, failed, runError>>

(* GetError: the first error recorded, by this Run or an earlier one. *)
GetError(es) == IF es = <<>> THEN NoError ELSE es[1]

(* Fault: Run does not wait for its goroutines. *)
ReturnWithoutWaiting ==
    /\ pc = "wait"
    /\ errors' = IF timeoutCtx = "expired" THEN Append(errors, Deadline) ELSE errors
    /\ runError' = GetError(errors')
    /\ pc' = "idle"
    /\ UNCHANGED <<registrations, runs, todo, cur, worker, semaphore, wg, timeoutCtx,
                   results, failed>>

(* Fault: the deadline is not looked at after the wait. *)
ReturnWithoutDeadline ==
    /\ pc = "wait"
    /\ wg = 0
    /\ errors' = errors
    /\ runError' = GetError(errors')
    /\ pc' = "idle"
    /\ UNCHANGED <<registrations, runs, todo, cur, worker, semaphore, wg, timeoutCtx,
                   results, failed>>

(* After wg.Wait an expired deadline is an error too. *)
Return ==
    /\ pc = "wait"
    /\ wg = 0
    /\ errors' = IF timeoutCtx = "expired" THEN Append(errors, Deadline) ELSE errors
    /\ runError' = GetError(errors')
    /\ pc' = "idle"
    /\ UNCHANGED <<registrations, runs, todo, cur, worker, semaphore, wg, timeoutCtx,
                   results, failed>>

(* The caller may stop calling; after a crash nobody can. *)
Stopped ==
    /\ pc = "crashed" \/ (pc = "idle" /\ runs = MaxRuns)
    /\ UNCHANGED vars

Main ==
    \/ \E j \in todo : TakeJob(j)
    \/ StartJob \/ EndLoop \/ Return

Worker(j) == FailJob(j) \/ StoreResult(j) \/ Crash(j) \/ ReleaseSlot(j) \/ WgDone(j)

Next ==
    \/ \E k \in StepKeys : AddStep(k) \/ AddInput(k) \/ \E n \in 0 .. MaxItems : AddBatchInput(k, n)
    \/ BeginRun
    \/ \E how \in {"expired", "canceled"} : ContextDone(how)
    \/ Main
    \/ \E j \in Jobs : Worker(j)
    \/ Stopped

Spec == Init /\ [][Next]_vars

(* Handlers return, and Go runs every runnable goroutine eventually. *)
FairSpec == Spec /\ WF_vars(Main) /\ \A j \in Jobs : WF_vars(Worker(j))

-----------------------------------------------------------------------------
(* Properties. *)

(* Every variable keeps the shape its Go counterpart has. *)
TypeOK ==
    /\ steps \subseteq StepKeys /\ singleInput \subseteq StepKeys
    /\ batchInput \in [StepKeys -> -1 .. MaxItems]
    /\ calls \in 0 .. MaxCalls /\ runs \in 0 .. MaxRuns
    /\ pc \in {"idle", "loop", "acquire", "wait", "crashed"}
    /\ todo \subseteq Jobs /\ cur \in Jobs \cup {NoJob}
    /\ worker \in [Jobs -> {"off", "exec", "release", "finish"}]
    /\ semaphore \in Int /\ wg \in Int
    /\ timeoutCtx \in {"live", "expired", "canceled"}
    /\ results \in [StepKeys -> [kind : {"missing", "single", "slice"}, slots : Seq(Nat)]]
    /\ errors \in Seq(Jobs \cup {Deadline})
    /\ failed \subseteq Jobs
    /\ runError \in Jobs \cup {Deadline, NoError}

(* WithMaxWorkers: never more handlers in flight than slots. *)
Executing == {j \in Jobs : worker[j] = "exec"}
WorkerLimit == Cardinality(Executing) <= MaxWorkers

(* Run returns nil only if this Run executed every job it queued without    *)
(* an error and before its deadline.                                        *)
NilMeansSuccess ==
    [][pc = "wait" /\ pc' = "idle" /\ runError' = NoError =>
          /\ failed = {} /\ timeoutCtx # "expired"
          /\ \A j \in Queued : IF j[2] = 0 THEN results[j[1]].kind # "missing"
                               ELSE j[1] \in singleInput \/ results[j[1]].slots[j[2]] = j[2]]_vars

(* AddBatchInput's guarantee: after Run the i-th slot of a batch holds the  *)
(* result of this Run's i-th item, or nil if that item failed, whatever the *)
(* order of completion and whatever an earlier Run left there.              *)
BatchResultsMatchInputs ==
    [][pc = "wait" /\ pc' = "idle" =>
          \A k \in steps \ singleInput : batchInput[k] >= 0 =>
              /\ DOMAIN results[k].slots = 1 .. batchInput[k]
              /\ \A i \in 1 .. batchInput[k] :
                    results[k].slots[i] = IF <<k, i>> \in failed THEN 0 ELSE i]_vars

(* Run comes back if the handlers do. *)
RunReturns == pc = "loop" ~> pc \in {"idle", "crashed"}

(* orchestrator.go:164 says the error is nil if the execution was           *)
(* completely successful.                                                   *)
SuccessMeansNil ==
    [][pc = "wait" /\ pc' = "idle" /\ failed = {} /\ timeoutCtx = "live" => runError' = NoError]_vars

(* Run implements the same abstract work pool as the runner of package      *)
(* goroutine, without ever being told to stop.                              *)
JobStatus ==
    [j \in Jobs |-> IF j \in todo \/ j = cur THEN "waiting"
                    ELSE IF worker[j] = "exec" THEN "running"
                    ELSE IF pc # "idle" /\ j \in Queued THEN "over" ELSE "none"]
Phase == IF pc \in {"idle", "crashed"} THEN pc ELSE "busy"
Pool == INSTANCE WorkPool
            WITH PoolJobs <- Jobs, phase <- Phase, limit <- MaxWorkers,
                 status <- JobStatus, stopped <- FALSE
ImplementsPool == Pool!PoolInit /\ [][Pool!PoolNext]_(Pool!poolVars)

-----------------------------------------------------------------------------
(* The inductive invariant behind WorkerLimit, NilMeansSuccess,             *)
(* BatchResultsMatchInputs and ImplementsPool.                              *)
InRun == pc \in {"loop", "acquire", "wait"}

(* semaphore counts the goroutines that hold a slot, wg those not yet done  *)
(* and the job waiting for its slot.                                        *)
Holding == {j \in Jobs : worker[j] \in {"exec", "release"}}
SlotsInv == semaphore = Cardinality(Holding) /\ semaphore <= MaxWorkers
Active == {j \in Jobs : worker[j] # "off"}
WaitGroupInv == /\ IsFiniteSet(Active)
                /\ wg = Cardinality(Active) + (IF cur = NoJob THEN 0 ELSE 1)

(* Where the jobs of a Run are in each of its phases. *)
PhaseInv ==
    /\ pc = "idle" => wg = 0
    /\ pc \in {"idle", "wait"} => todo = {}
    /\ pc = "acquire" => cur # NoJob
    /\ cur # NoJob => pc \in {"acquire", "crashed"} /\ cur \in Queued \ todo /\ worker[cur] = "off"
    /\ todo \subseteq Queued /\ Active \subseteq Queued
    /\ \A j \in todo : worker[j] = "off"

(* What has been recorded of the jobs that are through with their handler. *)
Unfinished(j) == j \in todo \/ j = cur \/ worker[j] = "exec"
FailedInv == /\ failed # {} => errors # <<>>
             /\ InRun => \A j \in failed : ~Unfinished(j)
SingleInv == InRun => \A k \in steps \cap singleInput :
                Unfinished(<<k, 0>>) \/ <<k, 0>> \in failed \/ results[k].kind # "missing"
BatchInv == InRun => \A k \in steps \ singleInput : batchInput[k] >= 0 =>
                results[k] = Slice([i \in 1 .. batchInput[k] |->
                                IF Unfinished(<<k, i>>) \/ <<k, i>> \in failed THEN 0 ELSE i])

IInv == TypeOK /\ SlotsInv /\ WaitGroupInv /\ PhaseInv /\ FailedInv /\ SingleInv /\ BatchInv

-----------------------------------------------------------------------------
(* What RunReturns rests on besides the scheduling: a Run can never come to *)
(* a stop, and its steps are used up.                                       *)

(* The jobs not yet taken are the rest of the queue: the single jobs go     *)
(* first, each batch from its first item on, one batch after the other.     *)
QueueInv ==
    /\ IsFiniteSet(steps)
    /\ \A i \in todo, j \in Queued : i[2] = 0 /\ j[2] > 0 => j \in todo
    /\ \A i \in todo, j \in Queued : i[1] = j[1] /\ 0 < i[2] /\ i[2] < j[2] => j \in todo
    /\ \A i, j \in todo : i[1] # j[1] /\ i[2] > 0 /\ j[2] > 0 =>
          <<i[1], 1>> \in todo \/ <<j[1], 1>> \in todo

(* Neither the semaphore, nor the WaitGroup, nor the queue can block a Run  *)
(* for good: what its caller does next is possible now, or some goroutine   *)
(* has its next step before it.                                             *)
RunNeverStuck ==
    InRun =>
        \/ pc = "loop" /\ (todo = {} \/ \E j \in todo : NextInQueue(j))
        \/ pc = "acquire" /\ semaphore < MaxWorkers
        \/ pc = "wait" /\ wg = 0
        \/ \E j \in Jobs : worker[j] # "off"

(* The stages a job, the caller and the context still have before them.     *)
JobStages(j) ==
    IF j \in todo THEN 5
    ELSE IF j = cur THEN 4
    ELSE CASE worker[j] = "exec" -> 3 [] worker[j] = "release" -> 2
           [] worker[j] = "finish" -> 1 [] OTHER -> 0
CallerStages == CASE pc \in {"loop", "acquire"} -> 2 [] pc = "wait" -> 1 [] OTHER -> 0
ContextStages == IF timeoutCtx = "live" THEN 1 ELSE 0
Remaining ==
    {r \in Jobs \X (1 .. 5) : r[2] <= JobStages(r[1])}
      \cup {<<NoJob, n>> : n \in 1 .. CallerStages}
      \cup {<<Deadline, n>> : n \in 1 .. ContextStages}

(* A Run has finitely many stages before it, and every step that is taken   *)
(* while it is in progress, whoever takes it, uses up at least one of them  *)
(* and brings none back: no job is queued, taken or started twice.          *)
StagesFinite == IsFiniteSet(Remaining)
RunMovesOn == [][InRun => Remaining' \subseteq Remaining /\ Remaining' # Remaining]_vars
=============================================================================
