------------------------------ MODULE Goroutine ------------------------------
(***************************************************************************)
(* The parallel step runner of package goroutine (goroutine/goroutine.go). *)
(*                                                                         *)
(* A caller registers steps, inputs, batch inputs, collectors and options  *)
(* (every one under the mutex g.mu, at any moment, also while Run is in    *)
(* progress) and calls Run.  Run takes a snapshot of the registrations,    *)
(* splits them into jobs and starts one goroutine per job, at most         *)
(* `workers' at a time; it waits for all of them, applies the batch        *)
(* collectors and returns a copy of the responses.                         *)
(*                                                                         *)
(* Grain: one action is what one goroutine does between two points where   *)
(* another one can be observed (a mutex section, a channel operation, a    *)
(* context cancellation, a WaitGroup operation).                           *)
(*                                                                         *)
(* Data: a step key is a member of Steps; the empty key and the nil        *)
(* function, which every Add... ignores, are not in it, and no key holds   *)
(* the text "#batch_".  The items of a batch are 1, 2, ... in the order    *)
(* they were added.  What a step function computes is abstracted to        *)
(* whether it returns, returns an error, or panics.                        *)
(***************************************************************************)
EXTENDS Integers, Sequences, FiniteSets

CONSTANTS
    Steps,          \* step keys
    GOMAXPROCS,     \* default number of workers, runtime.GOMAXPROCS(0)
    Int32Half,      \* 2^31 in the program: int32 holds -Int32Half .. Int32Half-1
    OptionLists,    \* argument lists of NewGoroutine and AddOptions
    MaxItems,       \* bound: batch items per step
    MaxCalls        \* bound: registration calls

OptionNames ==
    {"worker", "block_error", "batch_process", "panic_as_error", "step_timeout_ms", "other"}

ASSUME BoundsAssumption ==
    GOMAXPROCS \in Nat /\ Int32Half \in Nat \ {0} /\ MaxItems \in Nat /\ MaxCalls \in Nat
ASSUME OptionListsAssumption ==
    \A os \in OptionLists : os \in Seq([name : OptionNames, value : Int])

VARIABLES
    steps, input, batchInput, batchCollectors, activeOption,  \* registrations
    calls,                              \* registration calls made (bounds the model)
    pc,                                 \* where the goroutine that called Run is
    opt,                                \* Run's snapshot of activeOption
    jobs, todo, cur,                    \* Run's jobs, those not yet taken, the one taken
    worker,                             \* where each job's goroutine is
    sem, wg,                            \* slots taken in the channel sem; WaitGroup counter
    ctxDone, canceled,                  \* caller's context done; Run's cancel() called
    outputResp, successProcess, failedProcess, batchResults,  \* results, under g.mu
    toCollect, collected,               \* collectors still to apply; what each one was given
    late                                \* jobs started with Run's context already done

registrations == <<steps, input, batchInput, batchCollectors, activeOption, calls>>
results       == <<outputResp, successProcess, failedProcess, batchResults>>
vars == <<registrations, pc, opt, jobs, todo, cur, worker, sem, wg, ctxDone, canceled,
          results, toCollect, collected, late>>

(* Process keys: "s" itself, "s#batch_all" and "s#batch_<i>". *)
PlainKey(s)    == <<s, "plain", 0>>
AllKey(s)      == <<s, "all", 0>>
BatchKey(s, i) == <<s, "batch", i>>
Keys  == Steps \X {"plain", "all", "batch"} \X (0 .. MaxItems)
NoKey == <<>>

(* A Response: executed without error, executed with an error, not executed *)
(* (IsExecute = false); "absent" is a key missing from a map, "zero" the    *)
(* zero Response that fills a grown slice and "merged" the response of a    *)
(* collector, which no job gave.                                            *)
Responses == {"ok", "err", "skipped"}

(* An option value narrowed to int32, as isNumber does it. *)
Narrow(v) == ((v + Int32Half) % (2 * Int32Half)) - Int32Half

(* A number stands for an option's value; for the Boolean options 0 is      *)
(* false, 1 is true and any other number a value that is not a bool.        *)
ValidOption(o) ==
    CASE o.name \in {"worker", "batch_process"}        -> Narrow(o.value) > 0
      [] o.name \in {"block_error", "panic_as_error"}  -> o.value \in {0, 1}
      [] o.name = "step_timeout_ms"                    -> Narrow(o.value) >= 0
      [] OTHER                                         -> TRUE

Option == [worker : Nat, blockError : BOOLEAN, batchProcess : Nat, panicAsError : BOOLEAN]

(* setOptions applies a list from left to right and gives up at the first   *)
(* invalid option; what it applied before stays.  The step timeout itself   *)
(* is not kept: it reaches the step function only (see FinishJob).          *)
Applied(os) == {i \in DOMAIN os : \A j \in 1 .. i : ValidOption(os[j])}
LastOf(os, name) ==
    {i \in Applied(os) : /\ os[i].name = name
                         /\ \A j \in Applied(os) : j > i => os[j].name # name}
LastValue(os, name) == os[CHOOSE i \in LastOf(os, name) : TRUE].value
SetOptions(o, os) ==
    LET Given(name) == LastOf(os, name) # {} IN
    [worker       |-> IF Given("worker") THEN Narrow(LastValue(os, "worker")) ELSE o.worker,
     blockError   |-> IF Given("block_error") THEN LastValue(os, "block_error") = 1 ELSE o.blockError,
     batchProcess |-> IF Given("batch_process") THEN Narrow(LastValue(os, "batch_process"))
                      ELSE o.batchProcess,
     panicAsError |-> IF Given("panic_as_error") THEN LastValue(os, "panic_as_error") = 1
                      ELSE o.panicAsError]

(* 0 workers and batch size 0 stand for "never set" (HasWorker and          *)
(* IsBatchProcess false): a set value is always positive.                   *)
DefaultOption == [worker |-> 0, blockError |-> FALSE, batchProcess |-> 0, panicAsError |-> TRUE]

Workers(o) == IF o.worker > 0 THEN o.worker
              ELSE IF GOMAXPROCS > 0 THEN GOMAXPROCS ELSE 1

(* Jobs: chunkInterfaces cuts n items into chunks of size b, the last one   *)
(* possibly shorter.                                                        *)
Chunks(n, b)   == (n + b - 1) \div b
ChunkFrom(b, i) == (i - 1) * b + 1
ChunkTo(n, b, i) == IF i * b > n THEN n ELSE i * b
Chunk(n, b, i) == ChunkFrom(b, i) .. ChunkTo(n, b, i)

JobKeysOf(s) ==
    IF batchInput[s] = 0 THEN {PlainKey(s)}
    ELSE IF activeOption.batchProcess > 0
         THEN {BatchKey(s, i) : i \in 1 .. Chunks(batchInput[s], activeOption.batchProcess)}
         ELSE {AllKey(s)}

(* The argument of a job: the items of its chunk, all items, or for a plain *)
(* job {0} when AddInput gave an input and {} for nil.                      *)
JobArg(k) ==
    CASE k[2] = "batch" -> Chunk(batchInput[k[1]], activeOption.batchProcess, k[3])
      [] k[2] = "all"   -> 1 .. batchInput[k[1]]
      [] OTHER          -> IF k[1] \in input THEN {0} ELSE {}

BuildJobs == [k \in UNION {JobKeysOf(s) : s \in steps} |-> JobArg(k)]

(* Run ranges over the jobs in the order of buildJobs: the steps in the     *)
(* map's random order, the chunks of one step together and in order.        *)
Takeable(k) ==
    /\ k \in todo
    /\ \A j \in todo : j[1] = k[1] => k[3] <= j[3]
    /\ \A j \in DOMAIN jobs \ todo : j[1] = k[1] \/ \A i \in todo : i[1] # j[1]

RunCtxDone == ctxDone \/ canceled

-----------------------------------------------------------------------------
Init ==
    /\ steps = {} /\ input = {} /\ batchCollectors = {}
    /\ batchInput = [s \in Steps |-> 0]
    /\ \E os \in OptionLists \cup {<<>>} :
          Applied(os) = DOMAIN os /\ activeOption = SetOptions(DefaultOption, os)
    /\ calls = 0
    /\ pc = "idle"
    /\ opt = DefaultOption
    /\ jobs = <<>> /\ todo = {} /\ cur = NoKey
    /\ worker = [k \in Keys |-> "off"]
    /\ sem = 0 /\ wg = 0
    /\ ctxDone = FALSE /\ canceled = FALSE
    /\ outputResp = [k \in Keys |-> "absent"]
    /\ successProcess = <<>> /\ failedProcess = <<>>
    /\ batchResults = [s \in Steps |-> <<>>]
    /\ toCollect = {}
    /\ collected = [s \in Steps |-> <<>>]
    /\ late = 0

(* Registration calls.  Each is one critical section of g.mu. *)
Register ==
    /\ pc # "crashed"
    /\ calls < MaxCalls
    /\ calls' = calls + 1
    /\ UNCHANGED <<pc, opt, jobs, todo, cur, worker, sem, wg, ctxDone, canceled,
                   results, toCollect, collected, late>>

AddStep(s) ==
    /\ Register
    /\ steps' = steps \cup {s}
    /\ UNCHANGED <<input, batchInput, batchCollectors, activeOption>>

AddInput(s) ==
    /\ Register
    /\ input' = input \cup {s}
    /\ UNCHANGED <<steps, batchInput, batchCollectors, activeOption>>

AddBatchInput(s, n) ==
    /\ Register
    /\ batchInput[s] + n <= MaxItems
    /\ batchInput' = [batchInput EXCEPT ![s] = @ + n]
    /\ UNCHANGED <<steps, input, batchCollectors, activeOption>>

AddCollectorBatch(s) ==
    /\ Register
    /\ batchCollectors' = batchCollectors \cup {s}
    /\ UNCHANGED <<steps, input, batchInput, activeOption>>

AddOptions(os) ==
    /\ Register
    /\ activeOption' = SetOptions(activeOption, os)
    /\ UNCHANGED <<steps, input, batchInput, batchCollectors>>

-----------------------------------------------------------------------------
(* Run, up to the loop: the snapshot and the reset of the results are one   *)
(* critical section.  The context passed in may be done already.            *)
BeginRun(done) ==
    /\ pc = "idle"
    /\ pc' = "loop"
    /\ opt' = activeOption
    /\ jobs' = BuildJobs
    /\ todo' = DOMAIN BuildJobs
    /\ cur' = NoKey
    /\ worker' = [k \in Keys |-> "off"]
    /\ sem' = 0 /\ wg' = 0
    /\ ctxDone' = done /\ canceled' = FALSE
    /\ outputResp' = [k \in Keys |-> "absent"]
    /\ successProcess' = <<>> /\ failedProcess' = <<>>
    /\ batchResults' = [s \in Steps |-> <<>>]
    /\ toCollect' = {}
    /\ collected' = [s \in Steps |-> <<>>]
    /\ late' = 0
    /\ UNCHANGED registrations

(* The caller's context is cancelled or times out. *)
CancelCtx ==
    /\ pc \notin {"idle", "crashed"}
    /\ ~ctxDone
    /\ ctxDone' = TRUE
    /\ UNCHANGED <<registrations, pc, opt, jobs, todo, cur, worker, sem, wg, canceled,
                   results, toCollect, collected, late>>

(* recordResponse: one critical section of g.mu. *)
Grown(q, n) == [i \in 1 .. (IF Len(q) < n THEN n ELSE Len(q)) |->
                   IF i <= Len(q) THEN q[i] ELSE "zero"]
(* Fault: the failure of a chunk is filed under the collector's results only. *)
RecordResponseForgetful(k, r) ==
    /\ outputResp' = [outputResp EXCEPT ![k] = r]
    /\ successProcess' = IF r = "ok" THEN Append(successProcess, k) ELSE successProcess
    /\ failedProcess' = IF r = "err" /\ k[2] # "batch" THEN Append(failedProcess, k) ELSE failedProcess
    /\ batchResults' = IF k[2] # "batch" THEN batchResults
                       ELSE [batchResults EXCEPT ![k[1]] =
                               [Grown(@, k[3]) EXCEPT ![k[3]] = r]]

RecordResponse(k, r) ==
    /\ outputResp' = [outputResp EXCEPT ![k] = r]
    /\ successProcess' = IF r = "ok" THEN Append(successProcess, k) ELSE successProcess
    /\ failedProcess' = IF r = "err" THEN Append(failedProcess, k) ELSE failedProcess
    /\ batchResults' = IF k[2] # "batch" THEN batchResults
                       ELSE [batchResults EXCEPT ![k[1]] =
                               [Grown(@, k[3]) EXCEPT ![k[3]] = r]]

(* Fault: a skipped job is not recorded. *)
SkipJobSilently(k) ==
    /\ pc = "loop"
    /\ Takeable(k)
    /\ opt.blockError /\ RunCtxDone
    /\ todo' = todo \ {k}
    /\ UNCHANGED <<registrations, pc, opt, jobs, cur, worker, sem, wg, ctxDone, canceled,
                   results, toCollect, collected, late>>

(* The loop over the jobs: a job is skipped when block_error is on and      *)
(* Run's context is done at the moment of the check ...                     *)
SkipJob(k) ==
    /\ pc = "loop"
    /\ Takeable(k)
    /\ opt.blockError /\ RunCtxDone
    /\ todo' = todo \ {k}
    /\ RecordResponse(k, "skipped")
    /\ UNCHANGED <<registrations, pc, opt, jobs, cur, worker, sem, wg, ctxDone, canceled,
                   toCollect, collected, late>>

(* Fault: the context is not looked at. *)
TakeJobUnchecked(k) ==
    /\ pc = "loop"
    /\ Takeable(k)
    /\ todo' = todo \ {k}
    /\ cur' = k
    /\ wg' = wg + 1
    /\ pc' = "acquire"
    /\ UNCHANGED <<registrations, opt, jobs, worker, sem, ctxDone, canceled,
                   results, toCollect, collected, late>>

(* ... and otherwise taken: wg.Add(1), then wait for a slot. *)
TakeJob(k) ==
    /\ pc = "loop"
    /\ Takeable(k)
    /\ ~(opt.blockError /\ RunCtxDone)
    /\ todo' = todo \ {k}
    /\ cur' = k
    /\ wg' = wg + 1
    /\ pc' = "acquire"
    /\ UNCHANGED <<registrations, opt, jobs, worker, sem, ctxDone, canceled,
                   results, toCollect, collected, late>>

(* The slot is acquired and the goroutine started; nothing looks at the     *)
(* context again between the check and here.                                *)
StartJob ==
    /\ pc = "acquire"
    /\ sem < Workers(opt)
    /\ sem' = sem + 1
    /\ worker' = [worker EXCEPT ![cur] = "exec"]
    /\ late' = IF opt.blockError /\ RunCtxDone THEN late + 1 ELSE late
    /\ cur' = NoKey
    /\ pc' = "loop"
    /\ UNCHANGED <<registrations, opt, jobs, todo, wg, ctxDone, canceled,
                   results, toCollect, collected>>

EndLoop ==
    /\ pc = "loop"
    /\ todo = {}
    /\ pc' = "wait"
    /\ UNCHANGED <<registrations, opt, jobs, todo, cur, worker, sem, wg, ctxDone, canceled,
                   results, toCollect, collected, late>>

-----------------------------------------------------------------------------
(* A job's goroutine.  executeJob ends with response r (a panic is an error *)
(* response when panic_as_error is on) and recordResponse files it.  The    *)
(* step timeout and Run's context only reach the step function, which is    *)
(* free to ignore them: it may end either way at any moment.                *)
FinishJob(k, r) ==
    /\ pc # "crashed"
    /\ worker[k] = "exec"
    /\ RecordResponse(k, r)
    /\ worker' = [worker EXCEPT ![k] = IF opt.blockError /\ r = "err" THEN "cancel" ELSE "release"]
    /\ UNCHANGED <<registrations, pc, opt, jobs, todo, cur, sem, wg, ctxDone, canceled,
                   toCollect, collected, late>>

(* A panic that executeJob does not recover ends the whole process. *)
PanicJob(k) ==
    /\ pc # "crashed"
    /\ worker[k] = "exec"
    /\ ~opt.panicAsError
    /\ pc' = "crashed"
    /\ UNCHANGED <<registrations, opt, jobs, todo, cur, worker, sem, wg, ctxDone, canceled,
                   results, toCollect, collected, late>>

CancelRun(k) ==
    /\ pc # "crashed"
    /\ worker[k] = "cancel"
    /\ canceled' = TRUE
    /\ worker' = [worker EXCEPT ![k] = "release"]
    /\ UNCHANGED <<registrations, pc, opt, jobs, todo, cur, sem, wg, ctxDone,
                   results, toCollect, collected, late>>

(* Fault: a slot is not given back. *)
ReleaseSlotLeaking(k) ==
    /\ pc # "crashed"
    /\ worker[k] = "release"
    /\ worker' = [worker EXCEPT ![k] = "finish"]
    /\ UNCHANGED <<registrations, pc, opt, jobs, todo, cur, sem, wg, ctxDone, canceled,
                   results, toCollect, collected, late>>

ReleaseSlot(k) ==
    /\ pc # "crashed"
    /\ worker[k] = "release"
    /\ sem' = sem - 1
    /\ worker' = [worker EXCEPT ![k] = "finish"]
    /\ UNCHANGED <<registrations, pc, opt, jobs, todo, cur, wg, ctxDone, canceled,
                   results, toCollect, collected, late>>

WgDone(k) ==
    /\ pc # "crashed"
    /\ worker[k] = "finish"
    /\ wg' = wg - 1
    /\ worker' = [worker EXCEPT ![k] = "off"]
    /\ UNCHANGED <<registrations, pc, opt, jobs, todo, cur, sem, ctxDone, canceled,
                   results, toCollect, collected, late>>

-----------------------------------------------------------------------------
(* Fault: the collectors do not wait for the goroutines. *)
WaitForNobody ==
    /\ pc = "wait"
    /\ toCollect' = batchCollectors
    /\ pc' = "collect"
    /\ UNCHANGED <<registrations, opt, jobs, todo, cur, worker, sem, wg, ctxDone, canceled,
                   results, collected, late>>

(* wg.Wait returns and applyBatchCollectors takes its snapshot; nothing     *)
(* writes the results it copies until Run returns.                          *)
Wait ==
    /\ pc = "wait"
    /\ wg = 0
    /\ toCollect' = batchCollectors
    /\ pc' = "collect"
    /\ UNCHANGED <<registrations, opt, jobs, todo, cur, worker, sem, wg, ctxDone, canceled,
                   results, collected, late>>

(* Fault: per-batch responses go even when the collector was given none. *)
ApplyCollectorGreedy(s) ==
    /\ pc = "collect"
    /\ s \in toCollect
    /\ toCollect' = toCollect \ {s}
    /\ collected' = [collected EXCEPT ![s] = batchResults[s]]
    /\ outputResp' = [k \in Keys |->
          IF k = PlainKey(s) THEN "merged"
          ELSE IF k[1] = s /\ k[2] \in {"batch", "all"} THEN "absent"
          ELSE outputResp[k]]
    /\ UNCHANGED <<registrations, pc, opt, jobs, todo, cur, worker, sem, wg, ctxDone, canceled,
                   successProcess, failedProcess, batchResults, late>>

(* One collector runs over the step's batch results (none: an empty slice)  *)
(* and its response replaces the step's per-batch responses.  Whatever was  *)
(* under the step's key before is overwritten.                              *)
ApplyCollector(s) ==
    /\ pc = "collect"
    /\ s \in toCollect
    /\ toCollect' = toCollect \ {s}
    /\ collected' = [collected EXCEPT ![s] = batchResults[s]]
    /\ outputResp' = [k \in Keys |->
          IF k = PlainKey(s) THEN "merged"
          ELSE IF batchResults[s] # <<>> /\ k[1] = s /\ k[2] \in {"batch", "all"} THEN "absent"
          ELSE outputResp[k]]
    /\ UNCHANGED <<registrations, pc, opt, jobs, todo, cur, worker, sem, wg, ctxDone, canceled,
                   successProcess, failedProcess, batchResults, late>>

(* Run's locals end with it. *)
EndRun ==
    /\ pc' = "idle"
    /\ opt' = DefaultOption
    /\ jobs' = <<>> /\ todo' = {} /\ cur' = NoKey
    /\ worker' = [k \in Keys |-> "off"]
    /\ sem' = 0 /\ wg' = 0
    /\ ctxDone' = FALSE /\ canceled' = FALSE
    /\ toCollect' = {}
    /\ collected' = [s \in Steps |-> <<>>]
    /\ late' = 0
    /\ UNCHANGED <<registrations, results>>

(* A collector's panic is not recovered: it leaves Run. *)
PanicCollector(s) ==
    /\ pc = "collect"
    /\ s \in toCollect
    /\ EndRun

(* Run returns a copy of outputResp. *)
Return ==
    /\ pc = "collect"
    /\ toCollect = {}
    /\ EndRun

(* Nothing runs after a crash. *)
Crashed ==
    /\ pc = "crashed"
    /\ UNCHANGED vars

Registration ==
    \/ \E s \in Steps : AddStep(s) \/ AddInput(s) \/ AddCollectorBatch(s)
    \/ \E s \in Steps, n \in 1 .. MaxItems : AddBatchInput(s, n)
    \/ \E os \in OptionLists : AddOptions(os)

Main ==
    \/ \E k \in todo : SkipJob(k) \/ TakeJob(k)
    \/ StartJob \/ EndLoop \/ Wait
    \/ \E s \in toCollect : ApplyCollector(s) \/ PanicCollector(s)
    \/ Return

Worker(k) ==
    \/ \E r \in {"ok", "err"} : FinishJob(k, r)
    \/ PanicJob(k)
    \/ CancelRun(k) \/ ReleaseSlot(k) \/ WgDone(k)

Next ==
    \/ Registration
    \/ \E done \in BOOLEAN : BeginRun(done)
    \/ CancelCtx
    \/ Main
    \/ \E k \in DOMAIN jobs : Worker(k)
    \/ Crashed

Spec == Init /\ [][Next]_vars

(* Go schedules every runnable goroutine eventually; step functions and     *)
(* collectors are assumed to return.  Nobody is obliged to call anything.   *)
FairSpec == Spec /\ WF_vars(Main) /\ \A k \in Keys : WF_vars(k \in DOMAIN jobs /\ Worker(k))

-----------------------------------------------------------------------------
(* Properties. *)

(* Every variable keeps the shape its Go counterpart has. *)
TypeOK ==
    /\ steps \subseteq Steps /\ input \subseteq Steps /\ batchCollectors \subseteq Steps
    /\ batchInput \in [Steps -> 0 .. MaxItems]
    /\ activeOption \in Option /\ opt \in Option
    /\ calls \in 0 .. MaxCalls
    /\ pc \in {"idle", "loop", "acquire", "wait", "collect", "crashed"}
    /\ DOMAIN jobs \subseteq Keys /\ todo \subseteq DOMAIN jobs
    /\ cur \in DOMAIN jobs \cup {NoKey}
    /\ worker \in [Keys -> {"off", "exec", "cancel", "release", "finish"}]
    /\ sem \in Int /\ wg \in Int
    /\ ctxDone \in BOOLEAN /\ canceled \in BOOLEAN
    /\ outputResp \in [Keys -> Responses \cup {"absent", "merged"}]
    /\ successProcess \in Seq(Keys) /\ failedProcess \in Seq(Keys)
    /\ batchResults \in [Steps -> Seq(Responses \cup {"zero"})]
    /\ toCollect \subseteq Steps
    /\ collected \in [Steps -> Seq(Responses \cup {"zero"})]
    /\ late \in Nat

(* Never more step functions in flight than the worker option in force when *)
(* Run started allows, whatever AddOptions does meanwhile.                  *)
Executing == {k \in Keys : worker[k] = "exec"}
WorkerLimit == Cardinality(Executing) <= Workers(opt)

(* With block_error, once Run's context is done at most one further step    *)
(* function is started: the job that passed the check before it.  (That     *)
(* none is, as goroutine/type.go:12 has it, would be too much to say.)      *)
AtMostOneLate == late <= 1

(* When wg.Wait returns every job of the Run has exactly one outcome: it is *)
(* listed once in successProcess, or once in failedProcess, or was skipped. *)
Occurrences(q, k) == Cardinality({i \in DOMAIN q : q[i] = k})
Outcomes(k) == Occurrences(successProcess, k) + Occurrences(failedProcess, k)
                 + (IF outputResp[k] = "skipped" THEN 1 ELSE 0)
EveryJobAccounted ==
    pc = "wait" /\ wg = 0 => \A k \in DOMAIN jobs : Outcomes(k) = 1

(* IsProcessSuccess (no failed process) means what it says: unless the      *)
(* caller cancelled its own context, every job ran and succeeded.           *)
Listed(k, q) == \E i \in DOMAIN q : q[i] = k
SuccessMeansAllSucceeded ==
    pc = "collect" /\ failedProcess = <<>> /\ ~ctxDone =>
        \A k \in DOMAIN jobs : Listed(k, successProcess)

(* A collector that is given batch results is given all of them, each at    *)
(* the index of its chunk, whatever order the chunks finished in.           *)
CollectorSeesEveryChunk ==
    \A s \in Steps : collected[s] # <<>> =>
        /\ DOMAIN collected[s] = {k[3] : k \in {j \in DOMAIN jobs : j[1] = s}}
        /\ \A i \in DOMAIN collected[s] :
              collected[s][i] =
                IF Listed(BatchKey(s, i), successProcess) THEN "ok"
                ELSE IF Listed(BatchKey(s, i), failedProcess) THEN "err"
                ELSE "skipped"

(* The outcome a job had, by the lists of processes.                        *)
OutcomeOf(k) == IF Listed(k, successProcess) THEN "ok"
                ELSE IF Listed(k, failedProcess) THEN "err" ELSE "skipped"

(* A chunk whose outcome the collector of its step was given, and whose     *)
(* place in the map is taken by the collector's response; and a job without *)
(* a batch whose step has a collector all the same: that one is given an    *)
(* empty slice and its response overwrites the job's (goroutine.go:374).    *)
GivenToCollector(k) ==
    /\ k[2] = "batch" /\ k[3] \in DOMAIN collected[k[1]]
    /\ collected[k[1]][k[3]] = OutcomeOf(k)
OverwrittenByCollector(k) == k[2] = "plain" /\ collected[k[1]] = <<>>

(* No response is lost on the way to the caller but the one that a          *)
(* collector without a batch overwrites: the map Run returns has, under     *)
(* every other job's key, the job's own response and nothing else, or, when *)
(* the job's chunk was given to the step's collector with that response,    *)
(* the collector's under the step's key.                                    *)
NoResponseLost ==
    [][pc = "collect" /\ toCollect = {} /\ pc' = "idle" =>
          \A k \in DOMAIN jobs :
              \/ outputResp'[k] = OutcomeOf(k)
              \/ /\ outputResp'[PlainKey(k[1])] = "merged"
                 /\ GivenToCollector(k) \/ OverwrittenByCollector(k)]_vars

(* Run comes back if the step functions and collectors do. *)
RunReturns == pc = "loop" ~> pc \in {"idle", "crashed"}

(* goroutine/type.go:27 and goroutine.go:389 say that a collector merges    *)
(* all batch responses of its step into one, so that the caller sees only   *)
(* the merged one: once a step with a batch was collected, Run returns no   *)
(* per-batch response of it.                                                *)
CallerSeesOnlyMerged ==
    [][pc = "collect" /\ toCollect = {} /\ pc' = "idle" =>
          \A j, k \in Keys :
              ~(/\ k = PlainKey(j[1]) /\ outputResp'[k] # "absent"
                /\ j # k /\ outputResp'[j] # "absent")]_vars

(* Run implements the abstract work pool.  Between two Runs the pool's      *)
(* limit is that of the default options.                                    *)
JobStatus ==
    [k \in Keys |-> IF k \in todo \/ k = cur THEN "waiting"
                    ELSE IF worker[k] = "exec" THEN "running"
                    ELSE IF k \in DOMAIN jobs THEN "over" ELSE "none"]
Phase == IF pc \in {"idle", "crashed"} THEN pc ELSE "busy"
Pool == INSTANCE WorkPool
            WITH PoolJobs <- Keys, phase <- Phase, limit <- Workers(opt),
                 status <- JobStatus, stopped <- opt.blockError /\ RunCtxDone
ImplementsPool == Pool!PoolInit /\ [][Pool!PoolNext]_(Pool!poolVars)

-----------------------------------------------------------------------------
(* The inductive invariant behind WorkerLimit, AtMostOneLate,               *)
(* EveryJobAccounted and SuccessMeansAllSucceeded.                          *)

(* sem counts the goroutines between their start and their release. *)
Holding == {k \in Keys : worker[k] \in {"exec", "cancel", "release"}}
SlotsInv == sem = Cardinality(Holding) /\ sem <= Workers(opt)

(* wg counts the goroutines not yet done, and the job waiting for a slot. *)
Active == {k \in Keys : worker[k] # "off"}
WaitGroupInv == /\ IsFiniteSet(Active)
                /\ wg = Cardinality(Active) + (IF cur = NoKey THEN 0 ELSE 1)

(* Where jobs are while Run is in each of its phases. *)
PhaseInv ==
    /\ pc = "acquire" => cur # NoKey
    /\ cur # NoKey => pc \in {"acquire", "crashed"}
    /\ pc \in {"wait", "collect"} => todo = {}
    /\ pc \in {"idle", "collect"} => wg = 0
    /\ cur # NoKey => cur \in DOMAIN jobs \ todo /\ worker[cur] = "off"
    /\ \A k \in todo : worker[k] = "off"
    /\ \A k \in Active : k \in DOMAIN jobs

(* A late start needs a job taken before the context was done, and no job   *)
(* is taken afterwards.                                                     *)
LateInv == late = 0 \/ (late = 1 /\ cur = NoKey /\ opt.blockError /\ RunCtxDone)

(* A job without an outcome is still to be taken, waiting, or executing. *)
Unfinished(k) == k \in todo \/ k = cur \/ worker[k] = "exec"
OutcomeInv ==
    pc \in {"loop", "acquire", "wait"} =>
        \A k \in DOMAIN jobs : Outcomes(k) = IF Unfinished(k) THEN 0 ELSE 1

(* cancel() follows a failure, and only a done context lets a job end       *)
(* outside both lists.                                                      *)
CancelInv ==
    /\ canceled \/ (\E k \in Keys : worker[k] = "cancel") => failedProcess # <<>>
    /\ \A k \in DOMAIN jobs :
          \/ Unfinished(k) \/ RunCtxDone
          \/ Listed(k, successProcess) \/ Listed(k, failedProcess)

IInv == /\ TypeOK /\ SlotsInv /\ WaitGroupInv /\ PhaseInv
        /\ LateInv /\ OutcomeInv /\ CancelInv
(* The invariant behind CollectorSeesEveryChunk and NoResponseLost: what    *)
(* the jobs have reported, and what becomes of it.                          *)
InProgress == pc \in {"loop", "acquire", "wait", "collect"}

(* The chunks of a step are numbered from 1 without a gap, and a step with  *)
(* chunks has no other job.                                                 *)
JobsInv ==
    \A k \in DOMAIN jobs : k[2] = "batch" =>
        /\ \A i \in 1 .. k[3] : BatchKey(k[1], i) \in DOMAIN jobs
        /\ \A j \in DOMAIN jobs : j[1] = k[1] => j[2] = "batch" /\ j[3] >= 1

(* Every chunk that is over is at its index, and a place grown for it is    *)
(* that of another chunk.                                                   *)
ResultsInv ==
    InProgress =>
        /\ \A s \in Steps : \A i \in DOMAIN batchResults[s] : BatchKey(s, i) \in DOMAIN jobs
        /\ \A k \in DOMAIN jobs : k[2] = "batch" /\ ~Unfinished(k) =>
              /\ k[3] \in DOMAIN batchResults[k[1]]
              /\ batchResults[k[1]][k[3]] = OutcomeOf(k)

CollectedInv ==
    \A s \in Steps : collected[s] = <<>> \/ (pc = "collect" /\ collected[s] = batchResults[s])

RespondedInv ==
    InProgress =>
        \A k \in DOMAIN jobs : ~Unfinished(k) =>
            \/ outputResp[k] = OutcomeOf(k)
            \/ /\ pc = "collect" /\ outputResp[PlainKey(k[1])] = "merged"
               /\ GivenToCollector(k) \/ OverwrittenByCollector(k)

ReportInv == JobsInv /\ ResultsInv /\ CollectedInv /\ RespondedInv

-----------------------------------------------------------------------------
(* What RunReturns rests on besides the scheduling: a Run can never come to *)
(* a stop, and its steps are used up.                                       *)

(* What a Run works on is finite, and of the steps it has begun to take the *)
(* jobs of, at most one has jobs left.                                      *)
FiniteInv == /\ IsFiniteSet(steps) /\ IsFiniteSet(batchCollectors)
             /\ IsFiniteSet(toCollect) /\ IsFiniteSet(DOMAIN jobs)
QueueInv ==
    \A i, j \in DOMAIN jobs \ todo : i[1] # j[1] =>
        (\A k \in todo : k[1] # i[1]) \/ (\A k \in todo : k[1] # j[1])

(* Neither the channel sem, nor the WaitGroup, nor the order of the jobs    *)
(* can block a Run for good: what the goroutine that called Run does next   *)
(* is possible now, or the goroutine of a job has its next step before it.  *)
RunNeverStuck ==
    InProgress =>
        \/ pc = "loop" /\ (todo = {} \/ \E k \in todo : Takeable(k))
        \/ pc = "acquire" /\ sem < Workers(opt)
        \/ pc = "wait" /\ wg = 0
        \/ pc = "collect"
        \/ \E k \in DOMAIN jobs : worker[k] # "off"

(* The stages a job, the goroutine that called Run, its context and the     *)
(* collectors still have before them.                                       *)
JobStages(k) ==
    IF k \in todo THEN 6
    ELSE IF k = cur THEN 5
    ELSE CASE worker[k] = "exec" -> 4 [] worker[k] = "cancel" -> 3
           [] worker[k] = "release" -> 2 [] worker[k] = "finish" -> 1 [] OTHER -> 0
CallerStages ==
    CASE pc \in {"loop", "acquire"} -> 3 [] pc = "wait" -> 2 [] pc = "collect" -> 1 [] OTHER -> 0
ContextStages == IF InProgress /\ ~ctxDone THEN 1 ELSE 0
RunStages ==
    {r \in Keys \X (1 .. 6) : r[2] <= JobStages(r[1])}
      \cup {<<NoKey, n>> : n \in 1 .. CallerStages}
      \cup {<<<<"ctx">>, n>> : n \in 1 .. ContextStages}
ToBeCollected ==
    CASE pc = "collect" -> toCollect [] pc \in {"loop", "acquire", "wait"} -> batchCollectors
      [] OTHER -> {}
Remaining == RunStages \cup {<<<<s, "collector">>, 1>> : s \in ToBeCollected}

(* A Run has finitely many stages before it.  Every step that is taken      *)
(* while it is in progress uses up at least one and brings none back,       *)
(* except a registration call, which can only give the Run a collector to   *)
(* apply: no job is queued, taken or started twice.                         *)
StagesFinite == IsFiniteSet(Remaining)
RunMovesOn ==
    [][InProgress =>
          IF calls' = calls THEN Remaining' \subseteq Remaining /\ Remaining' # Remaining
          ELSE RunStages' = RunStages]_vars
=============================================================================
