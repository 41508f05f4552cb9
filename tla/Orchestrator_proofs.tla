------------------------- MODULE Orchestrator_proofs -------------------------
(***************************************************************************)
(* Proofs about Orchestrator, for every set of keys, every worker limit    *)
(* and every bound.                                                        *)
(***************************************************************************)
EXTENDS Orchestrator, FiniteSetTheorems, SequenceTheorems, WellFoundedInduction, TLAPS

Places == {"off", "exec", "release", "finish"}
Entry  == [kind : {"missing", "single", "slice"}, slots : Seq(Nat)]

Registration ==
    \E k \in StepKeys : AddStep(k) \/ AddInput(k) \/ \E n \in 0 .. MaxItems : AddBatchInput(k, n)

(* Jobs have two parts; the value for no job has none, the errors that are  *)
(* no job's have one.                                                       *)
LEMMA JobShape == \A j \in Jobs : j # NoJob /\ j # Deadline /\ j # NoError
<1> SUFFICES ASSUME NEW j \in Jobs PROVE j # NoJob /\ j # Deadline /\ j # NoError
  OBVIOUS
<1>1. PICK k \in StepKeys, i \in 0 .. MaxItems : j = <<k, i>>
  BY DEF Jobs
<1>2. Len(<<k, i>>) = 2 /\ Len(<<>>) = 0 /\ Len(<<"deadline">>) = 1 /\ Len(<<"nil">>) = 1
  OBVIOUS
<1> QED BY <1>1, <1>2 DEF NoJob, Deadline, NoError

(* Which jobs a Run has. *)
LEMMA QueuedJobs ==
  ASSUME TypeOK
  PROVE  /\ Queued \subseteq Jobs
         /\ \A k \in StepKeys, i \in Nat : <<k, i>> \in Queued <=>
               \/ i = 0 /\ k \in steps \cap singleInput
               \/ k \in steps /\ i \in 1 .. batchInput[k]
<1>1. \A k \in StepKeys : 1 .. batchInput[k] \subseteq 0 .. MaxItems
  BY OrchestratorAssumption DEF TypeOK
<1>2. Queued \subseteq Jobs
  BY <1>1, OrchestratorAssumption DEF Queued, Jobs, TypeOK
<1>3. ASSUME NEW k \in StepKeys, NEW i \in Nat
      PROVE  <<k, i>> \in Queued <=> \/ i = 0 /\ k \in steps \cap singleInput
                                     \/ k \in steps /\ i \in 1 .. batchInput[k]
  BY <1>3 DEF Queued
<1> QED BY <1>2, <1>3

LEMMA JobParts == \A j \in Jobs : j[1] \in StepKeys /\ j[2] \in 0 .. MaxItems /\ j = <<j[1], j[2]>>
BY DEF Jobs

-----------------------------------------------------------------------------
(* Type correctness. *)

LEMMA InitType == Init => TypeOK
<1> SUFFICES ASSUME Init PROVE TypeOK
  OBVIOUS
<1>1. <<>> \in Seq(Nat) /\ <<>> \in Seq(Jobs \cup {Deadline})
  BY EmptySeq
<1>2. results \in [StepKeys -> Entry]
  BY <1>1 DEF Init, Entry, Missing
<1>3. /\ worker \in [Jobs -> Places]
      /\ batchInput \in [StepKeys -> -1 .. MaxItems]
  BY OrchestratorAssumption DEF Init, Places
<1> QED BY <1>1, <1>2, <1>3, OrchestratorAssumption DEF Init, TypeOK, Entry, Places

LEMMA NextType == TypeOK /\ [Next]_vars => TypeOK'
<1> SUFFICES ASSUME TypeOK, [Next]_vars PROVE TypeOK'
  OBVIOUS
<1> USE DEF TypeOK
<1>1. CASE Registration
  <2>1. /\ steps' \subseteq StepKeys /\ singleInput' \subseteq StepKeys
        /\ batchInput' \in [StepKeys -> -1 .. MaxItems]
    <3>1. ASSUME NEW k \in StepKeys, NEW n \in 0 .. MaxItems, AddBatchInput(k, n)
          PROVE  batchInput' \in [StepKeys -> -1 .. MaxItems]
      <4>1. n \in -1 .. MaxItems
        BY OrchestratorAssumption
      <4> QED BY <3>1, <4>1 DEF AddBatchInput
    <3> QED BY <1>1, <3>1 DEF Registration, AddStep, AddInput, AddBatchInput
  <2>2. Register
    BY <1>1 DEF Registration, AddStep, AddInput, AddBatchInput
  <2> QED BY <2>1, <2>2, OrchestratorAssumption DEF Register
<1>2. CASE BeginRun
  <2>1. todo' \subseteq Jobs
    BY <1>2, QueuedJobs DEF BeginRun
  <2>2. results' \in [StepKeys -> Entry]
    <3>1. \A n \in Nat : [i \in 1 .. n |-> 0] \in Seq(Nat)
      OBVIOUS
    <3>2. \A k \in StepKeys : Preallocated[k] \in Entry
      BY <3>1 DEF Preallocated, Entry, Slice
    <3> QED BY <1>2, <3>2 DEF BeginRun, Preallocated
  <2> QED BY <1>2, <2>1, <2>2, OrchestratorAssumption DEF BeginRun, registrations, Entry
<1>3. ASSUME NEW how \in {"expired", "canceled"}, ContextDone(how) PROVE TypeOK'
  BY <1>3 DEF ContextDone, registrations
<1>4. ASSUME NEW j \in todo, TakeJob(j) PROVE TypeOK'
  BY <1>4 DEF TakeJob, registrations
<1>5. CASE StartJob
  <2>1. worker' \in [Jobs -> {"off", "exec", "release", "finish"}]
    BY <1>5 DEF StartJob
  <2>2. semaphore' \in Int
    BY <1>5 DEF StartJob
  <2> QED BY <1>5, <2>1, <2>2 DEF StartJob, registrations
<1>6. CASE EndLoop
  BY <1>6 DEF EndLoop, registrations
<1>7. CASE Return
  <2>1. errors' \in Seq(Jobs \cup {Deadline})
    BY <1>7 DEF Return
  <2>2. runError' \in Jobs \cup {Deadline, NoError}
    BY <1>7, <2>1 DEF Return, GetError
  <2> QED BY <1>7, <2>1, <2>2 DEF Return, registrations
<1>8. ASSUME NEW j \in Jobs, FailJob(j) PROVE TypeOK'
  BY <1>8 DEF FailJob, registrations
<1>9. ASSUME NEW j \in Jobs, StoreResult(j) PROVE TypeOK'
  <2>1. j[1] \in StepKeys /\ j[2] \in Nat
    BY JobParts, OrchestratorAssumption
  <2> DEFINE q == results[j[1]].slots
  <2>2. q \in Seq(Nat)
    BY <2>1
  <2>3. [q EXCEPT ![j[2]] = j[2]] \in Seq(Nat)
    <3>1. Len(q) \in Nat /\ q \in [1 .. Len(q) -> Nat]
      BY <2>2, LenProperties
    <3>2. [q EXCEPT ![j[2]] = j[2]] \in [1 .. Len(q) -> Nat]
      BY <2>1, <3>1
    <3> DEFINE g == [q EXCEPT ![j[2]] = j[2]]
               n == Len(q)
    <3>3. n \in Nat /\ g \in [1 .. n -> Nat]
      BY <3>1, <3>2
    <3>4. g \in Seq(Nat)
      <4> HIDE DEF g, n
      <4> QED BY <3>3
    <3> QED BY <3>4
  <2>4. results' \in [StepKeys -> Entry]
    BY <1>9, <2>1, <2>3, EmptySeq DEF StoreResult, Entry, Single, Slice
  <2> QED BY <1>9, <2>4 DEF StoreResult, registrations, Entry
<1>10. ASSUME NEW j \in Jobs, Crash(j) \/ ReleaseSlot(j) \/ WgDone(j) PROVE TypeOK'
  <2>1. worker' \in [Jobs -> {"off", "exec", "release", "finish"}]
    BY <1>10 DEF Crash, ReleaseSlot, WgDone
  <2>2. semaphore' \in Int /\ wg' \in Int
    BY <1>10 DEF Crash, ReleaseSlot, WgDone
  <2> QED BY <1>10, <2>1, <2>2 DEF Crash, ReleaseSlot, WgDone, registrations
<1>11. CASE UNCHANGED vars
  BY <1>11 DEF vars, registrations
<1> QED BY <1>1, <1>2, <1>3, <1>4, <1>5, <1>6, <1>7, <1>8, <1>9, <1>10, <1>11
        DEF Next, Main, Worker, Stopped, Registration

-----------------------------------------------------------------------------
(* The inductive invariant. *)

(* When wg is 0 no goroutine of the Run is left and no job is in hand. *)
LEMMA NoneLeft ==
  ASSUME IInv, wg = 0
  PROVE  Active = {} /\ cur = NoJob /\ \A j \in Jobs : worker[j] = "off"
<1>1. Cardinality(Active) \in Nat
  BY FS_CardinalityType DEF IInv, WaitGroupInv
<1>2. cur = NoJob /\ Cardinality(Active) = 0
  BY <1>1 DEF IInv, WaitGroupInv
<1>3. Active = {}
  BY <1>2, FS_EmptySet DEF IInv, WaitGroupInv
<1> QED BY <1>2, <1>3 DEF Active

(* At rest no job is anywhere; a job's goroutine means a Run in progress.   *)
LEMMA AtRest ==
  ASSUME IInv
  PROVE  /\ pc = "idle" => Active = {} /\ todo = {} /\ cur = NoJob /\ \A j \in Jobs : worker[j] = "off"
         /\ \A j \in Jobs : worker[j] # "off" => j \in Queued /\ j \notin todo /\ j # cur /\ pc # "idle"
<1>1. pc = "idle" => Active = {} /\ todo = {} /\ cur = NoJob /\ \A j \in Jobs : worker[j] = "off"
  BY NoneLeft DEF IInv, PhaseInv
<1> QED BY <1>1, JobShape DEF IInv, PhaseInv, Active

LEMMA InitInv == Init => IInv
<1> SUFFICES ASSUME Init PROVE IInv
  OBVIOUS
<1>1. Active = {} /\ Holding = {}
  BY DEF Init, Active, Holding
<1>2. SlotsInv /\ WaitGroupInv
  BY <1>1, FS_EmptySet, OrchestratorAssumption DEF Init, SlotsInv, WaitGroupInv
<1>3. PhaseInv
  BY <1>1 DEF Init, PhaseInv
<1>4. FailedInv /\ SingleInv /\ BatchInv
  BY DEF Init, FailedInv, SingleInv, BatchInv, InRun
<1> QED BY <1>2, <1>3, <1>4, InitType DEF IInv

(* Registrations are made between Runs, when nothing refers to them. *)
LEMMA RegistrationInv ==
  ASSUME IInv, TypeOK', Registration
  PROVE  IInv'
<1>1. /\ pc = "idle"
      /\ UNCHANGED <<runs, pc, todo, cur, worker, semaphore, wg, timeoutCtx, results, errors, failed>>
  BY DEF Registration, AddStep, AddInput, AddBatchInput, Register
<1>2. Active = {} /\ todo = {} /\ cur = NoJob
  BY <1>1, AtRest
<1>3. SlotsInv' /\ WaitGroupInv'
  BY <1>1 DEF IInv, SlotsInv, Holding, WaitGroupInv, Active
<1>4. PhaseInv'
  BY <1>1, <1>2 DEF IInv, PhaseInv, Active
<1>5. FailedInv' /\ SingleInv' /\ BatchInv'
  BY <1>1 DEF IInv, FailedInv, SingleInv, BatchInv, InRun
<1> QED BY <1>3, <1>4, <1>5 DEF IInv

LEMMA BeginRunInv ==
  ASSUME IInv, TypeOK', BeginRun
  PROVE  IInv'
<1>1. /\ pc = "idle" /\ pc' = "loop" /\ todo' = Queued /\ results' = Preallocated /\ failed' = {}
      /\ UNCHANGED <<registrations, cur, worker, semaphore, wg, errors>>
  BY DEF BeginRun
<1>2. Queued' = Queued
  BY <1>1 DEF registrations, Queued
<1>3. Active = {} /\ cur = NoJob /\ \A j \in Jobs : worker[j] = "off"
  BY <1>1, AtRest
<1>4. SlotsInv' /\ WaitGroupInv'
  BY <1>1 DEF IInv, SlotsInv, Holding, WaitGroupInv, Active
<1>5. PhaseInv'
  BY <1>1, <1>2, <1>3, QueuedJobs DEF IInv, PhaseInv, Active
<1>6. FailedInv'
  BY <1>1 DEF FailedInv
<1>7. \A k \in StepKeys, i \in Nat : <<k, i>> \in Queued => Unfinished(<<k, i>>)'
  BY <1>1 DEF Unfinished
<1>8. SingleInv'
  <2>1. SUFFICES ASSUME NEW k \in steps \cap singleInput PROVE Unfinished(<<k, 0>>)'
    BY <1>1 DEF SingleInv, registrations
  <2> QED BY <1>7, QueuedJobs DEF IInv, TypeOK
<1>9. BatchInv'
  <2>1. SUFFICES ASSUME NEW k \in steps, batchInput[k] >= 0
                 PROVE  results'[k] = Slice([i \in 1 .. batchInput[k] |->
                             IF Unfinished(<<k, i>>)' \/ <<k, i>> \in failed' THEN 0 ELSE i])
    BY <1>1 DEF BatchInv, registrations
  <2>2. k \in StepKeys /\ batchInput[k] \in Int
    BY DEF IInv, TypeOK
  <2>3. \A i \in 1 .. batchInput[k] : Unfinished(<<k, i>>)'
    BY <1>7, <2>2, QueuedJobs DEF IInv
  <2> QED BY <1>1, <2>1, <2>2, <2>3 DEF Preallocated, Slice
<1> QED BY <1>4, <1>5, <1>6, <1>8, <1>9 DEF IInv

(* A step that records no outcome and finishes no job keeps what is known   *)
(* of the outcomes.                                                         *)
LEMMA OutcomesKept ==
  ASSUME IInv, TypeOK', UNCHANGED <<registrations, results, failed>>, errors # <<>> => errors' # <<>>,
         InRun' => InRun /\ \A j \in Jobs : Unfinished(j)' <=> Unfinished(j)
  PROVE  FailedInv' /\ SingleInv' /\ BatchInv'
<1>1. FailedInv'
  BY DEF IInv, TypeOK, FailedInv
<1>2. \A k \in StepKeys : <<k, 0>> \in Jobs
  BY OrchestratorAssumption DEF Jobs
<1>3. SingleInv'
  BY <1>2 DEF IInv, TypeOK, SingleInv, registrations
<1>4. BatchInv'
  <2>1. SUFFICES ASSUME InRun', NEW k \in steps \ singleInput, batchInput[k] >= 0
                 PROVE  results[k] = Slice([i \in 1 .. batchInput[k] |->
                             IF Unfinished(<<k, i>>)' \/ <<k, i>> \in failed THEN 0 ELSE i])
    BY DEF BatchInv, registrations
  <2>2. \A i \in 1 .. batchInput[k] : <<k, i>> \in Jobs
    <3>1. k \in StepKeys /\ batchInput[k] \in -1 .. MaxItems
      BY DEF IInv, TypeOK
    <3> QED BY <3>1, OrchestratorAssumption DEF Jobs
  <2>3. \A i \in 1 .. batchInput[k] : Unfinished(<<k, i>>)' <=> Unfinished(<<k, i>>)
    BY <2>1, <2>2
  <2> QED BY <2>1, <2>3 DEF IInv, BatchInv
<1> QED BY <1>1, <1>3, <1>4

(* The steps that move Run's own control only. *)
LEMMA ControlInv ==
  ASSUME IInv, TypeOK',
         \/ \E how \in {"expired", "canceled"} : ContextDone(how)
         \/ EndLoop \/ Return
         \/ \E j \in Jobs : Crash(j)
  PROVE  IInv'
<1>1. UNCHANGED <<registrations, todo, cur, worker, semaphore, wg, results, failed>>
  BY DEF ContextDone, EndLoop, Return, Crash
<1>2. \/ pc' = pc
      \/ pc = "loop" /\ pc' = "wait" /\ todo = {}
      \/ pc = "wait" /\ pc' = "idle" /\ wg = 0
      \/ pc' = "crashed"
  BY DEF ContextDone, EndLoop, Return, Crash
<1>3. errors # <<>> => errors' # <<>>
  BY DEF ContextDone, EndLoop, Return, Crash, IInv, TypeOK
<1>4. SlotsInv' /\ WaitGroupInv'
  BY <1>1 DEF IInv, SlotsInv, Holding, WaitGroupInv, Active
<1>5. Queued' = Queued
  BY <1>1 DEF registrations, Queued
<1>6. PhaseInv'
  BY <1>1, <1>2, <1>5, NoneLeft DEF IInv, PhaseInv, Active
<1>7. \A j \in Jobs : Unfinished(j)' <=> Unfinished(j)
  BY <1>1 DEF Unfinished
<1>8. InRun' => InRun
  BY <1>2 DEF InRun
<1> QED BY <1>1, <1>3, <1>4, <1>6, <1>7, <1>8, OutcomesKept DEF IInv

LEMMA TakeJobInv ==
  ASSUME IInv, TypeOK', NEW j \in todo, TakeJob(j)
  PROVE  IInv'
<1>1. j \in Jobs /\ j # NoJob /\ j \in Queued /\ cur = NoJob /\ worker[j] = "off"
  BY JobShape DEF IInv, TypeOK, PhaseInv, TakeJob
<1>2. UNCHANGED <<registrations, worker, semaphore, results, errors, failed>>
  BY DEF TakeJob
<1>3. todo' = todo \ {j} /\ cur' = j /\ wg' = wg + 1 /\ pc = "loop" /\ pc' = "acquire"
  BY DEF TakeJob
<1>4. SlotsInv'
  BY <1>2 DEF IInv, SlotsInv, Holding
<1>5. WaitGroupInv'
  <2>1. Active' = Active /\ Cardinality(Active) \in Nat
    BY <1>2, FS_CardinalityType DEF IInv, WaitGroupInv, Active
  <2> QED BY <1>1, <1>3, <2>1 DEF IInv, WaitGroupInv
<1>6. PhaseInv'
  <2>1. Queued' = Queued
    BY <1>2 DEF registrations, Queued
  <2> QED BY <1>1, <1>2, <1>3, <2>1 DEF IInv, PhaseInv, Active
<1>7. \A i \in Jobs : Unfinished(i)' <=> Unfinished(i)
  BY <1>1, <1>2, <1>3, JobShape DEF Unfinished
<1> QED BY <1>2, <1>3, <1>4, <1>5, <1>6, <1>7, OutcomesKept DEF IInv, InRun

LEMMA StartJobInv ==
  ASSUME IInv, TypeOK', StartJob
  PROVE  IInv'
<1>1. cur # NoJob /\ cur \in Queued \ todo /\ cur \in Jobs /\ worker[cur] = "off"
  BY DEF IInv, TypeOK, PhaseInv, StartJob
<1>2. UNCHANGED <<registrations, todo, wg, results, errors, failed>>
  BY DEF StartJob
<1>3. /\ worker' = [worker EXCEPT ![cur] = "exec"] /\ worker \in [Jobs -> Places]
      /\ cur' = NoJob /\ pc = "acquire" /\ pc' = "loop"
      /\ semaphore < MaxWorkers /\ semaphore' = semaphore + 1
  BY DEF StartJob, IInv, TypeOK, Places
<1>4. /\ Holding' = Holding \cup {cur} /\ cur \notin Holding
      /\ Active' = Active \cup {cur} /\ cur \notin Active
  BY <1>1, <1>3 DEF Holding, Active
<1>5. IsFiniteSet(Active) /\ IsFiniteSet(Holding)
  <2>1. Holding \in SUBSET Active
    BY DEF Holding, Active
  <2> QED BY <2>1, FS_Subset DEF IInv, WaitGroupInv
<1>6. SlotsInv'
  <2>1. Cardinality(Holding') = Cardinality(Holding) + 1
    BY <1>4, <1>5, FS_AddElement
  <2>2. semaphore \in Int
    BY DEF IInv, TypeOK
  <2> QED BY <1>3, <2>1, <2>2, OrchestratorAssumption DEF IInv, SlotsInv
<1>7. WaitGroupInv'
  <2>1. IsFiniteSet(Active') /\ Cardinality(Active') = Cardinality(Active) + 1
    BY <1>4, <1>5, FS_AddElement
  <2>2. Cardinality(Active) \in Nat
    BY <1>5, FS_CardinalityType
  <2> QED BY <1>1, <1>2, <1>3, <2>1, <2>2 DEF IInv, WaitGroupInv
<1>8. PhaseInv'
  <2>1. \A i \in todo' : worker'[i] = "off"
    BY <1>1, <1>2, <1>3 DEF IInv, PhaseInv, TypeOK
  <2>2. Queued' = Queued /\ Active' \subseteq Queued
    BY <1>1, <1>2, <1>4 DEF IInv, PhaseInv, registrations, Queued
  <2> QED BY <1>2, <1>3, <2>1, <2>2 DEF IInv, PhaseInv
<1>9. \A i \in Jobs : Unfinished(i)' <=> Unfinished(i)
  BY <1>1, <1>2, <1>3, JobShape DEF Unfinished
<1> QED BY <1>2, <1>3, <1>6, <1>7, <1>8, <1>9, OutcomesKept DEF IInv, InRun

(* The steps of a job's goroutine after its handler. *)
LEMMA ReleaseSlotInv ==
  ASSUME IInv, TypeOK', NEW j \in Jobs, ReleaseSlot(j)
  PROVE  IInv'
<1>1. /\ UNCHANGED <<registrations, pc, todo, cur, wg, results, errors, failed>>
      /\ worker' = [worker EXCEPT ![j] = "finish"] /\ worker[j] = "release"
      /\ worker \in [Jobs -> Places] /\ semaphore' = semaphore - 1
  BY DEF ReleaseSlot, IInv, TypeOK, Places
<1>2. Holding' = Holding \ {j} /\ j \in Holding /\ Active' = Active
  BY <1>1 DEF Holding, Active
<1>3. SlotsInv'
  <2>1. Holding \in SUBSET Active
    BY DEF Holding, Active
  <2>2. IsFiniteSet(Holding) /\ Cardinality(Holding) \in Nat
    BY <2>1, FS_Subset, FS_CardinalityType DEF IInv, WaitGroupInv
  <2>3. Cardinality(Holding') = Cardinality(Holding) - 1
    BY <1>2, <2>2, FS_RemoveElement
  <2> QED BY <1>1, <2>2, <2>3, OrchestratorAssumption DEF IInv, SlotsInv
<1>4. WaitGroupInv'
  BY <1>1, <1>2 DEF IInv, WaitGroupInv
<1>5. \A i \in Jobs : i # j => worker'[i] = worker[i]
  BY <1>1
<1>6. PhaseInv'
  <2>1. j \notin todo /\ j # cur /\ Queued' = Queued
    BY <1>1, AtRest DEF registrations, Queued
  <2> QED BY <1>1, <1>2, <1>5, <2>1 DEF IInv, TypeOK, PhaseInv
<1>7. \A i \in Jobs : Unfinished(i)' <=> Unfinished(i)
  BY <1>1, <1>5 DEF Unfinished
<1> QED BY <1>1, <1>3, <1>4, <1>6, <1>7, OutcomesKept DEF IInv, InRun

LEMMA WgDoneInv ==
  ASSUME IInv, TypeOK', NEW j \in Jobs, WgDone(j)
  PROVE  IInv'
<1>1. /\ UNCHANGED <<registrations, pc, todo, cur, semaphore, results, errors, failed>>
      /\ worker' = [worker EXCEPT ![j] = "off"] /\ worker[j] = "finish"
      /\ worker \in [Jobs -> Places] /\ wg' = wg - 1
  BY DEF WgDone, IInv, TypeOK, Places
<1>2. Holding' = Holding /\ Active' = Active \ {j} /\ j \in Active
  BY <1>1 DEF Holding, Active
<1>3. SlotsInv'
  BY <1>1, <1>2 DEF IInv, SlotsInv
<1>4. WaitGroupInv'
  <2>1. IsFiniteSet(Active') /\ Cardinality(Active') = Cardinality(Active) - 1
    BY <1>2, FS_RemoveElement DEF IInv, WaitGroupInv
  <2>2. Cardinality(Active) \in Nat
    BY FS_CardinalityType DEF IInv, WaitGroupInv
  <2> QED BY <1>1, <2>1, <2>2 DEF IInv, WaitGroupInv
<1>5. \A i \in Jobs : i # j => worker'[i] = worker[i]
  BY <1>1
<1>6. PhaseInv'
  <2>1. j \notin todo /\ j # cur /\ Queued' = Queued /\ pc # "idle"
    BY <1>1, AtRest DEF registrations, Queued
  <2>2. \A i \in Jobs : worker[i] = "off" => worker'[i] = "off"
    BY <1>1, <1>5
  <2> QED BY <1>1, <1>2, <2>1, <2>2 DEF IInv, TypeOK, PhaseInv
<1>7. \A i \in Jobs : Unfinished(i)' <=> Unfinished(i)
  BY <1>1, <1>5 DEF Unfinished
<1> QED BY <1>1, <1>3, <1>4, <1>6, <1>7, OutcomesKept DEF IInv, InRun

(* The steps that record a handler's outcome. *)
LEMMA WorkerEndsExec ==
  ASSUME IInv, NEW j \in Jobs, FailJob(j) \/ StoreResult(j)
  PROVE  /\ UNCHANGED <<registrations, pc, todo, cur, semaphore, wg>>
         /\ SlotsInv' /\ WaitGroupInv' /\ PhaseInv'
         /\ j \in Queued /\ ~Unfinished(j)' /\ \A i : i # j => (Unfinished(i)' <=> Unfinished(i))
<1>1. /\ UNCHANGED <<registrations, pc, todo, cur, semaphore, wg>>
      /\ worker' = [worker EXCEPT ![j] = "release"] /\ worker[j] = "exec"
      /\ worker \in [Jobs -> Places]
  BY DEF FailJob, StoreResult, IInv, TypeOK, Places
<1>2. Holding' = Holding /\ Active' = Active
  BY <1>1 DEF Holding, Active
<1>3. SlotsInv' /\ WaitGroupInv'
  BY <1>1, <1>2 DEF IInv, SlotsInv, WaitGroupInv
<1>4. \A i : i # j => worker'[i] = worker[i]
  BY <1>1
<1>5. j \in Queued /\ j \notin todo /\ j # cur /\ Queued' = Queued
  BY <1>1, AtRest DEF registrations, Queued
<1>6. PhaseInv'
  BY <1>1, <1>2, <1>4, <1>5 DEF IInv, TypeOK, PhaseInv
<1>7. ~Unfinished(j)' /\ \A i : i # j => (Unfinished(i)' <=> Unfinished(i))
  BY <1>1, <1>4, <1>5 DEF Unfinished
<1> QED BY <1>1, <1>3, <1>5, <1>6, <1>7

LEMMA FailJobInv ==
  ASSUME IInv, TypeOK', NEW j \in Jobs, FailJob(j)
  PROVE  IInv'
<1>1. /\ UNCHANGED <<registrations, pc, todo, cur, semaphore, wg>>
      /\ SlotsInv' /\ WaitGroupInv' /\ PhaseInv'
      /\ ~Unfinished(j)' /\ \A i : i # j => (Unfinished(i)' <=> Unfinished(i))
  BY WorkerEndsExec
<1>2. results' = results /\ errors' = Append(errors, j) /\ failed' = failed \cup {j} /\ worker[j] = "exec"
  BY DEF FailJob
<1>3. FailedInv'
  <2>1. errors' # <<>>
    BY <1>2 DEF IInv, TypeOK
  <2> QED BY <1>1, <1>2, <2>1 DEF IInv, FailedInv, InRun
<1>4. SingleInv'
  BY <1>1, <1>2 DEF IInv, SingleInv, InRun, registrations
<1>5. BatchInv'
  <2>1. SUFFICES ASSUME InRun, NEW k \in steps \ singleInput, batchInput[k] >= 0
                 PROVE  results[k] = Slice([i \in 1 .. batchInput[k] |->
                             IF Unfinished(<<k, i>>)' \/ <<k, i>> \in failed' THEN 0 ELSE i])
    BY <1>1, <1>2 DEF BatchInv, InRun, registrations
  <2>2. Unfinished(j)
    BY <1>2 DEF Unfinished
  <2>3. \A i \in 1 .. batchInput[k] :
           Unfinished(<<k, i>>)' \/ <<k, i>> \in failed' <=> Unfinished(<<k, i>>) \/ <<k, i>> \in failed
    BY <1>1, <1>2, <2>2
  <2> QED BY <2>1, <2>3 DEF IInv, BatchInv
<1> QED BY <1>1, <1>3, <1>4, <1>5 DEF IInv

LEMMA StoreResultInv ==
  ASSUME IInv, TypeOK', NEW j \in Jobs, StoreResult(j)
  PROVE  IInv'
<1>1. /\ UNCHANGED <<registrations, pc, todo, cur, semaphore, wg>>
      /\ SlotsInv' /\ WaitGroupInv' /\ PhaseInv' /\ j \in Queued
      /\ ~Unfinished(j)' /\ \A i : i # j => (Unfinished(i)' <=> Unfinished(i))
  BY WorkerEndsExec
<1>2. UNCHANGED <<errors, failed>> /\ Unfinished(j)
  BY DEF StoreResult, Unfinished
<1>3. j[1] \in StepKeys /\ j[2] \in Nat /\ j = <<j[1], j[2]>>
  BY JobParts, OrchestratorAssumption
<1>4. \A k \in StepKeys : k # j[1] => results'[k] = results[k]
  BY <1>3 DEF StoreResult, IInv, TypeOK
<1>5. results'[j[1]] = IF j[2] = 0 THEN Single ELSE Slice([results[j[1]].slots EXCEPT ![j[2]] = j[2]])
  BY <1>3 DEF StoreResult, IInv, TypeOK
<1>6. FailedInv'
  BY <1>1, <1>2 DEF IInv, FailedInv, InRun
<1>7. SingleInv'
  <2>1. SUFFICES ASSUME InRun, NEW k \in steps \cap singleInput
                 PROVE  Unfinished(<<k, 0>>)' \/ <<k, 0>> \in failed \/ results'[k].kind # "missing"
    BY <1>1, <1>2 DEF SingleInv, InRun, registrations
  <2>2. CASE k = j[1]
    BY <1>5, <2>2 DEF Single, Slice
  <2>3. CASE k # j[1]
    <3>1. k \in StepKeys /\ <<k, 0>> # j
      BY <1>3, <2>3 DEF IInv, TypeOK
    <3> QED BY <1>1, <1>4, <2>1, <2>3, <3>1 DEF IInv, SingleInv
  <2> QED BY <2>2, <2>3
<1>8. BatchInv'
  <2>1. SUFFICES ASSUME InRun, NEW k \in steps \ singleInput, batchInput[k] >= 0
                 PROVE  results'[k] = Slice([i \in 1 .. batchInput[k] |->
                             IF Unfinished(<<k, i>>)' \/ <<k, i>> \in failed THEN 0 ELSE i])
    BY <1>1, <1>2 DEF BatchInv, InRun, registrations
  <2>2. k \in StepKeys /\ batchInput[k] \in Int
    BY DEF IInv, TypeOK
  <2>3. results[k] = Slice([i \in 1 .. batchInput[k] |->
                        IF Unfinished(<<k, i>>) \/ <<k, i>> \in failed THEN 0 ELSE i])
    BY <2>1 DEF IInv, BatchInv
  <2>4. CASE k # j[1]
    <3>1. \A i \in 1 .. batchInput[k] : Unfinished(<<k, i>>)' <=> Unfinished(<<k, i>>)
      BY <1>1, <1>3, <2>4
    <3> QED BY <1>4, <2>2, <2>3, <2>4, <3>1
  <2>5. CASE k = j[1]
    <3>1. j[2] \in 1 .. batchInput[k] /\ j[2] # 0
      <4>1. <<k, j[2]>> \in Queued
        BY <1>1, <1>3, <2>5
      <4> QED BY <1>3, <2>1, <2>2, <4>1, QueuedJobs DEF IInv
    <3>2. j \notin failed
      BY <1>2, <2>1 DEF IInv, FailedInv
    <3> DEFINE old == [i \in 1 .. batchInput[k] |-> IF Unfinished(<<k, i>>) \/ <<k, i>> \in failed THEN 0 ELSE i]
               new == [i \in 1 .. batchInput[k] |-> IF Unfinished(<<k, i>>)' \/ <<k, i>> \in failed THEN 0 ELSE i]
    <3>3. \A i \in 1 .. batchInput[k] : i # j[2] => (Unfinished(<<k, i>>)' <=> Unfinished(<<k, i>>))
      BY <1>1, <1>3
    <3>4. ~Unfinished(<<k, j[2]>>)' /\ <<k, j[2]>> \notin failed
      BY <1>1, <1>3, <2>5, <3>2
    <3>5. new = [old EXCEPT ![j[2]] = j[2]]
      BY <3>1, <3>3, <3>4
    <3>6. results[k].slots = old
      BY <2>3 DEF Slice
    <3>7. results'[k] = Slice([old EXCEPT ![j[2]] = j[2]])
      BY <1>5, <2>5, <3>1, <3>6
    <3> QED BY <3>5, <3>7
  <2> QED BY <2>4, <2>5
<1> QED BY <1>1, <1>6, <1>7, <1>8 DEF IInv

LEMMA NextInv == IInv /\ [Next]_vars => IInv'
<1> SUFFICES ASSUME IInv, [Next]_vars PROVE IInv'
  OBVIOUS
<1>1. TypeOK'
  BY NextType DEF IInv
<1>2. CASE UNCHANGED vars
  <2>1. Queued' = Queued
    BY <1>2 DEF vars, registrations, Queued
  <2> QED BY <1>1, <1>2, <2>1 DEF vars, registrations, IInv, SlotsInv, Holding, WaitGroupInv, Active,
            PhaseInv, FailedInv, SingleInv, BatchInv, Unfinished, InRun
<1>3. CASE Registration
  BY <1>1, <1>3, RegistrationInv
<1>4. CASE BeginRun
  BY <1>1, <1>4, BeginRunInv
<1>5. ASSUME NEW how \in {"expired", "canceled"}, ContextDone(how) PROVE IInv'
  BY <1>1, <1>5, ControlInv
<1>6. CASE Main
  BY <1>1, <1>6, TakeJobInv, StartJobInv, ControlInv DEF Main
<1>7. ASSUME NEW j \in Jobs, Worker(j) PROVE IInv'
  BY <1>1, <1>7, FailJobInv, StoreResultInv, ControlInv, ReleaseSlotInv, WgDoneInv DEF Worker
<1> QED BY <1>2, <1>3, <1>4, <1>5, <1>6, <1>7 DEF Next, Stopped, Registration

(* The inductive invariant holds: what semaphore and wg count, where the    *)
(* jobs of a Run are, and what is recorded of those that are through.       *)
THEOREM Invariance == Spec => []IInv
<1>1. IInv /\ [Next]_vars => IInv'
  BY NextInv
<1> QED BY InitInv, <1>1, PTL DEF Spec

-----------------------------------------------------------------------------
(* What the invariant gives. *)

(* Every variable of the orchestrator keeps its type. *)
THEOREM TypeCorrect == Spec => []TypeOK
<1>1. IInv => TypeOK
  BY DEF IInv
<1> QED BY <1>1, Invariance, PTL

LEMMA ExecutingBound ==
  ASSUME IInv
  PROVE  Cardinality(Executing) \in Nat /\ Cardinality(Executing) <= semaphore
<1>1. Holding \in SUBSET Active /\ Executing \in SUBSET Holding
  BY DEF Holding, Active, Executing
<1>2. IsFiniteSet(Holding) /\ Cardinality(Executing) <= Cardinality(Holding) /\ IsFiniteSet(Executing)
  BY <1>1, FS_Subset DEF IInv, WaitGroupInv
<1> QED BY <1>2, FS_CardinalityType DEF IInv, SlotsInv

(* WithMaxWorkers: never more handlers in flight than slots. *)
THEOREM WorkerLimitHolds == Spec => []WorkerLimit
<1>1. IInv => WorkerLimit
  BY ExecutingBound, OrchestratorAssumption DEF IInv, TypeOK, SlotsInv, WorkerLimit
<1> QED BY <1>1, Invariance, PTL

(* Only Return ends a Run, and then every job is through. *)
LEMMA RunEnds ==
  ASSUME IInv, [Next]_vars, pc = "wait", pc' = "idle"
  PROVE  Return /\ InRun /\ \A j \in Jobs : ~Unfinished(j)
<1>1. Return
  BY DEF Next, vars, registrations, Register, AddStep, AddInput, AddBatchInput, BeginRun, ContextDone, Main,
         TakeJob, StartJob, EndLoop, Worker, FailJob, StoreResult, Crash, ReleaseSlot, WgDone, Stopped
<1>2. todo = {} /\ cur = NoJob /\ \A j \in Jobs : worker[j] = "off"
  BY <1>1, NoneLeft DEF Return, IInv, PhaseInv
<1> QED BY <1>1, <1>2, JobShape DEF InRun, Unfinished

(* Run returns nil only after every job it queued was executed without an   *)
(* error and before its deadline.                                           *)
THEOREM NilMeansSuccessHolds == Spec => NilMeansSuccess
<1>1. ASSUME IInv, [Next]_vars, pc = "wait", pc' = "idle", runError' = NoError
      PROVE  /\ failed = {} /\ timeoutCtx # "expired"
             /\ \A j \in Queued : IF j[2] = 0 THEN results[j[1]].kind # "missing"
                                  ELSE j[1] \in singleInput \/ results[j[1]].slots[j[2]] = j[2]
  <2>1. Return /\ InRun /\ \A j \in Jobs : ~Unfinished(j)
    BY <1>1, RunEnds
  <2>2. errors \in Seq(Jobs \cup {Deadline}) /\ errors' \in Seq(Jobs \cup {Deadline})
    BY <1>1, NextType DEF IInv, TypeOK
  <2>3. errors' = <<>>
    <3>1. SUFFICES ASSUME errors' # <<>> PROVE FALSE
      OBVIOUS
    <3>2. errors'[1] \in Jobs \cup {Deadline} /\ errors'[1] = NoError
      BY <1>1, <2>1, <2>2, <3>1 DEF Return, GetError
    <3>3. Deadline # NoError
      BY DEF Deadline, NoError
    <3> QED BY <3>2, <3>3, JobShape
  <2>4. errors = <<>> /\ timeoutCtx # "expired"
    BY <2>1, <2>2, <2>3 DEF Return
  <2>5. failed = {}
    BY <1>1, <2>4 DEF IInv, FailedInv
  <2>6. ASSUME NEW j \in Queued
        PROVE  IF j[2] = 0 THEN results[j[1]].kind # "missing"
               ELSE j[1] \in singleInput \/ results[j[1]].slots[j[2]] = j[2]
    <3>1. j \in Jobs /\ j[1] \in StepKeys /\ j[2] \in Nat /\ j = <<j[1], j[2]>> /\ ~Unfinished(j)
      BY <1>1, <2>1, QueuedJobs, JobParts, OrchestratorAssumption DEF IInv
    <3>2. <<j[1], j[2]>> \in Queued
      BY <3>1
    <3>3. batchInput[j[1]] \in Int
      BY <1>1, <3>1 DEF IInv, TypeOK
    <3>4. CASE j[2] = 0
      <4>1. j[1] \in steps \cap singleInput
        BY <1>1, <3>1, <3>2, <3>3, <3>4, QueuedJobs DEF IInv
      <4> QED BY <1>1, <2>1, <2>5, <3>1, <3>4, <4>1 DEF IInv, SingleInv
    <3>5. CASE j[2] # 0 /\ j[1] \notin singleInput
      <4>1. j[1] \in steps \ singleInput /\ j[2] \in 1 .. batchInput[j[1]] /\ batchInput[j[1]] >= 0
        BY <1>1, <3>1, <3>2, <3>3, <3>5, QueuedJobs DEF IInv
      <4>2. results[j[1]] = Slice([i \in 1 .. batchInput[j[1]] |->
                               IF Unfinished(<<j[1], i>>) \/ <<j[1], i>> \in failed THEN 0 ELSE i])
        BY <1>1, <2>1, <4>1 DEF IInv, BatchInv
      <4>3. ~Unfinished(<<j[1], j[2]>>)
        BY <3>1
      <4> QED BY <2>5, <3>5, <4>1, <4>2, <4>3 DEF Slice
    <3> QED BY <3>4, <3>5
  <2> QED BY <2>4, <2>5, <2>6
<1>2. IInv /\ [Next]_vars =>
        [pc = "wait" /\ pc' = "idle" /\ runError' = NoError =>
          /\ failed = {} /\ timeoutCtx # "expired"
          /\ \A j \in Queued : IF j[2] = 0 THEN results[j[1]].kind # "missing"
                               ELSE j[1] \in singleInput \/ results[j[1]].slots[j[2]] = j[2]]_vars
  BY <1>1
<1> QED BY <1>2, Invariance, PTL DEF Spec, NilMeansSuccess

(* After Run slot i of a batch holds the result of this Run's item i, or    *)
(* nil if that item failed.                                                 *)
THEOREM BatchResultsMatchInputsHolds == Spec => BatchResultsMatchInputs
<1>1. ASSUME IInv, [Next]_vars, pc = "wait", pc' = "idle",
             NEW k \in steps \ singleInput, batchInput[k] >= 0
      PROVE  /\ DOMAIN results[k].slots = 1 .. batchInput[k]
             /\ \A i \in 1 .. batchInput[k] :
                   results[k].slots[i] = IF <<k, i>> \in failed THEN 0 ELSE i
  <2>1. InRun /\ \A j \in Jobs : ~Unfinished(j)
    BY <1>1, RunEnds
  <2>2. \A i \in 1 .. batchInput[k] : <<k, i>> \in Jobs
    <3>1. k \in StepKeys /\ batchInput[k] \in -1 .. MaxItems
      BY <1>1 DEF IInv, TypeOK
    <3> QED BY <3>1, OrchestratorAssumption DEF Jobs
  <2>3. results[k] = Slice([i \in 1 .. batchInput[k] |->
                        IF Unfinished(<<k, i>>) \/ <<k, i>> \in failed THEN 0 ELSE i])
    BY <1>1, <2>1 DEF IInv, BatchInv
  <2> QED BY <2>1, <2>2, <2>3 DEF Slice
<1>2. IInv /\ [Next]_vars =>
        [pc = "wait" /\ pc' = "idle" =>
          \A k \in steps \ singleInput : batchInput[k] >= 0 =>
              /\ DOMAIN results[k].slots = 1 .. batchInput[k]
              /\ \A i \in 1 .. batchInput[k] :
                    results[k].slots[i] = IF <<k, i>> \in failed THEN 0 ELSE i]_vars
  BY <1>1
<1> QED BY <1>2, Invariance, PTL DEF Spec, BatchResultsMatchInputs

-----------------------------------------------------------------------------
(* Run implements the work pool. *)

LEMMA PoolInitHolds == Init => Pool!PoolInit
<1> SUFFICES ASSUME Init PROVE Pool!PoolInit
  OBVIOUS
<1>1. JobStatus = [j \in Jobs |-> "none"]
  BY JobShape DEF Init, JobStatus
<1> QED BY <1>1, OrchestratorAssumption DEF Init, Phase, Pool!PoolInit, Pool!Unused

(* The pool's running jobs are the executing ones. *)
LEMMA RunningIsExecuting ==
  ASSUME IInv
  PROVE  Pool!Running = Executing
BY AtRest DEF Pool!Running, JobStatus, Executing

LEMMA PoolStep ==
  ASSUME IInv, IInv', [Next]_vars
  PROVE  [Pool!PoolNext]_(Pool!poolVars)
<1> DEFINE Stutters == UNCHANGED <<Phase, JobStatus>>
<1>1. Stutters => UNCHANGED Pool!poolVars
  BY DEF Pool!poolVars
<1>2. UNCHANGED registrations => Queued' = Queued
  BY DEF registrations, Queued
<1>3. ASSUME UNCHANGED vars PROVE Stutters
  <2>1. UNCHANGED <<pc, todo, cur, worker>> /\ Queued' = Queued
    BY <1>2, <1>3 DEF vars
  <2> QED BY <2>1 DEF Phase, JobStatus
<1>4. ASSUME Registration PROVE Stutters
  <2>1. UNCHANGED <<pc, todo, cur, worker>> /\ pc = "idle"
    BY <1>4 DEF Registration, AddStep, AddInput, AddBatchInput, Register
  <2> QED BY <2>1 DEF Phase, JobStatus
<1>5. ASSUME BeginRun PROVE Pool!PoolNext
  <2>1. Phase = "idle" /\ Phase' = "busy"
    BY <1>5 DEF BeginRun, Phase
  <2>2. /\ todo' = Queued /\ Queued' = Queued /\ cur' = NoJob
        /\ \A j \in Jobs : worker'[j] = "off"
    BY <1>2, <1>5, AtRest DEF BeginRun
  <2>3. \A j \in Jobs : JobStatus'[j] \in {"none", "waiting"}
    BY <2>2 DEF JobStatus
  <2>4. JobStatus' \in [Jobs -> {"none", "waiting"}]
    BY <2>3 DEF JobStatus
  <2> QED BY <2>1, <2>4, OrchestratorAssumption DEF Pool!PoolNext, Pool!Begin
<1>6. ASSUME EndLoop \/ \E how \in {"expired", "canceled"} : ContextDone(how) PROVE Stutters
  <2>1. UNCHANGED <<todo, cur, worker>> /\ Queued' = Queued
    BY <1>2, <1>6 DEF EndLoop, ContextDone
  <2>2. pc \in {"loop", "acquire", "wait"} /\ pc' \in {"loop", "acquire", "wait"}
    BY <1>6 DEF EndLoop, ContextDone
  <2> QED BY <2>1, <2>2 DEF Phase, JobStatus
<1>7. ASSUME NEW j \in todo, TakeJob(j) PROVE Stutters
  <2>1. /\ UNCHANGED worker /\ todo' = todo \ {j} /\ cur' = j /\ cur = NoJob /\ Queued' = Queued
        /\ pc = "loop" /\ pc' = "acquire"
    BY <1>2, <1>7 DEF TakeJob, IInv, PhaseInv
  <2>2. JobStatus' = JobStatus
    BY <2>1, JobShape DEF JobStatus
  <2> QED BY <2>1, <2>2 DEF Phase
<1>8. ASSUME StartJob PROVE Pool!PoolNext
  <2>1. cur # NoJob /\ cur \in Jobs /\ cur \notin todo
    BY <1>8 DEF IInv, TypeOK, PhaseInv, StartJob
  <2>2. /\ UNCHANGED todo /\ Queued' = Queued /\ cur' = NoJob /\ pc = "acquire" /\ pc' = "loop"
        /\ worker' = [worker EXCEPT ![cur] = "exec"]
    BY <1>2, <1>8 DEF StartJob
  <2>3. Phase = "busy" /\ Phase' = "busy"
    BY <2>2 DEF Phase
  <2>4. JobStatus[cur] = "waiting" /\ JobStatus' = [JobStatus EXCEPT ![cur] = "running"]
    <3>1. \A j \in Jobs : worker'[j] = IF j = cur THEN "exec" ELSE worker[j]
      BY <2>1, <2>2 DEF IInv, TypeOK
    <3>2. \A j \in Jobs : j # cur'
      BY <2>2, JobShape
    <3>3. \A j \in Jobs : JobStatus'[j] = IF j = cur THEN "running" ELSE JobStatus[j]
      BY <2>1, <2>2, <3>1, <3>2 DEF JobStatus
    <3> QED BY <2>1, <3>3 DEF JobStatus
  <2>5. Cardinality(Pool!Running) < MaxWorkers
    <3>1. semaphore \in Int /\ semaphore < MaxWorkers
      BY <1>8 DEF StartJob, IInv, TypeOK
    <3> QED BY <3>1, ExecutingBound, RunningIsExecuting, OrchestratorAssumption
  <2>6. Pool!Start(cur)
    BY <2>3, <2>4, <2>5 DEF Pool!Start, Pool!Cardinality, Cardinality
  <2> QED BY <2>1, <2>6 DEF Pool!PoolNext
<1>9. ASSUME Return PROVE Pool!PoolNext
  <2>1. /\ UNCHANGED <<todo, cur, worker>> /\ pc = "wait" /\ pc' = "idle" /\ todo = {} /\ cur = NoJob
        /\ \A j \in Jobs : worker[j] = "off"
    BY <1>9, NoneLeft DEF Return, IInv, PhaseInv
  <2>2. \A j \in Jobs : JobStatus[j] \in {"none", "over"}
    BY <2>1, JobShape DEF JobStatus
  <2>3. Phase = "busy" /\ Phase' = "idle"
    BY <2>1 DEF Phase
  <2>4. JobStatus' = [j \in Jobs |-> "none"]
    BY <2>1, JobShape DEF JobStatus
  <2> QED BY <2>2, <2>3, <2>4, OrchestratorAssumption DEF Pool!PoolNext, Pool!End, Pool!Unused
<1>10. ASSUME NEW j \in Jobs, FailJob(j) \/ StoreResult(j) PROVE Pool!PoolNext
  <2>1. /\ UNCHANGED <<pc, todo, cur>> /\ Queued' = Queued /\ worker[j] = "exec"
        /\ worker' = [worker EXCEPT ![j] = "release"] /\ pc # "crashed"
    BY <1>2, <1>10 DEF FailJob, StoreResult
  <2>2. j \in Queued /\ j \notin todo /\ j # cur /\ pc # "idle"
    BY <2>1, AtRest
  <2>3. Phase = "busy" /\ Phase' = "busy"
    BY <2>1, <2>2 DEF Phase
  <2>4. JobStatus[j] = "running" /\ JobStatus' = [JobStatus EXCEPT ![j] = "over"]
    <3>1. \A i \in Jobs : worker'[i] = IF i = j THEN "release" ELSE worker[i]
      BY <2>1 DEF IInv, TypeOK
    <3>2. \A i \in Jobs : JobStatus'[i] = IF i = j THEN "over" ELSE JobStatus[i]
      BY <2>1, <2>2, <3>1 DEF JobStatus
    <3> QED BY <2>1, <2>2, <3>2 DEF JobStatus
  <2> QED BY <2>3, <2>4 DEF Pool!PoolNext, Pool!Finish
<1>11. ASSUME NEW j \in Jobs, Crash(j) PROVE Pool!PoolNext
  <2>1. /\ UNCHANGED <<todo, cur, worker>> /\ Queued' = Queued /\ worker[j] = "exec"
        /\ pc # "crashed" /\ pc' = "crashed"
    BY <1>2, <1>11 DEF Crash
  <2>2. pc # "idle"
    BY <2>1, AtRest
  <2>3. Phase = "busy" /\ Phase' = "crashed" /\ JobStatus' = JobStatus
    BY <2>1, <2>2 DEF Phase, JobStatus
  <2> QED BY <2>3 DEF Pool!PoolNext, Pool!Crash
<1>12. ASSUME NEW j \in Jobs, ReleaseSlot(j) \/ WgDone(j) PROVE Stutters
  <2>1. UNCHANGED <<pc, todo, cur>> /\ Queued' = Queued
    BY <1>2, <1>12 DEF ReleaseSlot, WgDone
  <2>2. \A i \in Jobs : worker'[i] = "exec" <=> worker[i] = "exec"
    BY <1>12 DEF ReleaseSlot, WgDone, IInv, TypeOK
  <2> QED BY <2>1, <2>2 DEF Phase, JobStatus
<1> HIDE DEF Stutters
<1>13. Main => Pool!PoolNext \/ UNCHANGED Pool!poolVars
  BY <1>1, <1>6, <1>7, <1>8, <1>9 DEF Main
<1>14. ASSUME NEW j \in Jobs, Worker(j) PROVE Pool!PoolNext \/ UNCHANGED Pool!poolVars
  BY <1>1, <1>10, <1>11, <1>12, <1>14 DEF Worker
<1> QED BY <1>1, <1>3, <1>4, <1>5, <1>6, <1>13, <1>14 DEF Next, Stopped, Registration

(* Every behaviour of Run is one of the abstract work pool. *)
THEOREM Refinement == Spec => ImplementsPool
<1>1. IInv /\ IInv' /\ [Next]_vars => [Pool!PoolNext]_(Pool!poolVars)
  BY PoolStep
<1> QED BY <1>1, PoolInitHolds, Invariance, PTL DEF Spec, ImplementsPool

-----------------------------------------------------------------------------
(* A Run can always go on. *)

LEMMA LeastNumber ==
  ASSUME NEW S \in SUBSET Nat, S # {}
  PROVE  \E m \in S : \A n \in S : m <= n
<1> DEFINE R == OpToRel(<, Nat)
<1>1. PICK m \in S : \A n \in S : <<n, m>> \notin R
  <2> HIDE DEF R
  <2> SUFFICES IsWellFoundedOn(R, Nat)
    BY WFMin
  <2> QED BY NatLessThanWellFounded DEF R
<1>2. \A n \in S : ~(n < m)
  BY <1>1 DEF OpToRel
<1> QED BY <1>2

LEMMA InitQueue == Init => QueueInv
BY FS_EmptySet DEF Init, QueueInv

(* Taking a job leaves the rest of the queue. *)
LEMMA TakeJobQueue ==
  ASSUME TypeOK, QueueInv, NEW j \in todo, TakeJob(j)
  PROVE  QueueInv'
<1>1. /\ NextInQueue(j) /\ todo' = todo \ {j} /\ steps' = steps /\ Queued' = Queued
  BY DEF TakeJob, registrations, Queued
<1>2. todo \subseteq Jobs /\ j[1] \in StepKeys /\ j[2] \in Nat /\ j = <<j[1], j[2]>>
  BY JobParts, OrchestratorAssumption DEF TypeOK
<1>3. \A i \in todo : i[1] \in StepKeys /\ i[2] \in Nat /\ i = <<i[1], i[2]>>
  BY <1>2, JobParts, OrchestratorAssumption
<1>4. \A i \in todo', l \in Queued : i[2] = 0 /\ l[2] > 0 => l \in todo'
  BY <1>1, <1>2, <1>3 DEF QueueInv, NextInQueue
<1>5. \A i \in todo', l \in Queued : i[1] = l[1] /\ 0 < i[2] /\ i[2] < l[2] => l \in todo'
  BY <1>1, <1>2, <1>3 DEF QueueInv, NextInQueue
<1>6. \A i, l \in todo' : i[1] # l[1] /\ i[2] > 0 /\ l[2] > 0 => <<i[1], 1>> \in todo' \/ <<l[1], 1>> \in todo'
  <2> SUFFICES ASSUME NEW i \in todo', NEW l \in todo', i[1] # l[1], i[2] > 0, l[2] > 0
               PROVE  <<i[1], 1>> \in todo' \/ <<l[1], 1>> \in todo'
    OBVIOUS
  <2>1. i \in todo /\ l \in todo
    BY <1>1
  <2>2. i[1] \in StepKeys /\ l[1] \in StepKeys
    BY <1>3, <2>1
  <2>3. CASE j[2] # 1
    <3>1. <<i[1], 1>> # j /\ <<l[1], 1>> # j
      BY <2>3
    <3> QED BY <1>1, <2>1, <3>1 DEF QueueInv
  <2>4. CASE j[2] = 1 /\ i[1] # j[1]
    <3>1. <<i[1], 1>> \in todo /\ <<i[1], 1>> # j
      BY <1>1, <1>2, <2>1, <2>2, <2>4 DEF NextInQueue
    <3> QED BY <1>1, <3>1
  <2>5. CASE j[2] = 1 /\ l[1] # j[1]
    <3>1. <<l[1], 1>> \in todo /\ <<l[1], 1>> # j
      BY <1>1, <1>2, <2>1, <2>2, <2>5 DEF NextInQueue
    <3> QED BY <1>1, <3>1
  <2> QED BY <2>3, <2>4, <2>5
<1> QED BY <1>1, <1>4, <1>5, <1>6 DEF QueueInv

LEMMA NextQueue == IInv /\ QueueInv /\ [Next]_vars => QueueInv'
<1> SUFFICES ASSUME IInv, QueueInv, [Next]_vars PROVE QueueInv'
  OBVIOUS
<1>1. CASE Registration
  <2>1. todo = {} /\ todo' = {}
    BY <1>1 DEF IInv, PhaseInv, Registration, AddStep, AddInput, AddBatchInput, Register
  <2>2. IsFiniteSet(steps')
    <3>1. ASSUME NEW k \in StepKeys, AddStep(k) PROVE IsFiniteSet(steps')
      BY <3>1, FS_AddElement DEF AddStep, QueueInv
    <3> QED BY <1>1, <3>1 DEF Registration, AddInput, AddBatchInput, QueueInv
  <2> QED BY <2>1, <2>2 DEF QueueInv
<1>2. CASE BeginRun
  <2>1. todo' = Queued /\ Queued' = Queued /\ steps' = steps
    BY <1>2 DEF BeginRun, registrations, Queued
  <2>2. \A i \in Queued : i[2] > 0 => <<i[1], 1>> \in Queued
    <3> SUFFICES ASSUME NEW i \in Queued, i[2] > 0 PROVE <<i[1], 1>> \in Queued
      OBVIOUS
    <3>1. i[1] \in StepKeys /\ i[2] \in Nat /\ i = <<i[1], i[2]>>
      BY QueuedJobs, JobParts, OrchestratorAssumption DEF IInv
    <3>2. batchInput[i[1]] \in Int
      BY <3>1 DEF IInv, TypeOK
    <3>3. <<i[1], i[2]>> \in Queued
      BY <3>1
    <3>4. i[1] \in steps /\ i[2] \in 1 .. batchInput[i[1]]
      BY <3>1, <3>3, QueuedJobs DEF IInv
    <3>5. 1 \in 1 .. batchInput[i[1]] /\ 1 \in Nat
      BY <3>1, <3>2, <3>4
    <3> QED BY <3>1, <3>4, <3>5, QueuedJobs DEF IInv
  <2> QED BY <2>1, <2>2 DEF QueueInv
<1>3. ASSUME NEW j \in todo, TakeJob(j) PROVE QueueInv'
  BY <1>3, TakeJobQueue DEF IInv
<1>4. ASSUME UNCHANGED <<registrations, todo>> PROVE QueueInv'
  <2>1. UNCHANGED <<steps, todo>> /\ Queued' = Queued
    BY <1>4 DEF registrations, Queued
  <2> QED BY <2>1 DEF QueueInv
<1>5. StartJob \/ EndLoop \/ Return => UNCHANGED <<registrations, todo>>
  BY DEF StartJob, EndLoop, Return
<1>6. \A how \in {"expired", "canceled"} : ContextDone(how) => UNCHANGED <<registrations, todo>>
  BY DEF ContextDone
<1>7. \A j \in Jobs : Worker(j) => UNCHANGED <<registrations, todo>>
  BY DEF Worker, FailJob, StoreResult, Crash, ReleaseSlot, WgDone
<1>8. UNCHANGED vars => UNCHANGED <<registrations, todo>>
  BY DEF vars
<1> QED BY <1>1, <1>2, <1>3, <1>4, <1>5, <1>6, <1>7, <1>8 DEF Next, Main, Stopped, Registration

(* In a Run the jobs not yet taken are the rest of the queue. *)
THEOREM QueueInvHolds == Spec => []QueueInv
<1>1. IInv /\ QueueInv /\ [Next]_vars => QueueInv'
  BY NextQueue
<1> QED BY <1>1, InitQueue, Invariance, PTL DEF Spec

(* As long as a job is left, one of them is next. *)
LEMMA SomeJobIsNext ==
  ASSUME IInv, QueueInv, todo # {}
  PROVE  \E j \in todo : NextInQueue(j)
<1>1. /\ todo \subseteq Queued /\ todo \subseteq Jobs
      /\ \A i \in todo : i[1] \in StepKeys /\ i[2] \in Nat /\ i = <<i[1], i[2]>>
  BY JobParts, OrchestratorAssumption DEF IInv, PhaseInv, TypeOK
<1>2. \A i \in todo : i[2] > 0 => <<i[1], 1>> \in Queued
  <2> SUFFICES ASSUME NEW i \in todo, i[2] > 0 PROVE <<i[1], 1>> \in Queued
    OBVIOUS
  <2>1. i[1] \in StepKeys /\ i[2] \in Nat /\ <<i[1], i[2]>> \in Queued
    BY <1>1
  <2>2. batchInput[i[1]] \in Int
    BY <2>1 DEF IInv, TypeOK
  <2>3. i[1] \in steps /\ i[2] \in 1 .. batchInput[i[1]]
    BY <2>1, QueuedJobs DEF IInv
  <2>4. 1 \in 1 .. batchInput[i[1]] /\ 1 \in Nat
    BY <2>1, <2>2, <2>3
  <2> QED BY <2>1, <2>3, <2>4, QueuedJobs DEF IInv
<1>3. ASSUME NEW j \in todo, j[2] = 0 PROVE NextInQueue(j)
  <2>1. \A k \in StepKeys \ {j[1]} : \A i \in todo : i[1] = k /\ i[2] > 0 => <<k, 1>> \in todo
    <3> SUFFICES ASSUME NEW i \in todo, i[2] > 0 PROVE <<i[1], 1>> \in todo
      OBVIOUS
    <3>1. <<i[1], 1>>[2] > 0
      OBVIOUS
    <3> QED BY <1>2, <1>3, <3>1 DEF QueueInv
  <2> QED BY <1>3, <2>1 DEF NextInQueue
<1>4. ASSUME \A i \in todo : i[2] > 0,
             NEW i \in todo, <<i[1], 1>> \notin todo
      PROVE  \E j \in todo : NextInQueue(j)
  <2> DEFINE S == {n \in Nat : <<i[1], n>> \in todo}
  <2>1. i[2] \in S
    BY <1>1
  <2>2. PICK m \in S : \A n \in S : m <= n
    BY <2>1, LeastNumber
  <2> DEFINE j == <<i[1], m>>
  <2>3. j \in todo /\ j[1] = i[1] /\ j[2] = m /\ m > 0 /\ m # 1 /\ m \in Nat
    BY <1>4, <2>2
  <2>4. \A l \in todo : l[1] = j[1] => j[2] <= l[2]
    BY <1>1, <2>2, <2>3
  <2>5. \A k \in StepKeys \ {j[1]} : \A l \in todo : l[1] = k /\ l[2] > 0 => <<k, 1>> \in todo
    BY <1>4, <2>3 DEF QueueInv
  <2>6. NextInQueue(j)
    <3> HIDE DEF j
    <3> QED BY <1>4, <2>3, <2>4, <2>5 DEF NextInQueue
  <2> QED BY <2>3, <2>6
<1>5. ASSUME \A i \in todo : i[2] > 0 /\ <<i[1], 1>> \in todo
      PROVE  \E j \in todo : NextInQueue(j)
  <2>1. PICK i \in todo : TRUE
    OBVIOUS
  <2> DEFINE j == <<i[1], 1>>
  <2>2. j \in todo /\ j[2] = 1
    BY <1>5, <2>1
  <2>3. \A l \in todo : l[2] > 0 /\ j[2] <= l[2]
    <3>1. \A l \in todo : l[2] \in Nat /\ l[2] > 0
      BY <1>1, <1>5
    <3> HIDE DEF j
    <3> QED BY <2>2, <3>1
  <2>4. NextInQueue(j)
    <3> HIDE DEF j
    <3> QED BY <1>5, <2>2, <2>3 DEF NextInQueue
  <2> QED BY <2>2, <2>4
<1>6. (\E j \in todo : j[2] = 0) \/ (\A j \in todo : j[2] > 0)
  BY <1>1
<1> QED BY <1>3, <1>4, <1>5, <1>6

(* Neither the semaphore, nor the WaitGroup, nor the queue can block a Run  *)
(* for good.                                                                *)
THEOREM RunNeverStuckHolds == Spec => []RunNeverStuck
<1>1. ASSUME IInv, QueueInv PROVE RunNeverStuck
  <2> SUFFICES ASSUME InRun, \A j \in Jobs : worker[j] = "off"
               PROVE  \/ pc = "loop" /\ (todo = {} \/ \E j \in todo : NextInQueue(j))
                      \/ pc = "acquire" /\ semaphore < MaxWorkers
                      \/ pc = "wait" /\ wg = 0
    BY DEF RunNeverStuck
  <2>1. Active = {} /\ Holding = {}
    BY DEF Active, Holding
  <2>2. semaphore = 0
    BY <1>1, <2>1, FS_EmptySet DEF IInv, SlotsInv
  <2>3. pc = "wait" => wg = 0
    BY <1>1, <2>1, FS_EmptySet DEF IInv, WaitGroupInv, PhaseInv
  <2> QED BY <1>1, <2>2, <2>3, SomeJobIsNext, OrchestratorAssumption DEF InRun
<1> QED BY <1>1, Invariance, QueueInvHolds, PTL

-----------------------------------------------------------------------------
(* The steps of a Run are used up. *)

LEMMA FewAreFinite == \A n \in Nat : IsFiniteSet(1 .. n)
BY FS_Interval

LEMMA FiniteStages == ASSUME IInv, QueueInv PROVE StagesFinite
<1>1. IsFiniteSet(Queued)
  <2>1. IsFiniteSet(0 .. MaxItems)
    BY FS_Interval, OrchestratorAssumption
  <2>2. Queued \in SUBSET (steps \X (0 .. MaxItems))
    <3>1. \A j \in Queued : j \in StepKeys \X (0 .. MaxItems) /\ j[1] \in steps
      <4> SUFFICES ASSUME NEW j \in Queued PROVE j \in StepKeys \X (0 .. MaxItems) /\ j[1] \in steps
        OBVIOUS
      <4>1. j \in Jobs /\ j[1] \in StepKeys /\ j[2] \in Nat /\ <<j[1], j[2]>> \in Queued
        BY <1>1, QueuedJobs, JobParts, OrchestratorAssumption DEF IInv
      <4> QED BY <4>1, QueuedJobs DEF IInv, Jobs
    <3> QED BY <3>1
  <2>3. IsFiniteSet(steps \X (0 .. MaxItems))
    BY <2>1, FS_Product DEF QueueInv
  <2> QED BY <2>2, <2>3, FS_Subset
<1>2. \A j \in Jobs : JobStages(j) > 0 => j \in Queued
  <2> SUFFICES ASSUME NEW j \in Jobs, JobStages(j) > 0 PROVE j \in Queued
    OBVIOUS
  <2>1. j \in todo \/ j = cur \/ worker[j] # "off"
    BY DEF JobStages
  <2> QED BY <2>1, JobShape DEF IInv, PhaseInv, Active
<1> DEFINE A == {r \in Jobs \X (1 .. 5) : r[2] <= JobStages(r[1])}
           B == {<<NoJob, n>> : n \in 1 .. CallerStages}
           C == {<<Deadline, n>> : n \in 1 .. ContextStages}
<1>3. IsFiniteSet(A)
  <2>1. A \in SUBSET (Queued \X (1 .. 5))
    <3> SUFFICES ASSUME NEW r \in Jobs \X (1 .. 5), r[2] <= JobStages(r[1])
                 PROVE  r \in Queued \X (1 .. 5)
      OBVIOUS
    <3>1. JobStages(r[1]) \in Int
      BY DEF JobStages
    <3>2. JobStages(r[1]) > 0
      BY <3>1
    <3> QED BY <1>2, <3>2
  <2>2. IsFiniteSet(Queued \X (1 .. 5))
    <3>1. IsFiniteSet(1 .. 5)
      BY FewAreFinite
    <3> QED BY <1>1, <3>1, FS_Product
  <2> QED BY <2>1, <2>2, FS_Subset
<1>4. IsFiniteSet(B) /\ IsFiniteSet(C)
  <2>1. B \in SUBSET ({NoJob} \X (1 .. 2)) /\ C \in SUBSET ({Deadline} \X (1 .. 1))
    BY DEF CallerStages, ContextStages
  <2>2. IsFiniteSet({NoJob} \X (1 .. 2)) /\ IsFiniteSet({Deadline} \X (1 .. 1))
    <3>1. IsFiniteSet(1 .. 2) /\ IsFiniteSet(1 .. 1) /\ IsFiniteSet({NoJob}) /\ IsFiniteSet({Deadline})
      BY FewAreFinite, FS_Singleton
    <3> QED BY <3>1, FS_Product
  <2> QED BY <2>1, <2>2, FS_Subset
<1> HIDE DEF A, B, C
<1>5. IsFiniteSet(A \cup B \cup C)
  BY <1>3, <1>4, FS_Union
<1> QED BY <1>5 DEF StagesFinite, Remaining, A, B, C

(* The stages before a Run, an owner at a time. *)
LEMMA StagesCompared ==
  ASSUME \A j \in Jobs : JobStages(j) \in 0 .. 5 /\ JobStages(j)' \in 0 .. 5 /\ JobStages(j)' <= JobStages(j),
         CallerStages' <= CallerStages, ContextStages' <= ContextStages,
         \/ \E j \in Jobs : JobStages(j)' < JobStages(j)
         \/ CallerStages' < CallerStages
         \/ ContextStages' < ContextStages
  PROVE  Remaining' \subseteq Remaining /\ Remaining' # Remaining
<1>1. CallerStages \in 0 .. 2 /\ CallerStages' \in 0 .. 2 /\ ContextStages \in 0 .. 1 /\ ContextStages' \in 0 .. 1
  BY DEF CallerStages, ContextStages
<1>2. NoJob # Deadline /\ NoJob \notin Jobs /\ Deadline \notin Jobs
  BY JobShape DEF NoJob, Deadline
<1>3. \A j \in Jobs, n \in 1 .. 5 : /\ <<j, n>> \in Remaining <=> n <= JobStages(j)
                                    /\ <<j, n>> \in Remaining' <=> n <= JobStages(j)'
  BY <1>2 DEF Remaining
<1>4. \A n \in 1 .. 2 : /\ <<NoJob, n>> \in Remaining <=> n <= CallerStages
                        /\ <<NoJob, n>> \in Remaining' <=> n <= CallerStages'
  BY <1>1, <1>2 DEF Remaining
<1>5. /\ <<Deadline, 1>> \in Remaining <=> 1 <= ContextStages
      /\ <<Deadline, 1>> \in Remaining' <=> 1 <= ContextStages'
  BY <1>1, <1>2 DEF Remaining
<1>6. Remaining' \subseteq (Jobs \X (1 .. 5)) \cup {<<NoJob, n>> : n \in 1 .. 2} \cup {<<Deadline, 1>>}
  BY <1>1 DEF Remaining
<1>7. Remaining' \subseteq Remaining
  <2> SUFFICES ASSUME NEW r \in Remaining' PROVE r \in Remaining
    OBVIOUS
  <2>1. CASE r \in Jobs \X (1 .. 5)
    <3>1. PICK j \in Jobs, n \in 1 .. 5 : r = <<j, n>>
      BY <2>1
    <3>2. n <= JobStages(j)'
      BY <1>3, <3>1
    <3>3. n <= JobStages(j)
      BY <3>2
    <3>4. <<j, n>> \in Remaining
      BY <1>3, <3>3
    <3> QED BY <3>1, <3>4
  <2>2. CASE \E n \in 1 .. 2 : r = <<NoJob, n>>
    BY <1>1, <1>4, <2>2
  <2>3. CASE r = <<Deadline, 1>>
    BY <1>1, <1>5, <2>3
  <2> QED BY <1>6, <2>1, <2>2, <2>3
<1>8. Remaining' # Remaining
  <2>1. CASE \E j \in Jobs : JobStages(j)' < JobStages(j)
    <3>1. PICK j \in Jobs : JobStages(j)' < JobStages(j)
      BY <2>1
    <3> DEFINE n == JobStages(j)
    <3>2. n \in 1 .. 5 /\ n <= JobStages(j) /\ ~(n <= JobStages(j)')
      BY <3>1
    <3> HIDE DEF n
    <3> QED BY <1>3, <3>2
  <2>2. CASE CallerStages' < CallerStages
    <3>1. CallerStages \in 1 .. 2 /\ CallerStages <= CallerStages /\ ~(CallerStages <= CallerStages')
      BY <1>1, <2>2
    <3> QED BY <1>4, <3>1
  <2>3. CASE ContextStages' < ContextStages
    BY <1>1, <1>5, <2>3
  <2> QED BY <2>1, <2>2, <2>3
<1> QED BY <1>7, <1>8

(* The stages a job of a Run has before it are those of the place it is in. *)
StagesPlaced ==
    \A j \in Jobs :
       /\ JobStages(j) \in 0 .. 5
       /\ j \in todo => JobStages(j) = 5
       /\ j = cur => JobStages(j) = 4
       /\ worker[j] = "exec" => JobStages(j) = 3
       /\ worker[j] = "release" => JobStages(j) = 2
       /\ worker[j] = "finish" => JobStages(j) = 1
       /\ j \notin todo /\ j # cur /\ worker[j] = "off" => JobStages(j) = 0

LEMMA StagesOfPlace == IInv => StagesPlaced
<1> SUFFICES ASSUME IInv, NEW j \in Jobs
             PROVE  /\ JobStages(j) \in 0 .. 5
                    /\ j \in todo => JobStages(j) = 5
                    /\ j = cur => JobStages(j) = 4
                    /\ worker[j] = "exec" => JobStages(j) = 3
                    /\ worker[j] = "release" => JobStages(j) = 2
                    /\ worker[j] = "finish" => JobStages(j) = 1
                    /\ j \notin todo /\ j # cur /\ worker[j] = "off" => JobStages(j) = 0
  BY DEF StagesPlaced
<1>1. worker[j] # "off" => j \notin todo /\ j # cur
  BY AtRest
<1>2. j = cur => j \notin todo
  BY JobShape DEF IInv, PhaseInv
<1> QED BY <1>1, <1>2 DEF JobStages

(* Every step that is taken while a Run is in progress uses up at least one *)
(* of its finitely many stages and brings none back.                        *)
LEMMA MovesOn ==
  ASSUME IInv, IInv', InRun, Next
  PROVE  UNCHANGED vars \/ (Remaining' \subseteq Remaining /\ Remaining' # Remaining)
<1>0. StagesPlaced /\ StagesPlaced'
  BY StagesOfPlace, PTL
<1>1. \A j \in Jobs : JobStages(j) \in 0 .. 5 /\ JobStages(j)' \in 0 .. 5
  BY <1>0 DEF StagesPlaced
<1>2. CallerStages' = CallerStages => CallerStages' <= CallerStages
  BY DEF InRun, CallerStages
<1>3. UNCHANGED timeoutCtx => ContextStages' <= ContextStages
  BY DEF ContextStages
<1>4. UNCHANGED <<todo, cur, worker>> => \A j \in Jobs : JobStages(j)' = JobStages(j)
  BY DEF JobStages
<1>5. ASSUME NEW how \in {"expired", "canceled"}, ContextDone(how)
      PROVE  Remaining' \subseteq Remaining /\ Remaining' # Remaining
  <2>1. UNCHANGED <<todo, cur, worker>> /\ UNCHANGED pc
    BY <1>5 DEF ContextDone
  <2>2. ContextStages' < ContextStages /\ ContextStages' <= ContextStages
    BY <1>5 DEF ContextDone, ContextStages
  <2>3. CallerStages' <= CallerStages
    BY <1>2, <2>1 DEF CallerStages
  <2>4. \A j \in Jobs : JobStages(j)' <= JobStages(j)
    BY <1>1, <1>4, <2>1
  <2> QED BY <1>1, <2>2, <2>3, <2>4, StagesCompared
<1>6. ASSUME EndLoop \/ Return \/ \E j \in Jobs : Crash(j)
      PROVE  Remaining' \subseteq Remaining /\ Remaining' # Remaining
  <2>1. UNCHANGED <<todo, cur, worker>> /\ UNCHANGED timeoutCtx
    BY <1>6 DEF EndLoop, Return, Crash
  <2>2. CallerStages' < CallerStages /\ CallerStages' <= CallerStages
    BY <1>6 DEF EndLoop, Return, Crash, CallerStages, InRun
  <2>3. ContextStages' <= ContextStages
    BY <1>3, <2>1
  <2>4. \A j \in Jobs : JobStages(j)' <= JobStages(j)
    BY <1>1, <1>4, <2>1
  <2> QED BY <1>1, <2>2, <2>3, <2>4, StagesCompared
<1>7. ASSUME NEW j \in todo, TakeJob(j)
      PROVE  Remaining' \subseteq Remaining /\ Remaining' # Remaining
  <2>1. /\ j \in Jobs /\ todo' = todo \ {j} /\ cur' = j /\ cur = NoJob /\ worker' = worker
        /\ UNCHANGED timeoutCtx /\ CallerStages' = CallerStages
    BY <1>7 DEF TakeJob, CallerStages, IInv, TypeOK, PhaseInv
  <2>2. JobStages(j) = 5 /\ JobStages(j)' = 4
    BY <1>0, <2>1 DEF StagesPlaced
  <2>3. \A i \in Jobs : i # j => JobStages(i)' = JobStages(i)
    BY <2>1, JobShape DEF JobStages
  <2>4. \A i \in Jobs : JobStages(i)' <= JobStages(i)
    BY <1>1, <2>2, <2>3
  <2>5. CallerStages' <= CallerStages /\ ContextStages' <= ContextStages
    BY <1>2, <1>3, <2>1
  <2>6. \E i \in Jobs : JobStages(i)' < JobStages(i)
    BY <2>1, <2>2
  <2> QED BY <1>1, <2>4, <2>5, <2>6, StagesCompared
<1>8. ASSUME StartJob
      PROVE  Remaining' \subseteq Remaining /\ Remaining' # Remaining
  <2>1. PICK j \in Jobs : j = cur
    BY <1>8 DEF StartJob, IInv, TypeOK, PhaseInv
  <2>2. /\ todo' = todo /\ cur' = NoJob /\ worker' = [worker EXCEPT ![j] = "exec"]
        /\ UNCHANGED timeoutCtx /\ CallerStages' = CallerStages
    BY <1>8, <2>1 DEF StartJob, CallerStages
  <2>3. JobStages(j) = 4 /\ JobStages(j)' = 3
    <3>1. worker'[j] = "exec"
      BY <2>2 DEF IInv, TypeOK
    <3> QED BY <1>0, <2>1, <3>1 DEF StagesPlaced
  <2>4. \A i \in Jobs : i # j => JobStages(i)' = JobStages(i)
    <3>1. \A i \in Jobs : i # j => worker'[i] = worker[i]
      BY <2>2 DEF IInv, TypeOK
    <3> QED BY <2>1, <2>2, <3>1, JobShape DEF JobStages
  <2>5. \A i \in Jobs : JobStages(i)' <= JobStages(i)
    BY <1>1, <2>3, <2>4
  <2>6. CallerStages' <= CallerStages /\ ContextStages' <= ContextStages
    BY <1>2, <1>3, <2>2
  <2>7. \E i \in Jobs : JobStages(i)' < JobStages(i)
    BY <2>3
  <2> QED BY <1>1, <2>5, <2>6, <2>7, StagesCompared
<1>9. ASSUME NEW j \in Jobs, FailJob(j) \/ StoreResult(j) \/ ReleaseSlot(j) \/ WgDone(j)
      PROVE  Remaining' \subseteq Remaining /\ Remaining' # Remaining
  <2>1. /\ UNCHANGED <<pc, todo, cur, timeoutCtx>>
        /\ \/ worker[j] = "exec" /\ worker' = [worker EXCEPT ![j] = "release"]
           \/ worker[j] = "release" /\ worker' = [worker EXCEPT ![j] = "finish"]
           \/ worker[j] = "finish" /\ worker' = [worker EXCEPT ![j] = "off"]
    BY <1>9 DEF FailJob, StoreResult, ReleaseSlot, WgDone
  <2>2. \A i \in Jobs : i # j => worker'[i] = worker[i]
    BY <2>1 DEF IInv, TypeOK
  <2>3. JobStages(j)' < JobStages(j)
    <3>1. j \notin todo /\ j # cur
      BY <2>1, AtRest
    <3>2. \/ worker[j] = "exec" /\ worker'[j] = "release"
          \/ worker[j] = "release" /\ worker'[j] = "finish"
          \/ worker[j] = "finish" /\ worker'[j] = "off"
      BY <2>1 DEF IInv, TypeOK
    <3> QED BY <1>0, <2>1, <3>1, <3>2 DEF StagesPlaced
  <2>4. \A i \in Jobs : i # j => JobStages(i)' = JobStages(i)
    BY <2>1, <2>2 DEF JobStages
  <2>5. \A i \in Jobs : JobStages(i)' <= JobStages(i)
    BY <1>1, <2>3, <2>4
  <2>6. CallerStages' <= CallerStages /\ ContextStages' <= ContextStages
    BY <1>2, <1>3, <2>1 DEF CallerStages
  <2>7. \E i \in Jobs : JobStages(i)' < JobStages(i)
    BY <2>3
  <2> QED BY <1>1, <2>5, <2>6, <2>7, StagesCompared
<1>10. ~Registration /\ ~BeginRun
  BY DEF InRun, Registration, AddStep, AddInput, AddBatchInput, Register, BeginRun
<1> QED BY <1>5, <1>6, <1>7, <1>8, <1>9, <1>10 DEF Next, Main, Worker, Stopped, Registration

(* A Run always has finitely many stages before it ...                      *)
THEOREM StagesFiniteHolds == Spec => []StagesFinite
<1>1. IInv /\ QueueInv => StagesFinite
  BY FiniteStages
<1> QED BY <1>1, Invariance, QueueInvHolds, PTL

(* ... and every step taken during it uses up at least one and brings none  *)
(* back.                                                                    *)
THEOREM RunMovesOnHolds == Spec => RunMovesOn
<1>1. IInv /\ IInv' /\ [Next]_vars => [InRun => Remaining' \subseteq Remaining /\ Remaining' # Remaining]_vars
  BY MovesOn
<1> QED BY <1>1, Invariance, PTL DEF Spec, RunMovesOn
=============================================================================
