-------------------------- MODULE Goroutine_proofs --------------------------
(***************************************************************************)
(* Proofs about Goroutine, for every set of steps, every option list and   *)
(* every bound.                                                            *)
(***************************************************************************)
EXTENDS Goroutine, FiniteSetTheorems, SequenceTheorems, WellFoundedInduction, TLAPS

(* A batch of n items has at least one chunk and at most n (chunkInterfaces). *)
LEMMA ChunksBound ==
  ASSUME NEW n \in Nat \ {0}, NEW b \in Nat \ {0}
  PROVE  Chunks(n, b) \in 1 .. n
<1> DEFINE q == (n + b - 1) \div b
<1>1. q \in Int /\ q * b <= n + b - 1 /\ n + b - 1 < q * b + b
  BY SMT
<1>2. q >= 1
  <2>1. SUFFICES ASSUME q <= 0 PROVE FALSE
    BY <1>1
  <2>2. q * b <= 0
    BY <1>1, <2>1, SMT
  <2> QED BY <1>1, <2>2
<1>3. q <= n
  <2>1. SUFFICES ASSUME q >= n + 1 PROVE FALSE
    BY <1>1
  <2>2. q * b >= (n + 1) * b
    BY <1>1, <2>1, SMT
  <2>3. (n + 1) * b = n * b + b /\ n * b >= n
    BY SMT
  <2> QED BY <1>1, <2>2, <2>3
<1> QED BY <1>1, <1>2, <1>3 DEF Chunks

(* setOptions turns well-typed options into well-typed options: a worker    *)
(* count or batch size it accepts is a positive int32.                      *)
LEMMA SetOptionsType ==
  ASSUME NEW o \in Option, NEW os \in Seq([name : OptionNames, value : Int])
  PROVE  SetOptions(o, os) \in Option
<1>1. ASSUME NEW v \in Int PROVE Narrow(v) \in Int
  BY BoundsAssumption DEF Narrow
<1>2. ASSUME NEW name, NEW i \in LastOf(os, name)
      PROVE  os[i] \in [name : OptionNames, value : Int] /\ os[i].name = name /\ ValidOption(os[i])
  <2>1. i \in Applied(os) /\ os[i].name = name
    BY <1>2 DEF LastOf
  <2>2. i \in DOMAIN os /\ \A j \in 1 .. i : ValidOption(os[j])
    BY <2>1 DEF Applied
  <2>3. i \in 1 .. Len(os)
    BY <2>2
  <2>4. ValidOption(os[i])
    BY <2>2, <2>3
  <2>5. os[i] \in [name : OptionNames, value : Int]
    BY <2>3, ElementOfSeq
  <2> QED BY <2>1, <2>4, <2>5
<1>3. LastOf(os, "worker") # {} => Narrow(LastValue(os, "worker")) \in Nat
  <2>1. \A i \in LastOf(os, "worker") : Narrow(os[i].value) \in Nat
    BY <1>1, <1>2 DEF ValidOption
  <2> QED BY <2>1 DEF LastValue
<1>4. LastOf(os, "batch_process") # {} => Narrow(LastValue(os, "batch_process")) \in Nat
  <2>1. \A i \in LastOf(os, "batch_process") : Narrow(os[i].value) \in Nat
    BY <1>1, <1>2 DEF ValidOption
  <2> QED BY <2>1 DEF LastValue
<1> QED BY <1>3, <1>4 DEF SetOptions, Option

LEMMA DefaultOptionType == DefaultOption \in Option
BY DEF DefaultOption, Option

(* The keys of the jobs buildJobs makes are process keys of the model. *)
LEMMA BuildJobsType ==
  ASSUME steps \subseteq Steps, batchInput \in [Steps -> 0 .. MaxItems], activeOption \in Option
  PROVE  DOMAIN BuildJobs \subseteq Keys
<1>1. ASSUME NEW s \in steps PROVE JobKeysOf(s) \subseteq Keys
  <2>1. CASE batchInput[s] = 0
    BY <2>1, BoundsAssumption DEF JobKeysOf, PlainKey, Keys
  <2>2. CASE batchInput[s] # 0 /\ ~(activeOption.batchProcess > 0)
    BY <2>2, BoundsAssumption DEF JobKeysOf, AllKey, Keys
  <2>3. CASE batchInput[s] # 0 /\ activeOption.batchProcess > 0
    <3>1. batchInput[s] \in Nat \ {0} /\ activeOption.batchProcess \in Nat \ {0}
      BY <2>3, BoundsAssumption DEF Option
    <3>2. Chunks(batchInput[s], activeOption.batchProcess) \in 1 .. batchInput[s]
      BY <3>1, ChunksBound
    <3>3. \A i \in 1 .. Chunks(batchInput[s], activeOption.batchProcess) : BatchKey(s, i) \in Keys
      BY <3>1, <3>2, BoundsAssumption DEF BatchKey, Keys
    <3> QED BY <3>3, <2>3 DEF JobKeysOf
  <2> QED BY <2>1, <2>2, <2>3
<1> QED BY <1>1 DEF BuildJobs

LEMMA WorkersType ==
  ASSUME NEW o \in Option
  PROVE  Workers(o) \in Nat \ {0}
BY BoundsAssumption DEF Workers, Option

-----------------------------------------------------------------------------
(* Type correctness. *)

LEMMA InitType == Init => TypeOK
<1> SUFFICES ASSUME Init PROVE TypeOK
  OBVIOUS
<1>1. activeOption \in Option
  <2>1. PICK os \in OptionLists \cup {<<>>} : activeOption = SetOptions(DefaultOption, os)
    BY DEF Init
  <2>2. os \in Seq([name : OptionNames, value : Int])
    <3>1. <<>> \in Seq([name : OptionNames, value : Int])
      BY EmptySeq
    <3> QED BY <3>1, OptionListsAssumption
  <2> QED BY <2>1, <2>2, SetOptionsType, DefaultOptionType
<1>2. DOMAIN jobs = {}
  BY DEF Init
<1>3. <<>> \in Seq(Keys) /\ <<>> \in Seq(Responses \cup {"zero"})
  BY EmptySeq
<1>4. batchInput \in [Steps -> 0 .. MaxItems] /\ calls \in 0 .. MaxCalls
  BY BoundsAssumption DEF Init
<1>5. worker \in [Keys -> {"off", "exec", "cancel", "release", "finish"}]
  BY DEF Init
<1>6. outputResp \in [Keys -> Responses \cup {"absent", "merged"}]
  BY DEF Init
<1>7. /\ batchResults \in [Steps -> Seq(Responses \cup {"zero"})]
      /\ collected \in [Steps -> Seq(Responses \cup {"zero"})]
  BY <1>3 DEF Init
<1>8. successProcess \in Seq(Keys) /\ failedProcess \in Seq(Keys)
  BY <1>3 DEF Init
<1>9. opt \in Option /\ todo \subseteq DOMAIN jobs /\ DOMAIN jobs \subseteq Keys
  BY <1>2, DefaultOptionType DEF Init
<1>10. /\ pc = "idle" /\ cur = NoKey /\ sem = 0 /\ wg = 0 /\ late = 0 /\ ctxDone = FALSE
       /\ canceled = FALSE /\ toCollect = {} /\ steps = {} /\ input = {} /\ batchCollectors = {}
  BY DEF Init
<1>11. cur \in DOMAIN jobs \cup {NoKey} /\ sem \in Int /\ wg \in Int /\ late \in Nat
  BY <1>10
<1>12. ctxDone \in BOOLEAN /\ canceled \in BOOLEAN
  BY <1>10
<1>13. pc \in {"idle", "loop", "acquire", "wait", "collect", "crashed"}
  BY <1>10
<1>14. steps \subseteq Steps /\ input \subseteq Steps /\ batchCollectors \subseteq Steps /\ toCollect \subseteq Steps
  BY <1>10
<1> QED BY ONLY <1>1, <1>4, <1>5, <1>6, <1>7, <1>8, <1>9, <1>11, <1>12, <1>13, <1>14 DEF TypeOK

(* What recordResponse leaves behind is well typed. *)
LEMMA RecordType ==
  ASSUME TypeOK, NEW k \in Keys, NEW r \in Responses, RecordResponse(k, r)
  PROVE  /\ outputResp' \in [Keys -> Responses \cup {"absent", "merged"}]
         /\ successProcess' \in Seq(Keys) /\ failedProcess' \in Seq(Keys)
         /\ batchResults' \in [Steps -> Seq(Responses \cup {"zero"})]
<1>1. outputResp' \in [Keys -> Responses \cup {"absent", "merged"}]
  BY DEF TypeOK, RecordResponse
<1>2. successProcess' \in Seq(Keys) /\ failedProcess' \in Seq(Keys)
  BY DEF TypeOK, RecordResponse
<1>3. batchResults' \in [Steps -> Seq(Responses \cup {"zero"})]
  <2>1. k[1] \in Steps /\ k[3] \in Nat
    BY BoundsAssumption DEF Keys
  <2> DEFINE q == batchResults[k[1]]
             n == IF Len(q) < k[3] THEN k[3] ELSE Len(q)
             g == [Grown(q, k[3]) EXCEPT ![k[3]] = r]
  <2>2. q \in Seq(Responses \cup {"zero"}) /\ n \in Nat
    BY <2>1 DEF TypeOK
  <2>3. g = [i \in 1 .. n |-> IF i = k[3] THEN r ELSE IF i <= Len(q) THEN q[i] ELSE "zero"]
    BY DEF Grown
  <2>4. \A i \in 1 .. n : i <= Len(q) => q[i] \in Responses \cup {"zero"}
    BY <2>2
  <2>5. g \in [1 .. n -> Responses \cup {"zero"}]
    BY <2>3, <2>4
  <2>6. g \in Seq(Responses \cup {"zero"})
    <3> HIDE DEF q, n, g
    <3> QED BY <2>2, <2>5
  <2>7. CASE k[2] # "batch"
    BY <2>7 DEF TypeOK, RecordResponse
  <2>8. CASE k[2] = "batch"
    <3>1. batchResults' = [batchResults EXCEPT ![k[1]] = g]
      BY <2>8 DEF RecordResponse
    <3> QED BY <3>1, <2>1, <2>6 DEF TypeOK
  <2> QED BY <2>7, <2>8
<1> QED BY <1>1, <1>2, <1>3

LEMMA NextType == TypeOK /\ [Next]_vars => TypeOK'
<1> SUFFICES ASSUME TypeOK, [Next]_vars PROVE TypeOK'
  OBVIOUS
<1> USE DEF TypeOK
<1>1. ASSUME NEW s \in Steps, AddStep(s) \/ AddInput(s) \/ AddCollectorBatch(s)
      PROVE  TypeOK'
  <2>1. steps' \subseteq Steps /\ input' \subseteq Steps /\ batchCollectors' \subseteq Steps
    BY <1>1 DEF AddStep, AddInput, AddCollectorBatch
  <2>2. Register /\ UNCHANGED <<batchInput, activeOption>>
    BY <1>1 DEF AddStep, AddInput, AddCollectorBatch
  <2> QED BY <2>1, <2>2, BoundsAssumption DEF Register, results
<1>2. ASSUME NEW s \in Steps, NEW n \in 1 .. MaxItems, AddBatchInput(s, n)
      PROVE  TypeOK'
  <2>1. batchInput' \in [Steps -> 0 .. MaxItems]
    BY <1>2, BoundsAssumption DEF AddBatchInput
  <2> QED BY <1>2, <2>1, BoundsAssumption DEF AddBatchInput, Register, results
<1>3. ASSUME NEW os \in OptionLists, AddOptions(os)
      PROVE  TypeOK'
  <2>1. activeOption' \in Option
    BY <1>3, OptionListsAssumption, SetOptionsType DEF AddOptions
  <2> QED BY <1>3, <2>1, BoundsAssumption DEF AddOptions, Register, results
<1>4. ASSUME NEW done \in BOOLEAN, BeginRun(done)
      PROVE  TypeOK'
  <2>1. DOMAIN BuildJobs \subseteq Keys
    BY BuildJobsType
  <2>2. /\ outputResp' \in [Keys -> Responses \cup {"absent", "merged"}]
        /\ worker' \in [Keys -> {"off", "exec", "cancel", "release", "finish"}]
    BY <1>4 DEF BeginRun
  <2>3. /\ batchResults' \in [Steps -> Seq(Responses \cup {"zero"})]
        /\ collected' \in [Steps -> Seq(Responses \cup {"zero"})]
        /\ successProcess' \in Seq(Keys) /\ failedProcess' \in Seq(Keys)
    BY <1>4, EmptySeq DEF BeginRun
  <2>4. todo' = DOMAIN jobs' /\ DOMAIN jobs' \subseteq Keys /\ opt' \in Option
    BY <1>4, <2>1 DEF BeginRun
  <2>5. /\ pc' = "loop" /\ cur' = NoKey /\ sem' = 0 /\ wg' = 0 /\ late' = 0
        /\ ctxDone' \in BOOLEAN /\ canceled' = FALSE /\ toCollect' = {}
    BY <1>4 DEF BeginRun
  <2>6. UNCHANGED registrations
    BY <1>4 DEF BeginRun
  <2>11. cur' \in DOMAIN jobs' \cup {NoKey} /\ sem' \in Int /\ wg' \in Int /\ late' \in Nat
    BY <2>5
  <2>12. ctxDone' \in BOOLEAN /\ canceled' \in BOOLEAN
    BY <2>5
  <2>13. pc' \in {"idle", "loop", "acquire", "wait", "collect", "crashed"} /\ toCollect' \subseteq Steps
    BY <2>5
  <2>14. /\ steps' \subseteq Steps /\ input' \subseteq Steps /\ batchCollectors' \subseteq Steps
        /\ batchInput' \in [Steps -> 0 .. MaxItems] /\ activeOption' \in Option /\ calls' \in 0 .. MaxCalls
    BY <2>6 DEF registrations
  <2> QED BY ONLY <2>2, <2>3, <2>4, <2>11, <2>12, <2>13, <2>14 DEF TypeOK
<1>5. CASE CancelCtx
  BY <1>5 DEF CancelCtx, registrations, results
<1>6. ASSUME NEW k \in todo, SkipJob(k)
      PROVE  TypeOK'
  <2>1. k \in Keys /\ RecordResponse(k, "skipped") /\ "skipped" \in Responses
    BY <1>6 DEF SkipJob, Responses
  <2> QED BY <1>6, <2>1, RecordType DEF SkipJob, registrations
<1>7. ASSUME NEW k \in todo, TakeJob(k)
      PROVE  TypeOK'
  BY <1>7 DEF TakeJob, registrations, results
<1>8. CASE StartJob
  <2>1. worker' \in [Keys -> {"off", "exec", "cancel", "release", "finish"}]
    BY <1>8 DEF StartJob
  <2>2. late' \in Nat
    BY <1>8 DEF StartJob
  <2> QED BY <1>8, <2>1, <2>2 DEF StartJob, registrations, results
<1>9. CASE EndLoop
  BY <1>9 DEF EndLoop, registrations, results
<1>10. CASE Wait
  BY <1>10 DEF Wait, registrations, results
<1>11. ASSUME NEW s \in toCollect, ApplyCollector(s)
       PROVE  TypeOK'
  <2>1. collected' \in [Steps -> Seq(Responses \cup {"zero"})]
    BY <1>11 DEF ApplyCollector
  <2>2. outputResp' \in [Keys -> Responses \cup {"absent", "merged"}]
    BY <1>11 DEF ApplyCollector, Responses
  <2> QED BY <1>11, <2>1, <2>2 DEF ApplyCollector, registrations
<1>12. ASSUME EndRun PROVE TypeOK'
  <2>1. /\ worker' \in [Keys -> {"off", "exec", "cancel", "release", "finish"}]
        /\ DOMAIN jobs' = {}
    BY <1>12 DEF EndRun
  <2>2. collected' \in [Steps -> Seq(Responses \cup {"zero"})]
    BY <1>12, EmptySeq DEF EndRun
  <2>3. opt' \in Option /\ todo' \subseteq DOMAIN jobs' /\ DOMAIN jobs' \subseteq Keys
    BY <1>12, <2>1, DefaultOptionType DEF EndRun
  <2>4. /\ pc' = "idle" /\ cur' = NoKey /\ sem' = 0 /\ wg' = 0 /\ late' = 0
        /\ ctxDone' = FALSE /\ canceled' = FALSE /\ toCollect' = {}
    BY <1>12 DEF EndRun
  <2>5. UNCHANGED <<registrations, results>>
    BY <1>12 DEF EndRun
  <2>11. cur' \in DOMAIN jobs' \cup {NoKey} /\ sem' \in Int /\ wg' \in Int /\ late' \in Nat
    BY <2>4
  <2>12. ctxDone' \in BOOLEAN /\ canceled' \in BOOLEAN
    BY <2>4
  <2>13. pc' \in {"idle", "loop", "acquire", "wait", "collect", "crashed"} /\ toCollect' \subseteq Steps
    BY <2>4
  <2>14. /\ steps' \subseteq Steps /\ input' \subseteq Steps /\ batchCollectors' \subseteq Steps
        /\ batchInput' \in [Steps -> 0 .. MaxItems] /\ activeOption' \in Option /\ calls' \in 0 .. MaxCalls
    BY <2>5 DEF registrations
  <2>15. /\ outputResp' \in [Keys -> Responses \cup {"absent", "merged"}]
        /\ successProcess' \in Seq(Keys) /\ failedProcess' \in Seq(Keys)
        /\ batchResults' \in [Steps -> Seq(Responses \cup {"zero"})]
    BY <2>5 DEF results
  <2> QED BY ONLY <2>1, <2>2, <2>3, <2>15, <2>11, <2>12, <2>13, <2>14 DEF TypeOK
<1>13. ASSUME NEW k \in DOMAIN jobs, NEW r \in {"ok", "err"}, FinishJob(k, r)
       PROVE  TypeOK'
  <2>1. k \in Keys /\ RecordResponse(k, r) /\ r \in Responses
    BY <1>13 DEF FinishJob, Responses
  <2>2. worker' \in [Keys -> {"off", "exec", "cancel", "release", "finish"}]
    BY <1>13 DEF FinishJob
  <2> QED BY <1>13, <2>1, <2>2, RecordType DEF FinishJob, registrations
<1>14. ASSUME NEW k \in DOMAIN jobs, PanicJob(k)
       PROVE  TypeOK'
  BY <1>14 DEF PanicJob, registrations, results
<1>15. ASSUME NEW k \in DOMAIN jobs, CancelRun(k)
       PROVE  TypeOK'
  BY <1>15 DEF CancelRun, registrations, results
<1>16. ASSUME NEW k \in DOMAIN jobs, ReleaseSlot(k)
       PROVE  TypeOK'
  BY <1>16 DEF ReleaseSlot, registrations, results
<1>17. ASSUME NEW k \in DOMAIN jobs, WgDone(k)
       PROVE  TypeOK'
  BY <1>17 DEF WgDone, registrations, results
<1>18. CASE UNCHANGED vars
  BY <1>18 DEF vars, registrations, results
<1>19. Registration => TypeOK'
  BY <1>1, <1>2, <1>3 DEF Registration
<1>20. Main => TypeOK'
  BY <1>6, <1>7, <1>8, <1>9, <1>10, <1>11, <1>12 DEF Main, PanicCollector, Return
<1>21. ASSUME NEW k \in DOMAIN jobs, Worker(k) PROVE TypeOK'
  BY <1>13, <1>14, <1>15, <1>16, <1>17, <1>21 DEF Worker
<1> QED BY <1>4, <1>5, <1>18, <1>19, <1>20, <1>21 DEF Next, Crashed

-----------------------------------------------------------------------------
(* Facts about counting. *)

LEMMA OccurrencesAppend ==
  ASSUME NEW q \in Seq(Keys), NEW e \in Keys, NEW k
  PROVE  /\ Occurrences(q, k) \in Nat
         /\ Occurrences(Append(q, e), k) = Occurrences(q, k) + (IF e = k THEN 1 ELSE 0)
<1> DEFINE at(r) == {i \in DOMAIN r : r[i] = k}
           n == Len(q)
<1>1. n \in Nat /\ DOMAIN q = 1 .. n
  OBVIOUS
<1>2. IsFiniteSet(at(q)) /\ Cardinality(at(q)) \in Nat
  <2>1. IsFiniteSet(1 .. n)
    BY <1>1, FS_Interval
  <2>2. at(q) \in SUBSET (1 .. n)
    BY <1>1
  <2> QED BY <2>1, <2>2, FS_Subset, FS_CardinalityType
<1>3. at(Append(q, e)) = IF e = k THEN at(q) \cup {n + 1} ELSE at(q)
  <2>1. DOMAIN Append(q, e) = 1 .. n + 1
    BY <1>1
  <2>2. \A i \in 1 .. n : Append(q, e)[i] = q[i]
    BY <1>1
  <2>3. Append(q, e)[n + 1] = e
    BY <1>1
  <2> QED BY <1>1, <2>1, <2>2, <2>3
<1>4. n + 1 \notin at(q)
  BY <1>1
<1>5. Cardinality(at(q) \cup {n + 1}) = Cardinality(at(q)) + 1
  BY <1>2, <1>4, FS_AddElement
<1>6. /\ Occurrences(q, k) = Cardinality(at(q))
      /\ Occurrences(Append(q, e), k) = Cardinality(at(Append(q, e)))
  BY DEF Occurrences
<1> HIDE DEF at
<1> QED BY <1>2, <1>3, <1>5, <1>6

LEMMA ListedAppend ==
  ASSUME NEW q \in Seq(Keys), NEW e \in Keys, NEW k
  PROVE  Listed(k, Append(q, e)) <=> Listed(k, q) \/ k = e
<1>1. DOMAIN q = 1 .. Len(q) /\ Len(q) \in Nat
  OBVIOUS
<1>2. DOMAIN Append(q, e) = 1 .. Len(q) + 1
  BY <1>1
<1>3. (\A i \in 1 .. Len(q) : Append(q, e)[i] = q[i]) /\ Append(q, e)[Len(q) + 1] = e
  BY <1>1
<1> QED BY <1>1, <1>2, <1>3 DEF Listed

(* recordResponse gives its job one more outcome and no other job any. *)
LEMMA RecordOutcomes ==
  ASSUME TypeOK, NEW k \in Keys, NEW r \in Responses,
         Outcomes(k) = 0, RecordResponse(k, r)
  PROVE  /\ Outcomes(k)' = 1
         /\ \A j \in Keys : j # k => Outcomes(j)' = Outcomes(j)
<1>1. /\ successProcess \in Seq(Keys) /\ failedProcess \in Seq(Keys)
      /\ outputResp \in [Keys -> Responses \cup {"absent", "merged"}]
  BY DEF TypeOK
<1>2. \A j \in Keys :
         /\ Occurrences(successProcess, j) \in Nat /\ Occurrences(failedProcess, j) \in Nat
         /\ Occurrences(Append(successProcess, k), j)
              = Occurrences(successProcess, j) + (IF k = j THEN 1 ELSE 0)
         /\ Occurrences(Append(failedProcess, k), j)
              = Occurrences(failedProcess, j) + (IF k = j THEN 1 ELSE 0)
  BY <1>1, OccurrencesAppend
<1>3. \A j \in Keys :
         /\ Occurrences(successProcess, j)'
              = Occurrences(successProcess, j) + (IF r = "ok" /\ k = j THEN 1 ELSE 0)
         /\ Occurrences(failedProcess, j)'
              = Occurrences(failedProcess, j) + (IF r = "err" /\ k = j THEN 1 ELSE 0)
  <2>1. CASE r = "ok"
    BY <2>1, <1>2 DEF RecordResponse
  <2>2. CASE r = "err"
    BY <2>2, <1>2 DEF RecordResponse
  <2>3. CASE r = "skipped"
    BY <2>3, <1>2 DEF RecordResponse
  <2> QED BY <2>1, <2>2, <2>3 DEF Responses
<1>4. outputResp[k] # "skipped" /\ Occurrences(successProcess, k) = 0 /\ Occurrences(failedProcess, k) = 0
  BY <1>2 DEF Outcomes
<1>5. outputResp'[k] = r /\ \A j \in Keys : j # k => outputResp'[j] = outputResp[j]
  BY <1>1 DEF RecordResponse
<1>6. Outcomes(k)' = 1
  BY <1>3, <1>4, <1>5 DEF Outcomes, Responses
<1>7. ASSUME NEW j \in Keys, j # k PROVE Outcomes(j)' = Outcomes(j)
  BY <1>2, <1>3, <1>5, <1>7 DEF Outcomes
<1> QED BY <1>6, <1>7

LEMMA RecordListed ==
  ASSUME TypeOK, NEW k \in Keys, NEW r \in Responses, RecordResponse(k, r)
  PROVE  /\ \A j \in Keys : /\ Listed(j, successProcess) => Listed(j, successProcess')
                            /\ Listed(j, failedProcess) => Listed(j, failedProcess')
         /\ r = "ok" => Listed(k, successProcess')
         /\ r = "err" => Listed(k, failedProcess')
         /\ r = "err" \/ failedProcess # <<>> => failedProcess' # <<>>
<1>1. successProcess \in Seq(Keys) /\ failedProcess \in Seq(Keys)
  BY DEF TypeOK
<1>2. \A j : /\ Listed(j, Append(successProcess, k)) <=> Listed(j, successProcess) \/ j = k
             /\ Listed(j, Append(failedProcess, k)) <=> Listed(j, failedProcess) \/ j = k
  BY <1>1, ListedAppend
<1>3. Append(failedProcess, k) # <<>>
  BY <1>1
<1> QED BY <1>2, <1>3 DEF RecordResponse

-----------------------------------------------------------------------------
(* The inductive invariant. *)

LEMMA InitInv == Init => IInv
<1> SUFFICES ASSUME Init PROVE IInv
  OBVIOUS
<1>1. TypeOK
  BY InitType
<1>2. Active = {} /\ Holding = {} /\ DOMAIN jobs = {}
  BY DEF Init, Active, Holding
<1>3. SlotsInv
  BY <1>2, FS_EmptySet, WorkersType, DefaultOptionType DEF Init, SlotsInv
<1>4. WaitGroupInv
  BY <1>2, FS_EmptySet DEF Init, WaitGroupInv
<1>5. PhaseInv
  BY <1>2 DEF Init, PhaseInv
<1>6. LateInv /\ OutcomeInv
  BY DEF Init, LateInv, OutcomeInv
<1>7. CancelInv
  BY <1>2 DEF Init, CancelInv
<1> QED BY <1>1, <1>3, <1>4, <1>5, <1>6, <1>7 DEF IInv

(* A registration touches nothing of a Run in progress. *)
LEMMA RegistrationInv ==
  ASSUME IInv, TypeOK', Registration
  PROVE  IInv'
<1>1. UNCHANGED <<pc, opt, jobs, todo, cur, worker, sem, wg, ctxDone, canceled, results, late>>
  BY DEF Registration, AddStep, AddInput, AddCollectorBatch, AddBatchInput, AddOptions, Register
<1> QED BY <1>1 DEF IInv, SlotsInv, Holding, WaitGroupInv, Active, PhaseInv, LateInv, RunCtxDone,
           OutcomeInv, Outcomes, Unfinished, CancelInv, results

(* The empty Run: before the first job and after the last step. *)
LEMMA BeginRunInv ==
  ASSUME IInv, TypeOK', NEW done \in BOOLEAN, BeginRun(done)
  PROVE  IInv'
<1>1. Active' = {} /\ Holding' = {}
  BY DEF BeginRun, Active, Holding
<1>2. opt' \in Option
  BY DEF TypeOK
<1>3. SlotsInv'
  BY <1>1, <1>2, FS_EmptySet, WorkersType DEF BeginRun, SlotsInv
<1>4. WaitGroupInv'
  BY <1>1, FS_EmptySet DEF BeginRun, WaitGroupInv
<1>5. PhaseInv'
  <2>1. \A k \in todo' : worker'[k] = "off"
    BY DEF BeginRun, TypeOK
  <2> QED BY <1>1, <2>1 DEF BeginRun, PhaseInv
<1>6. LateInv'
  BY DEF BeginRun, LateInv
<1>7. OutcomeInv'
  <2>1. \A k : Occurrences(<<>>, k) = 0
    <3>1. \A k : {i \in DOMAIN <<>> : <<>>[i] = k} = {}
      OBVIOUS
    <3> QED BY <3>1, FS_EmptySet DEF Occurrences
  <2>2. \A k \in Keys : Outcomes(k)' = 0
    BY <2>1 DEF BeginRun, Outcomes
  <2> QED BY <2>2 DEF BeginRun, OutcomeInv, Unfinished, TypeOK
<1>8. CancelInv'
  BY DEF BeginRun, CancelInv, Unfinished
<1> QED BY <1>3, <1>4, <1>5, <1>6, <1>7, <1>8 DEF IInv

LEMMA EndRunInv ==
  ASSUME IInv, TypeOK', EndRun
  PROVE  IInv'
<1>1. Active' = {} /\ Holding' = {} /\ DOMAIN jobs' = {}
  BY DEF EndRun, Active, Holding
<1>2. SlotsInv'
  BY <1>1, FS_EmptySet, DefaultOptionType, WorkersType DEF EndRun, SlotsInv
<1>3. WaitGroupInv'
  BY <1>1, FS_EmptySet DEF EndRun, WaitGroupInv
<1>4. PhaseInv' /\ LateInv' /\ OutcomeInv'
  BY <1>1 DEF EndRun, PhaseInv, LateInv, OutcomeInv
<1>5. CancelInv'
  BY <1>1 DEF EndRun, CancelInv
<1> QED BY <1>2, <1>3, <1>4, <1>5 DEF IInv

LEMMA KeyIsNotNoKey == \A k \in Keys : k # NoKey
<1> SUFFICES ASSUME NEW k \in Keys PROVE k # NoKey
  OBVIOUS
<1>1. PICK s \in Steps, kind \in {"plain", "all", "batch"}, i \in 0 .. MaxItems : k = <<s, kind, i>>
  BY DEF Keys
<1>2. 1 \in DOMAIN <<s, kind, i>> /\ DOMAIN <<>> = {}
  OBVIOUS
<1> QED BY <1>1, <1>2 DEF NoKey

(* The steps of Run's loop. *)
LEMMA SkipJobInv ==
  ASSUME IInv, TypeOK', NEW k \in todo, SkipJob(k)
  PROVE  IInv'
<1>1. k \in DOMAIN jobs /\ k \in Keys /\ pc = "loop" /\ cur = NoKey /\ worker[k] = "off"
  BY DEF IInv, TypeOK, PhaseInv, SkipJob
<1>2. UNCHANGED <<pc, opt, jobs, cur, worker, sem, wg, ctxDone, canceled, late>>
  BY DEF SkipJob
<1>3. todo' = todo \ {k} /\ RecordResponse(k, "skipped") /\ RunCtxDone
  BY DEF SkipJob
<1>4. SlotsInv' /\ WaitGroupInv' /\ LateInv'
  BY <1>2 DEF IInv, SlotsInv, Holding, WaitGroupInv, Active, LateInv, RunCtxDone
<1>5. PhaseInv'
  BY <1>1, <1>2, <1>3 DEF IInv, PhaseInv, Active
<1>6. OutcomeInv'
  <2>1. Outcomes(k) = 0
    BY <1>1 DEF IInv, OutcomeInv, Unfinished
  <2>2. Outcomes(k)' = 1 /\ \A j \in Keys : j # k => Outcomes(j)' = Outcomes(j)
    BY <1>1, <1>3, <2>1, RecordOutcomes DEF IInv, Responses
  <2>3. ~Unfinished(k)' /\ \A j \in Keys : j # k => (Unfinished(j)' <=> Unfinished(j))
    BY <1>1, <1>2, <1>3, KeyIsNotNoKey DEF Unfinished
  <2> QED BY <1>1, <1>2, <2>2, <2>3 DEF IInv, TypeOK, OutcomeInv
<1>7. CancelInv'
  <2>1. RunCtxDone'
    BY <1>2, <1>3 DEF RunCtxDone
  <2>2. failedProcess' = failedProcess
    BY <1>3 DEF RecordResponse
  <2> QED BY <1>2, <2>1, <2>2 DEF IInv, CancelInv
<1> QED BY <1>4, <1>5, <1>6, <1>7 DEF IInv

LEMMA TakeJobInv ==
  ASSUME IInv, TypeOK', NEW k \in todo, TakeJob(k)
  PROVE  IInv'
<1>1. k \in DOMAIN jobs /\ k \in Keys /\ k # NoKey /\ cur = NoKey /\ worker[k] = "off"
  BY KeyIsNotNoKey DEF IInv, TypeOK, PhaseInv, TakeJob
<1>2. UNCHANGED <<opt, jobs, worker, sem, ctxDone, canceled, results, late>>
  BY DEF TakeJob
<1>3. todo' = todo \ {k} /\ cur' = k /\ wg' = wg + 1 /\ pc = "loop" /\ pc' = "acquire"
  BY DEF TakeJob
<1>4. SlotsInv'
  BY <1>2 DEF IInv, SlotsInv, Holding
<1>5. WaitGroupInv'
  <2>1. Active' = Active /\ Cardinality(Active) \in Nat
    BY <1>2, FS_CardinalityType DEF IInv, WaitGroupInv, Active
  <2> QED BY <1>1, <1>3, <2>1 DEF IInv, WaitGroupInv
<1>6. PhaseInv'
  BY <1>1, <1>2, <1>3 DEF IInv, PhaseInv, Active
<1>7. LateInv'
  BY <1>2 DEF TakeJob, IInv, LateInv
<1>8. \A j \in Keys : Unfinished(j)' <=> Unfinished(j)
  BY <1>1, <1>2, <1>3, KeyIsNotNoKey DEF Unfinished
<1>9. OutcomeInv'
  BY <1>2, <1>3, <1>8 DEF IInv, TypeOK, OutcomeInv, Outcomes, results
<1>10. CancelInv'
  BY <1>2, <1>8 DEF IInv, TypeOK, CancelInv, RunCtxDone, results
<1> QED BY <1>4, <1>5, <1>6, <1>7, <1>9, <1>10 DEF IInv

LEMMA StartJobInv ==
  ASSUME IInv, TypeOK', StartJob
  PROVE  IInv'
<1>1. cur # NoKey /\ cur \in DOMAIN jobs \ todo /\ cur \in Keys /\ worker[cur] = "off"
  BY DEF IInv, TypeOK, PhaseInv, StartJob
<1>2. UNCHANGED <<opt, jobs, todo, wg, ctxDone, canceled, results>>
  BY DEF StartJob
<1>3. /\ worker' = [worker EXCEPT ![cur] = "exec"] /\ worker \in [Keys -> {"off", "exec", "cancel", "release", "finish"}]
      /\ cur' = NoKey /\ pc = "acquire" /\ pc' = "loop" /\ sem < Workers(opt) /\ sem' = sem + 1
  BY DEF StartJob, IInv, TypeOK
<1>4. /\ Holding' = Holding \cup {cur} /\ cur \notin Holding
      /\ Active' = Active \cup {cur} /\ cur \notin Active
  BY <1>1, <1>3 DEF Holding, Active
<1>5. IsFiniteSet(Active) /\ IsFiniteSet(Holding)
  <2>1. Holding \in SUBSET Active
    BY DEF Holding, Active
  <2> QED BY <2>1, FS_Subset DEF IInv, WaitGroupInv
<1>6. SlotsInv'
  <2>1. Cardinality(Holding') = Cardinality(Holding) + 1
    BY <1>4, <1>5, FS_AddElement
  <2>2. Workers(opt) \in Nat /\ sem \in Int
    BY WorkersType DEF IInv, TypeOK
  <2> QED BY <1>2, <1>3, <2>1, <2>2 DEF IInv, SlotsInv
<1>7. WaitGroupInv'
  <2>1. IsFiniteSet(Active') /\ Cardinality(Active') = Cardinality(Active) + 1
    BY <1>4, <1>5, FS_AddElement
  <2>2. Cardinality(Active) \in Nat
    BY <1>5, FS_CardinalityType
  <2> QED BY <1>1, <1>2, <1>3, <2>1, <2>2 DEF IInv, WaitGroupInv
<1>8. PhaseInv'
  <2>1. \A j \in todo' : worker'[j] = "off"
    BY <1>1, <1>2, <1>3 DEF IInv, PhaseInv, TypeOK
  <2>2. \A j \in Active' : j \in DOMAIN jobs'
    BY <1>1, <1>2, <1>4 DEF IInv, PhaseInv
  <2> QED BY <1>2, <1>3, <2>1, <2>2 DEF IInv, PhaseInv
<1>9. LateInv'
  BY <1>1, <1>2, <1>3 DEF StartJob, IInv, LateInv, RunCtxDone
<1>10. \A j \in Keys : Unfinished(j)' <=> Unfinished(j)
  BY <1>1, <1>2, <1>3, KeyIsNotNoKey DEF Unfinished
<1>11. OutcomeInv'
  BY <1>2, <1>3, <1>10 DEF IInv, TypeOK, OutcomeInv, Outcomes, results
<1>12. CancelInv'
  <2>1. \A j \in Keys : worker'[j] = "cancel" => worker[j] = "cancel"
    BY <1>3
  <2> QED BY <1>2, <1>10, <2>1 DEF IInv, TypeOK, CancelInv, RunCtxDone, results
<1> QED BY <1>6, <1>7, <1>8, <1>9, <1>11, <1>12 DEF IInv

(* The steps of a job's goroutine. *)
LEMMA FinishJobInv ==
  ASSUME IInv, TypeOK', NEW k \in DOMAIN jobs, NEW r \in {"ok", "err"}, FinishJob(k, r)
  PROVE  IInv'
<1>1. k \in Keys /\ worker[k] = "exec" /\ k \notin todo /\ k # cur
  BY KeyIsNotNoKey DEF IInv, TypeOK, PhaseInv, FinishJob
<1>2. UNCHANGED <<pc, opt, jobs, todo, cur, sem, wg, ctxDone, canceled, late>> /\ RecordResponse(k, r)
  BY DEF FinishJob
<1>3. PICK w \in {"cancel", "release"} :
         worker' = [worker EXCEPT ![k] = w] /\ (w = "cancel" => r = "err")
  BY DEF FinishJob
<1>4. worker \in [Keys -> {"off", "exec", "cancel", "release", "finish"}]
  BY DEF IInv, TypeOK
<1>5. Holding' = Holding /\ Active' = Active
  BY <1>1, <1>3, <1>4 DEF Holding, Active
<1>6. SlotsInv' /\ WaitGroupInv' /\ LateInv'
  BY <1>2, <1>5 DEF IInv, SlotsInv, WaitGroupInv, LateInv, RunCtxDone
<1>7. PhaseInv'
  <2>1. \A j \in Keys : j # k => worker'[j] = worker[j]
    BY <1>3, <1>4
  <2> QED BY <1>1, <1>2, <1>5, <2>1 DEF IInv, TypeOK, PhaseInv
<1>8. ~Unfinished(k)' /\ \A j \in Keys : j # k => (Unfinished(j)' <=> Unfinished(j))
  BY <1>1, <1>2, <1>3, <1>4 DEF Unfinished
<1>9. OutcomeInv'
  <2>1. SUFFICES ASSUME pc \in {"loop", "acquire", "wait"} PROVE OutcomeInv'
    BY <1>2 DEF OutcomeInv
  <2>2. Outcomes(k) = 0
    BY <1>1, <2>1 DEF IInv, OutcomeInv, Unfinished
  <2>3. Outcomes(k)' = 1 /\ \A j \in Keys : j # k => Outcomes(j)' = Outcomes(j)
    BY <1>1, <1>2, <2>2, RecordOutcomes DEF IInv, Responses
  <2> QED BY <1>2, <1>8, <2>1, <2>3 DEF IInv, TypeOK, OutcomeInv
<1>10. CancelInv'
  <2>1. /\ \A j \in Keys : /\ Listed(j, successProcess) => Listed(j, successProcess')
                           /\ Listed(j, failedProcess) => Listed(j, failedProcess')
        /\ Listed(k, successProcess') \/ Listed(k, failedProcess')
        /\ r = "err" \/ failedProcess # <<>> => failedProcess' # <<>>
    BY <1>1, <1>2, RecordListed DEF IInv, Responses
  <2>2. \A j \in Keys : worker'[j] = "cancel" => worker[j] = "cancel" \/ r = "err"
    BY <1>3, <1>4
  <2>3. canceled' \/ (\E j \in Keys : worker'[j] = "cancel") => failedProcess' # <<>>
    BY <1>2, <2>1, <2>2 DEF IInv, CancelInv
  <2>4. ASSUME NEW j \in DOMAIN jobs
        PROVE  Unfinished(j)' \/ RunCtxDone' \/ Listed(j, successProcess') \/ Listed(j, failedProcess')
    <3>1. CASE j = k
      BY <3>1, <2>1
    <3>2. CASE j # k
      BY <3>2, <1>2, <1>8, <2>1 DEF IInv, TypeOK, CancelInv, RunCtxDone
    <3> QED BY <3>1, <3>2
  <2> QED BY <1>2, <2>3, <2>4 DEF CancelInv
<1> QED BY <1>6, <1>7, <1>9, <1>10 DEF IInv

LEMMA CancelRunInv ==
  ASSUME IInv, TypeOK', NEW k \in DOMAIN jobs, CancelRun(k)
  PROVE  IInv'
<1>1. k \in Keys /\ worker[k] = "cancel"
  BY DEF IInv, TypeOK, CancelRun
<1>2. UNCHANGED <<pc, opt, jobs, todo, cur, sem, wg, ctxDone, results, late>> /\ canceled'
  BY DEF CancelRun
<1>3. worker' = [worker EXCEPT ![k] = "release"]
  BY DEF CancelRun
<1>4. worker \in [Keys -> {"off", "exec", "cancel", "release", "finish"}]
  BY DEF IInv, TypeOK
<1>5. Holding' = Holding /\ Active' = Active
  BY <1>1, <1>3, <1>4 DEF Holding, Active
<1>6. SlotsInv' /\ WaitGroupInv' /\ LateInv'
  BY <1>2, <1>5 DEF IInv, SlotsInv, WaitGroupInv, LateInv, RunCtxDone
<1>7. PhaseInv'
  <2>1. \A j \in Keys : worker'[j] = "off" <=> worker[j] = "off"
    BY <1>1, <1>3, <1>4
  <2> QED BY <1>2, <1>5, <2>1 DEF IInv, TypeOK, PhaseInv
<1>8. \A j \in Keys : Unfinished(j)' <=> Unfinished(j)
  BY <1>1, <1>2, <1>3, <1>4 DEF Unfinished
<1>9. OutcomeInv'
  BY <1>2, <1>8 DEF IInv, TypeOK, OutcomeInv, Outcomes, results
<1>10. CancelInv'
  BY <1>1, <1>2 DEF IInv, CancelInv, RunCtxDone, results
<1> QED BY <1>6, <1>7, <1>9, <1>10 DEF IInv

LEMMA ReleaseSlotInv ==
  ASSUME IInv, TypeOK', NEW k \in DOMAIN jobs, ReleaseSlot(k)
  PROVE  IInv'
<1>1. k \in Keys /\ worker[k] = "release"
  BY DEF IInv, TypeOK, ReleaseSlot
<1>2. UNCHANGED <<pc, opt, jobs, todo, cur, wg, ctxDone, canceled, results, late>>
  BY DEF ReleaseSlot
<1>3. worker' = [worker EXCEPT ![k] = "finish"] /\ sem' = sem - 1
  BY DEF ReleaseSlot
<1>4. worker \in [Keys -> {"off", "exec", "cancel", "release", "finish"}]
  BY DEF IInv, TypeOK
<1>5. Holding' = Holding \ {k} /\ k \in Holding /\ Active' = Active
  BY <1>1, <1>3, <1>4 DEF Holding, Active
<1>6. SlotsInv'
  <2>1. IsFiniteSet(Holding)
    <3>1. Holding \in SUBSET Active
      BY DEF Holding, Active
    <3> QED BY <3>1, FS_Subset DEF IInv, WaitGroupInv
  <2>2. Cardinality(Holding') = Cardinality(Holding) - 1
    BY <1>5, <2>1, FS_RemoveElement
  <2>3. Workers(opt) \in Nat /\ sem \in Int
    BY WorkersType DEF IInv, TypeOK
  <2> QED BY <1>2, <1>3, <2>2, <2>3 DEF IInv, SlotsInv
<1>7. WaitGroupInv' /\ LateInv'
  BY <1>2, <1>5 DEF IInv, WaitGroupInv, LateInv, RunCtxDone
<1>8. PhaseInv'
  <2>1. \A j \in Keys : worker'[j] = "off" <=> worker[j] = "off"
    BY <1>1, <1>3, <1>4
  <2> QED BY <1>2, <1>5, <2>1 DEF IInv, TypeOK, PhaseInv
<1>9. \A j \in Keys : /\ Unfinished(j)' <=> Unfinished(j)
                      /\ worker'[j] = "cancel" => worker[j] = "cancel"
  BY <1>1, <1>2, <1>3, <1>4 DEF Unfinished
<1>10. OutcomeInv'
  BY <1>2, <1>9 DEF IInv, TypeOK, OutcomeInv, Outcomes, results
<1>11. CancelInv'
  BY <1>2, <1>9 DEF IInv, TypeOK, CancelInv, RunCtxDone, results
<1> QED BY <1>6, <1>7, <1>8, <1>10, <1>11 DEF IInv

LEMMA WgDoneInv ==
  ASSUME IInv, TypeOK', NEW k \in DOMAIN jobs, WgDone(k)
  PROVE  IInv'
<1>1. k \in Keys /\ worker[k] = "finish"
  BY DEF IInv, TypeOK, WgDone
<1>2. UNCHANGED <<pc, opt, jobs, todo, cur, sem, ctxDone, canceled, results, late>>
  BY DEF WgDone
<1>3. worker' = [worker EXCEPT ![k] = "off"] /\ wg' = wg - 1
  BY DEF WgDone
<1>4. worker \in [Keys -> {"off", "exec", "cancel", "release", "finish"}]
  BY DEF IInv, TypeOK
<1>5. Holding' = Holding /\ Active' = Active \ {k} /\ k \in Active
  BY <1>1, <1>3, <1>4 DEF Holding, Active
<1>6. SlotsInv' /\ LateInv'
  BY <1>2, <1>5 DEF IInv, SlotsInv, LateInv, RunCtxDone
<1>7. /\ IsFiniteSet(Active') /\ Cardinality(Active') = Cardinality(Active) - 1
      /\ Cardinality(Active) \in Nat /\ Cardinality(Active') \in Nat
  BY <1>5, FS_RemoveElement, FS_CardinalityType DEF IInv, WaitGroupInv
<1>8. WaitGroupInv'
  BY <1>2, <1>3, <1>7 DEF IInv, WaitGroupInv
<1>9. PhaseInv'
  <2>1. \A j \in Keys : worker[j] = "off" => worker'[j] = "off"
    BY <1>1, <1>3, <1>4
  <2>2. pc \notin {"idle", "collect"}
    BY <1>7 DEF IInv, PhaseInv, WaitGroupInv
  <2> QED BY <1>2, <1>5, <2>1, <2>2 DEF IInv, TypeOK, PhaseInv
<1>10. \A j \in Keys : /\ Unfinished(j)' <=> Unfinished(j)
                       /\ worker'[j] = "cancel" => worker[j] = "cancel"
  BY <1>1, <1>2, <1>3, <1>4 DEF Unfinished
<1>11. OutcomeInv'
  BY <1>2, <1>10 DEF IInv, TypeOK, OutcomeInv, Outcomes, results
<1>12. CancelInv'
  BY <1>2, <1>10 DEF IInv, TypeOK, CancelInv, RunCtxDone, results
<1> QED BY <1>6, <1>8, <1>9, <1>11, <1>12 DEF IInv

(* The steps that only move Run's own control, and the caller's context. *)
LEMMA ControlInv ==
  ASSUME IInv, TypeOK',
         \/ CancelCtx \/ EndLoop \/ Wait
         \/ \E k \in DOMAIN jobs : PanicJob(k)
         \/ \E s \in toCollect : ApplyCollector(s)
  PROVE  IInv'
<1>1. UNCHANGED <<opt, jobs, todo, cur, worker, sem, wg, canceled, successProcess, failedProcess, late>>
  BY DEF CancelCtx, EndLoop, Wait, PanicJob, ApplyCollector, results
<1>2. RunCtxDone => RunCtxDone'
  BY DEF CancelCtx, EndLoop, Wait, PanicJob, ApplyCollector, RunCtxDone
<1>3. SlotsInv' /\ WaitGroupInv' /\ LateInv'
  BY <1>1, <1>2 DEF IInv, SlotsInv, Holding, WaitGroupInv, Active, LateInv
<1>4. \/ pc' = pc
      \/ pc = "loop" /\ pc' = "wait" /\ todo = {}
      \/ pc = "wait" /\ pc' = "collect" /\ wg = 0
      \/ pc' = "crashed"
  BY DEF CancelCtx, EndLoop, Wait, PanicJob, ApplyCollector
<1>5. PhaseInv'
  BY <1>1, <1>4 DEF IInv, PhaseInv, Active
<1>6. OutcomeInv'
  <2>1. SUFFICES ASSUME pc' \in {"loop", "acquire", "wait"} PROVE OutcomeInv'
    BY DEF OutcomeInv
  <2>2. outputResp' = outputResp
    BY <2>1 DEF CancelCtx, EndLoop, Wait, PanicJob, ApplyCollector, results
  <2> QED BY <1>1, <1>4, <2>1, <2>2 DEF IInv, OutcomeInv, Outcomes, Unfinished
<1>7. CancelInv'
  BY <1>1, <1>2 DEF IInv, CancelInv, Unfinished
<1> QED BY <1>3, <1>5, <1>6, <1>7 DEF IInv

LEMMA NextInv == IInv /\ [Next]_vars => IInv'
<1> SUFFICES ASSUME IInv, [Next]_vars PROVE IInv'
  OBVIOUS
<1>1. TypeOK'
  BY NextType DEF IInv
<1>2. CASE UNCHANGED vars
  BY <1>2, <1>1 DEF vars, registrations, results, IInv, SlotsInv, Holding, WaitGroupInv, Active,
     PhaseInv, LateInv, RunCtxDone, OutcomeInv, Outcomes, Unfinished, CancelInv
<1>3. CASE Registration
  BY <1>1, <1>3, RegistrationInv
<1>4. ASSUME NEW done \in BOOLEAN, BeginRun(done) PROVE IInv'
  BY <1>1, <1>4, BeginRunInv
<1>5. CASE CancelCtx
  BY <1>1, <1>5, ControlInv
<1>6. CASE Main
  BY <1>1, <1>6, SkipJobInv, TakeJobInv, StartJobInv, ControlInv, EndRunInv
     DEF Main, PanicCollector, Return
<1>7. ASSUME NEW k \in DOMAIN jobs, Worker(k) PROVE IInv'
  BY <1>1, <1>7, FinishJobInv, ControlInv, CancelRunInv, ReleaseSlotInv, WgDoneInv DEF Worker
<1> QED BY <1>2, <1>3, <1>4, <1>5, <1>6, <1>7 DEF Next, Crashed

(* What sem and wg count, where every job of a Run is, and what it came to,  *)
(* hold together in every state.                                            *)
THEOREM Invariance == Spec => []IInv
<1>1. IInv /\ [Next]_vars => IInv'
  BY NextInv
<1> QED BY InitInv, <1>1, PTL DEF Spec

-----------------------------------------------------------------------------
(* What the invariant gives. *)

(* Every variable of the runner keeps its type. *)
THEOREM TypeCorrect == Spec => []TypeOK
<1>1. IInv => TypeOK
  BY DEF IInv
<1> QED BY <1>1, Invariance, PTL

(* At most `workers' step functions are in flight. *)
THEOREM WorkerLimitHolds == Spec => []WorkerLimit
<1>1. IInv => WorkerLimit
  <2> SUFFICES ASSUME IInv PROVE WorkerLimit
    OBVIOUS
  <2>1. Holding \in SUBSET Active /\ Executing \in SUBSET Holding
    BY DEF Holding, Active, Executing
  <2>2. IsFiniteSet(Holding) /\ Cardinality(Executing) <= Cardinality(Holding)
    BY <2>1, FS_Subset DEF IInv, WaitGroupInv
  <2>3. Cardinality(Executing) \in Int /\ Cardinality(Holding) \in Int /\ Workers(opt) \in Int
    BY <2>1, <2>2, FS_Subset, FS_CardinalityType, WorkersType DEF IInv, TypeOK
  <2> QED BY <2>2, <2>3 DEF IInv, SlotsInv, WorkerLimit
<1> QED BY <1>1, Invariance, PTL

(* With block_error at most one step function starts after Run's context    *)
(* is done.                                                                 *)
THEOREM AtMostOneLateHolds == Spec => []AtMostOneLate
<1>1. IInv => AtMostOneLate
  BY DEF IInv, LateInv, AtMostOneLate
<1> QED BY <1>1, Invariance, PTL

(* When Wait returns every job has exactly one outcome. *)
THEOREM EveryJobAccountedHolds == Spec => []EveryJobAccounted
<1>1. IInv => EveryJobAccounted
  <2> SUFFICES ASSUME IInv, pc = "wait", wg = 0, NEW k \in DOMAIN jobs
               PROVE  Outcomes(k) = 1
    BY DEF EveryJobAccounted
  <2>1. Active = {}
    BY FS_EmptySet, FS_CardinalityType DEF IInv, WaitGroupInv
  <2>2. k \in Keys /\ k # cur /\ todo = {}
    BY KeyIsNotNoKey DEF IInv, TypeOK, PhaseInv
  <2>3. ~Unfinished(k)
    BY <2>1, <2>2 DEF Unfinished, Active
  <2> QED BY <2>3 DEF IInv, OutcomeInv
<1> QED BY <1>1, Invariance, PTL

(* No failed process and no cancelled caller: every job succeeded. *)
THEOREM SuccessHolds == Spec => []SuccessMeansAllSucceeded
<1>1. IInv => SuccessMeansAllSucceeded
  <2> SUFFICES ASSUME IInv, pc = "collect", failedProcess = <<>>, ~ctxDone, NEW k \in DOMAIN jobs
               PROVE  Listed(k, successProcess)
    BY DEF SuccessMeansAllSucceeded
  <2>1. Active = {}
    BY FS_EmptySet, FS_CardinalityType DEF IInv, WaitGroupInv, PhaseInv
  <2>2. k \in Keys /\ k # cur /\ todo = {}
    BY KeyIsNotNoKey DEF IInv, TypeOK, PhaseInv
  <2>3. ~Unfinished(k) /\ ~RunCtxDone
    BY <2>1, <2>2 DEF Unfinished, Active, IInv, CancelInv, RunCtxDone
  <2>4. ~Listed(k, failedProcess)
    BY DEF Listed
  <2> QED BY <2>3, <2>4 DEF IInv, CancelInv
<1> QED BY <1>1, Invariance, PTL

-----------------------------------------------------------------------------
(* Run implements the work pool. *)

LEMMA PoolInitHolds == Init => Pool!PoolInit
<1> SUFFICES ASSUME Init PROVE Pool!PoolInit
  OBVIOUS
<1>1. DOMAIN jobs = {} /\ opt \in Option
  BY DefaultOptionType DEF Init
<1>2. JobStatus = [k \in Keys |-> "none"]
  BY <1>1, KeyIsNotNoKey DEF Init, JobStatus
<1>3. Workers(opt) \in Nat
  BY <1>1, WorkersType
<1>4. Phase = "idle" /\ ~(opt.blockError /\ RunCtxDone)
  BY DEF Init, Phase, RunCtxDone
<1> QED BY <1>2, <1>3, <1>4 DEF Pool!PoolInit, Pool!Unused

(* The pool's running jobs are the executing ones, and a job with a         *)
(* goroutine belongs to a Run in progress.                                  *)
LEMMA RunningIsExecuting ==
  ASSUME IInv
  PROVE  /\ Pool!Running = Executing
         /\ \A k \in Keys : worker[k] # "off" => k \in DOMAIN jobs /\ pc \notin {"idle", "collect"}
<1>1. \A k \in Keys : worker[k] # "off" => k \notin todo /\ k # cur /\ k \in DOMAIN jobs
  BY KeyIsNotNoKey DEF IInv, PhaseInv, Active
<1>2. Pool!Running = Executing
  BY <1>1 DEF Pool!Running, JobStatus, Executing
<1>3. pc \in {"idle", "collect"} => Active = {}
  BY FS_EmptySet, FS_CardinalityType DEF IInv, WaitGroupInv, PhaseInv
<1> QED BY <1>1, <1>2, <1>3 DEF Active

LEMMA PoolStep ==
  ASSUME IInv, IInv', [Next]_vars
  PROVE  [Pool!PoolNext]_(Pool!poolVars)
<1> DEFINE stopping == opt.blockError /\ RunCtxDone
           Stutters == UNCHANGED <<Phase, Workers(opt), JobStatus, stopping>>
<1>1. Stutters => UNCHANGED Pool!poolVars
  BY DEF Pool!poolVars
<1>2. CASE UNCHANGED vars \/ Registration
  <2>1. UNCHANGED <<pc, opt, jobs, todo, cur, worker, ctxDone, canceled>>
    BY <1>2 DEF vars, Registration, AddStep, AddInput, AddCollectorBatch, AddBatchInput,
                AddOptions, Register
  <2> QED BY <2>1, <1>1 DEF Phase, Workers, JobStatus, RunCtxDone
<1>3. ASSUME NEW done \in BOOLEAN, BeginRun(done) PROVE Pool!PoolNext
  <2>1. Phase = "idle" /\ Phase' = "busy"
    BY <1>3 DEF BeginRun, Phase
  <2>2. Workers(opt)' \in Nat
    BY WorkersType DEF IInv, TypeOK
  <2>3. \A k \in Keys : JobStatus'[k] \in {"none", "waiting"}
    BY <1>3 DEF BeginRun, JobStatus
  <2>4. JobStatus' \in [Keys -> {"none", "waiting"}]
    BY <2>3 DEF JobStatus
  <2>5. stopping' \in BOOLEAN
    BY DEF IInv, TypeOK, RunCtxDone, Option
  <2> QED BY <2>1, <2>2, <2>4, <2>5 DEF Pool!PoolNext, Pool!Begin
<1>4. ASSUME CancelCtx \/ \E k \in DOMAIN jobs : CancelRun(k)
      PROVE  Pool!PoolNext \/ UNCHANGED Pool!poolVars
  <2>1. UNCHANGED <<pc, opt, jobs, todo, cur>> /\ RunCtxDone'
    BY <1>4 DEF CancelCtx, CancelRun, RunCtxDone
  <2>2. Phase = "busy" /\ Phase' = "busy"
    <3>1. pc \notin {"idle", "crashed"}
      BY <1>4, RunningIsExecuting DEF CancelCtx, CancelRun, IInv, TypeOK
    <3> QED BY <2>1, <3>1 DEF Phase
  <2>3. JobStatus' = JobStatus
    <3>1. \A k \in Keys : worker'[k] = "exec" <=> worker[k] = "exec"
      BY <1>4 DEF CancelCtx, CancelRun, IInv, TypeOK
    <3> QED BY <2>1, <3>1 DEF JobStatus
  <2>4. Workers(opt)' = Workers(opt)
    BY <2>1 DEF Workers
  <2>5. CASE opt.blockError
    <3>1. stopping' = TRUE
      BY <2>1, <2>5
    <3> QED BY <2>2, <2>3, <2>4, <3>1 DEF Pool!PoolNext, Pool!Stop
  <2>6. CASE ~opt.blockError
    <3>1. ~stopping /\ ~stopping'
      BY <2>1, <2>6
    <3> QED BY <2>2, <2>3, <2>4, <3>1 DEF Pool!poolVars
  <2> QED BY <2>5, <2>6
<1>5. ASSUME NEW k \in todo, SkipJob(k) PROVE Pool!PoolNext
  <2>1. k \in Keys /\ k \in DOMAIN jobs /\ worker[k] = "off" /\ k # cur
    BY <1>5, KeyIsNotNoKey DEF IInv, TypeOK, PhaseInv, SkipJob
  <2>2. UNCHANGED <<pc, opt, jobs, cur, worker, ctxDone, canceled>> /\ todo' = todo \ {k} /\ stopping
    BY <1>5 DEF SkipJob
  <2>3. Phase = "busy" /\ Phase' = "busy"
    BY <1>5, <2>2 DEF SkipJob, Phase
  <2>4. JobStatus[k] = "waiting" /\ JobStatus' = [JobStatus EXCEPT ![k] = "over"]
    BY <1>5, <2>1, <2>2 DEF JobStatus
  <2>5. Workers(opt)' = Workers(opt) /\ stopping' = stopping
    BY <2>2 DEF Workers, RunCtxDone
  <2> QED BY <2>1, <2>2, <2>3, <2>4, <2>5 DEF Pool!PoolNext, Pool!PassOver
<1>6. ASSUME NEW k \in todo, TakeJob(k) PROVE Stutters
  <2>1. UNCHANGED <<opt, jobs, worker, ctxDone, canceled>> /\ todo' = todo \ {k} /\ cur' = k /\ cur = NoKey
    BY <1>6 DEF TakeJob, IInv, PhaseInv
  <2>2. JobStatus' = JobStatus
    BY <2>1, KeyIsNotNoKey DEF JobStatus
  <2>3. Phase' = Phase
    BY <1>6 DEF TakeJob, Phase
  <2> QED BY <2>1, <2>2, <2>3 DEF Workers, RunCtxDone
<1>7. CASE StartJob
  <2>1. cur # NoKey /\ cur \in Keys /\ cur \notin todo
    BY <1>7 DEF IInv, TypeOK, PhaseInv, StartJob
  <2>2. /\ UNCHANGED <<opt, jobs, todo, ctxDone, canceled>> /\ cur' = NoKey
        /\ worker' = [worker EXCEPT ![cur] = "exec"]
    BY <1>7 DEF StartJob
  <2>3. Phase = "busy" /\ Phase' = "busy"
    BY <1>7 DEF StartJob, Phase
  <2>4. JobStatus[cur] = "waiting" /\ JobStatus' = [JobStatus EXCEPT ![cur] = "running"]
    <3>1. \A j \in Keys : worker'[j] = IF j = cur THEN "exec" ELSE worker[j]
      BY <2>1, <2>2 DEF IInv, TypeOK
    <3>2. \A j \in Keys : j # cur'
      BY <2>2, KeyIsNotNoKey
    <3>3. \A j \in Keys : JobStatus'[j] = IF j = cur THEN "running" ELSE JobStatus[j]
      BY <2>1, <2>2, <3>1, <3>2 DEF JobStatus
    <3> QED BY <2>1, <3>3 DEF JobStatus
  <2>5. Workers(opt)' = Workers(opt) /\ stopping' = stopping
    BY <2>2 DEF Workers, RunCtxDone
  <2>6. Cardinality(Executing) < Workers(opt)
    <3>1. Holding \in SUBSET Active /\ Executing \in SUBSET Holding
      BY DEF Holding, Active, Executing
    <3>2. /\ IsFiniteSet(Holding) /\ Cardinality(Executing) <= Cardinality(Holding)
          /\ Cardinality(Holding) \in Int /\ Cardinality(Executing) \in Int
      BY <3>1, FS_Subset, FS_CardinalityType DEF IInv, WaitGroupInv
    <3>3. Cardinality(Holding) < Workers(opt) /\ Workers(opt) \in Int
      BY <1>7, WorkersType DEF StartJob, IInv, SlotsInv, TypeOK
    <3> QED BY <3>2, <3>3
  <2>7. Cardinality(Pool!Running) < Workers(opt)
    BY <2>6, RunningIsExecuting
  <2>8. Pool!Start(cur)
    BY <2>3, <2>4, <2>5, <2>7 DEF Pool!Start, Pool!Cardinality, Cardinality
  <2> QED BY <2>1, <2>8 DEF Pool!PoolNext
<1>8. ASSUME EndLoop \/ Wait \/ \E s \in toCollect : ApplyCollector(s)
      PROVE  Stutters
  <2>1. UNCHANGED <<opt, jobs, todo, cur, worker, ctxDone, canceled>>
    BY <1>8 DEF EndLoop, Wait, ApplyCollector
  <2>2. Phase = Phase'
    BY <1>8 DEF EndLoop, Wait, ApplyCollector, Phase
  <2> QED BY <2>1, <2>2 DEF Workers, JobStatus, RunCtxDone
<1>9. ASSUME pc = "collect", EndRun PROVE Pool!PoolNext
  <2>1. \A k \in Keys : JobStatus[k] \in {"none", "over"}
    BY <1>9, RunningIsExecuting, KeyIsNotNoKey DEF JobStatus, IInv, PhaseInv
  <2>2. Phase = "busy" /\ Phase' = "idle"
    BY <1>9 DEF EndRun, Phase
  <2>3. JobStatus' = [k \in Keys |-> "none"]
    BY <1>9, KeyIsNotNoKey DEF EndRun, JobStatus
  <2>4. Workers(opt)' \in Nat
    BY WorkersType DEF IInv, TypeOK
  <2>5. stopping' = FALSE
    BY <1>9 DEF EndRun, DefaultOption
  <2> QED BY <2>1, <2>2, <2>3, <2>4, <2>5 DEF Pool!PoolNext, Pool!End, Pool!Unused
<1>10. ASSUME NEW k \in DOMAIN jobs, NEW r \in {"ok", "err"}, FinishJob(k, r) PROVE Pool!PoolNext
  <2>1. k \in Keys /\ worker[k] = "exec" /\ k \notin todo /\ k # cur
    BY <1>10, KeyIsNotNoKey DEF IInv, TypeOK, PhaseInv, FinishJob
  <2>2. /\ UNCHANGED <<pc, opt, jobs, todo, cur, ctxDone, canceled>>
        /\ worker'[k] # "exec" /\ \A j \in Keys : j # k => worker'[j] = worker[j]
    BY <1>10, <2>1 DEF FinishJob, IInv, TypeOK
  <2>3. Phase = "busy" /\ Phase' = "busy"
    BY <1>10, <2>1, <2>2, RunningIsExecuting DEF FinishJob, Phase
  <2>4. JobStatus[k] = "running" /\ JobStatus' = [JobStatus EXCEPT ![k] = "over"]
    BY <2>1, <2>2 DEF JobStatus
  <2>5. Workers(opt)' = Workers(opt) /\ stopping' = stopping
    BY <2>2 DEF Workers, RunCtxDone
  <2> QED BY <2>1, <2>3, <2>4, <2>5 DEF Pool!PoolNext, Pool!Finish
<1>11. ASSUME NEW k \in DOMAIN jobs, PanicJob(k) PROVE Pool!PoolNext
  <2>1. k \in Keys /\ worker[k] = "exec"
    BY <1>11 DEF IInv, TypeOK, PanicJob
  <2>2. UNCHANGED <<opt, jobs, todo, cur, worker, ctxDone, canceled>>
    BY <1>11 DEF PanicJob
  <2>3. Phase = "busy" /\ Phase' = "crashed"
    BY <1>11, <2>1, RunningIsExecuting DEF PanicJob, Phase
  <2> QED BY <2>2, <2>3 DEF Pool!PoolNext, Pool!Crash, Workers, JobStatus, RunCtxDone
<1>12. ASSUME NEW k \in DOMAIN jobs, ReleaseSlot(k) \/ WgDone(k) PROVE Stutters
  <2>1. UNCHANGED <<pc, opt, jobs, todo, cur, ctxDone, canceled>>
    BY <1>12 DEF ReleaseSlot, WgDone
  <2>2. \A j \in Keys : worker'[j] = "exec" <=> worker[j] = "exec"
    BY <1>12 DEF ReleaseSlot, WgDone, IInv, TypeOK
  <2> QED BY <2>1, <2>2 DEF Phase, Workers, JobStatus, RunCtxDone
<1> HIDE DEF Stutters
<1>13. Main => Pool!PoolNext \/ UNCHANGED Pool!poolVars
  BY <1>1, <1>5, <1>6, <1>7, <1>8, <1>9 DEF Main, PanicCollector, Return
<1>14. ASSUME NEW k \in DOMAIN jobs, Worker(k) PROVE Pool!PoolNext \/ UNCHANGED Pool!poolVars
  BY <1>1, <1>4, <1>10, <1>11, <1>12, <1>14 DEF Worker
<1> QED BY <1>2, <1>3, <1>4, <1>13, <1>14 DEF Next, Crashed

(* Every behaviour of Run is one of the abstract work pool. *)
THEOREM Refinement == Spec => ImplementsPool
<1>1. IInv /\ IInv' /\ [Next]_vars => [Pool!PoolNext]_(Pool!poolVars)
  BY PoolStep
<1> QED BY <1>1, PoolInitHolds, Invariance, PTL DEF Spec, ImplementsPool

-----------------------------------------------------------------------------
(* What the jobs report, and what the collectors and the caller are given.  *)

LEMMA ReportInit == Init => ReportInv
<1> SUFFICES ASSUME Init PROVE ReportInv
  OBVIOUS
<1>1. DOMAIN jobs = {} /\ pc = "idle" /\ \A s \in Steps : collected[s] = <<>>
  BY DEF Init
<1> QED BY <1>1 DEF ReportInv, JobsInv, ResultsInv, CollectedInv, RespondedInv, InProgress

(* The jobs of one step, as buildJobs cuts them. *)
LEMMA BuiltChunks ==
  ASSUME TypeOK, NEW k \in DOMAIN BuildJobs, k[2] = "batch"
  PROVE  /\ \A i \in 1 .. k[3] : BatchKey(k[1], i) \in DOMAIN BuildJobs
         /\ \A j \in DOMAIN BuildJobs : j[1] = k[1] => j[2] = "batch" /\ j[3] >= 1
<1>1. DOMAIN BuildJobs = UNION {JobKeysOf(s) : s \in steps}
  BY DEF BuildJobs
<1>2. ASSUME NEW s \in steps, NEW j \in JobKeysOf(s)
      PROVE  j[1] = s
  BY <1>2 DEF JobKeysOf, PlainKey, AllKey, BatchKey
<1> DEFINE s == k[1]
           n == Chunks(batchInput[s], activeOption.batchProcess)
<1>3. s \in steps /\ k \in JobKeysOf(s)
  BY <1>1, <1>2
<1>4. batchInput[s] # 0 /\ activeOption.batchProcess > 0
  BY <1>3 DEF JobKeysOf, PlainKey, AllKey
<1>5. JobKeysOf(s) = {BatchKey(s, i) : i \in 1 .. n}
  BY <1>4 DEF JobKeysOf
<1>6. n \in Nat
  <2>1. batchInput[s] \in Nat \ {0} /\ activeOption.batchProcess \in Nat \ {0}
    BY <1>3, <1>4, BoundsAssumption DEF TypeOK, Option
  <2>2. n \in 1 .. batchInput[s]
    BY <2>1, ChunksBound
  <2> QED BY <2>1, <2>2
<1> HIDE DEF s, n
<1>7. PICK c \in 1 .. n : k = BatchKey(s, c)
  BY <1>3, <1>5
<1>8. k[3] = c
  BY <1>7 DEF BatchKey
<1>9. \A i \in 1 .. k[3] : BatchKey(s, i) \in DOMAIN BuildJobs
  BY <1>1, <1>3, <1>5, <1>6, <1>8
<1>10. \A j \in DOMAIN BuildJobs : j[1] = s => j[2] = "batch" /\ j[3] >= 1
  <2> SUFFICES ASSUME NEW j \in DOMAIN BuildJobs, j[1] = s
               PROVE  j[2] = "batch" /\ j[3] >= 1
    OBVIOUS
  <2>1. j \in JobKeysOf(s)
    BY <1>1, <1>2
  <2>2. PICK i \in 1 .. n : j = BatchKey(s, i)
    BY <2>1, <1>5
  <2> QED BY <2>2, <1>6 DEF BatchKey
<1> QED BY <1>9, <1>10 DEF s

LEMMA BeginRunReport ==
  ASSUME IInv, NEW done \in BOOLEAN, BeginRun(done)
  PROVE  ReportInv'
<1>1. /\ jobs' = BuildJobs /\ todo' = DOMAIN jobs'
      /\ batchResults' = [s \in Steps |-> <<>>] /\ collected' = [s \in Steps |-> <<>>]
  BY DEF BeginRun
<1>2. JobsInv'
  BY <1>1, BuiltChunks DEF IInv, JobsInv
<1>3. \A k \in DOMAIN jobs' : Unfinished(k)'
  BY <1>1 DEF Unfinished
<1>4. ResultsInv' /\ CollectedInv' /\ RespondedInv'
  BY <1>1, <1>3 DEF ResultsInv, CollectedInv, RespondedInv
<1> QED BY <1>2, <1>4 DEF ReportInv

LEMMA EndRunReport ==
  ASSUME EndRun
  PROVE  ReportInv'
<1>1. DOMAIN jobs' = {} /\ pc' = "idle" /\ \A s \in Steps : collected'[s] = <<>>
  BY DEF EndRun
<1> QED BY <1>1 DEF ReportInv, JobsInv, ResultsInv, CollectedInv, RespondedInv, InProgress

LEMMA NeverOccurs ==
  ASSUME NEW q \in Seq(Keys), NEW k, Occurrences(q, k) = 0
  PROVE  ~Listed(k, q)
<1> DEFINE at == {i \in DOMAIN q : q[i] = k}
<1>1. DOMAIN q = 1 .. Len(q) /\ Len(q) \in Nat
  OBVIOUS
<1>2. IsFiniteSet(at)
  <2>1. IsFiniteSet(1 .. Len(q)) /\ at \in SUBSET (1 .. Len(q))
    BY <1>1, FS_Interval
  <2> QED BY <2>1, FS_Subset
<1>3. at = {}
  BY <1>2, FS_EmptySet DEF Occurrences
<1> QED BY <1>3 DEF Listed

(* A job without an outcome files one: it is found under its own key, and   *)
(* nothing moves under the others.                                          *)
LEMMA RecordReport ==
  ASSUME IInv, ReportInv, pc \in {"loop", "acquire", "wait"},
         NEW k \in DOMAIN jobs, NEW r \in Responses, Unfinished(k), RecordResponse(k, r),
         UNCHANGED <<pc, jobs, collected>>,
         \A j \in DOMAIN jobs : j # k => (Unfinished(j)' <=> Unfinished(j))
  PROVE  ReportInv'
<1>1. /\ k \in Keys /\ DOMAIN jobs \subseteq Keys
      /\ successProcess \in Seq(Keys) /\ failedProcess \in Seq(Keys)
      /\ outputResp \in [Keys -> Responses \cup {"absent", "merged"}]
      /\ batchResults \in [Steps -> Seq(Responses \cup {"zero"})]
  BY DEF IInv, TypeOK
<1>2. ~Listed(k, successProcess) /\ ~Listed(k, failedProcess)
  <2>1. Outcomes(k) = 0
    BY DEF IInv, OutcomeInv
  <2>2. Occurrences(successProcess, k) \in Nat /\ Occurrences(failedProcess, k) \in Nat
    BY <1>1, OccurrencesAppend
  <2>3. Occurrences(successProcess, k) = 0 /\ Occurrences(failedProcess, k) = 0
    BY <2>1, <2>2 DEF Outcomes
  <2> QED BY <1>1, <2>3, NeverOccurs
<1>3. \A j : /\ Listed(j, successProcess') <=> Listed(j, successProcess) \/ (r = "ok" /\ j = k)
             /\ Listed(j, failedProcess') <=> Listed(j, failedProcess) \/ (r = "err" /\ j = k)
  <2>1. \A j : /\ Listed(j, Append(successProcess, k)) <=> Listed(j, successProcess) \/ j = k
               /\ Listed(j, Append(failedProcess, k)) <=> Listed(j, failedProcess) \/ j = k
    BY <1>1, ListedAppend
  <2> QED BY <2>1 DEF RecordResponse
<1>4. /\ OutcomeOf(k)' = r
      /\ \A j \in DOMAIN jobs : j # k => OutcomeOf(j)' = OutcomeOf(j)
  BY <1>2, <1>3 DEF OutcomeOf, Responses
<1>5. JobsInv' /\ CollectedInv'
  <2>1. \A s \in Steps : collected[s] = <<>>
    BY DEF ReportInv, CollectedInv
  <2> QED BY <2>1 DEF ReportInv, JobsInv, CollectedInv
<1>6. /\ outputResp'[k] = r
      /\ \A j \in Keys : j # k => outputResp'[j] = outputResp[j]
  BY <1>1 DEF RecordResponse, Responses
<1>7. RespondedInv'
  <2> SUFFICES ASSUME NEW j \in DOMAIN jobs, ~Unfinished(j)'
               PROVE  outputResp'[j] = OutcomeOf(j)'
    BY DEF RespondedInv
  <2>1. CASE j = k
    BY <2>1, <1>4, <1>6
  <2>2. CASE j # k
    <3>1. j \in Keys /\ ~Unfinished(j) /\ j[1] \in Steps
      BY <2>2, <1>1 DEF Keys
    <3>2. outputResp[j] = OutcomeOf(j)
      BY <3>1 DEF ReportInv, RespondedInv, InProgress
    <3> QED BY <2>2, <3>1, <3>2, <1>4, <1>6
  <2> QED BY <2>1, <2>2
<1>8. ResultsInv'
  <2>1. CASE k[2] # "batch"
    <3>1. batchResults' = batchResults
      BY <2>1 DEF RecordResponse
    <3> QED BY <2>1, <3>1, <1>4 DEF ReportInv, ResultsInv, InProgress
  <2>2. CASE k[2] = "batch"
    <3> DEFINE s == k[1]
               q == batchResults[s]
               n == IF Len(q) < k[3] THEN k[3] ELSE Len(q)
    <3>1. s \in Steps /\ k[3] \in Nat /\ k[3] >= 1 /\ k = BatchKey(s, k[3])
      <4>1. k[3] >= 1
        BY <2>2 DEF ReportInv, JobsInv
      <4> QED BY <4>1, <2>2, <1>1, BoundsAssumption DEF Keys, BatchKey
    <3>2. q \in Seq(Responses \cup {"zero"}) /\ Len(q) \in Nat /\ DOMAIN q = 1 .. Len(q) /\ n \in Nat
      BY <1>1, <3>1
    <3>3. batchResults' = [batchResults EXCEPT ![s] = [Grown(q, k[3]) EXCEPT ![k[3]] = r]]
      BY <2>2 DEF RecordResponse
    <3>4. /\ batchResults'[s] = [i \in 1 .. n |-> IF i = k[3] THEN r ELSE IF i <= Len(q) THEN q[i] ELSE "zero"]
          /\ \A t \in Steps : t # s => batchResults'[t] = batchResults[t]
      BY <1>1, <3>1, <3>3 DEF Grown
    <3> HIDE DEF n, q
    <3>5. /\ DOMAIN batchResults'[s] = 1 .. n
          /\ k[3] \in 1 .. n /\ batchResults'[s][k[3]] = r
          /\ \A i \in DOMAIN q : i # k[3] => i \in 1 .. n /\ batchResults'[s][i] = q[i]
      <4>1. k[3] \in 1 .. n /\ DOMAIN q \subseteq 1 .. n
        BY <3>1, <3>2 DEF n
      <4> QED BY <3>2, <3>4, <4>1
    <3>6. ASSUME NEW t \in Steps, NEW i \in DOMAIN batchResults'[t]
          PROVE  BatchKey(t, i) \in DOMAIN jobs
      <4>1. CASE t # s
        BY <4>1, <3>4 DEF ReportInv, ResultsInv, InProgress
      <4>2. CASE t = s /\ i \in DOMAIN q
        BY <4>2 DEF ReportInv, ResultsInv, InProgress, q
      <4>3. CASE t = s /\ i \notin DOMAIN q
        <5>1. i \in 1 .. k[3]
          BY <3>1, <3>2, <3>5, <4>3 DEF n
        <5> QED BY <2>2, <4>3, <5>1 DEF ReportInv, JobsInv
      <4> QED BY <4>1, <4>2, <4>3
    <3>7. ASSUME NEW j \in DOMAIN jobs, j[2] = "batch", ~Unfinished(j)'
          PROVE  /\ j[3] \in DOMAIN batchResults'[j[1]]
                 /\ batchResults'[j[1]][j[3]] = OutcomeOf(j)'
      <4>1. CASE j = k
        BY <4>1, <3>5, <1>4
      <4>2. CASE j # k
        <5>1. /\ j[3] \in DOMAIN batchResults[j[1]] /\ batchResults[j[1]][j[3]] = OutcomeOf(j)
              /\ OutcomeOf(j)' = OutcomeOf(j) /\ j[1] \in Steps
          BY <4>2, <3>7, <1>1, <1>4 DEF ReportInv, ResultsInv, InProgress, Keys
        <5>2. CASE j[1] # s
          BY <5>1, <5>2, <3>4
        <5>3. CASE j[1] = s
          <6>1. j[3] # k[3]
            <7>1. j = <<j[1], j[2], j[3]>> /\ k = <<k[1], k[2], k[3]>>
              BY <1>1 DEF Keys
            <7> QED BY <4>2, <5>3, <2>2, <3>7, <7>1
          <6> QED BY <5>1, <5>3, <6>1, <3>5 DEF q
        <5> QED BY <5>2, <5>3
      <4> QED BY <4>1, <4>2
    <3> QED BY <3>6, <3>7 DEF ResultsInv
  <2> QED BY <2>1, <2>2
<1> QED BY <1>5, <1>7, <1>8 DEF ReportInv

(* A step that files nothing and ends no job. *)
LEMMA QuietReport ==
  ASSUME ReportInv,
         UNCHANGED <<jobs, results, collected>>,
         InProgress' => InProgress, pc = "collect" => pc' = "collect",
         \A j \in DOMAIN jobs : Unfinished(j)' <=> Unfinished(j)
  PROVE  ReportInv'
<1>1. \A j : OutcomeOf(j)' = OutcomeOf(j)
  BY DEF OutcomeOf, Listed, results
<1>2. ResultsInv'
  BY <1>1 DEF ReportInv, ResultsInv, results
<1>3. RespondedInv'
  <2>1. \A k : /\ GivenToCollector(k)' <=> GivenToCollector(k)
               /\ OverwrittenByCollector(k)' <=> OverwrittenByCollector(k)
    BY <1>1 DEF GivenToCollector, OverwrittenByCollector
  <2>2. outputResp' = outputResp /\ DOMAIN jobs' = DOMAIN jobs
    BY DEF results
  <2> QED BY <1>1, <2>1, <2>2 DEF ReportInv, RespondedInv
<1>4. JobsInv' /\ CollectedInv'
  BY DEF ReportInv, JobsInv, CollectedInv, results
<1> QED BY <1>2, <1>3, <1>4 DEF ReportInv

(* A collector is given all its step reported; where it was given anything, *)
(* its response stands for those of the chunks.                             *)
LEMMA CollectReport ==
  ASSUME IInv, ReportInv, NEW s \in toCollect, ApplyCollector(s)
  PROVE  ReportInv'
<1>1. /\ UNCHANGED <<pc, jobs, todo, cur, worker, successProcess, failedProcess, batchResults>>
      /\ pc = "collect" /\ s \in Steps
      /\ collected' = [collected EXCEPT ![s] = batchResults[s]]
      /\ outputResp' = [k \in Keys |->
            IF k = PlainKey(s) THEN "merged"
            ELSE IF batchResults[s] # <<>> /\ k[1] = s /\ k[2] \in {"batch", "all"} THEN "absent"
            ELSE outputResp[k]]
      /\ collected \in [Steps -> Seq(Responses \cup {"zero"})] /\ DOMAIN jobs \subseteq Keys
  BY DEF ApplyCollector, IInv, TypeOK
<1>2. \A j : /\ OutcomeOf(j)' = OutcomeOf(j)
             /\ Unfinished(j)' <=> Unfinished(j)
  BY <1>1 DEF OutcomeOf, Listed, Unfinished
<1>3. JobsInv' /\ ResultsInv'
  BY <1>1, <1>2 DEF ReportInv, JobsInv, ResultsInv, InProgress
<1>4. CollectedInv'
  BY <1>1 DEF ReportInv, CollectedInv
<1>5. RespondedInv'
  <2> SUFFICES ASSUME NEW k \in DOMAIN jobs, ~Unfinished(k)'
               PROVE  \/ outputResp'[k] = OutcomeOf(k)
                      \/ /\ outputResp'[PlainKey(k[1])] = "merged"
                         /\ GivenToCollector(k)' \/ OverwrittenByCollector(k)'
    BY <1>1, <1>2 DEF RespondedInv
  <2>1. /\ k \in Keys /\ k[1] \in Steps /\ PlainKey(k[1]) \in Keys
        /\ PlainKey(k[1])[1] = k[1] /\ PlainKey(k[1])[2] = "plain"
    BY <1>1, BoundsAssumption DEF Keys, PlainKey
  <2>2. \/ outputResp[k] = OutcomeOf(k)
        \/ /\ outputResp[PlainKey(k[1])] = "merged"
           /\ GivenToCollector(k) \/ OverwrittenByCollector(k)
    BY <1>1, <1>2 DEF ReportInv, RespondedInv, InProgress
  <2>3. PlainKey(s) \in Keys /\ outputResp'[PlainKey(s)] = "merged"
    BY <1>1, BoundsAssumption DEF Keys, PlainKey
  <2>4. CASE k[1] # s
    <3>1. collected'[k[1]] = collected[k[1]]
      BY <1>1, <2>1, <2>4
    <3>2. k # PlainKey(s) /\ PlainKey(k[1]) # PlainKey(s)
      BY <2>1, <2>4 DEF PlainKey
    <3>3. outputResp'[k] = outputResp[k] /\ outputResp'[PlainKey(k[1])] = outputResp[PlainKey(k[1])]
      BY <1>1, <2>1, <2>4, <3>2
    <3>4. /\ GivenToCollector(k) => GivenToCollector(k)'
          /\ OverwrittenByCollector(k) => OverwrittenByCollector(k)'
      BY <1>2, <3>1 DEF GivenToCollector, OverwrittenByCollector
    <3> QED BY <2>2, <3>3, <3>4
  <2>5. CASE k[1] = s /\ batchResults[s] # <<>>
    <3>1. 1 \in DOMAIN batchResults[s]
      <4>1. batchResults[s] \in Seq(Responses \cup {"zero"})
        BY <1>1 DEF IInv, TypeOK
      <4> QED BY <2>5, <4>1, EmptySeq
    <3>2. BatchKey(s, 1) \in DOMAIN jobs /\ BatchKey(s, 1)[1] = s /\ BatchKey(s, 1)[2] = "batch"
      BY <1>1, <3>1 DEF ReportInv, ResultsInv, InProgress, BatchKey
    <3>3. k[2] = "batch"
      BY <2>5, <3>2 DEF ReportInv, JobsInv
    <3>4. k[3] \in DOMAIN batchResults[s] /\ batchResults[s][k[3]] = OutcomeOf(k)
      BY <1>1, <1>2, <2>5, <3>3 DEF ReportInv, ResultsInv, InProgress
    <3>5. collected'[k[1]] = batchResults[s]
      BY <1>1, <2>5
    <3>6. GivenToCollector(k)'
      BY <1>2, <3>3, <3>4, <3>5 DEF GivenToCollector
    <3> QED BY <2>3, <2>5, <3>6
  <2>6. CASE k[1] = s /\ batchResults[s] = <<>>
    <3>1. collected[s] = <<>> /\ collected'[s] = <<>>
      BY <1>1, <2>6 DEF ReportInv, CollectedInv
    <3>2. CASE k[2] = "plain"
      BY <2>3, <2>6, <3>1, <3>2 DEF OverwrittenByCollector
    <3>3. CASE k[2] # "plain"
      <4>1. outputResp'[k] = outputResp[k]
        BY <1>1, <2>1, <2>6, <3>3
      <4>2. ~GivenToCollector(k) /\ ~OverwrittenByCollector(k)
        BY <2>6, <3>1, <3>3 DEF GivenToCollector, OverwrittenByCollector
      <4> QED BY <2>2, <4>1, <4>2
    <3> QED BY <3>2, <3>3
  <2> QED BY <2>4, <2>5, <2>6
<1> QED BY <1>3, <1>4, <1>5 DEF ReportInv

LEMMA NextReport == IInv /\ ReportInv /\ [Next]_vars => ReportInv'
<1> SUFFICES ASSUME IInv, ReportInv, [Next]_vars PROVE ReportInv'
  OBVIOUS
<1>1. CASE UNCHANGED vars
  BY <1>1, QuietReport DEF vars, registrations, Unfinished, InProgress
<1>2. CASE Registration
  <2>1. UNCHANGED <<pc, jobs, todo, cur, worker, results, collected>>
    BY <1>2 DEF Registration, AddStep, AddInput, AddCollectorBatch, AddBatchInput, AddOptions, Register
  <2> QED BY <2>1, QuietReport DEF Unfinished, InProgress
<1>3. CASE CancelCtx
  BY <1>3, QuietReport DEF CancelCtx, Unfinished, InProgress
<1>4. ASSUME NEW k \in todo, SkipJob(k)
      PROVE  ReportInv'
  <2>1. /\ UNCHANGED <<pc, jobs, cur, worker, collected>> /\ todo' = todo \ {k} /\ pc = "loop"
        /\ RecordResponse(k, "skipped") /\ "skipped" \in Responses /\ k \in DOMAIN jobs
    BY <1>4 DEF SkipJob, IInv, TypeOK, Responses
  <2>2. Unfinished(k) /\ \A j \in DOMAIN jobs : j # k => (Unfinished(j)' <=> Unfinished(j))
    BY <2>1 DEF Unfinished
  <2> QED BY <2>1, <2>2, RecordReport
<1>5. ASSUME NEW k \in todo, TakeJob(k)
      PROVE  ReportInv'
  <2>1. UNCHANGED <<jobs, worker, results, collected>> /\ pc = "loop" /\ pc' = "acquire"
    BY <1>5 DEF TakeJob
  <2>2. \A j \in DOMAIN jobs : Unfinished(j)' <=> Unfinished(j)
    <3>1. \A j \in DOMAIN jobs : j # NoKey
      BY KeyIsNotNoKey DEF IInv, TypeOK
    <3> QED BY <1>5, <2>1, <3>1 DEF TakeJob, Unfinished, IInv, PhaseInv
  <2> QED BY <2>1, <2>2, QuietReport DEF InProgress
<1>6. CASE StartJob
  <2>1. UNCHANGED <<jobs, todo, results, collected>> /\ pc = "acquire" /\ pc' = "loop"
    BY <1>6 DEF StartJob
  <2>2. \A j \in DOMAIN jobs : Unfinished(j)' <=> Unfinished(j)
    <3>1. \A j \in DOMAIN jobs : j # NoKey /\ j \in Keys
      BY KeyIsNotNoKey DEF IInv, TypeOK
    <3>2. \A j \in DOMAIN jobs : worker'[j] = IF j = cur THEN "exec" ELSE worker[j]
      BY <1>6, <3>1 DEF StartJob, IInv, TypeOK
    <3> QED BY <1>6, <2>1, <3>1, <3>2 DEF StartJob, Unfinished
  <2> QED BY <2>1, <2>2, QuietReport DEF InProgress
<1>7. CASE EndLoop \/ Wait
  <2>1. /\ UNCHANGED <<jobs, todo, cur, worker, results, collected>>
        /\ pc \in {"loop", "wait"} /\ pc' \in {"wait", "collect"}
    BY <1>7 DEF EndLoop, Wait
  <2> QED BY <2>1, QuietReport DEF Unfinished, InProgress
<1>8. ASSUME NEW k \in DOMAIN jobs, Worker(k)
      PROVE  ReportInv'
  <2>1. k \in Keys /\ worker[k] # "off" /\ pc \notin {"idle", "collect", "crashed"}
    BY <1>8, RunningIsExecuting DEF Worker, FinishJob, PanicJob, CancelRun, ReleaseSlot, WgDone, IInv, TypeOK
  <2>2. pc \in {"loop", "acquire", "wait"}
    BY <2>1 DEF IInv, TypeOK
  <2>3. ASSUME NEW r \in {"ok", "err"}, FinishJob(k, r)
        PROVE  ReportInv'
    <3>1. UNCHANGED <<pc, jobs, todo, cur, collected>> /\ RecordResponse(k, r) /\ r \in Responses
      BY <2>3 DEF FinishJob, Responses
    <3>2. Unfinished(k) /\ \A j \in DOMAIN jobs : j # k => (Unfinished(j)' <=> Unfinished(j))
      <4>1. \A j \in Keys : j # k => worker'[j] = worker[j]
        BY <2>1, <2>3 DEF FinishJob, IInv, TypeOK
      <4> QED BY <2>3, <3>1, <4>1 DEF FinishJob, Unfinished, IInv, TypeOK
    <3> QED BY <2>2, <3>1, <3>2, RecordReport
  <2>4. ASSUME PanicJob(k) \/ CancelRun(k) \/ ReleaseSlot(k) \/ WgDone(k)
        PROVE  ReportInv'
    <3>1. UNCHANGED <<jobs, todo, cur, results, collected>> /\ (pc' = pc \/ pc' = "crashed")
      BY <2>4 DEF PanicJob, CancelRun, ReleaseSlot, WgDone
    <3>2. \A j \in Keys : worker'[j] = "exec" <=> worker[j] = "exec"
      BY <2>1, <2>4 DEF PanicJob, CancelRun, ReleaseSlot, WgDone, IInv, TypeOK
    <3>3. \A j \in DOMAIN jobs : Unfinished(j)' <=> Unfinished(j)
      BY <3>1, <3>2 DEF Unfinished, IInv, TypeOK
    <3> QED BY <2>2, <3>1, <3>3, QuietReport DEF InProgress
  <2> QED BY <1>8, <2>3, <2>4 DEF Worker
<1>9. Main => ReportInv'
  BY <1>4, <1>5, <1>6, <1>7, CollectReport, EndRunReport DEF Main, PanicCollector, Return
<1> QED BY <1>1, <1>2, <1>3, <1>8, <1>9, BeginRunReport DEF Next, Crashed

(* The chunks of a batch, the slots of their results, the list a collector  *)
(* gets and the recorded responses fit what the jobs came to, in every state.*)
THEOREM ReportInvariance == Spec => []ReportInv
<1>1. IInv /\ ReportInv /\ [Next]_vars => ReportInv'
  BY NextReport
<1> QED BY <1>1, ReportInit, Invariance, PTL DEF Spec

(* goroutine.go:389: a collector that is given batch results is given those *)
(* of all the chunks of its step, in order, in whatever order they ended.   *)
THEOREM CollectorSeesEveryChunkHolds == Spec => []CollectorSeesEveryChunk
<1>1. IInv /\ ReportInv => CollectorSeesEveryChunk
  <2> SUFFICES ASSUME IInv, ReportInv, NEW s \in Steps, collected[s] # <<>>
               PROVE  /\ DOMAIN collected[s] = {k[3] : k \in {j \in DOMAIN jobs : j[1] = s}}
                      /\ \A i \in DOMAIN collected[s] :
                            collected[s][i] = OutcomeOf(BatchKey(s, i))
    BY DEF CollectorSeesEveryChunk, OutcomeOf
  <2>1. pc = "collect" /\ collected[s] = batchResults[s]
    BY DEF ReportInv, CollectedInv
  <2>2. \A k \in DOMAIN jobs : ~Unfinished(k)
    <3>1. Active = {} /\ todo = {} /\ cur = NoKey
      BY <2>1, FS_EmptySet, FS_CardinalityType DEF IInv, WaitGroupInv, PhaseInv
    <3> QED BY <3>1, KeyIsNotNoKey DEF Unfinished, Active, IInv, TypeOK
  <2>3. \A i \in DOMAIN collected[s] : /\ BatchKey(s, i) \in DOMAIN jobs
                                       /\ BatchKey(s, i)[1] = s /\ BatchKey(s, i)[2] = "batch"
                                       /\ BatchKey(s, i)[3] = i
    BY <2>1 DEF ReportInv, ResultsInv, InProgress, BatchKey
  <2>4. \A i \in DOMAIN collected[s] : collected[s][i] = OutcomeOf(BatchKey(s, i))
    BY <2>1, <2>2, <2>3 DEF ReportInv, ResultsInv, InProgress
  <2>5. collected[s] \in Seq(Responses \cup {"zero"}) /\ 1 \in DOMAIN collected[s]
    BY DEF IInv, TypeOK
  <2>6. ASSUME NEW k \in DOMAIN jobs, k[1] = s
        PROVE  k[3] \in DOMAIN collected[s]
    <3>1. k[2] = "batch"
      BY <2>3, <2>5, <2>6 DEF ReportInv, JobsInv
    <3> QED BY <2>1, <2>2, <2>6, <3>1 DEF ReportInv, ResultsInv, InProgress
  <2>7. DOMAIN collected[s] = {k[3] : k \in {j \in DOMAIN jobs : j[1] = s}}
    BY <2>3, <2>6
  <2> QED BY <2>4, <2>7
<1> QED BY <1>1, Invariance, ReportInvariance, PTL

(* goroutine.go:389: the map that Run returns has every job's own response  *)
(* under its key, or that of the collector that was given it; only a        *)
(* collector of a step without a batch takes the place of a response it was *)
(* not given.                                                               *)
THEOREM NoResponseLostHolds == Spec => NoResponseLost
<1>1. IInv /\ ReportInv /\ [Next]_vars =>
        (pc = "collect" /\ toCollect = {} /\ pc' = "idle" =>
          \A k \in DOMAIN jobs :
              \/ outputResp'[k] = OutcomeOf(k)
              \/ /\ outputResp'[PlainKey(k[1])] = "merged"
                 /\ GivenToCollector(k) \/ OverwrittenByCollector(k))
  <2> SUFFICES ASSUME IInv, ReportInv, [Next]_vars, pc = "collect", toCollect = {}, pc' = "idle",
                      NEW k \in DOMAIN jobs
               PROVE  \/ outputResp'[k] = OutcomeOf(k)
                      \/ /\ outputResp'[PlainKey(k[1])] = "merged"
                         /\ GivenToCollector(k) \/ OverwrittenByCollector(k)
    OBVIOUS
  <2>1. EndRun
    <3>1. ~Registration /\ ~CancelCtx /\ ~Crashed /\ pc' # pc
      BY DEF Registration, AddStep, AddInput, AddCollectorBatch, AddBatchInput, AddOptions, Register, CancelCtx, Crashed
    <3>2. \A j \in DOMAIN jobs : ~Worker(j)
      BY DEF Worker, FinishJob, PanicJob, CancelRun, ReleaseSlot, WgDone
    <3>3. \A done \in BOOLEAN : ~BeginRun(done)
      BY DEF BeginRun
    <3>4. Main
      BY <3>1, <3>2, <3>3 DEF Next, vars
    <3> QED BY <3>4 DEF Main, SkipJob, TakeJob, StartJob, EndLoop, Wait, Return
  <2>2. outputResp' = outputResp
    BY <2>1 DEF EndRun, results
  <2>3. ~Unfinished(k)
    <3>1. Active = {} /\ todo = {} /\ cur = NoKey
      BY FS_EmptySet, FS_CardinalityType DEF IInv, WaitGroupInv, PhaseInv
    <3> QED BY <3>1, KeyIsNotNoKey DEF Unfinished, Active, IInv, TypeOK
  <2> QED BY <2>2, <2>3 DEF ReportInv, RespondedInv, InProgress
<1> QED BY <1>1, Invariance, ReportInvariance, PTL DEF Spec, NoResponseLost

-----------------------------------------------------------------------------
(* A Run can always go on. *)

LEMMA LeastNumber ==
  ASSUME NEW S \in SUBSET Nat, S # {}
  PROVE  \E m \in S : \A n \in S : m <= n
<1> DEFINE R == OpToRel(<, Nat)
<1>1. PICK m \in S : \A n \in S : <<n, m>> \notin R
  <2> HIDE DEF R
  <2> SUFFICES IsWellFoundedOn(R, Nat)
    BY WFMin
  <2> QED BY NatLessThanWellFounded DEF R
<1>2. \A n \in S : ~(n < m)
  BY <1>1 DEF OpToRel
<1> QED BY <1>2

LEMMA FewAreFinite == \A n \in Nat : IsFiniteSet(1 .. n)
BY FS_Interval

(* Finitely many steps have finitely many process keys. *)
LEMMA FiniteKeys ==
  ASSUME NEW S, IsFiniteSet(S)
  PROVE  IsFiniteSet(S \X {"plain", "all", "batch"} \X (0 .. MaxItems))
<1> DEFINE Kinds == {"plain", "all", "batch"}
           P == (S \X Kinds) \X (0 .. MaxItems)
           T == S \X Kinds \X (0 .. MaxItems)
           f == [p \in P |-> <<p[1][1], p[1][2], p[2]>>]
<1>1. IsFiniteSet(P)
  <2>1. IsFiniteSet(Kinds)
    <3>1. Kinds = ({"plain"} \cup {"all"}) \cup {"batch"}
      OBVIOUS
    <3>2. IsFiniteSet({"plain"} \cup {"all"})
      BY FS_Singleton, FS_Union
    <3> QED BY <3>1, <3>2, FS_AddElement
  <2>2. IsFiniteSet(0 .. MaxItems)
    BY FS_Interval, BoundsAssumption
  <2>3. IsFiniteSet(S \X Kinds)
    <3> HIDE DEF Kinds
    <3> QED BY <2>1, FS_Product
  <2> QED BY <2>2, <2>3, FS_Product
<1>2. f \in Surjection(P, T)
  <2>1. f \in [P -> T]
    OBVIOUS
  <2>2. \A t \in T : \E p \in P : f[p] = t
    <3> TAKE t \in T
    <3>1. PICK s \in S, kind \in Kinds, i \in 0 .. MaxItems : t = <<s, kind, i>>
      OBVIOUS
    <3>2. <<<<s, kind>>, i>> \in P /\ f[<<<<s, kind>>, i>>] = <<s, kind, i>>
      OBVIOUS
    <3> QED BY <3>1, <3>2
  <2> HIDE DEF f, P, T
  <2> QED BY <2>1, <2>2 DEF Surjection
<1> HIDE DEF f, P
<1> QED BY <1>1, <1>2, FS_Surjection

LEMMA InitQueue == Init => FiniteInv /\ QueueInv
<1> SUFFICES ASSUME Init PROVE FiniteInv /\ QueueInv
  OBVIOUS
<1>1. steps = {} /\ batchCollectors = {} /\ toCollect = {} /\ DOMAIN jobs = {}
  BY DEF Init
<1> QED BY <1>1, FS_EmptySet DEF FiniteInv, QueueInv

LEMMA RunFinite ==
  ASSUME TypeOK, FiniteInv
  PROVE  IsFiniteSet(DOMAIN BuildJobs)
<1> DEFINE T == steps \X {"plain", "all", "batch"} \X (0 .. MaxItems)
<1>1. DOMAIN BuildJobs \subseteq Keys
  BY BuildJobsType DEF TypeOK
<1>2. \A k \in DOMAIN BuildJobs : k[1] \in steps
  BY DEF BuildJobs, JobKeysOf, PlainKey, AllKey, BatchKey
<1>3. DOMAIN BuildJobs \in SUBSET T
  BY <1>1, <1>2 DEF Keys
<1>4. IsFiniteSet(T)
  BY FiniteKeys DEF FiniteInv
<1> QED BY <1>3, <1>4, FS_Subset

LEMMA NextQueue == IInv /\ FiniteInv /\ QueueInv /\ [Next]_vars => FiniteInv' /\ QueueInv'
<1> SUFFICES ASSUME IInv, FiniteInv, QueueInv, [Next]_vars PROVE FiniteInv' /\ QueueInv'
  OBVIOUS
<1>1. CASE Registration
  <2>1. UNCHANGED <<toCollect, jobs, todo>>
    BY <1>1 DEF Registration, AddStep, AddInput, AddCollectorBatch, AddBatchInput, AddOptions, Register
  <2>2. IsFiniteSet(steps') /\ IsFiniteSet(batchCollectors')
    <3>1. ASSUME NEW s \in Steps, AddStep(s) PROVE IsFiniteSet(steps') /\ IsFiniteSet(batchCollectors')
      BY <3>1, FS_AddElement DEF AddStep, FiniteInv
    <3>2. ASSUME NEW s \in Steps, AddCollectorBatch(s) PROVE IsFiniteSet(steps') /\ IsFiniteSet(batchCollectors')
      BY <3>2, FS_AddElement DEF AddCollectorBatch, FiniteInv
    <3> QED BY <1>1, <3>1, <3>2 DEF Registration, AddInput, AddBatchInput, AddOptions, FiniteInv
  <2> QED BY <2>1, <2>2 DEF FiniteInv, QueueInv
<1>2. ASSUME NEW done \in BOOLEAN, BeginRun(done) PROVE FiniteInv' /\ QueueInv'
  <2>1. /\ jobs' = BuildJobs /\ todo' = DOMAIN BuildJobs /\ toCollect' = {}
        /\ steps' = steps /\ batchCollectors' = batchCollectors
    BY <1>2 DEF BeginRun, registrations
  <2>2. IsFiniteSet(DOMAIN BuildJobs)
    BY RunFinite DEF IInv
  <2> QED BY <2>1, <2>2, FS_EmptySet DEF FiniteInv, QueueInv
<1>3. ASSUME UNCHANGED <<steps, batchCollectors, jobs, todo>>, toCollect' \in {toCollect, batchCollectors}
      PROVE  FiniteInv' /\ QueueInv'
  BY <1>3 DEF FiniteInv, QueueInv
<1>4. ASSUME NEW k \in todo, SkipJob(k) \/ TakeJob(k) PROVE FiniteInv' /\ QueueInv'
  <2>1. /\ Takeable(k) /\ todo' = todo \ {k} /\ k \in DOMAIN jobs
        /\ UNCHANGED <<steps, batchCollectors, toCollect, jobs>>
    BY <1>4 DEF SkipJob, TakeJob, registrations, IInv, TypeOK
  <2>2. QueueInv'
    <3> SUFFICES ASSUME NEW i \in DOMAIN jobs \ todo', NEW j \in DOMAIN jobs \ todo', i[1] # j[1]
                 PROVE  (\A l \in todo' : l[1] # i[1]) \/ (\A l \in todo' : l[1] # j[1])
      BY <2>1 DEF QueueInv
    <3>1. i = k \/ i \in DOMAIN jobs \ todo
      BY <2>1
    <3>2. j = k \/ j \in DOMAIN jobs \ todo
      BY <2>1
    <3>3. \A l \in DOMAIN jobs \ todo : l[1] = k[1] \/ \A m \in todo : m[1] # l[1]
      BY <2>1 DEF Takeable
    <3>4. todo' \subseteq todo
      BY <2>1
    <3>5. i[1] # k[1] \/ j[1] # k[1]
      OBVIOUS
    <3> QED BY <3>1, <3>2, <3>3, <3>4, <3>5
  <2> QED BY <2>1, <2>2 DEF FiniteInv
<1>5. ASSUME NEW s \in toCollect, ApplyCollector(s) PROVE FiniteInv' /\ QueueInv'
  <2>1. /\ UNCHANGED <<steps, batchCollectors, jobs, todo>> /\ toCollect' = toCollect \ {s}
    BY <1>5 DEF ApplyCollector, registrations
  <2> QED BY <2>1, FS_RemoveElement DEF FiniteInv, QueueInv
<1>6. ASSUME EndRun PROVE FiniteInv' /\ QueueInv'
  <2>1. steps' = steps /\ batchCollectors' = batchCollectors /\ toCollect' = {} /\ DOMAIN jobs' = {}
    BY <1>6 DEF EndRun, registrations
  <2> QED BY <2>1, FS_EmptySet DEF FiniteInv, QueueInv
<1>7. CancelCtx \/ StartJob \/ EndLoop \/ Wait \/ UNCHANGED vars =>
          UNCHANGED <<steps, batchCollectors, jobs, todo>> /\ toCollect' \in {toCollect, batchCollectors}
  BY DEF CancelCtx, StartJob, EndLoop, Wait, vars, registrations
<1>8. \A k \in DOMAIN jobs : Worker(k) =>
          UNCHANGED <<steps, batchCollectors, jobs, todo>> /\ toCollect' \in {toCollect, batchCollectors}
  BY DEF Worker, FinishJob, PanicJob, CancelRun, ReleaseSlot, WgDone, registrations
<1> QED BY <1>1, <1>2, <1>3, <1>4, <1>5, <1>6, <1>7, <1>8
        DEF Next, Main, PanicCollector, Return, Crashed

(* What a Run works on is finite, and at most one step has some of its jobs *)
(* taken and some not.                                                      *)
THEOREM QueueInvHolds == Spec => [](FiniteInv /\ QueueInv)
<1>1. IInv /\ (FiniteInv /\ QueueInv) /\ [Next]_vars => (FiniteInv /\ QueueInv)'
  BY NextQueue
<1> QED BY <1>1, InitQueue, Invariance, PTL DEF Spec

(* As long as a job is left, the loop has one to look at. *)
LEMMA SomeJobIsTakeable ==
  ASSUME TypeOK, QueueInv, todo # {}
  PROVE  \E k \in todo : Takeable(k)
<1>1. \A k \in todo : k \in DOMAIN jobs /\ k[3] \in Nat
  BY BoundsAssumption DEF TypeOK, Keys
<1>2. ASSUME NEW l \in todo, \A j \in DOMAIN jobs \ todo : j[1] = l[1] \/ \A i \in todo : i[1] # j[1]
      PROVE  \E k \in todo : Takeable(k)
  <2> DEFINE S == {n \in Nat : \E k \in todo : k[1] = l[1] /\ k[3] = n}
  <2>1. l[3] \in S
    BY <1>1
  <2>2. PICK m \in S : \A n \in S : m <= n
    BY <2>1, LeastNumber
  <2>3. PICK k \in todo : k[1] = l[1] /\ k[3] = m
    BY <2>2
  <2>4. \A j \in todo : j[1] = k[1] => k[3] <= j[3]
    BY <1>1, <2>2, <2>3
  <2> QED BY <1>2, <2>3, <2>4 DEF Takeable
<1>3. CASE \E j \in DOMAIN jobs \ todo, l \in todo : l[1] = j[1]
  <2>1. PICK j \in DOMAIN jobs \ todo, l \in todo : l[1] = j[1]
    BY <1>3
  <2>2. \A i \in DOMAIN jobs \ todo : i[1] = l[1] \/ \A k \in todo : k[1] # i[1]
    BY <2>1 DEF QueueInv
  <2> QED BY <1>2, <2>2
<1>4. CASE \A j \in DOMAIN jobs \ todo, l \in todo : l[1] # j[1]
  BY <1>2, <1>4
<1> QED BY <1>3, <1>4

(* Neither the channel sem, nor the WaitGroup, nor the order of the jobs    *)
(* can block a Run for good.                                                *)
THEOREM RunNeverStuckHolds == Spec => []RunNeverStuck
<1>1. ASSUME IInv, QueueInv PROVE RunNeverStuck
  <2> SUFFICES ASSUME InProgress, \A k \in DOMAIN jobs : worker[k] = "off"
               PROVE  \/ pc = "loop" /\ (todo = {} \/ \E k \in todo : Takeable(k))
                      \/ pc = "acquire" /\ sem < Workers(opt)
                      \/ pc = "wait" /\ wg = 0
                      \/ pc = "collect"
    BY DEF RunNeverStuck
  <2>1. Active = {} /\ Holding = {}
    BY <1>1 DEF Active, Holding, IInv, PhaseInv
  <2>2. sem = 0 /\ Workers(opt) \in Nat \ {0}
    BY <1>1, <2>1, FS_EmptySet, WorkersType DEF IInv, TypeOK, SlotsInv
  <2>3. pc = "wait" => wg = 0
    BY <1>1, <2>1, FS_EmptySet DEF IInv, WaitGroupInv, PhaseInv
  <2> QED BY <1>1, <2>2, <2>3, SomeJobIsTakeable DEF InProgress, IInv
<1> QED BY <1>1, Invariance, QueueInvHolds, PTL

-----------------------------------------------------------------------------
(* The steps of a Run are used up. *)

(* Nobody works between two Runs or while the collectors are applied. *)
LEMMA Quiet ==
  ASSUME IInv, pc \in {"idle", "collect"}
  PROVE  Active = {} /\ cur = NoKey /\ \A k \in Keys : worker[k] = "off"
<1>1. wg = 0 /\ cur = NoKey
  BY DEF IInv, PhaseInv
<1>2. Cardinality(Active) \in Nat
  BY FS_CardinalityType DEF IInv, WaitGroupInv
<1>3. Active = {}
  BY <1>1, <1>2, FS_EmptySet DEF IInv, WaitGroupInv
<1> QED BY <1>1, <1>3 DEF Active

LEMMA FiniteStages ==
  ASSUME IInv, FiniteInv
  PROVE  StagesFinite
<1> DEFINE A == {r \in Keys \X (1 .. 6) : r[2] <= JobStages(r[1])}
           B == {<<NoKey, n>> : n \in 1 .. CallerStages}
           C == {<<<<"ctx">>, n>> : n \in 1 .. ContextStages}
           D == {<<<<s, "collector">>, 1>> : s \in ToBeCollected}
<1>1. IsFiniteSet(A)
  <2>1. \A k \in Keys : JobStages(k) \in Int /\ (JobStages(k) > 0 => k \in DOMAIN jobs)
    <3> SUFFICES ASSUME NEW k \in Keys PROVE JobStages(k) \in Int /\ (JobStages(k) > 0 => k \in DOMAIN jobs)
      OBVIOUS
    <3>1. JobStages(k) > 0 => k \in todo \/ k = cur \/ worker[k] # "off"
      BY DEF JobStages
    <3>2. k \in todo \/ k = cur \/ worker[k] # "off" => k \in DOMAIN jobs
      BY KeyIsNotNoKey DEF IInv, TypeOK, PhaseInv, Active
    <3>3. JobStages(k) \in Int
      BY DEF JobStages
    <3> QED BY <3>1, <3>2, <3>3
  <2>2. A \in SUBSET ((DOMAIN jobs) \X (1 .. 6))
    <3> SUFFICES ASSUME NEW r \in Keys \X (1 .. 6), r[2] <= JobStages(r[1])
                 PROVE  r \in (DOMAIN jobs) \X (1 .. 6)
      OBVIOUS
    <3>1. JobStages(r[1]) > 0
      BY <2>1
    <3> QED BY <2>1, <3>1
  <2>3. IsFiniteSet((DOMAIN jobs) \X (1 .. 6))
    <3>1. IsFiniteSet(1 .. 6)
      BY FewAreFinite
    <3> QED BY <3>1, FS_Product DEF FiniteInv
  <2> QED BY <2>2, <2>3, FS_Subset
<1>2. IsFiniteSet(B) /\ IsFiniteSet(C)
  <2>1. B \in SUBSET ({NoKey} \X (1 .. 3)) /\ C \in SUBSET ({<<"ctx">>} \X (1 .. 1))
    BY DEF CallerStages, ContextStages
  <2>2. IsFiniteSet({NoKey} \X (1 .. 3)) /\ IsFiniteSet({<<"ctx">>} \X (1 .. 1))
    <3>1. IsFiniteSet(1 .. 3) /\ IsFiniteSet(1 .. 1) /\ IsFiniteSet({NoKey}) /\ IsFiniteSet({<<"ctx">>})
      BY FewAreFinite, FS_Singleton
    <3> QED BY <3>1, FS_Product
  <2> QED BY <2>1, <2>2, FS_Subset
<1>3. IsFiniteSet(D)
  <2> DEFINE f == [s \in ToBeCollected |-> <<<<s, "collector">>, 1>>]
  <2>1. f \in Surjection(ToBeCollected, D)
    BY DEF Surjection
  <2>2. IsFiniteSet(ToBeCollected)
    BY FS_EmptySet DEF ToBeCollected, FiniteInv
  <2> HIDE DEF f, D
  <2> QED BY <2>1, <2>2, FS_Surjection
<1> HIDE DEF A, B, C, D
<1>4. IsFiniteSet(((A \cup B) \cup C) \cup D)
  BY <1>1, <1>2, <1>3, FS_Union
<1> QED BY <1>4 DEF StagesFinite, Remaining, RunStages, A, B, C, D

(* The owners of the stages are different. *)
LEMMA Owners ==
  /\ NoKey # <<"ctx">> /\ NoKey \notin Keys /\ <<"ctx">> \notin Keys
  /\ \A s : /\ <<s, "collector">> # NoKey /\ <<s, "collector">> # <<"ctx">>
            /\ <<s, "collector">> \notin Keys
<1>1. NoKey # <<"ctx">> /\ NoKey \notin Keys /\ \A s : <<s, "collector">> # NoKey
  BY KeyIsNotNoKey DEF NoKey
<1>2. \A k \in Keys : Len(k) = 3
  BY DEF Keys
<1>3. Len(<<"ctx">>) = 1 /\ \A s : Len(<<s, "collector">>) = 2
  OBVIOUS
<1>4. <<"ctx">> \notin Keys
  BY <1>2, <1>3
<1>5. \A s : <<s, "collector">> \notin Keys /\ <<s, "collector">> # <<"ctx">>
  BY <1>2, <1>3
<1> QED BY <1>1, <1>4, <1>5

(* The stages before a Run, an owner at a time. *)
LEMMA StagesCompared ==
  ASSUME \A k \in Keys : JobStages(k) \in 0 .. 6 /\ JobStages(k)' \in 0 .. 6 /\ JobStages(k)' <= JobStages(k),
         CallerStages' <= CallerStages, ContextStages' <= ContextStages,
         ToBeCollected' \subseteq ToBeCollected,
         \/ \E k \in Keys : JobStages(k)' < JobStages(k)
         \/ CallerStages' < CallerStages
         \/ ContextStages' < ContextStages
         \/ ToBeCollected' # ToBeCollected
  PROVE  Remaining' \subseteq Remaining /\ Remaining' # Remaining
<1>1. CallerStages \in 0 .. 3 /\ CallerStages' \in 0 .. 3 /\ ContextStages \in 0 .. 1 /\ ContextStages' \in 0 .. 1
  BY DEF CallerStages, ContextStages
<1>2. \A k \in Keys, n \in 1 .. 6 : /\ <<k, n>> \in Remaining <=> n <= JobStages(k)
                                    /\ <<k, n>> \in Remaining' <=> n <= JobStages(k)'
  BY Owners DEF Remaining, RunStages
<1>3. \A n \in 1 .. 3 : /\ <<NoKey, n>> \in Remaining <=> n <= CallerStages
                        /\ <<NoKey, n>> \in Remaining' <=> n <= CallerStages'
  BY <1>1, Owners DEF Remaining, RunStages
<1>4. /\ <<<<"ctx">>, 1>> \in Remaining <=> 1 <= ContextStages
      /\ <<<<"ctx">>, 1>> \in Remaining' <=> 1 <= ContextStages'
  BY <1>1, Owners DEF Remaining, RunStages
<1>5. \A s : /\ <<<<s, "collector">>, 1>> \in Remaining <=> s \in ToBeCollected
             /\ <<<<s, "collector">>, 1>> \in Remaining' <=> s \in ToBeCollected'
  <2> TAKE s
  <2>1. \A u : <<u, "collector">> = <<s, "collector">> => u = s
    OBVIOUS
  <2> QED BY <2>1, Owners DEF Remaining, RunStages
<1>6. \A r \in Remaining' :
         \/ r \in Keys \X (1 .. 6)
         \/ \E n \in 1 .. 3 : r = <<NoKey, n>>
         \/ r = <<<<"ctx">>, 1>>
         \/ \E s \in ToBeCollected' : r = <<<<s, "collector">>, 1>>
  BY <1>1 DEF Remaining, RunStages
<1>7. Remaining' \subseteq Remaining
  <2> SUFFICES ASSUME NEW r \in Remaining' PROVE r \in Remaining
    OBVIOUS
  <2>1. CASE r \in Keys \X (1 .. 6)
    <3>1. PICK k \in Keys, n \in 1 .. 6 : r = <<k, n>>
      BY <2>1
    <3>2. n <= JobStages(k)'
      BY <1>2, <3>1
    <3>3. n <= JobStages(k)
      BY <3>2
    <3>4. <<k, n>> \in Remaining
      BY <1>2, <3>3
    <3> QED BY <3>1, <3>4
  <2>2. CASE \E n \in 1 .. 3 : r = <<NoKey, n>>
    BY <1>1, <1>3, <2>2
  <2>3. CASE r = <<<<"ctx">>, 1>>
    BY <1>1, <1>4, <2>3
  <2>4. CASE \E s \in ToBeCollected' : r = <<<<s, "collector">>, 1>>
    BY <1>5, <2>4
  <2> QED BY <1>6, <2>1, <2>2, <2>3, <2>4
<1>8. Remaining' # Remaining
  <2>1. CASE \E k \in Keys : JobStages(k)' < JobStages(k)
    <3>1. PICK k \in Keys : JobStages(k)' < JobStages(k)
      BY <2>1
    <3> DEFINE n == JobStages(k)
    <3>2. n \in 1 .. 6 /\ n <= JobStages(k) /\ ~(n <= JobStages(k)')
      BY <3>1
    <3> HIDE DEF n
    <3> QED BY <1>2, <3>2
  <2>2. CASE CallerStages' < CallerStages
    <3>1. CallerStages \in 1 .. 3 /\ CallerStages <= CallerStages /\ ~(CallerStages <= CallerStages')
      BY <1>1, <2>2
    <3> QED BY <1>3, <3>1
  <2>3. CASE ContextStages' < ContextStages
    BY <1>1, <1>4, <2>3
  <2>4. CASE ToBeCollected' # ToBeCollected
    <3>1. PICK s : s \in ToBeCollected /\ s \notin ToBeCollected'
      BY <2>4
    <3> QED BY <1>5, <3>1
  <2> QED BY <2>1, <2>2, <2>3, <2>4
<1> QED BY <1>7, <1>8

(* The stages a job of a Run has before it are those of the place it is in. *)
StagesPlaced ==
    \A k \in Keys :
       /\ JobStages(k) \in 0 .. 6
       /\ k \in todo => JobStages(k) = 6
       /\ k = cur => JobStages(k) = 5
       /\ worker[k] = "exec" => JobStages(k) = 4
       /\ worker[k] = "cancel" => JobStages(k) = 3
       /\ worker[k] = "release" => JobStages(k) = 2
       /\ worker[k] = "finish" => JobStages(k) = 1
       /\ k \notin todo /\ k # cur /\ worker[k] = "off" => JobStages(k) = 0

LEMMA StagesOfPlace == IInv => StagesPlaced
<1> SUFFICES ASSUME IInv, NEW k \in Keys
             PROVE  /\ JobStages(k) \in 0 .. 6
                    /\ k \in todo => JobStages(k) = 6
                    /\ k = cur => JobStages(k) = 5
                    /\ worker[k] = "exec" => JobStages(k) = 4
                    /\ worker[k] = "cancel" => JobStages(k) = 3
                    /\ worker[k] = "release" => JobStages(k) = 2
                    /\ worker[k] = "finish" => JobStages(k) = 1
                    /\ k \notin todo /\ k # cur /\ worker[k] = "off" => JobStages(k) = 0
  BY DEF StagesPlaced
<1>1. worker[k] # "off" => k \notin todo /\ k # cur
  BY KeyIsNotNoKey DEF IInv, PhaseInv
<1>2. k = cur => k \notin todo
  BY KeyIsNotNoKey DEF IInv, PhaseInv
<1> QED BY <1>1, <1>2 DEF JobStages

(* Every step that is taken while a Run is in progress, other than a        *)
(* registration call, uses up at least one of its stages and brings none    *)
(* back; a registration call leaves all but the collectors alone.           *)
LEMMA MovesOn ==
  ASSUME IInv, IInv', InProgress, Next, ~UNCHANGED vars
  PROVE  IF calls' = calls THEN Remaining' \subseteq Remaining /\ Remaining' # Remaining
         ELSE RunStages' = RunStages
<1> DEFINE Shrinks == calls' = calls /\ Remaining' \subseteq Remaining /\ Remaining' # Remaining
<1>0. StagesPlaced /\ StagesPlaced'
  BY StagesOfPlace, PTL
<1>1. \A k \in Keys : JobStages(k) \in 0 .. 6 /\ JobStages(k)' \in 0 .. 6
  BY <1>0 DEF StagesPlaced
<1>2. pc' = pc => CallerStages' <= CallerStages
  BY DEF InProgress, CallerStages
<1>3. InProgress' /\ ctxDone' = ctxDone => ContextStages' <= ContextStages
  BY DEF ContextStages
<1>4. UNCHANGED <<todo, cur, worker>> => \A k \in Keys : JobStages(k)' = JobStages(k)
  BY DEF JobStages
<1>5. ASSUME UNCHANGED <<toCollect, batchCollectors>>,
             \/ pc' = pc
             \/ pc \in {"loop", "acquire", "wait"} /\ pc' \in {"loop", "acquire", "wait"}
      PROVE  ToBeCollected' \subseteq ToBeCollected
  BY <1>5 DEF ToBeCollected
<1>6. ASSUME Registration PROVE RunStages' = RunStages /\ calls' # calls
  <2>1. UNCHANGED <<pc, todo, cur, worker, ctxDone>> /\ calls' = calls + 1
    BY <1>6 DEF Registration, AddStep, AddInput, AddCollectorBatch, AddBatchInput, AddOptions, Register
  <2>2. calls \in Nat
    BY BoundsAssumption DEF IInv, TypeOK
  <2>3. RunStages' = RunStages
    BY <2>1 DEF RunStages, JobStages, CallerStages, ContextStages, InProgress
  <2> QED BY <2>1, <2>2, <2>3
<1>7. ASSUME CancelCtx PROVE Shrinks
  <2>1. /\ UNCHANGED <<pc, todo, cur, worker, toCollect>> /\ calls' = calls /\ batchCollectors' = batchCollectors
        /\ ~ctxDone /\ ctxDone'
    BY <1>7 DEF CancelCtx, registrations
  <2>2. ContextStages' < ContextStages /\ ContextStages' <= ContextStages
    BY <2>1 DEF ContextStages, InProgress
  <2>3. CallerStages' <= CallerStages /\ ToBeCollected' \subseteq ToBeCollected
    BY <1>2, <1>5, <2>1
  <2>4. \A k \in Keys : JobStages(k)' <= JobStages(k)
    BY <1>1, <1>4, <2>1
  <2> QED BY <1>1, <2>1, <2>2, <2>3, <2>4, StagesCompared
<1>8. ASSUME EndLoop \/ Wait \/ \E k \in DOMAIN jobs : PanicJob(k) PROVE Shrinks
  <2>1. UNCHANGED <<todo, cur, worker, ctxDone>> /\ calls' = calls /\ batchCollectors' = batchCollectors
    BY <1>8 DEF EndLoop, Wait, PanicJob, registrations
  <2>2. CallerStages' < CallerStages /\ CallerStages' <= CallerStages
    BY <1>8 DEF EndLoop, Wait, PanicJob, CallerStages, InProgress
  <2>3. ContextStages' <= ContextStages
    BY <2>1 DEF ContextStages, InProgress
  <2>4. ToBeCollected' \subseteq ToBeCollected
    BY <1>8, <2>1 DEF EndLoop, Wait, PanicJob, ToBeCollected
  <2>5. \A k \in Keys : JobStages(k)' <= JobStages(k)
    BY <1>1, <1>4, <2>1
  <2> QED BY <1>1, <2>1, <2>2, <2>3, <2>4, <2>5, StagesCompared
<1>9. ASSUME EndRun, pc = "collect" PROVE Shrinks
  <2>1. /\ pc' = "idle" /\ todo' = {} /\ cur' = NoKey /\ \A k \in Keys : worker'[k] = "off"
        /\ calls' = calls
    BY <1>9 DEF EndRun, registrations
  <2>2. CallerStages' < CallerStages /\ CallerStages' <= CallerStages
    BY <1>9, <2>1 DEF CallerStages
  <2>3. ContextStages' <= ContextStages /\ ToBeCollected' \subseteq ToBeCollected
    BY <2>1 DEF ContextStages, InProgress, ToBeCollected
  <2>4. \A k \in Keys : JobStages(k)' = 0
    BY <1>0, <2>1, KeyIsNotNoKey DEF StagesPlaced
  <2>5. \A k \in Keys : JobStages(k)' <= JobStages(k)
    BY <1>1, <2>4
  <2> QED BY <1>1, <2>1, <2>2, <2>3, <2>5, StagesCompared
<1>10. ASSUME NEW s \in toCollect, ApplyCollector(s) PROVE Shrinks
  <2>1. /\ UNCHANGED <<pc, todo, cur, worker, ctxDone>> /\ calls' = calls /\ pc = "collect"
        /\ toCollect' = toCollect \ {s}
    BY <1>10 DEF ApplyCollector, registrations
  <2>2. ToBeCollected' \subseteq ToBeCollected /\ ToBeCollected' # ToBeCollected
    BY <2>1 DEF ToBeCollected
  <2>3. CallerStages' <= CallerStages /\ ContextStages' <= ContextStages
    BY <1>2, <1>3, <2>1 DEF InProgress
  <2>4. \A k \in Keys : JobStages(k)' <= JobStages(k)
    BY <1>1, <1>4, <2>1
  <2> QED BY <1>1, <2>1, <2>2, <2>3, <2>4, StagesCompared
<1>11. ASSUME NEW k \in todo, SkipJob(k) \/ TakeJob(k) PROVE Shrinks
  <2>1. /\ k \in Keys /\ todo' = todo \ {k} /\ cur = NoKey /\ worker' = worker /\ worker[k] = "off"
        /\ cur' \in {k, NoKey} /\ UNCHANGED <<ctxDone, toCollect>> /\ calls' = calls
        /\ batchCollectors' = batchCollectors /\ pc = "loop" /\ pc' \in {"loop", "acquire"}
    BY <1>11 DEF SkipJob, TakeJob, registrations, IInv, TypeOK, PhaseInv
  <2>2. JobStages(k) = 6 /\ JobStages(k)' \in {0, 5}
    <3>1. JobStages(k) = 6
      BY <1>0, <2>1 DEF StagesPlaced
    <3>2. k # NoKey /\ k \notin todo' /\ worker'[k] = "off"
      BY <2>1, KeyIsNotNoKey
    <3>3. (k = cur' => JobStages(k)' = 5) /\ (k # cur' => JobStages(k)' = 0)
      BY <1>0, <2>1, <3>2 DEF StagesPlaced
    <3> QED BY <3>1, <3>3
  <2>3. \A i \in Keys : i # k => JobStages(i)' = JobStages(i)
    BY <2>1, KeyIsNotNoKey DEF JobStages
  <2>4. \A i \in Keys : JobStages(i)' <= JobStages(i)
    BY <1>1, <2>2, <2>3
  <2>5. \E i \in Keys : JobStages(i)' < JobStages(i)
    BY <2>1, <2>2
  <2>6. CallerStages' <= CallerStages
    BY <2>1 DEF CallerStages
  <2>7. ContextStages' <= ContextStages /\ ToBeCollected' \subseteq ToBeCollected
    BY <1>3, <1>5, <2>1 DEF InProgress
  <2> QED BY <1>1, <2>1, <2>4, <2>5, <2>6, <2>7, StagesCompared
<1>12. ASSUME StartJob PROVE Shrinks
  <2>1. PICK k \in Keys : k = cur
    BY <1>12 DEF StartJob, IInv, TypeOK, PhaseInv
  <2>2. /\ todo' = todo /\ cur' = NoKey /\ worker' = [worker EXCEPT ![k] = "exec"]
        /\ UNCHANGED <<ctxDone, toCollect>> /\ calls' = calls
        /\ batchCollectors' = batchCollectors /\ pc = "acquire" /\ pc' = "loop"
    BY <1>12, <2>1 DEF StartJob, registrations
  <2>3. JobStages(k) = 5 /\ JobStages(k)' = 4
    <3>1. worker'[k] = "exec"
      BY <2>2 DEF IInv, TypeOK
    <3> QED BY <1>0, <2>1, <3>1 DEF StagesPlaced
  <2>4. \A i \in Keys : i # k => JobStages(i)' = JobStages(i)
    <3>1. \A i \in Keys : i # k => worker'[i] = worker[i]
      BY <2>2 DEF IInv, TypeOK
    <3> QED BY <2>1, <2>2, <3>1, KeyIsNotNoKey DEF JobStages
  <2>5. \A i \in Keys : JobStages(i)' <= JobStages(i)
    BY <1>1, <2>3, <2>4
  <2>6. \E i \in Keys : JobStages(i)' < JobStages(i)
    BY <2>3
  <2>7. CallerStages' <= CallerStages
    BY <2>2 DEF CallerStages
  <2>8. ContextStages' <= ContextStages /\ ToBeCollected' \subseteq ToBeCollected
    BY <1>3, <1>5, <2>2 DEF InProgress
  <2> QED BY <1>1, <2>2, <2>5, <2>6, <2>7, <2>8, StagesCompared
<1>13. ASSUME NEW k \in DOMAIN jobs,
              (\E r \in {"ok", "err"} : FinishJob(k, r)) \/ CancelRun(k) \/ ReleaseSlot(k) \/ WgDone(k)
       PROVE  Shrinks
  <2>1. /\ k \in Keys /\ UNCHANGED <<pc, todo, cur, ctxDone, toCollect>> /\ calls' = calls
        /\ batchCollectors' = batchCollectors
        /\ \/ worker[k] = "exec" /\ worker' = [worker EXCEPT ![k] = "cancel"]
           \/ worker[k] = "exec" /\ worker' = [worker EXCEPT ![k] = "release"]
           \/ worker[k] = "cancel" /\ worker' = [worker EXCEPT ![k] = "release"]
           \/ worker[k] = "release" /\ worker' = [worker EXCEPT ![k] = "finish"]
           \/ worker[k] = "finish" /\ worker' = [worker EXCEPT ![k] = "off"]
    BY <1>13 DEF FinishJob, CancelRun, ReleaseSlot, WgDone, registrations, IInv, TypeOK
  <2>2. \A i \in Keys : i # k => worker'[i] = worker[i]
    BY <2>1 DEF IInv, TypeOK
  <2>3. JobStages(k)' < JobStages(k)
    <3>1. k \notin todo /\ k # cur
      BY <2>1, KeyIsNotNoKey DEF IInv, PhaseInv
    <3>2. \/ worker[k] = "exec" /\ worker'[k] \in {"cancel", "release"}
          \/ worker[k] = "cancel" /\ worker'[k] = "release"
          \/ worker[k] = "release" /\ worker'[k] = "finish"
          \/ worker[k] = "finish" /\ worker'[k] = "off"
      BY <2>1 DEF IInv, TypeOK
    <3> QED BY <1>0, <2>1, <3>1, <3>2 DEF StagesPlaced
  <2>4. \A i \in Keys : i # k => JobStages(i)' = JobStages(i)
    BY <2>1, <2>2 DEF JobStages
  <2>5. \A i \in Keys : JobStages(i)' <= JobStages(i)
    BY <1>1, <2>3, <2>4
  <2>6. \E i \in Keys : JobStages(i)' < JobStages(i)
    BY <2>1, <2>3
  <2>7. CallerStages' <= CallerStages /\ ContextStages' <= ContextStages /\ ToBeCollected' \subseteq ToBeCollected
    BY <1>2, <1>3, <1>5, <2>1 DEF InProgress
  <2> QED BY <1>1, <2>1, <2>5, <2>6, <2>7, StagesCompared
<1>14. \A done \in BOOLEAN : ~BeginRun(done)
  BY DEF BeginRun, InProgress
<1>15. Main => Shrinks
  <2>1. (\E s \in toCollect : PanicCollector(s)) \/ Return => EndRun /\ pc = "collect"
    BY DEF PanicCollector, Return
  <2> HIDE DEF Shrinks
  <2> QED BY <1>8, <1>9, <1>10, <1>11, <1>12, <2>1 DEF Main
<1>16. ASSUME NEW k \in DOMAIN jobs, Worker(k) PROVE Shrinks
  <2> HIDE DEF Shrinks
  <2> QED BY <1>8, <1>13, <1>16 DEF Worker
<1>17. Registration \/ Shrinks
  <2> HIDE DEF Shrinks
  <2> QED BY <1>7, <1>14, <1>15, <1>16 DEF Next, Crashed
<1> QED BY <1>6, <1>17

(* A Run always has finitely many stages before it ...                      *)
THEOREM StagesFiniteHolds == Spec => []StagesFinite
<1>1. IInv /\ (FiniteInv /\ QueueInv) => StagesFinite
  BY FiniteStages
<1> QED BY <1>1, Invariance, QueueInvHolds, PTL

(* ... and every step taken during it, other than a registration call, uses *)
(* up at least one of them and brings none back.                            *)
THEOREM RunMovesOnHolds == Spec => RunMovesOn
<1>1. IInv /\ IInv' /\ [Next]_vars =>
        [InProgress =>
          IF calls' = calls THEN Remaining' \subseteq Remaining /\ Remaining' # Remaining
          ELSE RunStages' = RunStages]_vars
  BY MovesOn
<1> QED BY <1>1, Invariance, PTL DEF Spec, RunMovesOn
=============================================================================
