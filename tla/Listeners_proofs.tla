-------------------------- MODULE Listeners_proofs --------------------------
(***************************************************************************)
(* Proofs about Listeners, for any set of updates or jobs.                 *)
(***************************************************************************)
EXTENDS Listeners, TLAPS

LEMMA InitInvariant == ListenInit => ListenInv
  <1> SUFFICES ASSUME ListenInit
               PROVE  ListenInv
    OBVIOUS
  <1>1. ListenTypeOK
    BY DEF ListenInit, ListenTypeOK
  <1> QED
    BY <1>1 DEF ListenInit, ListenInv, StoppedInv, CellInv, JobRunsItsHandler, CloseWaitsForJobs

(* Registrations: the call comes after those whose jobs share the slice.    *)
LEMMA RegisterStep ==
    ASSUME ListenInv, NEW i \in Items, NEW shares \in BOOLEAN, NEW parses \in BOOLEAN,
           Register(i, shares, parses)
    PROVE  ListenInv'
  <1>1. /\ UNCHANGED <<kind, listen, source, item, ran, ctxDone, closed, ended>>
        /\ chain[i] = "no"
        /\ chain' = [chain EXCEPT ![i] = IF ~parses THEN "refused"
                                         ELSE IF shares THEN "shared" ELSE "own"]
    BY DEF Register
  <1>2. \A j \in Items : chain'[j] = "shared" => (chain[j] = "shared" /\ j # i) \/ (j = i /\ shares)
    BY <1>1 DEF ListenInv, ListenTypeOK
  <1>3. /\ cell' = IF shares THEN i ELSE cell
        /\ \A j \in Items : over'[j] = IF shares /\ chain[j] = "shared" THEN over[j] \cup {i} ELSE over[j]
        /\ over' \in [Items -> SUBSET Items]
    <2>1. over \in [Items -> SUBSET Items]
      BY DEF ListenInv, ListenTypeOK
    <2>2. CASE shares
      BY <2>1, <2>2 DEF Register
    <2>3. CASE ~shares
      <3>1. cell' = cell /\ over' = over
        BY <2>3 DEF Register
      <3> QED
        BY <2>1, <2>3, <3>1
    <2> QED
      BY <2>2, <2>3
  <1>4. ListenTypeOK'
    BY <1>1, <1>3 DEF ListenInv, ListenTypeOK
  <1>5. (\A j \in Items : chain[j] # "shared" => over[j] = {})'
    <2> SUFFICES ASSUME NEW j \in Items, chain'[j] # "shared"
                 PROVE  over'[j] = {}
      OBVIOUS
    <2>1. chain[j] # "shared"
      BY <1>1 DEF ListenInv, ListenTypeOK
    <2> QED
      BY <1>3, <2>1 DEF ListenInv, CellInv
  <1>6. (\A j \in Items : chain[j] = "shared" =>
            IF over[j] = {} THEN cell = j ELSE cell \in over[j] \ {j})'
    <2> SUFFICES ASSUME NEW j \in Items, chain'[j] = "shared"
                 PROVE  IF over'[j] = {} THEN cell' = j ELSE cell' \in over'[j] \ {j}
      OBVIOUS
    <2>1. CASE j = i
      <3>1. over'[j] = {} /\ cell' = i
        BY <1>1, <1>2, <1>3, <2>1 DEF ListenInv, CellInv
      <3> QED
        BY <2>1, <3>1
    <2>2. CASE j # i /\ shares
      BY <1>2, <1>3, <2>2
    <2>3. CASE j # i /\ ~shares
      BY <1>2, <1>3, <2>3 DEF ListenInv, CellInv
    <2> QED
      BY <2>1, <2>2, <2>3
  <1>7. JobRunsItsHandler'
    BY <1>1, <1>3 DEF ListenInv, JobRunsItsHandler
  <1> QED
    BY <1>1, <1>4, <1>5, <1>6, <1>7 DEF ListenInv, CellInv, StoppedInv, CloseWaitsForJobs

LEMMA AddHandlerStep ==
    ASSUME ListenInv, NEW i \in Items, NEW parses \in BOOLEAN, AddHandler(i, parses)
    PROVE  ListenInv'
  <1>1. ListenTypeOK'
    BY DEF ListenInv, ListenTypeOK, AddHandler
  <1>3. CellInv'
    BY DEF ListenInv, ListenTypeOK, CellInv, AddHandler
  <1>4. JobRunsItsHandler'
    BY DEF ListenInv, JobRunsItsHandler, AddHandler
  <1> QED
    BY <1>1, <1>3, <1>4 DEF ListenInv, StoppedInv, CloseWaitsForJobs, AddHandler

(* Steps that leave registrations and what ran alone. *)
LEMMA SourceStep ==
    ASSUME ListenInv, Start \/ EngineStarts \/ PollEnds \/ CancelListen
    PROVE  ListenInv'
  <1>1. UNCHANGED <<kind, item, chain, cell, over, ran, closed>>
    BY DEF Start, EngineStarts, PollEnds, CancelListen
  <1>2. ListenTypeOK' /\ StoppedInv'
    BY DEF ListenInv, ListenTypeOK, StoppedInv, Start, EngineStarts, PollEnds, CancelListen
  <1> QED
    BY <1>1, <1>2 DEF ListenInv, CellInv, JobRunsItsHandler, CloseWaitsForJobs

LEMMA StopStep ==
    ASSUME ListenInv, ListenStops \/ ChannelClosed \/ CloseListener \/ CloseListenerReturns
    PROVE  ListenInv'
  <1>1. UNCHANGED <<kind, item, chain, cell, over, ran>>
    BY DEF ListenStops, ChannelClosed, CloseListener, CloseListenerReturns
  <1>2. ListenTypeOK'
    BY DEF ListenInv, ListenTypeOK, ListenStops, ChannelClosed, CloseListener,
           CloseListenerReturns, StopSource, StopPanics
  <1>3. StoppedInv'
    BY DEF ListenInv, StoppedInv, ListenStops, ChannelClosed, CloseListener,
           CloseListenerReturns, StopSource, StopPanics
  <1>4. CloseWaitsForJobs'
    BY <1>1, <1>3 DEF ListenInv, ListenTypeOK, StoppedInv, CloseWaitsForJobs, ListenStops,
           ChannelClosed, CloseListener, CloseListenerReturns, Running, StopPanics
  <1> QED
    BY <1>1, <1>2, <1>3, <1>4 DEF ListenInv, CellInv, JobRunsItsHandler

(* An item arrives: not in v2/cronw after Close. *)
LEMMA ItemStep ==
    ASSUME ListenInv, NEW i \in Items, Arrive(i) \/ TakeUpdate(i)
    PROVE  ListenInv'
  <1>1. UNCHANGED <<kind, source, chain, cell, over, ran, closed>>
    BY DEF Arrive, TakeUpdate
  <1>2. ListenTypeOK'
    BY DEF ListenInv, ListenTypeOK, Arrive, TakeUpdate
  <1>3. StoppedInv' /\ CloseWaitsForJobs'
    <2>1. CASE kind = "v2cronw"
      <3>1. closed = "no" /\ item' = [item EXCEPT ![i] = "running"]
        BY <2>1 DEF ListenInv, ListenTypeOK, StoppedInv, Arrive, TakeUpdate
      <3> QED
        BY <1>1, <3>1 DEF ListenInv, ListenTypeOK, StoppedInv, CloseWaitsForJobs
    <2>2. CASE kind # "v2cronw"
      BY <1>1, <2>2 DEF StoppedInv, CloseWaitsForJobs
    <2> QED
      BY <2>1, <2>2
  <1> QED
    BY <1>1, <1>2, <1>3 DEF ListenInv, CellInv, JobRunsItsHandler

(* A handler returns: the one at the end of the job's chain, which is its   *)
(* own or, as CellInv says, that of a later call.                           *)
LEMMA FinishStep ==
    ASSUME ListenInv, NEW i \in Items, NEW ok \in BOOLEAN, Finish(i, ok)
    PROVE  ListenInv'
  <1>1. UNCHANGED <<kind, listen, source, chain, cell, over, ctxDone, closed>>
    BY DEF Finish
  <1>2. HandlerOf(i) \in Items \cup {NoJob}
    BY DEF ListenInv, ListenTypeOK, HandlerOf
  <1>3. ListenTypeOK'
    BY <1>2 DEF ListenInv, ListenTypeOK, Finish
  <1>4. HandlerOf(i) \in {i} \cup over[i]
    BY DEF ListenInv, CellInv, HandlerOf
  <1>5. JobRunsItsHandler'
    BY <1>1, <1>4 DEF ListenInv, ListenTypeOK, JobRunsItsHandler, Finish
  <1>6. StoppedInv' /\ CloseWaitsForJobs'
    BY <1>1 DEF ListenInv, ListenTypeOK, StoppedInv, CloseWaitsForJobs, Finish
  <1> QED
    BY <1>1, <1>3, <1>5, <1>6 DEF ListenInv, CellInv

LEMMA NextInvariant == ListenInv /\ [ListenNext]_listenVars => ListenInv'
  <1> SUFFICES ASSUME ListenInv, [ListenNext]_listenVars
               PROVE  ListenInv'
    OBVIOUS
  <1>1. CASE UNCHANGED listenVars
    BY <1>1 DEF ListenInv, listenVars, ListenTypeOK, StoppedInv, CellInv,
                JobRunsItsHandler, CloseWaitsForJobs
  <1>2. ASSUME NEW i \in Items, NEW shares \in BOOLEAN, NEW parses \in BOOLEAN,
               Register(i, shares, parses)
        PROVE  ListenInv'
    BY <1>2, RegisterStep
  <1>3. ASSUME NEW i \in Items, NEW parses \in BOOLEAN, AddHandler(i, parses)
        PROVE  ListenInv'
    BY <1>3, AddHandlerStep
  <1>4. CASE Start \/ EngineStarts \/ PollEnds \/ CancelListen
    BY <1>4, SourceStep
  <1>5. CASE ListenStops \/ ChannelClosed \/ CloseListener \/ CloseListenerReturns
    BY <1>5, StopStep
  <1>6. ASSUME NEW i \in Items, Arrive(i) \/ TakeUpdate(i)
        PROVE  ListenInv'
    BY <1>6, ItemStep
  <1>7. ASSUME NEW i \in Items, NEW ok \in BOOLEAN, Finish(i, ok)
        PROVE  ListenInv'
    BY <1>7, FinishStep
  <1> QED
    BY <1>1, <1>2, <1>3, <1>4, <1>5, <1>6, <1>7 DEF ListenNext, ListenLoop

(* The type invariant and the facts about stopping and about shared slices  *)
(* hold together in every state.                                            *)
THEOREM Invariance == ListenSpec => []ListenInv
  BY InitInvariant, NextInvariant, PTL DEF ListenSpec

(* v2/cronw/cron.go:58: a job runs the handler it was registered with, or   *)
(* that of a call of Register that was given the same slice later, whether  *)
(* or not the scheduler accepted that call.                                 *)
THEOREM JobRunsItsHandlerHolds == ListenSpec => []JobRunsItsHandler
  <1>1. ListenInv => JobRunsItsHandler
    BY DEF ListenInv
  <1> QED
    BY <1>1, Invariance, PTL

(* v2/cronw/cron.go:26: when Close returned no job runs, and none was cut.  *)
THEOREM CloseWaitsForJobsHolds == ListenSpec => []CloseWaitsForJobs
  <1>1. ListenInv => CloseWaitsForJobs
    BY DEF ListenInv
  <1> QED
    BY <1>1, Invariance, PTL
=============================================================================
