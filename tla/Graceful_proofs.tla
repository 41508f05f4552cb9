--------------------------- MODULE Graceful_proofs ---------------------------
(***************************************************************************)
(* Proofs about module Graceful: for any tasks and any calls of Execute    *)
(* and Wait, its safety invariants hold in every reachable state.          *)
(***************************************************************************)
EXTENDS Graceful, FiniteSetTheorems, TLAPS

(* Taken and Pending only depend on where the cleanups are. *)
LEMMA SameCleanups ==
    ASSUME cleanup' = cleanup, NEW c \in Calls
    PROVE  Taken(c)' = Taken(c) /\ Pending(c)' = Pending(c)
  BY DEF Taken, Pending

(* Execute puts exactly the list's tasks on their way, for one call. *)
LEMMA ExecuteTakes ==
    ASSUME IInv, NEW b \in Calls, Execute(b)
    PROVE  /\ Taken(b)' = tasks /\ Pending(b)' = tasks
           /\ \A c \in Calls \ {b} : Taken(c)' = Taken(c) /\ Pending(c)' = Pending(c)
           /\ Taken(b) = {} /\ ~done[b]
  <1>1. tasks \subseteq Tasks
    BY DEF IInv, TypeOK
  <1>2. /\ cleanup \in [Calls -> [Tasks -> {"none", "spawned", "running", "over"}]]
        /\ cleanup' = [cleanup EXCEPT ![b] = [t \in Tasks |-> IF t \in tasks THEN "spawned" ELSE "none"]]
    BY DEF IInv, TypeOK, Execute
  <1>3. \A t \in Tasks : cleanup'[b][t] = IF t \in tasks THEN "spawned" ELSE "none"
    BY <1>2
  <1>4. \A c \in Calls \ {b} : cleanup'[c] = cleanup[c]
    BY <1>2
  <1>5. Taken(b)' = tasks /\ Pending(b)' = tasks
    BY <1>1, <1>3 DEF Taken, Pending
  <1>6. \A c \in Calls \ {b} : Taken(c)' = Taken(c) /\ Pending(c)' = Pending(c)
    BY <1>4 DEF Taken, Pending
  <1>7. Taken(b) = {} /\ ~done[b]
    BY DEF IInv, DoneInv, Execute
  <1> QED
    BY <1>5, <1>6, <1>7

(* A cleanup that starts stays on its way, one that ends leaves it. *)
LEMMA CleanupMoves ==
    ASSUME IInv, NEW b \in Calls, NEW t \in Tasks, StartCleanup(b, t) \/ EndCleanup(b, t)
    PROVE  /\ \A c \in Calls : Taken(c)' = Taken(c)
           /\ t \in Pending(b)
           /\ Pending(b)' = IF StartCleanup(b, t) THEN Pending(b) ELSE Pending(b) \ {t}
           /\ \A c \in Calls \ {b} : Pending(c)' = Pending(c)
  <1>1. /\ cleanup \in [Calls -> [Tasks -> {"none", "spawned", "running", "over"}]]
        /\ cleanup[b][t] \in {"spawned", "running"}
        /\ cleanup' = [cleanup EXCEPT ![b][t] = IF StartCleanup(b, t) THEN "running" ELSE "over"]
    BY DEF IInv, TypeOK, StartCleanup, EndCleanup
  <1>2. \A c \in Calls \ {b} : cleanup'[c] = cleanup[c]
    BY <1>1
  <1>3. /\ cleanup'[b][t] = IF StartCleanup(b, t) THEN "running" ELSE "over"
        /\ \A s \in Tasks \ {t} : cleanup'[b][s] = cleanup[b][s]
    BY <1>1
  <1> QED
    BY <1>1, <1>2, <1>3 DEF Taken, Pending

LEMMA InitInvariant == Init => IInv
  <1> SUFFICES ASSUME Init PROVE IInv
    OBVIOUS
  <1>1. \A c \in Calls : Taken(c) = {} /\ Pending(c) = {}
    BY DEF Init, Taken, Pending
  <1>2. TypeOK
    BY DEF Init, TypeOK
  <1>3. NoDoubleCleanup /\ NoTaskLost
    BY <1>1 DEF Init, NoDoubleCleanup, NoTaskLost
  <1>4. CountInv
    BY <1>1, FS_EmptySet DEF Init, CountInv
  <1>5. DoneInv
    BY <1>1 DEF Init, DoneInv
  <1> QED
    BY <1>2, <1>3, <1>4, <1>5 DEF IInv

(* Steps that move no cleanup and leave the list alone. *)
LEMMA QuietStep ==
    ASSUME IInv, TypeOK',
           UNCHANGED <<registered, tasks, cleanup, wg>>,
           \A c \in Calls : done'[c] => done[c] \/ Pending(c) = {},
           \A c \in Calls : pc'[c] = "completed" => done'[c],
           \A c \in Calls : pc'[c] \in {"idle", "waiting", "signalled"} =>
                                pc[c] \in {"idle", "waiting", "signalled"} /\ done'[c] = done[c]
    PROVE  IInv'
  <1>1. \A c \in Calls : Taken(c)' = Taken(c) /\ Pending(c)' = Pending(c)
    BY SameCleanups
  <1>2. NoDoubleCleanup'
    BY <1>1 DEF IInv, NoDoubleCleanup
  <1>3. NoTaskLost'
    BY <1>1 DEF IInv, NoTaskLost
  <1>4. CountInv'
    BY <1>1 DEF IInv, CountInv
  <1>5. DoneInv'
    BY <1>1 DEF IInv, DoneInv
  <1> QED
    BY <1>2, <1>3, <1>4, <1>5 DEF IInv

LEMMA RegisterStep ==
    ASSUME IInv, NEW t \in Tasks, Register(t)
    PROVE  IInv'
  <1>1. \A c \in Calls : Taken(c)' = Taken(c) /\ Pending(c)' = Pending(c)
    BY SameCleanups DEF Register
  <1>2. \A c \in Calls : t \notin Taken(c)
    BY DEF IInv, NoTaskLost, Register
  <1>3. TypeOK'
    BY DEF IInv, TypeOK, Register
  <1>4. NoDoubleCleanup'
    BY <1>1 DEF IInv, NoDoubleCleanup
  <1>5. NoTaskLost'
    BY <1>1, <1>2 DEF IInv, NoTaskLost, Register
  <1>6. CountInv'
    BY <1>1, FS_AddElement DEF IInv, CountInv, Register
  <1>7. DoneInv'
    BY <1>1 DEF IInv, DoneInv, Register
  <1> QED
    BY <1>3, <1>4, <1>5, <1>6, <1>7 DEF IInv

LEMMA ExecuteStep ==
    ASSUME IInv, NEW b \in Calls, Execute(b)
    PROVE  IInv'
  <1>1. /\ Taken(b)' = tasks /\ Pending(b)' = tasks
        /\ \A c \in Calls \ {b} : Taken(c)' = Taken(c) /\ Pending(c)' = Pending(c)
        /\ Taken(b) = {} /\ ~done[b]
    BY ExecuteTakes
  <1>2. IsFiniteSet(tasks) /\ Cardinality(tasks) \in Nat
    BY FS_Subset, FS_CardinalityType DEF IInv, TypeOK, CountInv
  <1>3. TypeOK'
    BY <1>2 DEF IInv, TypeOK, Execute
  <1>4. NoDoubleCleanup'
    BY <1>1 DEF IInv, NoDoubleCleanup, NoTaskLost
  <1>5. NoTaskLost'
    BY <1>1 DEF IInv, NoTaskLost, Execute
  <1>6. CountInv'
    <2>1. wg' = [wg EXCEPT ![b] = Cardinality(tasks)] /\ wg \in [Calls -> Nat]
      BY DEF IInv, TypeOK, Execute
    <2> QED
      BY <1>1, <2>1 DEF IInv, CountInv, Execute
  <1>7. DoneInv'
    <2>1. pc' = [pc EXCEPT ![b] = "select"] /\ done' = done /\ DOMAIN pc = Calls
      BY DEF IInv, TypeOK, Execute
    <2> QED
      BY <1>1, <2>1 DEF IInv, DoneInv
  <1> QED
    BY <1>3, <1>4, <1>5, <1>6, <1>7 DEF IInv

LEMMA CleanupStep ==
    ASSUME IInv, NEW b \in Calls, NEW t \in Tasks, StartCleanup(b, t) \/ EndCleanup(b, t)
    PROVE  IInv'
  <1>1. /\ \A c \in Calls : Taken(c)' = Taken(c)
        /\ t \in Pending(b)
        /\ Pending(b)' = IF StartCleanup(b, t) THEN Pending(b) ELSE Pending(b) \ {t}
        /\ \A c \in Calls \ {b} : Pending(c)' = Pending(c)
    BY CleanupMoves
  <1>2. IsFiniteSet(Pending(b))
    <2>1. Pending(b) \subseteq registered
      BY DEF IInv, NoTaskLost, Pending, Taken
    <2> QED
      BY <2>1, FS_Subset DEF IInv, CountInv
  <1>3. /\ Cardinality(Pending(b)) \in Nat
        /\ Cardinality(Pending(b) \ {t}) = Cardinality(Pending(b)) - 1
        /\ Cardinality(Pending(b) \ {t}) \in Nat
    BY <1>1, <1>2, FS_CardinalityType, FS_RemoveElement
  <1>4. /\ UNCHANGED <<registered, tasks, pc, caught, ctxDone, done, alive>>
        /\ wg' = IF StartCleanup(b, t) THEN wg ELSE [wg EXCEPT ![b] = @ - 1]
    BY DEF StartCleanup, EndCleanup
  <1>5. wg[b] = Cardinality(Pending(b)) /\ wg \in [Calls -> Nat]
    BY DEF IInv, CountInv, TypeOK
  <1>6. wg' \in [Calls -> Nat]
    BY <1>3, <1>4, <1>5
  <1>7. cleanup' \in [Calls -> [Tasks -> {"none", "spawned", "running", "over"}]]
    <2>1. /\ cleanup \in [Calls -> [Tasks -> {"none", "spawned", "running", "over"}]]
          /\ cleanup' = [cleanup EXCEPT ![b][t] =
                           IF StartCleanup(b, t) THEN "running" ELSE "over"]
      BY DEF IInv, TypeOK, StartCleanup, EndCleanup
    <2>2. cleanup'[b] \in [Tasks -> {"none", "spawned", "running", "over"}]
      BY <2>1
    <2>3. \A c \in Calls \ {b} : cleanup'[c] = cleanup[c]
      BY <2>1
    <2>4. cleanup' = [c \in Calls |-> cleanup'[c]]
      BY <2>1
    <2> QED
      BY <2>1, <2>2, <2>3, <2>4
  <1>8. TypeOK'
    BY <1>4, <1>6, <1>7 DEF IInv, TypeOK
  <1>9. NoDoubleCleanup' /\ NoTaskLost'
    BY <1>1, <1>4 DEF IInv, NoDoubleCleanup, NoTaskLost
  <1>10. CountInv'
    BY <1>1, <1>3, <1>4, <1>5 DEF IInv, CountInv
  <1>11. DoneInv'
    BY <1>1, <1>4 DEF IInv, DoneInv
  <1> QED
    BY <1>8, <1>9, <1>10, <1>11 DEF IInv

LEMMA CloseDoneStep ==
    ASSUME IInv, NEW b \in Calls, CloseDone(b)
    PROVE  IInv'
  <1>1. Pending(b) = {}
    <2>1. IsFiniteSet(Pending(b))
      <3>1. Pending(b) \subseteq registered
        BY DEF IInv, NoTaskLost, Pending, Taken
      <3> QED
        BY <3>1, FS_Subset DEF IInv, CountInv
    <2> QED
      BY <2>1, FS_EmptySet DEF IInv, CountInv, CloseDone
  <1>2. done' = [done EXCEPT ![b] = TRUE] /\ done \in [Calls -> BOOLEAN]
    BY DEF IInv, TypeOK, CloseDone
  <1>3. TypeOK'
    BY DEF IInv, TypeOK, CloseDone
  <1>4. \A c \in Calls : done'[c] => done[c] \/ Pending(c) = {}
    BY <1>1, <1>2
  <1>5. \A c \in Calls : pc'[c] = "completed" => done'[c]
    BY <1>2 DEF IInv, DoneInv, CloseDone
  <1>6. \A c \in Calls : pc'[c] \in {"idle", "waiting", "signalled"} =>
                            pc[c] \in {"idle", "waiting", "signalled"} /\ done'[c] = done[c]
    BY <1>2 DEF CloseDone
  <1> QED
    BY <1>3, <1>4, <1>5, <1>6, QuietStep DEF CloseDone

LEMMA CallerStep ==
    ASSUME IInv, NEW b \in Calls, Wait(b) \/ WakeUp(b) \/ Completed(b) \/ TimedOut(b)
    PROVE  IInv'
  <1>1. PICK where \in {"waiting", "signalled", "completed", "timedout"} :
            /\ pc' = [pc EXCEPT ![b] = where]
            /\ where \in {"waiting", "signalled"} => pc[b] \in {"idle", "waiting"}
            /\ where = "completed" => done[b]
    BY DEF Wait, WakeUp, Completed, TimedOut
  <1>2. UNCHANGED <<registered, tasks, caught, ctxDone, cleanup, wg, done, alive>>
    BY DEF Wait, WakeUp, Completed, TimedOut
  <1>3. pc \in [Calls -> {"idle", "waiting", "signalled", "select", "completed", "timedout"}]
    BY DEF IInv, TypeOK
  <1>4. TypeOK'
    BY <1>1, <1>2, <1>3 DEF IInv, TypeOK
  <1>5. \A c \in Calls : pc'[c] = "completed" => done'[c]
    BY <1>1, <1>2, <1>3 DEF IInv, DoneInv
  <1>6. \A c \in Calls : pc'[c] \in {"idle", "waiting", "signalled"} =>
                            pc[c] \in {"idle", "waiting", "signalled"} /\ done'[c] = done[c]
    BY <1>1, <1>2, <1>3
  <1> QED
    BY <1>2, <1>4, <1>5, <1>6, QuietStep

(* The signal, the deadlines, and whatever ends the process. *)
LEMMA OutsideStep ==
    ASSUME IInv,
           \/ Signal \/ Exit \/ UNCHANGED vars
           \/ \E c \in Calls : ContextDone(c) \/ \E t \in Tasks : PanicCleanup(c, t)
    PROVE  IInv'
  <1>1. UNCHANGED <<registered, tasks, pc, cleanup, wg, done>>
    BY DEF Signal, Exit, vars, ContextDone, PanicCleanup
  <1>2. caught' \in [Calls -> BOOLEAN] /\ ctxDone' \in [Calls -> BOOLEAN] /\ alive' \in BOOLEAN
    BY DEF IInv, TypeOK, Signal, Exit, vars, ContextDone, PanicCleanup
  <1>3. TypeOK'
    BY <1>1, <1>2 DEF IInv, TypeOK
  <1> QED
    BY <1>1, <1>3, QuietStep DEF IInv, DoneInv

LEMMA NextInvariant == IInv /\ [Next]_vars => IInv'
  <1> SUFFICES ASSUME IInv, [Next]_vars PROVE IInv'
    OBVIOUS
  <1>1. CASE \E t \in Tasks : Register(t)
    BY <1>1, RegisterStep
  <1>2. CASE \E c \in Calls : Execute(c)
    BY <1>2, ExecuteStep
  <1>3. CASE \E c \in Calls : Wait(c) \/ WakeUp(c) \/ Completed(c) \/ TimedOut(c)
    BY <1>3, CallerStep
  <1>4. CASE \E c \in Calls : CloseDone(c)
    BY <1>4, CloseDoneStep
  <1>5. CASE \E c \in Calls, t \in Tasks : StartCleanup(c, t) \/ EndCleanup(c, t)
    BY <1>5, CleanupStep
  <1>6. CASE \/ Signal \/ Exit \/ Ended \/ UNCHANGED vars
             \/ \E c \in Calls : ContextDone(c) \/ \E t \in Tasks : PanicCleanup(c, t)
    BY <1>6, OutsideStep DEF Ended
  <1> QED
    BY <1>1, <1>2, <1>3, <1>4, <1>5, <1>6 DEF Next

(* The strengthened invariant holds in every reachable state. *)
THEOREM Invariance == Spec => []IInv
  BY InitInvariant, NextInvariant, PTL DEF Spec

(* Type correctness: no WaitGroup counter goes below zero, for one. *)
THEOREM TypeCorrect == Spec => []TypeOK
  <1>1. IInv => TypeOK
    BY DEF IInv
  <1> QED
    BY <1>1, Invariance, PTL

(* No cleanup is taken by two calls, however many of them shut down.        *)
THEOREM NoDoubleCleanupHolds == Spec => []NoDoubleCleanup
  <1>1. IInv => NoDoubleCleanup
    BY DEF IInv
  <1> QED
    BY <1>1, Invariance, PTL

(* No task registered while calls shut down is lost. *)
THEOREM NoTaskLostHolds == Spec => []NoTaskLost
  <1>1. IInv => NoTaskLost
    BY DEF IInv
  <1> QED
    BY <1>1, Invariance, PTL

(* An Execute that reports completion saw all its cleanups end. *)
THEOREM CompletedMeansDoneHolds == Spec => []CompletedMeansDone
  <1>1. IInv => CompletedMeansDone
    <2> SUFFICES ASSUME IInv, NEW c \in Calls, pc[c] = "completed", NEW t \in Taken(c)
                 PROVE  cleanup[c][t] = "over"
      BY DEF CompletedMeansDone
    <2>1. Pending(c) = {}
      BY DEF IInv, DoneInv
    <2>2. cleanup[c][t] \in {"none", "spawned", "running", "over"} /\ t \in Tasks
      BY DEF IInv, TypeOK, Taken
    <2> QED
      BY <2>1, <2>2 DEF Taken, Pending
  <1> QED
    BY <1>1, Invariance, PTL

-----------------------------------------------------------------------------
(* Shutdown goes forward. *)

(* graceful.go (Execute): whoever still waits has a cleanup of its own that *)
(* has not ended; no counter is left behind by one that did.                *)
THEOREM ExecuteNeverStuckHolds == Spec => []ExecuteNeverStuck
  <1>1. ASSUME IInv
        PROVE  ExecuteNeverStuck
    <2> SUFFICES ASSUME NEW c \in Calls, pc[c] = "select", wg[c] # 0
                 PROVE  \E t \in Taken(c) : cleanup[c][t] \in {"spawned", "running"}
      BY DEF ExecuteNeverStuck
    <2>1. Cardinality(Pending(c)) # 0
      BY <1>1 DEF IInv, CountInv
    <2>2. PICK t \in Pending(c) : TRUE
      BY <2>1, FS_EmptySet
    <2> QED
      BY <2>2 DEF Pending, Taken
  <1> QED
    BY <1>1, Invariance, PTL

LEMMA ExecuteStarts ==
    ASSUME IInv, NEW b \in Calls, Execute(b), NEW c \in Calls, NEW t \in Tasks,
           cleanup'[c][t] # cleanup[c][t]
    PROVE  /\ <<cleanup[c][t], cleanup'[c][t]>> \in CleanupStages
           /\ t \in tasks /\ tasks' = {}
           /\ \A d \in Calls : cleanup[d][t] = "none"
  <1>1. /\ cleanup \in [Calls -> [Tasks -> {"none", "spawned", "running", "over"}]]
        /\ cleanup' = [cleanup EXCEPT ![b] = [s \in Tasks |-> IF s \in tasks THEN "spawned" ELSE "none"]]
        /\ tasks' = {}
    BY DEF IInv, TypeOK, Execute
  <1>2. c = b /\ cleanup'[c][t] = IF t \in tasks THEN "spawned" ELSE "none"
    BY <1>1
  <1>3. cleanup[b][t] = "none"
    BY ExecuteTakes DEF Taken
  <1>4. t \in tasks
    BY <1>2, <1>3
  <1>5. \A d \in Calls : cleanup[d][t] = "none"
    BY <1>4 DEF IInv, NoTaskLost, Taken
  <1> QED
    BY <1>1, <1>2, <1>3, <1>4, <1>5 DEF CleanupStages

(* graceful.go (Execute): however many calls shut down, each cleanup is     *)
(* started once, out of the list, and never again.                          *)
THEOREM EachCleanupOnceHolds == Spec => EachCleanupOnce
  <1>1. ASSUME IInv, [Next]_vars, NEW c \in Calls, NEW t \in Tasks, cleanup'[c][t] # cleanup[c][t]
        PROVE  /\ <<cleanup[c][t], cleanup'[c][t]>> \in CleanupStages
               /\ cleanup[c][t] = "none" =>
                      /\ t \in tasks /\ tasks' = {}
                      /\ \A b \in Calls : cleanup[b][t] = "none"
    <2>1. CASE \E b \in Calls : Execute(b)
      BY <1>1, <2>1, ExecuteStarts
    <2>2. CASE \E b \in Calls, s \in Tasks : StartCleanup(b, s)
      <3>1. PICK b \in Calls, s \in Tasks : StartCleanup(b, s)
        BY <2>2
      <3>2. /\ cleanup \in [Calls -> [Tasks -> {"none", "spawned", "running", "over"}]]
            /\ cleanup[b][s] = "spawned" /\ cleanup' = [cleanup EXCEPT ![b][s] = "running"]
        BY <1>1, <3>1 DEF IInv, TypeOK, StartCleanup
      <3>3. c = b /\ t = s /\ cleanup'[c][t] = "running"
        BY <1>1, <3>2
      <3> QED
        BY <3>2, <3>3 DEF CleanupStages
    <2>3. CASE \E b \in Calls, s \in Tasks : EndCleanup(b, s)
      <3>1. PICK b \in Calls, s \in Tasks : EndCleanup(b, s)
        BY <2>3
      <3>2. /\ cleanup \in [Calls -> [Tasks -> {"none", "spawned", "running", "over"}]]
            /\ cleanup[b][s] = "running" /\ cleanup' = [cleanup EXCEPT ![b][s] = "over"]
        BY <1>1, <3>1 DEF IInv, TypeOK, EndCleanup
      <3>3. c = b /\ t = s /\ cleanup'[c][t] = "over"
        BY <1>1, <3>2
      <3> QED
        BY <3>2, <3>3 DEF CleanupStages
    <2>4. CASE cleanup' = cleanup
      BY <1>1, <2>4
    <2> QED
      BY <1>1, <2>1, <2>2, <2>3, <2>4
         DEF Next, Register, Signal, Wait, ContextDone, CloseDone, WakeUp, Completed, TimedOut,
             PanicCleanup, Exit, Ended, vars
  <1>2. IInv /\ [Next]_vars
            => [\A c \in Calls, t \in Tasks : cleanup'[c][t] # cleanup[c][t] =>
                    /\ <<cleanup[c][t], cleanup'[c][t]>> \in CleanupStages
                    /\ cleanup[c][t] = "none" =>
                           /\ t \in tasks /\ tasks' = {}
                           /\ \A b \in Calls : cleanup[b][t] = "none"]_vars
    BY <1>1
  <1> QED
    BY <1>2, Invariance, PTL DEF Spec, EachCleanupOnce
=============================================================================
