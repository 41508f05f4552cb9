------------------------------ MODULE WorkPool ------------------------------
(***************************************************************************)
(* What both step runners (goroutine and v2/goroutinew) promise of one     *)
(* Run, whatever their bookkeeping: every job of the Run is waiting, then  *)
(* running, then over; at most `limit' jobs run at a time; a job is passed *)
(* over without running only after the Run was told to stop; and the Run   *)
(* ends only when every one of its jobs is over.                           *)
(***************************************************************************)
EXTENDS Integers, FiniteSets

CONSTANT PoolJobs       \* every job there can be

VARIABLES
    phase,      \* "idle", "busy", or "crashed"
    limit,      \* how many jobs may run at a time
    status,     \* where each job of the Run is
    stopped     \* the Run was told to stop

poolVars == <<phase, limit, status, stopped>>

Unused == [j \in PoolJobs |-> "none"]
Running == {j \in PoolJobs : status[j] = "running"}

PoolInit ==
    /\ phase = "idle"
    /\ limit \in Nat
    /\ status = Unused
    /\ stopped = FALSE

Begin ==
    /\ phase = "idle"
    /\ phase' = "busy"
    /\ limit' \in Nat
    /\ status' \in [PoolJobs -> {"none", "waiting"}]
    /\ stopped' \in BOOLEAN

Stop ==
    /\ phase = "busy"
    /\ stopped' = TRUE
    /\ UNCHANGED <<phase, limit, status>>

Start(j) ==
    /\ phase = "busy"
    /\ status[j] = "waiting"
    /\ Cardinality(Running) < limit
    /\ status' = [status EXCEPT ![j] = "running"]
    /\ UNCHANGED <<phase, limit, stopped>>

Finish(j) ==
    /\ phase = "busy"
    /\ status[j] = "running"
    /\ status' = [status EXCEPT ![j] = "over"]
    /\ UNCHANGED <<phase, limit, stopped>>

PassOver(j) ==
    /\ phase = "busy"
    /\ stopped
    /\ status[j] = "waiting"
    /\ status' = [status EXCEPT ![j] = "over"]
    /\ UNCHANGED <<phase, limit, stopped>>

End ==
    /\ phase = "busy"
    /\ \A j \in PoolJobs : status[j] \in {"none", "over"}
    /\ phase' = "idle"
    /\ limit' \in Nat
    /\ status' = Unused
    /\ stopped' = FALSE

Crash ==
    /\ phase = "busy"
    /\ phase' = "crashed"
    /\ UNCHANGED <<limit, status, stopped>>

PoolNext ==
    \/ Begin
    \/ Stop
    \/ \E j \in PoolJobs : Start(j) \/ Finish(j) \/ PassOver(j)
    \/ End
    \/ Crash

PoolSpec == PoolInit /\ [][PoolNext]_poolVars
=============================================================================
