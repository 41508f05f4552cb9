------------------------------ MODULE Graceful ------------------------------
(***************************************************************************)
(* Graceful shutdown of package gracefulw (v2/gracefulw/graceful.go).      *)
(*                                                                         *)
(* Cleanup tasks are registered in a global list under the mutex mu.  A    *)
(* call of Execute takes the list, runs every cleanup in a goroutine of    *)
(* its own, and returns when all of them are done or its context is.       *)
(* Wait (Start only runs the service in another goroutine first) blocks    *)
(* until SIGINT or SIGTERM and then calls Execute with a deadline.         *)
(*                                                                         *)
(* Calls are the calls made of Execute and of Wait: a program may shut     *)
(* down by hand while another goroutine waits for the signal.              *)
(***************************************************************************)
EXTENDS Integers, FiniteSets

CONSTANTS
    Tasks,      \* cleanup tasks, each registered at most once
    Calls,      \* calls of Execute and Wait
    Waits       \* those that are calls of Wait

ASSUME WaitsAssumption == Waits \subseteq Calls

VARIABLES
    registered,     \* tasks ever registered
    tasks,          \* the global list
    pc,             \* where each call is
    caught,         \* Wait's signal context is done
    ctxDone,        \* the context of each call's Execute is done
    cleanup,        \* where each call's goroutine for each task is
    wg,             \* each call's WaitGroup
    done,           \* each call's done channel is closed
    alive           \* the process runs

vars == <<registered, tasks, pc, caught, ctxDone, cleanup, wg, done, alive>>

Taken(c)   == {t \in Tasks : cleanup[c][t] # "none"}
Pending(c) == {t \in Tasks : cleanup[c][t] \in {"spawned", "running"}}
Catching   == {c \in Waits : pc[c] \in {"waiting", "signalled", "select"}}

Init ==
    /\ registered = {} /\ tasks = {}
    /\ pc = [c \in Calls |-> "idle"]
    /\ caught = [c \in Calls |-> FALSE]
    /\ ctxDone = [c \in Calls |-> FALSE]
    /\ cleanup = [c \in Calls |-> [t \in Tasks |-> "none"]]
    /\ wg = [c \in Calls |-> 0]
    /\ done = [c \in Calls |-> FALSE]
    /\ alive = TRUE

Register(t) ==
    /\ alive
    /\ t \notin registered
    /\ registered' = registered \cup {t}
    /\ tasks' = tasks \cup {t}
    /\ UNCHANGED <<pc, caught, ctxDone, cleanup, wg, done, alive>>

(* Wait: from here until it returns a signal does not kill the process. *)
Wait(c) ==
    /\ alive
    /\ c \in Waits /\ pc[c] = "idle"
    /\ pc' = [pc EXCEPT ![c] = "waiting"]
    /\ UNCHANGED <<registered, tasks, caught, ctxDone, cleanup, wg, done, alive>>

(* SIGINT or SIGTERM: every Wait in progress catches it; without one the    *)
(* runtime ends the process.                                                *)
Signal ==
    /\ alive
    /\ caught' = [c \in Calls |-> caught[c] \/ c \in Catching]
    /\ alive' = (Catching # {})
    /\ UNCHANGED <<registered, tasks, pc, ctxDone, cleanup, wg, done>>

(* Wait goes on to Execute, with a fresh context. *)
WakeUp(c) ==
    /\ alive
    /\ pc[c] = "waiting"
    /\ caught[c]
    /\ pc' = [pc EXCEPT ![c] = "signalled"]
    /\ UNCHANGED <<registered, tasks, caught, ctxDone, cleanup, wg, done, alive>>

(* Fault: the list is copied and cleared in two critical sections. *)
ExecuteInTwoSections(c) ==
    /\ alive
    /\ pc[c] = IF c \in Waits THEN "signalled" ELSE "idle"
    /\ \E copied \in SUBSET tasks :
          /\ cleanup' = [cleanup EXCEPT ![c] =
                           [t \in Tasks |-> IF t \in copied THEN "spawned" ELSE "none"]]
          /\ wg' = [wg EXCEPT ![c] = Cardinality(copied)]
    /\ tasks' = {}
    /\ pc' = [pc EXCEPT ![c] = "select"]
    /\ UNCHANGED <<registered, caught, ctxDone, done, alive>>

(* Fault: the list is not cleared. *)
ExecuteKeepingTasks(c) ==
    /\ alive
    /\ pc[c] = IF c \in Waits THEN "signalled" ELSE "idle"
    /\ cleanup' = [cleanup EXCEPT ![c] =
                     [t \in Tasks |-> IF t \in tasks THEN "spawned" ELSE "none"]]
    /\ wg' = [wg EXCEPT ![c] = Cardinality(tasks)]
    /\ pc' = [pc EXCEPT ![c] = "select"]
    /\ UNCHANGED <<registered, tasks, caught, ctxDone, done, alive>>

(* Execute takes the list and clears it in one critical section, and makes  *)
(* a goroutine for every task it took.                                      *)
Execute(c) ==
    /\ alive
    /\ pc[c] = IF c \in Waits THEN "signalled" ELSE "idle"
    /\ cleanup' = [cleanup EXCEPT ![c] =
                     [t \in Tasks |-> IF t \in tasks THEN "spawned" ELSE "none"]]
    /\ wg' = [wg EXCEPT ![c] = Cardinality(tasks)]
    /\ tasks' = {}
    /\ pc' = [pc EXCEPT ![c] = "select"]
    /\ UNCHANGED <<registered, caught, ctxDone, done, alive>>

(* The deadline of a Wait passes, or the context given to Execute is done,  *)
(* which it may be before Execute looks at anything.                        *)
ContextDone(c) ==
    /\ alive
    /\ pc[c] \in {"signalled", "select"} \/ (c \notin Waits /\ pc[c] = "idle")
    /\ ~ctxDone[c]
    /\ ctxDone' = [ctxDone EXCEPT ![c] = TRUE]
    /\ UNCHANGED <<registered, tasks, pc, caught, cleanup, wg, done, alive>>

StartCleanup(c, t) ==
    /\ alive
    /\ cleanup[c][t] = "spawned"
    /\ cleanup' = [cleanup EXCEPT ![c][t] = "running"]
    /\ UNCHANGED <<registered, tasks, pc, caught, ctxDone, wg, done, alive>>

(* The cleanup returns, with or without an error (which is only logged).    *)
(* It may also never return.                                                *)
EndCleanup(c, t) ==
    /\ alive
    /\ cleanup[c][t] = "running"
    /\ cleanup' = [cleanup EXCEPT ![c][t] = "over"]
    /\ wg' = [wg EXCEPT ![c] = @ - 1]
    /\ UNCHANGED <<registered, tasks, pc, caught, ctxDone, done, alive>>

(* A cleanup's panic is not recovered. *)
PanicCleanup(c, t) ==
    /\ alive
    /\ cleanup[c][t] = "running"
    /\ alive' = FALSE
    /\ UNCHANGED <<registered, tasks, pc, caught, ctxDone, cleanup, wg, done>>

(* Fault: wg.Add is called inside the goroutines, so that wg.Wait does not  *)
(* see those that have not started.                                         *)
CloseDoneEarly(c) ==
    /\ alive
    /\ pc[c] \in {"select", "completed", "timedout"}
    /\ ~done[c]
    /\ \A t \in Tasks : cleanup[c][t] # "running"
    /\ done' = [done EXCEPT ![c] = TRUE]
    /\ UNCHANGED <<registered, tasks, pc, caught, ctxDone, cleanup, wg, alive>>

(* The goroutine behind wg.Wait. *)
CloseDone(c) ==
    /\ alive
    /\ pc[c] \in {"select", "completed", "timedout"}
    /\ ~done[c]
    /\ wg[c] = 0
    /\ done' = [done EXCEPT ![c] = TRUE]
    /\ UNCHANGED <<registered, tasks, pc, caught, ctxDone, cleanup, wg, alive>>

(* The select of Execute: when both channels are ready, either may win. *)
Completed(c) ==
    /\ alive
    /\ pc[c] = "select" /\ done[c]
    /\ pc' = [pc EXCEPT ![c] = "completed"]
    /\ UNCHANGED <<registered, tasks, caught, ctxDone, cleanup, wg, done, alive>>

(* Fault: a timeout is taken for the end of the cleanups. *)
TimedOutUnnoticed(c) ==
    /\ alive
    /\ pc[c] = "select" /\ ctxDone[c] /\ wg[c] = 0
    /\ pc' = [pc EXCEPT ![c] = "timedout"]
    /\ UNCHANGED <<registered, tasks, caught, ctxDone, cleanup, wg, done, alive>>

TimedOut(c) ==
    /\ alive
    /\ pc[c] = "select" /\ ctxDone[c]
    /\ pc' = [pc EXCEPT ![c] = "timedout"]
    /\ UNCHANGED <<registered, tasks, caught, ctxDone, cleanup, wg, done, alive>>

(* The goroutine that waited for the signal is usually main: the process    *)
(* may end when its Wait returns, whatever still runs.                      *)
Exit ==
    /\ alive
    /\ \E c \in Waits : pc[c] \in {"completed", "timedout"}
    /\ alive' = FALSE
    /\ UNCHANGED <<registered, tasks, pc, caught, ctxDone, cleanup, wg, done>>

Ended ==
    /\ ~alive
    /\ UNCHANGED vars

Caller(c) == WakeUp(c) \/ (c \in Waits /\ Execute(c)) \/ Completed(c) \/ TimedOut(c)

Next ==
    \/ \E t \in Tasks : Register(t)
    \/ Signal
    \/ \E c \in Calls : Wait(c) \/ Execute(c) \/ ContextDone(c) \/ CloseDone(c)
    \/ \E c \in Calls : WakeUp(c) \/ Completed(c) \/ TimedOut(c)
    \/ \E c \in Calls, t \in Tasks : StartCleanup(c, t) \/ EndCleanup(c, t) \/ PanicCleanup(c, t)
    \/ Exit
    \/ Ended

Spec == Init /\ [][Next]_vars

(* Goroutines that can run do, and a Wait's deadline passes.  Cleanups need *)
(* not return, and the context given to Execute need not end.               *)
FairSpec ==
    /\ Spec
    /\ \A c \in Calls : /\ WF_vars(Caller(c)) /\ WF_vars(CloseDone(c))
                        /\ c \in Waits => WF_vars(ContextDone(c))
                        /\ \A t \in Tasks : WF_vars(StartCleanup(c, t))

-----------------------------------------------------------------------------
(* Properties. *)

(* Every variable keeps the shape its Go counterpart has. *)
TypeOK ==
    /\ registered \subseteq Tasks /\ tasks \subseteq registered
    /\ pc \in [Calls -> {"idle", "waiting", "signalled", "select", "completed", "timedout"}]
    /\ caught \in [Calls -> BOOLEAN] /\ ctxDone \in [Calls -> BOOLEAN]
    /\ cleanup \in [Calls -> [Tasks -> {"none", "spawned", "running", "over"}]]
    /\ wg \in [Calls -> Nat]       \* a negative counter panics
    /\ done \in [Calls -> BOOLEAN]
    /\ alive \in BOOLEAN

(* However many calls shut down at once, no cleanup is run twice. *)
NoDoubleCleanup == \A b, c \in Calls : b # c => Taken(b) \cap Taken(c) = {}

(* A registered task is never lost: it is in the list, or an Execute took   *)
(* it; and never both.                                                      *)
NoTaskLost == /\ registered = tasks \cup UNION {Taken(c) : c \in Calls}
              /\ \A c \in Calls : Taken(c) \cap tasks = {}

(* An Execute that reports completion has seen all cleanups it took end. *)
CompletedMeansDone ==
    \A c \in Calls : pc[c] = "completed" => \A t \in Taken(c) : cleanup[c][t] = "over"

(* After the signal Wait returns, even when a cleanup hangs. *)
WaitReturns ==
    \A c \in Waits : caught[c] ~> (pc[c] \in {"completed", "timedout"} \/ ~alive)

(* What CompletedMeansDone and NoTaskLost rest on: the WaitGroup of a call  *)
(* counts the cleanups it took that are not over.                           *)
CountInv ==
    /\ IsFiniteSet(registered)
    /\ \A c \in Calls : wg[c] = Cardinality(Pending(c))
DoneInv ==
    \A c \in Calls : /\ done[c] => Pending(c) = {}
                     /\ pc[c] = "completed" => done[c]
                     /\ pc[c] \in {"idle", "waiting", "signalled"} => Taken(c) = {} /\ ~done[c]
IInv == TypeOK /\ NoDoubleCleanup /\ NoTaskLost /\ CountInv /\ DoneInv

-----------------------------------------------------------------------------
(* What WaitReturns rests on besides the deadline, and what a call of       *)
(* Execute, which need not have one, has instead.                           *)

(* Execute that has neither completed nor timed out waits for a cleanup of  *)
(* its own that has not ended, never for one that another call runs.        *)
ExecuteNeverStuck ==
    \A c \in Calls : pc[c] = "select" =>
        \/ done[c] \/ ctxDone[c] \/ wg[c] = 0
        \/ \E t \in Taken(c) : cleanup[c][t] \in {"spawned", "running"}

CleanupStages == {<<"none", "spawned">>, <<"spawned", "running">>, <<"running", "over">>}

(* Over time a cleanup is started once: whoever takes it takes it from the  *)
(* list, which is empty then, and keeps it; it runs once and does not go    *)
(* back, whatever other calls, signals and deadlines do.                    *)
EachCleanupOnce ==
    [][\A c \in Calls, t \in Tasks : cleanup'[c][t] # cleanup[c][t] =>
           /\ <<cleanup[c][t], cleanup'[c][t]>> \in CleanupStages
           /\ cleanup[c][t] = "none" =>
                  /\ t \in tasks /\ tasks' = {}
                  /\ \A b \in Calls : cleanup[b][t] = "none"]_vars
=============================================================================
