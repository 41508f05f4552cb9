----------------------------- MODULE Listeners ------------------------------
(***************************************************************************)
(* What calls handlers without a broker behind it: the bots of             *)
(* v2/botw/telegramw and v2/botw/discordw, and the schedulers cronw and    *)
(* v2/cronw.  The initial state chooses one.  An item is an update a bot   *)
(* receives, or a job of a scheduler: a call that registers it, and the    *)
(* run it becomes due for.                                                 *)
(***************************************************************************)
EXTENDS Integers

CONSTANTS Items, NoJob

ASSUME ListenAssumption == NoJob \notin Items

VARIABLES
    kind,       \* "telegramw", "discordw", "cronw" or "v2cronw"
    listen,     \* Listen, or Start of cronw: "new", "listening", "returned"
    source,     \* poll loop, session or engine: "off", "starting", "on", "stopping", "stopped"
    item,       \* "none", "buffered", "running", "done", "cut"
    chain,      \* how a job was registered: "no", "own", "shared", "refused"
    cell,       \* handler in the spare element of the slice callers share
    over,       \* the calls that put theirs there after a job's
    ran,        \* the handler a job ran; NoJob before
    ctxDone,    \* the context of Listen is done; for cronw, the signal came
    closed,     \* Close or Stop by the application: "no", "waiting", "returned"
    ended       \* "no", or how the process ended: "fatal", "panic"

listenVars == <<kind, listen, source, item, chain, cell, over, ran, ctxDone, closed, ended>>

Bot == kind \in {"telegramw", "discordw"}
Running == {i \in Items : item[i] = "running"}

ListenInit ==
    /\ kind \in {"telegramw", "discordw", "cronw", "v2cronw"}
    /\ listen = "new" /\ source = "off"
    /\ item = [i \in Items |-> "none"] /\ chain = [i \in Items |-> "no"]
    /\ cell = NoJob /\ over = [i \in Items |-> {}] /\ ran = [i \in Items |-> NoJob]
    /\ ctxDone = FALSE /\ closed = "no" /\ ended = "no"

-----------------------------------------------------------------------------
(* Registration of jobs. *)

(* Register puts the handler behind the middlewares with append, in a new   *)
(* array, or in the caller's when that has an element to spare; then the    *)
(* scheduler parses the pattern, and may refuse it.                         *)
Register(i, shares, parses) ==
    /\ kind = "v2cronw" /\ chain[i] = "no"
    /\ chain' = [chain EXCEPT ![i] = IF ~parses THEN "refused"
                                     ELSE IF shares THEN "shared" ELSE "own"]
    /\ IF shares
       THEN /\ cell' = i
            /\ over' = [j \in Items |-> IF chain[j] = "shared" THEN over[j] \cup {i} ELSE over[j]]
       ELSE UNCHANGED <<cell, over>>
    /\ UNCHANGED <<kind, listen, source, item, ran, ctxDone, closed, ended>>

(* AddHandler closes over its own parameter; a pattern that does not parse  *)
(* is fatal, where Register returns it as an error.                         *)
AddHandler(i, parses) ==
    /\ kind = "cronw" /\ chain[i] = "no" /\ listen = "new"
    /\ chain' = IF parses THEN [chain EXCEPT ![i] = "own"] ELSE chain
    /\ ended' = IF parses THEN "no" ELSE "fatal"
    /\ UNCHANGED <<kind, listen, source, item, cell, over, ran, ctxDone, closed>>

-----------------------------------------------------------------------------
(* Start of Listen, or of the scheduler. *)

(* Telegram polls at once; Discord's session may fail to open; cronw leaves *)
(* the start of the engine to a goroutine and waits for a signal; Start of  *)
(* v2/cronw, which its users call before Close, returns.                    *)
Start ==
    /\ listen = "new"
    /\ CASE kind = "telegramw" -> /\ listen' = "listening"
                                  /\ source' = IF source = "off" THEN "on" ELSE source
         [] kind = "discordw"  -> \/ listen' = "listening" /\ source' = "on"
                                  \/ listen' = "returned" /\ UNCHANGED source
         [] kind = "cronw"     -> listen' = "listening" /\ source' = "starting"
         [] kind = "v2cronw"   -> closed = "no" /\ listen' = "returned" /\ source' = "on"
    /\ UNCHANGED <<kind, item, chain, cell, over, ran, ctxDone, closed, ended>>

EngineStarts ==
    /\ source = "starting" /\ source' = "on"
    /\ UNCHANGED <<kind, listen, item, chain, cell, over, ran, ctxDone, closed, ended>>

-----------------------------------------------------------------------------
(* Items. *)

(* A poll that is under way when updates are stopped still brings some. *)
Arrive(i) ==
    /\ source = "on" \/ source = "stopping"
    /\ item[i] = "none"
    /\ Bot \/ chain[i] \in {"own", "shared"}
    /\ item' = [item EXCEPT ![i] = IF kind = "telegramw" THEN "buffered" ELSE "running"]
    /\ UNCHANGED <<kind, listen, source, chain, cell, over, ran, ctxDone, closed, ended>>

(* Listen takes an update from the channel: one without a message is        *)
(* skipped, and a message is handled in a goroutine of its own, without its *)
(* file if the file's address cannot be had.  Discord skips the bot's own   *)
(* messages likewise.                                                       *)
TakeUpdate(i) ==
    /\ listen = "listening" /\ item[i] = "buffered"
    /\ item' \in {[item EXCEPT ![i] = s] : s \in {"running", "done"}}
    /\ UNCHANGED <<kind, listen, source, chain, cell, over, ran, ctxDone, closed, ended>>

(* Fault: a job always runs the chain as the engine finds it in the slice.  *)
HandlerFromSlice(i) == IF cell = NoJob THEN i ELSE cell
(* The handler at the end of a job's chain, read when the job runs. *)
HandlerOf(i) == IF chain[i] = "shared" THEN cell ELSE i

(* A handler returns.  Errors are logged, except that cronw logs them as    *)
(* fatal, which ends the process and cuts every other run.                  *)
Finish(i, ok) ==
    LET fatal == kind = "cronw" /\ ~ok IN
    /\ item[i] = "running"
    /\ ran' = [ran EXCEPT ![i] = HandlerOf(i)]
    /\ item' = [j \in Items |-> IF j = i THEN "done"
                                ELSE IF fatal /\ item[j] = "running" THEN "cut" ELSE item[j]]
    /\ ended' = IF fatal THEN "fatal" ELSE "no"
    /\ UNCHANGED <<kind, listen, source, chain, cell, over, ctxDone, closed>>

-----------------------------------------------------------------------------
(* The end of Listen, Stop and Close. *)

CancelListen ==
    /\ kind # "v2cronw" /\ ~ctxDone /\ ctxDone' = TRUE
    /\ UNCHANGED <<kind, listen, source, item, chain, cell, over, ran, closed, ended>>

(* StopReceivingUpdates closes a channel, and panics if it was closed       *)
(* before; the poll loop sees it after its request.  A session that is      *)
(* closed twice, or an engine stopped twice or before it runs, is as it was.*)
StopPanics == kind = "telegramw" /\ source \in {"stopping", "stopped"}
StopSource ==
    /\ source' = CASE StopPanics          -> source
                   [] source = "on"       -> IF kind = "telegramw" THEN "stopping" ELSE "stopped"
                   [] kind = "telegramw"  -> "stopped"
                   [] OTHER               -> source
    /\ ended' = IF StopPanics THEN "panic" ELSE "no"

PollEnds ==
    /\ kind = "telegramw" /\ source = "stopping" /\ source' = "stopped"
    /\ UNCHANGED <<kind, listen, item, chain, cell, over, ran, ctxDone, closed, ended>>

(* Fault: Listen waits for the source to end, which it has not asked to. *)
ListenStopsLate ==
    /\ listen = "listening" /\ ctxDone /\ source # "on"
    /\ listen' = "returned"
    /\ StopSource
    /\ UNCHANGED <<kind, item, chain, cell, over, ran, ctxDone, closed>>

(* The context is done, or the signal came: what Listen does last. *)
ListenStops ==
    /\ listen = "listening" /\ ctxDone
    /\ listen' = IF StopPanics THEN listen ELSE "returned"
    /\ StopSource
    /\ UNCHANGED <<kind, item, chain, cell, over, ran, ctxDone, closed>>

(* Telegram's channel was closed and is empty. *)
ChannelClosed ==
    /\ kind = "telegramw" /\ listen = "listening" /\ source = "stopped"
    /\ \A i \in Items : item[i] # "buffered"
    /\ listen' = "returned"
    /\ UNCHANGED <<kind, source, item, chain, cell, over, ran, ctxDone, closed, ended>>

(* Close of the bots and Stop of cronw do not wait, Close of v2/cronw does. *)
CloseListener ==
    /\ closed = "no"
    /\ closed' = IF StopPanics THEN "no" ELSE IF kind = "v2cronw" THEN "waiting" ELSE "returned"
    /\ StopSource
    /\ UNCHANGED <<kind, listen, item, chain, cell, over, ran, ctxDone>>
CloseListenerReturns ==
    /\ closed = "waiting" /\ Running = {} /\ closed' = "returned"
    /\ UNCHANGED <<kind, listen, source, item, chain, cell, over, ran, ctxDone, ended>>

ListenLoop == (\E i \in Items : TakeUpdate(i)) \/ ListenStops \/ ChannelClosed \/ PollEnds \/ EngineStarts

ListenNext ==
    /\ ended = "no"
    /\ \/ Start \/ ListenLoop \/ CancelListen \/ CloseListener \/ CloseListenerReturns
       \/ \E i \in Items :
             \/ \E shares, parses \in BOOLEAN : Register(i, shares, parses)
             \/ \E parses \in BOOLEAN : AddHandler(i, parses)
             \/ Arrive(i)
             \/ \E ok \in BOOLEAN : Finish(i, ok)

ListenSpec == ListenInit /\ [][ListenNext]_listenVars

(* Listen's goroutine and those of the libraries run; handlers come back. *)
ListenFairness ==
    /\ WF_listenVars(ended = "no" /\ ListenLoop)
    /\ WF_listenVars(ended = "no" /\ CloseListenerReturns)
    /\ \A i \in Items : WF_listenVars(ended = "no" /\ \E ok \in BOOLEAN : Finish(i, ok))

-----------------------------------------------------------------------------
(* Properties. *)

(* Every variable keeps the shape its Go counterpart has. *)
ListenTypeOK ==
    /\ kind \in {"telegramw", "discordw", "cronw", "v2cronw"}
    /\ listen \in {"new", "listening", "returned"}
    /\ source \in {"off", "starting", "on", "stopping", "stopped"}
    /\ item \in [Items -> {"none", "buffered", "running", "done", "cut"}]
    /\ chain \in [Items -> {"no", "own", "shared", "refused"}]
    /\ over \in [Items -> SUBSET Items]
    /\ cell \in Items \cup {NoJob} /\ ran \in [Items -> Items \cup {NoJob}]
    /\ ctxDone \in BOOLEAN /\ closed \in {"no", "waiting", "returned"}
    /\ ended \in {"no", "fatal", "panic"}

(* v2/cronw/cron.go:26: Close blocks until all running jobs finish, so that *)
(* none runs, and none was cut, once it returned.                           *)
CloseWaitsForJobs ==
    kind = "v2cronw" /\ closed = "returned" =>
        \A i \in Items : item[i] \notin {"running", "cut"}

(* v2/cronw/cron.go:58: a job runs the handler it was registered with,      *)
(* unless a later call of Register was given the same slice of middlewares, *)
(* with an element to spare; then it runs that call's handler, also if the  *)
(* scheduler refused the call's pattern.                                    *)
JobRunsItsHandler == \A i \in Items : ran[i] \in {i, NoJob} \cup over[i]

(* What is under way in v2/cronw once Close was called: the engine is not   *)
(* started again, and jobs that run are what Close waits for.               *)
StoppedInv ==
    kind = "v2cronw" =>
        /\ source \in {"off", "on", "stopped"}
        /\ closed # "no" => source # "on"
        /\ \A i \in Items : item[i] \notin {"buffered", "cut"}

(* The spare element holds the handler of a job that uses it, if and only   *)
(* if no later call was given the slice.                                    *)
CellInv ==
    \A i \in Items :
        /\ chain[i] # "shared" => over[i] = {}
        /\ chain[i] = "shared" =>
              IF over[i] = {} THEN cell = i ELSE cell \in over[i] \ {i}

ListenInv == ListenTypeOK /\ StoppedInv /\ CellInv /\ JobRunsItsHandler /\ CloseWaitsForJobs

(* Listen comes back when its context is done; Telegram's also after Close, *)
(* though updates and handlers are still under way, unless both happen:     *)
(* then the second of them may panic (telegram.go:134, :142).  A failing    *)
(* job of cronw may end the process before its Start does.  Discord's       *)
(* Listen waits for its context alone (discord.go:113).                     *)
ListenReturns ==
    listen = "listening" /\ (ctxDone \/ (closed # "no" /\ kind = "telegramw"))
        ~> \/ listen = "returned"
           \/ kind = "telegramw" /\ ctxDone /\ closed # "no" /\ ended = "panic"
           \/ kind = "cronw" /\ ended = "fatal"
=============================================================================
