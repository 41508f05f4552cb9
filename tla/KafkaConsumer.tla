--------------------------- MODULE KafkaConsumer ---------------------------
(***************************************************************************)
(* The consumer of package kafkaw (v2/brokerw/kafkaw/kafka.go) on one      *)
(* partition of a topic, with the part of the kafka-go reader and of the   *)
(* broker it relies on.                                                    *)
(*                                                                         *)
(* The broker keeps a log of messages 1 .. written and the group's         *)
(* committed offset.  The reader hands out the log from its own position,  *)
(* which is the committed offset only when the process starts again or     *)
(* the partition is assigned again.  The goroutine of Consume fetches a    *)
(* message, runs the handlers over it, and commits it if all succeeded.    *)
(***************************************************************************)
EXTENDS Integers

CONSTANTS
    MaxMessages,    \* bound: messages written
    MaxRestarts     \* bound: crashes and reassignments

ASSUME KafkaAssumption == MaxMessages \in Nat /\ MaxRestarts \in Nat

VARIABLES
    written,        \* messages in the log
    committed,      \* the group's offset: messages up to here are done with
    position,       \* the last message the reader handed out
    pc,             \* where the goroutine of Consume is
    m,              \* the message it works on
    handled,        \* messages on which all handlers succeeded
    refused,        \* messages on which a handler failed
    ctx,            \* state of the context given to Consume
    closed,         \* Close was called
    restarts

vars == <<written, committed, position, pc, m, handled, refused, ctx, closed, restarts>>

Init ==
    /\ written = 0 /\ committed = 0 /\ position = 0
    /\ pc = "fetch" /\ m = 0
    /\ handled = {} /\ refused = {}
    /\ ctx = "live" /\ closed = FALSE
    /\ restarts = 0

(* A message of some producer's Send or BulkSend. *)
Send ==
    /\ written < MaxMessages
    /\ written' = written + 1
    /\ UNCHANGED <<committed, position, pc, m, handled, refused, ctx, closed, restarts>>

(* A message that is there is handed out even when the context is done or   *)
(* the reader closed: FetchMessage selects among what is ready.             *)
FetchMessage ==
    /\ pc = "fetch"
    /\ position < written
    /\ position' = position + 1
    /\ m' = position'
    /\ pc' = "handle"
    /\ UNCHANGED <<written, committed, handled, refused, ctx, closed, restarts>>

(* Fault: an error ends the goroutine only if the reader was closed too. *)
FetchCanceledWhenClosed ==
    /\ pc = "fetch"
    /\ ctx = "canceled" /\ closed
    /\ pc' = "ended"
    /\ UNCHANGED <<written, committed, position, m, handled, refused, ctx, closed, restarts>>

(* FetchMessage fails.  context.Canceled ends the goroutine ... *)
FetchCanceled ==
    /\ pc = "fetch"
    /\ ctx = "canceled"
    /\ pc' = "ended"
    /\ UNCHANGED <<written, committed, position, m, handled, refused, ctx, closed, restarts>>

(* ... and any other error is logged and tried again: the deadline of the   *)
(* context, io.EOF of a closed reader, trouble with the broker.             *)
FetchError ==
    /\ pc = "fetch"
    /\ pc' = "log"
    /\ UNCHANGED <<written, committed, position, m, handled, refused, ctx, closed, restarts>>
FetchAgain ==
    /\ pc = "log"
    /\ pc' = "fetch"
    /\ UNCHANGED <<written, committed, position, m, handled, refused, ctx, closed, restarts>>

(* Fault: a failed handler ends the goroutine. *)
HandleOrGiveUp(ok) ==
    /\ pc = "handle"
    /\ pc' = IF ok THEN "commit" ELSE "ended"
    /\ handled' = IF ok THEN handled \cup {m} ELSE handled
    /\ refused' = IF ok THEN refused ELSE refused \cup {m}
    /\ UNCHANGED <<written, committed, position, m, ctx, closed, restarts>>

(* ExecuteHandlers stops at the first error; such a message is not          *)
(* committed.                                                               *)
Handle(ok) ==
    /\ pc = "handle"
    /\ pc' = IF ok THEN "commit" ELSE "fetch"
    /\ handled' = IF ok THEN handled \cup {m} ELSE handled
    /\ refused' = IF ok THEN refused ELSE refused \cup {m}
    /\ UNCHANGED <<written, committed, position, m, ctx, closed, restarts>>

(* The commit sets the group's offset, or fails, which is only logged. *)
CommitMessages ==
    /\ pc = "commit"
    /\ committed' \in {committed, m}
    /\ pc' = "fetch"
    /\ UNCHANGED <<written, position, m, handled, refused, ctx, closed, restarts>>

(* Fault: a new process goes on where the old one was. *)
RestartInPlace ==
    /\ restarts < MaxRestarts
    /\ restarts' = restarts + 1
    /\ pc' = "fetch" /\ m' = 0
    /\ ctx' = "live" /\ closed' = FALSE
    /\ UNCHANGED <<written, committed, position, handled, refused>>

(* The process ends, by a handler's panic for one, and another one calls    *)
(* Consume: its reader begins at the committed offset.                      *)
Restart ==
    /\ restarts < MaxRestarts
    /\ restarts' = restarts + 1
    /\ position' = committed
    /\ pc' = "fetch" /\ m' = 0
    /\ ctx' = "live" /\ closed' = FALSE
    /\ UNCHANGED <<written, committed, handled, refused>>

(* The partition is assigned again while the process runs. *)
Rebalance ==
    /\ restarts < MaxRestarts
    /\ restarts' = restarts + 1
    /\ position' = committed
    /\ UNCHANGED <<written, committed, pc, m, handled, refused, ctx, closed>>

ContextDone(how) ==
    /\ ctx = "live"
    /\ ctx' = how
    /\ UNCHANGED <<written, committed, position, pc, m, handled, refused, closed, restarts>>

Close ==
    /\ ~closed
    /\ closed' = TRUE
    /\ UNCHANGED <<written, committed, position, pc, m, handled, refused, ctx, restarts>>

Consume ==
    \/ FetchMessage \/ FetchCanceled \/ FetchError \/ FetchAgain
    \/ \E ok \in BOOLEAN : Handle(ok)
    \/ CommitMessages

Ended == pc = "ended" /\ UNCHANGED vars

Next ==
    \/ Send \/ Consume \/ Restart \/ Rebalance \/ Close \/ Ended
    \/ \E how \in {"canceled", "expired"} : ContextDone(how)

Spec == Init /\ [][Next]_vars

(* The goroutine runs and handlers return; FetchMessage, asked again and    *)
(* again, finds the message or the cancellation that is there.              *)
FairSpec == Spec /\ WF_vars(Consume) /\ SF_vars(FetchMessage) /\ SF_vars(FetchCanceled)

-----------------------------------------------------------------------------
(* Properties. *)

(* Every variable keeps the shape its Go or broker counterpart has. *)
TypeOK ==
    /\ written \in 0 .. MaxMessages /\ restarts \in 0 .. MaxRestarts
    /\ committed \in 0 .. written /\ position \in 0 .. written
    /\ m \in 0 .. written
    /\ pc \in {"fetch", "handle", "commit", "log", "ended"}
    /\ handled \subseteq 1 .. written /\ refused \subseteq 1 .. written
    /\ ctx \in {"live", "canceled", "expired"} /\ closed \in BOOLEAN

(* Through crashes, reassignments and failed commits: the message at the    *)
(* committed offset was handled, never just refused.                        *)
CommittedWasHandled == committed > 0 => committed \in handled

(* ... and no message before it went by without its handlers being run.     *)
NoMessageUnseen == 1 .. committed \subseteq handled \cup refused

(* A consumer left running tries every message. *)
EveryMessageTried ==
    \A i \in 1 .. MaxMessages : written >= i ~> (i \in handled \cup refused \/ ctx # "live" \/ closed)

(* Cancelling the context ends the goroutine. *)
CancelEnds == ctx = "canceled" ~> (pc = "ended" \/ ctx = "live")

(* kafka.go:79 says manual commits guarantee at-least-once delivery, and    *)
(* kafka.go:111 that a message that was not committed is retried later: no  *)
(* message before the committed offset is without a successful handling.    *)
AtLeastOnce == 1 .. committed \subseteq handled

(* kafka.go:125 says that Close gracefully terminates the readers: after    *)
(* it, the goroutine that reads comes to an end.                            *)
CloseEnds == closed ~> (pc = "ended" \/ ~closed)

-----------------------------------------------------------------------------
(* What CommittedWasHandled and NoMessageUnseen rest on: whatever the       *)
(* reader handed out was seen by the handlers, but for the message they are *)
(* working on; only a handled message is about to be committed.             *)
SeenInv ==
    \A i \in 1 .. written :
        i <= position \/ i <= m => i \in handled \cup refused \/ (pc = "handle" /\ i = m)
InHandInv ==
    /\ pc \in {"handle", "commit"} => m \in 1 .. written
    /\ pc = "commit" => m \in handled
IInv == TypeOK /\ CommittedWasHandled /\ NoMessageUnseen /\ SeenInv /\ InHandInv

-----------------------------------------------------------------------------
(* One process that keeps its partition.                                    *)

(* Until a restart or a reassignment each message is handed out once, in    *)
(* order: the messages seen are those up to the reader's position, and one  *)
(* whose handler failed is not tried again, whatever is committed after it. *)
OnceInOrder ==
    restarts = 0 =>
        /\ handled \cap refused = {}
        /\ handled \cup refused = 1 .. (IF pc = "handle" THEN position - 1 ELSE position)
        /\ committed <= position
        /\ pc \in {"handle", "commit"} => m = position
        /\ pc = "handle" => committed < m

(* A commit moves the group's offset forward, unless the partition was      *)
(* assigned again under the message it is about.                            *)
OffsetGoesForward ==
    [][committed' # committed /\ restarts = 0 => committed' = position /\ committed' > committed]_vars
=============================================================================
