------------------------------ MODULE Delivery ------------------------------
(***************************************************************************)
(* Producers and consumers of the brokers that push messages to a client:  *)
(* v2/brokerw/nsqw, rabbitmqw and rocketmqw behind the interfaces of       *)
(* v2/brokerw/broker.go, and the older nsqw.  One topic and one consumer   *)
(* are modelled; the initial state chooses the broker.                     *)
(*                                                                         *)
(* A message is known by its place in log, the payloads that producers     *)
(* sent.  The broker has it ready (queue) or in flight to the client; the  *)
(* client has copies, in its buffer (held) or in a call of the handlers    *)
(* (work).  A copy <<m, a>> is of the a-th delivery of m, and is stale     *)
(* once the broker took the message back: an answer may come too late.     *)
(***************************************************************************)
EXTENDS Integers, FiniteSets, Sequences

CONSTANTS
    Payloads,
    Poison,         \* payloads on which the handlers may fail for ever
    MaxPublish,     \* bound: messages
    MaxAttempts,    \* deliveries after which NSQ and RocketMQ give a message up
    Prefetch,       \* messages in flight to a client (100 in rabbitmq.go)
    Goroutines,     \* calls of the callback RocketMQ makes at once
    HandlerCount,   \* handlers of the chain
    MaxRestarts     \* bound: processes after the first

ASSUME DeliveryAssumption ==
    /\ MaxPublish \in Nat /\ MaxAttempts \in Nat \ {0}
    /\ HandlerCount \in Nat /\ Goroutines \in Nat \ {0}
    /\ Prefetch \in Nat \ {0} /\ MaxRestarts \in Nat

VARIABLES
    backend,
    log,            \* payloads sent, in order
    missing,        \* payloads for which a call returned nil, though they were not sent
    wire,           \* messages written to a RabbitMQ channel, not yet routed
    dropped,        \* messages RabbitMQ had no queue for, or never got
    queue, inflight,\* messages ready at the broker; handed to the client
    held, work,     \* copies in the client's buffer; copies being handled
    attempts,       \* deliveries of a message, where the broker counts them
    handled,        \* messages on which every handler succeeded
    givenUp,        \* messages the broker or its client gave up
    loop,           \* the consuming goroutine or client: "running", "stopping", "ended"
    forced,         \* the NSQ client stopped waiting for its handlers
    lost,           \* RabbitMQ's connection broke
    ctx, closing, restarts

deliveryVars == <<backend, log, missing, wire, dropped, queue, inflight, held, work, attempts,
                  handled, givenUp, loop, forced, lost, ctx, closing, restarts>>

Nsq == backend \in {"nsq", "nsqw"}
Messages == 1 .. MaxPublish
Copies == Messages \X (1 .. MaxAttempts + 1)
CopiesOf(m) == {m} \X (1 .. MaxAttempts + 1)
AtClient == held \cup work
MessagesOf(copies) == {c[1] : c \in copies}

DeliveryInit ==
    /\ backend \in {"nsq", "nsqw", "rabbitmq", "rocketmq"}
    /\ log = <<>> /\ missing = {} /\ wire = {} /\ dropped = {}
    /\ queue = {} /\ inflight = {} /\ held = {} /\ work = {}
    /\ attempts = [m \in Messages |-> 0]
    /\ handled = {} /\ givenUp = {}
    /\ loop = "running" /\ forced = FALSE /\ lost = FALSE
    /\ ctx = "live" /\ closing = "no" /\ restarts = 0

-----------------------------------------------------------------------------
(* Producers. *)

(* The payloads of q are sent, of those of the call. *)
Elements(s) == {s[i] : i \in DOMAIN s}
Sent(q, call, err) ==
    /\ Len(log) + Len(q) <= MaxPublish
    /\ log' = log \o q
    /\ missing' = IF err THEN missing ELSE missing \cup (Elements(call) \ Elements(q))
New(q) == Len(log) + 1 .. Len(log) + Len(q)

(* Fault: the error of one Send of the batch is dropped. *)
BulkSendRabbitSilent(q) ==
    \E k \in 0 .. Len(q) :
        /\ Sent(SubSeq(q, 1, k), q, FALSE)
        /\ wire' = wire \cup New(SubSeq(q, 1, k)) /\ UNCHANGED queue

(* RabbitMQ: one Send after the other; the first failure ends the batch and *)
(* leaves what was sent before it.  Send is the batch of one.  A nil means  *)
(* that the message was written to the channel: there are no confirms, and  *)
(* the flag mandatory is not set.                                           *)
BulkSendRabbit(q) ==
    \E k \in 0 .. Len(q) :
        /\ Sent(SubSeq(q, 1, k), q, k < Len(q))
        /\ wire' = wire \cup New(SubSeq(q, 1, k)) /\ UNCHANGED queue

(* What the broker gets of a batch sent in one request: it may have arrived *)
(* although its answer got lost, and RocketMQ's producer sends it up to two *)
(* times more then.                                                         *)
Requests(q) == {q} \cup (IF backend = "rocketmq" THEN {q \o q, q \o q \o q} ELSE {})
BulkSendOnce(q) ==
    /\ \/ \E r \in Requests(q), err \in BOOLEAN : Sent(r, q, err) /\ queue' = queue \cup New(r)
       \/ Sent(<<>>, q, TRUE) /\ UNCHANGED queue
    /\ UNCHANGED wire

BulkSend(q) ==
    /\ IF backend = "rabbitmq" THEN BulkSendRabbit(q) ELSE BulkSendOnce(q)
    /\ UNCHANGED <<backend, dropped, inflight, held, work, attempts, handled, givenUp, loop,
                   forced, lost, ctx, closing, restarts>>

(* RabbitMQ routes a message to the queue, or has none for it, or the       *)
(* producer's connection broke before.                                      *)
Route(m) ==
    /\ m \in wire /\ wire' = wire \ {m}
    /\ \/ queue' = queue \cup {m} /\ UNCHANGED dropped
       \/ dropped' = dropped \cup {m} /\ UNCHANGED queue
    /\ UNCHANGED <<backend, log, missing, inflight, held, work, attempts, handled, givenUp,
                   loop, forced, lost, ctx, closing, restarts>>

-----------------------------------------------------------------------------
(* Delivery to the client. *)

(* A RabbitMQ channel is pushed messages until it is closed, whether or not *)
(* anybody reads them; the others take messages only while they run.        *)
Open == IF backend = "rabbitmq" THEN closing = "no" /\ ~lost ELSE loop = "running"
(* consumer.go of go-nsq: one message in flight unless configured. *)
Capacity == IF backend = "nsq" THEN 1 ELSE Prefetch

(* RabbitMQ delivers in order, a message that was given back in its place.  *)
Deliver(m) ==
    LET a == IF attempts[m] > (IF backend = "rabbitmq" THEN 0 ELSE MaxAttempts)
             THEN attempts[m] ELSE attempts[m] + 1 IN
    /\ Open /\ m \in queue
    /\ Cardinality(inflight) < Capacity
    /\ backend = "rabbitmq" => \A n \in queue : m <= n
    /\ queue' = queue \ {m} /\ inflight' = inflight \cup {m}
    /\ attempts' = [attempts EXCEPT ![m] = a]
    /\ held' = held \cup {<<m, a>>}
    /\ UNCHANGED <<backend, log, missing, wire, dropped, work, handled, givenUp, loop, forced,
                   lost, ctx, closing, restarts>>

(* go-nsq finishes a message of more than MaxAttempts attempts without      *)
(* showing it to the handlers.                                              *)
GiveUp(c) ==
    /\ Nsq /\ c \in held /\ work = {} /\ c[2] > MaxAttempts
    /\ held' = held \ {c} /\ inflight' = inflight \ {c[1]}
    /\ givenUp' = givenUp \cup {c[1]}
    /\ UNCHANGED <<backend, log, missing, wire, dropped, queue, work, attempts, handled, loop,
                   forced, lost, ctx, closing, restarts>>

(* RocketMQ has several goroutines that call the callback, with one message *)
(* each unless it is configured otherwise; the others have one.             *)
Callers == IF backend = "rocketmq" THEN Goroutines ELSE 1

(* The callback begins.  A goroutine whose context is done may still take   *)
(* what is there: select chooses among the ready cases.                     *)
Take(c) ==
    /\ c \in held /\ Cardinality(work) < Callers /\ (loop # "ended" \/ forced)
    /\ Nsq => c[2] <= MaxAttempts
    /\ held' = held \ {c} /\ work' = work \cup {c}
    /\ UNCHANGED <<backend, log, missing, wire, dropped, queue, inflight, attempts, handled,
                   givenUp, loop, forced, lost, ctx, closing, restarts>>

(* The chain halts at the first error; nil only if no handler failed. *)
ExecuteHandlers(results) == \A i \in DOMAIN results : results[i]

(* RocketMQ moves a message it was asked too often to retry to the dead     *)
(* letters.                                                                 *)
Dead(c) == backend = "rocketmq" /\ c[2] > MaxAttempts

(* Fault: RabbitMQ's Nack does not ask for the message to be queued again. *)
GivenBackNotRabbit(c, ok) ==
    IF ok \/ backend = "rabbitmq" \/ Dead(c) THEN {} ELSE {c[1]} \cap inflight
(* Fault: the broker heeds an answer that comes too late. *)
GivenBackLate(c, ok) == IF ok \/ Dead(c) THEN {} ELSE {c[1]}

(* What an answer gives back to the broker: nothing if it is nil or         *)
(* ConsumeSuccess, nor if the broker does not wait for one any more.        *)
GivenBack(c, ok) == IF ok \/ Dead(c) THEN {} ELSE {c[1]} \cap inflight

(* The handlers ran over a copy.  An answer is by the message's number, so  *)
(* that of a stale copy may be taken for that of a newer delivery.          *)
Handle(c, results) ==
    LET ok == ExecuteHandlers(results) IN
    /\ c \in work /\ work' = work \ {c}
    /\ handled' = IF \A i \in DOMAIN results : results[i] THEN handled \cup {c[1]} ELSE handled
    /\ inflight' = inflight \ {c[1]}
    /\ queue' = queue \cup GivenBack(c, ok)
    /\ givenUp' = IF ok \/ ~Dead(c) THEN givenUp ELSE givenUp \cup ({c[1]} \cap inflight)
    /\ UNCHANGED <<backend, log, missing, wire, dropped, held, attempts, loop, forced, lost,
                   ctx, closing, restarts>>

(* nsqd waits only so long for an answer, from the delivery on, before it   *)
(* queues a message again and may push the client another.                  *)
TimeOut(m) ==
    /\ Nsq /\ m \in inflight
    /\ inflight' = inflight \ {m} /\ queue' = queue \cup {m}
    /\ UNCHANGED <<backend, log, missing, wire, dropped, held, work, attempts, handled,
                   givenUp, loop, forced, lost, ctx, closing, restarts>>

-----------------------------------------------------------------------------
(* Cancellation, Close and the end of the process. *)

Cancel ==
    /\ backend # "nsqw" /\ ctx = "live" /\ ctx' = "done"
    /\ UNCHANGED <<backend, log, missing, wire, dropped, queue, inflight, held, work, attempts,
                   handled, givenUp, loop, forced, lost, closing, restarts>>

(* Fault: only what the callback works on goes back. *)
DisconnectedOnlyWork ==
    /\ queue' = queue \cup (inflight \cap MessagesOf(work))
    /\ inflight' = inflight \ MessagesOf(work) /\ UNCHANGED held

(* Shutting a RocketMQ client down, or closing or losing a RabbitMQ         *)
(* channel, gives everything in flight back and drops what is buffered; a   *)
(* callback that runs goes on unheard.                                      *)
Disconnected == queue' = queue \cup inflight /\ inflight' = {} /\ held' = {}

(* RabbitMQ's connection breaks; nothing in the package opens another.      *)
ConnectionLost ==
    /\ backend = "rabbitmq" /\ closing = "no" /\ ~lost
    /\ lost' = TRUE /\ Disconnected
    /\ UNCHANGED <<backend, log, missing, wire, dropped, work, attempts, handled, givenUp, loop,
                   forced, ctx, closing, restarts>>

(* What the end of the context leads to: NSQ's goroutine calls Stop, that   *)
(* of RocketMQ closes the client, that of RabbitMQ just returns, once the   *)
(* message it works on is done, and leaves the channel open.  The channel   *)
(* of deliveries that Close or a lost connection closes ends it as well.    *)
StopOnCancel ==
    /\ loop = "running"
    /\ \/ /\ backend = "nsq" /\ ctx = "done" /\ loop' = "stopping"
          /\ UNCHANGED <<queue, inflight, held>>
       \/ /\ backend = "rabbitmq" /\ work = {} /\ (ctx = "done" \/ ~Open)
          /\ loop' = "ended"
          /\ UNCHANGED <<queue, inflight, held>>
       \/ /\ backend = "rocketmq" /\ ctx = "done" /\ loop' = "ended"
          /\ Disconnected
    /\ UNCHANGED <<backend, log, missing, wire, dropped, work, attempts, handled, givenUp,
                   forced, lost, ctx, closing, restarts>>

(* A stopping NSQ client closes StopChan when it has answered everything,   *)
(* or when its patience is over.                                            *)
Drained ==
    /\ loop = "stopping"
    /\ loop' = "ended"
    /\ forced' = (AtClient # {})
    /\ UNCHANGED <<backend, log, missing, wire, dropped, queue, inflight, held, work, attempts,
                   handled, givenUp, lost, ctx, closing, restarts>>

(* Close of NSQ stops the client and waits for StopChan; Disconnect of the  *)
(* older package only stops it; the others tear the connection down.        *)
Close ==
    /\ closing = "no"
    /\ closing' = IF backend = "nsq" THEN "waiting" ELSE "returned"
    /\ loop' = CASE Nsq /\ loop = "running" -> "stopping"
                 [] backend = "rocketmq"     -> "ended"
                 [] OTHER                    -> loop
    /\ IF Nsq THEN UNCHANGED <<queue, inflight, held>> ELSE Disconnected
    /\ UNCHANGED <<backend, log, missing, wire, dropped, work, attempts, handled, givenUp,
                   forced, lost, ctx, restarts>>
CloseReturns ==
    /\ closing = "waiting" /\ loop = "ended" /\ closing' = "returned"
    /\ UNCHANGED <<backend, log, missing, wire, dropped, queue, inflight, held, work, attempts,
                   handled, givenUp, loop, forced, lost, ctx, restarts>>

(* The process ends, in order or by a panic of a handler; the broker has    *)
(* its messages back and another process consumes.                          *)
Restart ==
    /\ restarts < MaxRestarts /\ restarts' = restarts + 1
    /\ Disconnected /\ work' = {}
    /\ loop' = "running" /\ forced' = FALSE /\ lost' = FALSE
    /\ ctx' = "live" /\ closing' = "no"
    /\ UNCHANGED <<backend, log, missing, wire, dropped, attempts, handled, givenUp>>

Results == [1 .. HandlerCount -> BOOLEAN]
Calls == {<<p>> : p \in Payloads} \cup {<<p, q>> : p \in Payloads, q \in Payloads}
Stopped == closing = "returned" /\ UNCHANGED deliveryVars

Client == StopOnCancel \/ Drained \/ CloseReturns

DeliveryNext ==
    \/ \E q \in Calls : BulkSend(q)
    \/ \E m \in Messages : Route(m) \/ Deliver(m) \/ TimeOut(m)
    \/ \E c \in Copies : GiveUp(c) \/ Take(c) \/ \E results \in Results : Handle(c, results)
    \/ Client \/ Cancel \/ Close \/ ConnectionLost \/ Restart \/ Stopped
DeliverySpec == DeliveryInit /\ [][DeliveryNext]_deliveryVars

(* The client runs, takes what it has of each message, and its calls of the *)
(* handlers come back; the broker delivers what it may again and again; and *)
(* a payload that is not poison succeeds at some time, if it is handled     *)
(* again and again.                                                         *)
Begins(c) == GiveUp(c) \/ Take(c)
Ends(c) == \E results \in Results : Handle(c, results)
Succeeds(c) == log[c[1]] \notin Poison /\ Handle(c, [i \in 1 .. HandlerCount |-> TRUE])
DeliveryFairness ==
    /\ WF_deliveryVars(Client)
    /\ \A m \in Messages :
          /\ SF_deliveryVars(Deliver(m))
          /\ SF_deliveryVars(\E c \in CopiesOf(m) : Begins(c))
          /\ WF_deliveryVars(\E c \in CopiesOf(m) : Ends(c))
          /\ SF_deliveryVars(\E c \in CopiesOf(m) : c \in work /\ Succeeds(c))

-----------------------------------------------------------------------------
(* Properties. *)

(* Every variable keeps the shape its Go or broker counterpart has. *)
DeliveryTypeOK ==
    /\ backend \in {"nsq", "nsqw", "rabbitmq", "rocketmq"}
    /\ log \in Seq(Payloads) /\ Len(log) <= MaxPublish /\ missing \subseteq Payloads
    /\ wire \cup dropped \cup queue \cup inflight \cup handled \cup givenUp \subseteq DOMAIN log
    /\ held \cup work \subseteq Copies /\ \A c \in held \cup work : c[1] \in DOMAIN log
    /\ attempts \in [Messages -> 0 .. MaxAttempts + 1]
    /\ loop \in {"running", "stopping", "ended"} /\ forced \in BOOLEAN /\ lost \in BOOLEAN
    /\ ctx \in {"live", "done"} /\ closing \in {"no", "waiting", "returned"}
    /\ restarts \in 0 .. MaxRestarts

(* broker.go:19 to 20 from the producer to the handlers: a call that        *)
(* returned nil sent all it was given, and a message that was sent is at    *)
(* the broker, or in flight with a copy at the client to answer for it,     *)
(* until its handlers succeeded, through failing handlers, answers that     *)
(* come too late, closed channels and processes that end; or it was given   *)
(* up after more than MaxAttempts deliveries.  Only RabbitMQ may lose it,   *)
(* before it is in a queue: nil says that it was written to the channel.    *)
NoMessageLost ==
    /\ missing = {}
    /\ inflight \subseteq MessagesOf(AtClient)
    /\ \A m \in DOMAIN log :
          \/ m \in queue \cup inflight \cup handled
          \/ m \in givenUp /\ attempts[m] > MaxAttempts
          \/ backend = "rabbitmq" /\ m \in wire \cup dropped

(* nsq.go:115: when Close of the NSQ consumer returns nothing is in flight  *)
(* any more, unless the client lost its patience.                           *)
CloseDrains ==
    backend = "nsq" /\ closing = "returned" /\ ~forced => inflight = {} /\ AtClient = {}

(* A message is in one place, and the copy of its last delivery is with the *)
(* client as long as the broker waits for an answer.  Only NSQ's client may *)
(* have several copies of a message, or still have one that the broker took *)
(* back; the others do not begin such a one, and run no message twice at    *)
(* once.                                                                    *)
OnePlaceInv ==
    /\ queue \cap inflight = {} /\ wire \cap dropped = {}
    /\ (wire \cup dropped) \cap (queue \cup inflight) = {}
    /\ \A m \in inflight : <<m, attempts[m]>> \in AtClient
    /\ \A c \in AtClient : c[2] <= attempts[c[1]]
    /\ ~Nsq => /\ \A c, d \in AtClient : c[1] = d[1] => c = d
               /\ held \cap work = {}
               /\ IF Open THEN MessagesOf(AtClient) \subseteq inflight ELSE held = {}

(* An NSQ client that ended with patience has nothing, and takes nothing.   *)
EndedInv ==
    backend = "nsq" =>
        /\ closing = "returned" => loop = "ended"
        /\ loop = "ended" /\ ~forced => AtClient = {}

DeliveryInv == DeliveryTypeOK /\ OnePlaceInv /\ EndedInv /\ NoMessageLost

(* A settled message never comes back, though answers come late, copies are *)
(* handled again and connections break: the broker does not hand it out.    *)
Settled == DOMAIN log \ (wire \cup queue \cup inflight)
SettledStaySettled ==
    [][/\ Settled \subseteq Settled'
       /\ \A c \in Copies : c \in held' \ held => c[1] \notin Settled]_deliveryVars

(* rabbitmq.go:133: with as many poison messages as a client may have in    *)
(* flight nothing else gets through: they are requeued in their places.     *)
Blocked ==
    backend = "rabbitmq" /\ Cardinality({m \in DOMAIN log : log[m] \in Poison}) >= Prefetch

(* A consumer left alone has each message at the broker handled, or given   *)
(* up where deliveries are counted, poison or not: none is forgotten in a   *)
(* buffer, or starved by one that fails and is requeued at once, unless     *)
(* those fill the client.  RabbitMQ never gives a poison message up, and a  *)
(* consumer without its connection has ended for good.                      *)
EveryMessageHandled ==
    \A m \in Messages :
        m \in queue /\ (backend = "rabbitmq" => log[m] \notin Poison)
            ~> \/ m \in handled \cup givenUp
               \/ ctx = "done" \/ closing # "no" \/ lost \/ Blocked

(* After Close nothing stays behind with the client, also if the context    *)
(* was done long before: the messages prefetched for a goroutine that       *)
(* returned at rabbitmq.go:142 go back then.                                *)
CloseGivesBack == closing # "no" ~> (inflight = {} /\ AtClient = {}) \/ closing = "no"
=============================================================================
