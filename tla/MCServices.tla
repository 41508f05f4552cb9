----------------------------- MODULE MCServices -----------------------------
(* Delivery (handlers behind a broker) and Listeners (handlers behind a bot *)
(* or a scheduler), one at a time: a program with one of them.              *)
EXTENDS Delivery, Listeners

VARIABLE side

BrokerRests == DeliveryInit /\ backend = "nsq"
ListenerRests == ListenInit /\ kind = "cronw"

AloneInit ==
    \/ side = "broker" /\ DeliveryInit /\ ListenerRests
    \/ side = "listener" /\ ListenInit /\ BrokerRests

(* Bound: in this run a message that will be given up at its next delivery  *)
(* is not timed out again.                                                  *)
TimeOutBound == \A m \in Messages : TimeOut(m) => attempts[m] <= MaxAttempts

AloneNext ==
    /\ UNCHANGED side
    /\ \/ side = "broker" /\ DeliveryNext /\ TimeOutBound /\ UNCHANGED listenVars
       \/ side = "listener" /\ ListenNext /\ UNCHANGED deliveryVars

(* The fairness of a side that rests asks for nothing: no action it is      *)
(* about is enabled in an initial state.                                    *)
AloneSpec ==
    /\ AloneInit /\ [][AloneNext]_<<side, deliveryVars, listenVars>>
    /\ DeliveryFairness /\ ListenFairness
=============================================================================
