------------------------ MODULE KafkaConsumer_proofs ------------------------
(***************************************************************************)
(* Proofs about KafkaConsumer, for any number of messages and restarts.    *)
(***************************************************************************)
EXTENDS KafkaConsumer, TLAPS

LEMMA InitInvariant == Init => IInv
  <1> SUFFICES ASSUME Init
               PROVE  IInv
    OBVIOUS
  <1>1. TypeOK
    <2>1. written \in 0 .. MaxMessages /\ restarts \in 0 .. MaxRestarts
      BY KafkaAssumption DEF Init
    <2>2. committed \in 0 .. written /\ position \in 0 .. written /\ m \in 0 .. written
      BY DEF Init
    <2> QED
      BY <2>1, <2>2 DEF Init, TypeOK
  <1>2. 1 .. written = {} /\ 1 .. committed = {}
    BY DEF Init
  <1> QED
    BY <1>1, <1>2 DEF Init, IInv, CommittedWasHandled, NoMessageUnseen, SeenInv, InHandInv

(* A message arrives. *)
LEMMA SendStep ==
    ASSUME IInv, Send
    PROVE  IInv'
  <1>1. TypeOK'
    BY KafkaAssumption DEF IInv, TypeOK, Send
  <1>2. SeenInv'
    BY DEF IInv, TypeOK, SeenInv, Send
  <1> QED
    BY <1>1, <1>2 DEF IInv, TypeOK, CommittedWasHandled, NoMessageUnseen, InHandInv, Send

LEMMA FetchStep ==
    ASSUME IInv, FetchMessage
    PROVE  IInv'
  <1>1. TypeOK'
    BY KafkaAssumption DEF IInv, TypeOK, FetchMessage
  <1>2. SeenInv'
    BY DEF IInv, TypeOK, SeenInv, FetchMessage
  <1> QED
    BY <1>1, <1>2 DEF IInv, TypeOK, CommittedWasHandled, NoMessageUnseen, InHandInv, FetchMessage

LEMMA HandleStep ==
    ASSUME IInv, NEW ok \in BOOLEAN, Handle(ok)
    PROVE  IInv'
  <1>1. m \in 1 .. written
    BY DEF IInv, InHandInv, Handle
  <1>2. /\ handled \subseteq handled' /\ refused \subseteq refused'
        /\ m \in handled' \cup refused'
        /\ handled' \subseteq 1 .. written /\ refused' \subseteq 1 .. written
    BY <1>1 DEF IInv, TypeOK, Handle
  <1>3. TypeOK'
    BY <1>2 DEF IInv, TypeOK, Handle
  <1>4. CommittedWasHandled' /\ NoMessageUnseen'
    BY <1>2 DEF IInv, CommittedWasHandled, NoMessageUnseen, Handle
  <1>5. SeenInv'
    BY <1>2 DEF IInv, SeenInv, Handle
  <1>6. InHandInv'
    BY <1>1 DEF InHandInv, Handle
  <1> QED
    BY <1>3, <1>4, <1>5, <1>6 DEF IInv

(* Everything up to the message that is committed was seen. *)
LEMMA CommitStep ==
    ASSUME IInv, CommitMessages
    PROVE  IInv'
  <1>1. m \in 1 .. written /\ m \in handled
    BY DEF IInv, InHandInv, CommitMessages
  <1>2. 1 .. m \subseteq handled \cup refused
    BY <1>1 DEF IInv, TypeOK, SeenInv, CommitMessages
  <1>3. TypeOK'
    BY <1>1 DEF IInv, TypeOK, CommitMessages
  <1>4. CommittedWasHandled' /\ NoMessageUnseen'
    BY <1>1, <1>2 DEF IInv, CommittedWasHandled, NoMessageUnseen, CommitMessages
  <1>5. SeenInv' /\ InHandInv'
    BY DEF IInv, SeenInv, InHandInv, CommitMessages
  <1> QED
    BY <1>3, <1>4, <1>5 DEF IInv

(* The reader goes back to the committed offset: what is before it was seen.*)
LEMMA BackStep ==
    ASSUME IInv, Restart \/ Rebalance
    PROVE  IInv'
  <1>1. TypeOK'
    <2>1. restarts' \in 0 .. MaxRestarts
      BY KafkaAssumption DEF IInv, TypeOK, Restart, Rebalance
    <2>2. position' \in 0 .. written /\ m' \in 0 .. written
      BY KafkaAssumption DEF IInv, TypeOK, Restart, Rebalance
    <2> QED
      BY <2>1, <2>2 DEF IInv, TypeOK, Restart, Rebalance
  <1>2. CommittedWasHandled' /\ NoMessageUnseen'
    BY DEF IInv, CommittedWasHandled, NoMessageUnseen, Restart, Rebalance
  <1>3. SeenInv'
    BY DEF IInv, TypeOK, SeenInv, NoMessageUnseen, Restart, Rebalance
  <1>4. InHandInv'
    BY DEF IInv, InHandInv, Restart, Rebalance
  <1> QED
    BY <1>1, <1>2, <1>3, <1>4 DEF IInv

(* Steps that change neither the log nor what the reader or a handler did.  *)
LEMMA OtherStep ==
    ASSUME IInv, UNCHANGED <<written, committed, position, m, handled, refused, restarts>>,
           pc' \in {"fetch", "log", "ended"} \/ pc' = pc,
           pc = "handle" => pc' = "handle",
           ctx' \in {"live", "canceled", "expired"}, closed' \in BOOLEAN
    PROVE  IInv'
  BY DEF IInv, TypeOK, CommittedWasHandled, NoMessageUnseen, SeenInv, InHandInv

LEMMA NextInvariant == IInv /\ [Next]_vars => IInv'
  <1> SUFFICES ASSUME IInv, [Next]_vars
               PROVE  IInv'
    OBVIOUS
  <1>1. CASE FetchCanceled \/ FetchError \/ FetchAgain
    BY <1>1, OtherStep DEF IInv, TypeOK, FetchCanceled, FetchError, FetchAgain
  <1>2. CASE Close \/ \E how \in {"canceled", "expired"} : ContextDone(how)
    BY <1>2, OtherStep DEF IInv, TypeOK, Close, ContextDone
  <1>3. CASE UNCHANGED vars
    BY <1>3, OtherStep DEF IInv, TypeOK, vars
  <1> QED
    BY <1>1, <1>2, <1>3, SendStep, FetchStep, HandleStep, CommitStep, BackStep
       DEF Next, Consume, Ended

(* The invariant of the consumer's loop through crashes and reassignments   *)
(* (Consume).                                                               *)
THEOREM Invariance == Spec => []IInv
  BY InitInvariant, NextInvariant, PTL DEF Spec

(* Type correctness: the offset and the reader stay within the log. *)
THEOREM TypeCorrect == Spec => []TypeOK
  <1>1. IInv => TypeOK
    BY DEF IInv
  <1> QED
    BY <1>1, Invariance, PTL

(* The message at the committed offset was handled (Consume commits only    *)
(* after all handlers succeeded).                                           *)
THEOREM CommittedWasHandledHolds == Spec => []CommittedWasHandled
  <1>1. IInv => CommittedWasHandled
    BY DEF IInv
  <1> QED
    BY <1>1, Invariance, PTL

(* No message before the committed offset went by without its handlers      *)
(* being run.                                                               *)
THEOREM NoMessageUnseenHolds == Spec => []NoMessageUnseen
  <1>1. IInv => NoMessageUnseen
    BY DEF IInv
  <1> QED
    BY <1>1, Invariance, PTL

-----------------------------------------------------------------------------
(* One process that keeps its partition. *)

LEMMA OnceHandled ==
    ASSUME IInv, OnceInOrder, NEW ok \in BOOLEAN, Handle(ok)
    PROVE  OnceInOrder'
  <1> SUFFICES ASSUME restarts = 0
               PROVE  OnceInOrder'
    BY DEF OnceInOrder, Handle
  <1>1. /\ m = position /\ position \in 1 .. written /\ committed <= position
        /\ handled \cup refused = 1 .. position - 1 /\ handled \cap refused = {}
    BY DEF IInv, InHandInv, OnceInOrder, Handle
  <1>2. position \notin 1 .. position - 1 /\ 1 .. position = (1 .. position - 1) \cup {position}
    BY <1>1 DEF IInv, TypeOK
  <1>3. handled' \cup refused' = handled \cup refused \cup {position}
    BY <1>1 DEF Handle
  <1>4. handled' \cap refused' = {}
    BY <1>1, <1>2 DEF Handle
  <1>5. handled' \cup refused' = 1 .. position
    BY <1>1, <1>2, <1>3
  <1>6. pc' # "handle" /\ m' = m /\ position' = position /\ committed' = committed
    BY DEF Handle
  <1> QED
    BY <1>1, <1>4, <1>5, <1>6 DEF OnceInOrder

LEMMA OnceFetched ==
    ASSUME IInv, OnceInOrder, FetchMessage
    PROVE  OnceInOrder'
  <1> SUFFICES ASSUME restarts = 0
               PROVE  OnceInOrder'
    BY DEF OnceInOrder, FetchMessage
  <1>1. /\ handled \cup refused = 1 .. position /\ handled \cap refused = {}
        /\ committed <= position /\ position \in Nat /\ committed \in Nat
    BY DEF IInv, TypeOK, OnceInOrder, FetchMessage
  <1>2. /\ pc' = "handle" /\ position' = position + 1 /\ m' = position + 1
        /\ committed' = committed /\ handled' = handled /\ refused' = refused
    BY DEF FetchMessage
  <1>3. position' - 1 = position /\ committed' < m' /\ committed' <= position'
    BY <1>1, <1>2
  <1> QED
    BY <1>1, <1>2, <1>3 DEF OnceInOrder

(* Steps of everybody but the reader and its handlers. *)
LEMMA OnceOther ==
    ASSUME IInv, OnceInOrder,
           UNCHANGED <<position, m, handled, refused, restarts>>,
           committed' = committed \/ (pc = "commit" /\ committed' = m),
           pc' = pc \/ (pc # "handle" /\ pc' \in {"fetch", "log", "ended"})
    PROVE  OnceInOrder'
  <1>1. position \in Nat /\ committed \in Nat
    BY DEF IInv, TypeOK
  <1>2. ASSUME restarts = 0
        PROVE  /\ committed' <= position
               /\ pc' = "handle" => committed' < m
    BY <1>1, <1>2 DEF OnceInOrder
  <1> QED
    BY <1>1, <1>2 DEF OnceInOrder

LEMMA OnceNext == IInv /\ OnceInOrder /\ [Next]_vars => OnceInOrder'
  <1> SUFFICES ASSUME IInv, OnceInOrder, [Next]_vars
               PROVE  OnceInOrder'
    OBVIOUS
  <1>1. CASE Restart \/ Rebalance
    <2>1. restarts' # 0
      BY <1>1 DEF Restart, Rebalance, IInv, TypeOK
    <2> QED
      BY <2>1 DEF OnceInOrder
  <1>2. CASE Send \/ CommitMessages \/ FetchCanceled \/ FetchError \/ FetchAgain
    BY <1>2, OnceOther DEF Send, CommitMessages, FetchCanceled, FetchError, FetchAgain
  <1>3. CASE Close \/ UNCHANGED vars \/ \E how \in {"canceled", "expired"} : ContextDone(how)
    BY <1>3, OnceOther DEF Close, ContextDone, vars
  <1> QED
    BY <1>1, <1>2, <1>3, OnceHandled, OnceFetched DEF Next, Consume, Ended

(* kafka.go:111 (Consume): a process that keeps its partition hands out     *)
(* each message once, so it never retries one whose handler failed.         *)
THEOREM OnceInOrderHolds == Spec => []OnceInOrder
  <1>1. Init => OnceInOrder
    <2>1. ASSUME Init
          PROVE  1 .. 0 = {}
      OBVIOUS
    <2> QED
      BY <2>1 DEF Init, OnceInOrder
  <1> QED
    BY <1>1, OnceNext, Invariance, PTL DEF Spec

(* CommitMessages: without a reassignment the offset moves forward only, to *)
(* the last message the reader handed out.                                  *)
THEOREM OffsetGoesForwardHolds == Spec => OffsetGoesForward
  <1>1. ASSUME IInv, OnceInOrder, [Next]_vars, committed' # committed, restarts = 0
        PROVE  committed' = position /\ committed' > committed
    <2>1. pc = "commit" /\ committed' = m
      BY <1>1 DEF Next, vars, Send, Consume, FetchMessage, FetchCanceled, FetchError, FetchAgain,
                  Handle, CommitMessages, Restart, Rebalance, Close, Ended, ContextDone
    <2>2. m = position /\ committed <= position
      BY <1>1, <2>1 DEF OnceInOrder
    <2>3. position \in Nat /\ committed \in Nat
      BY <1>1 DEF IInv, TypeOK
    <2> QED
      BY <1>1, <2>1, <2>2, <2>3
  <1>2. IInv /\ OnceInOrder /\ [Next]_vars
            => [committed' # committed /\ restarts = 0
                    => committed' = position /\ committed' > committed]_vars
    BY <1>1
  <1> QED
    BY <1>2, Invariance, OnceInOrderHolds, PTL DEF Spec, OffsetGoesForward
=============================================================================
