-------------------------- MODULE Delivery_proofs --------------------------
(***************************************************************************)
(* Proofs about Delivery, for any payloads, handlers, limits of the broker *)
(* and number of restarts.                                                 *)
(***************************************************************************)
EXTENDS Delivery, SequenceTheorems, TLAPS

LEMMA MessagesAre ==
    DeliveryTypeOK =>
        /\ Len(log) \in Nat /\ DOMAIN log = 1 .. Len(log) /\ DOMAIN log \subseteq Messages
        /\ \A m \in DOMAIN log : attempts[m] \in Nat
  BY DeliveryAssumption DEF DeliveryTypeOK, Messages

LEMMA CopiesAre ==
    DeliveryTypeOK =>
        \A c \in AtClient : c[1] \in DOMAIN log /\ c[1] \in Messages /\ c[2] \in Nat
  <1> SUFFICES ASSUME DeliveryTypeOK, NEW c \in AtClient
               PROVE  c[1] \in DOMAIN log /\ c[1] \in Messages /\ c[2] \in Nat
    OBVIOUS
  <1>1. c[1] \in DOMAIN log /\ c \in Copies
    BY DEF DeliveryTypeOK, AtClient
  <1>2. c[2] \in 1 .. MaxAttempts + 1
    BY <1>1 DEF Copies
  <1> QED
    BY <1>1, <1>2, MessagesAre, DeliveryAssumption

LEMMA InitInvariant == DeliveryInit => DeliveryInv
  <1> SUFFICES ASSUME DeliveryInit
               PROVE  DeliveryInv
    OBVIOUS
  <1>1. log = <<>> /\ Len(log) = 0 /\ DOMAIN log = {} /\ log \in Seq(Payloads)
    BY DEF DeliveryInit
  <1>2. AtClient = {} /\ MessagesOf(AtClient) = {}
    BY DEF DeliveryInit, AtClient, MessagesOf
  <1>3. attempts \in [Messages -> 0 .. MaxAttempts + 1]
    BY DeliveryAssumption DEF DeliveryInit
  <1>4. DeliveryTypeOK
    <2>1. wire \cup dropped \cup queue \cup inflight \cup handled \cup givenUp \subseteq DOMAIN log
      BY DEF DeliveryInit
    <2>2. held \cup work = {} /\ missing \subseteq Payloads
      BY DEF DeliveryInit
    <2>3. Len(log) <= MaxPublish /\ restarts \in 0 .. MaxRestarts
      BY <1>1, DeliveryAssumption DEF DeliveryInit
    <2>4. /\ backend \in {"nsq", "nsqw", "rabbitmq", "rocketmq"}
          /\ loop \in {"running", "stopping", "ended"} /\ forced \in BOOLEAN /\ lost \in BOOLEAN
          /\ ctx \in {"live", "done"} /\ closing \in {"no", "waiting", "returned"}
      BY DEF DeliveryInit
    <2> QED
      BY <1>1, <1>3, <2>1, <2>2, <2>3, <2>4 DEF DeliveryTypeOK
  <1>5. OnePlaceInv
    BY <1>2 DEF DeliveryInit, OnePlaceInv
  <1> QED
    BY <1>1, <1>2, <1>4, <1>5 DEF DeliveryInit, DeliveryInv, EndedInv, NoMessageLost

-----------------------------------------------------------------------------
LEMMA InFlightAtClient == OnePlaceInv' => (inflight \subseteq MessagesOf(AtClient))'
  <1> SUFFICES ASSUME OnePlaceInv', NEW m \in inflight'
               PROVE  m \in MessagesOf(AtClient)'
    OBVIOUS
  <1>1. <<m, attempts'[m]>> \in AtClient'
    BY DEF OnePlaceInv
  <1>2. m = <<m, attempts'[m]>>[1]
    OBVIOUS
  <1> QED
    BY <1>1, <1>2 DEF MessagesOf

(* What a step must see to, if it sends nothing.                            *)
LEMMA Kept ==
    ASSUME DeliveryInv, UNCHANGED <<backend, log, missing>>, OnePlaceInv',
           handled \subseteq handled', givenUp \subseteq givenUp',
           wire \cup dropped \subseteq wire' \cup dropped' \cup queue',
           \A m \in DOMAIN log : attempts[m] > MaxAttempts => attempts'[m] > MaxAttempts,
           \A m \in queue \cup inflight :
               \/ m \in queue' \cup inflight' \cup handled'
               \/ m \in givenUp' /\ attempts'[m] > MaxAttempts
    PROVE  NoMessageLost'
  <1>1. (inflight \subseteq MessagesOf(AtClient))'
    BY InFlightAtClient
  <1>2. \A m \in DOMAIN log :
          \/ m \in queue' \cup inflight' \cup handled'
          \/ m \in givenUp' /\ attempts'[m] > MaxAttempts
          \/ backend' = "rabbitmq" /\ m \in wire' \cup dropped'
    BY DEF DeliveryInv, NoMessageLost
  <1> QED
    BY <1>1, <1>2 DEF DeliveryInv, NoMessageLost

(* A step that moves neither messages nor copies.                           *)
LEMMA NothingMoves ==
    ASSUME DeliveryInv,
           UNCHANGED <<backend, log, missing, wire, dropped, queue, inflight, held, work,
                       attempts, handled, givenUp>>,
           ~Nsq => (Open' <=> Open)
    PROVE  OnePlaceInv' /\ NoMessageLost'
  <1>1. OnePlaceInv'
    BY DEF DeliveryInv, OnePlaceInv, AtClient, MessagesOf, Nsq
  <1> QED
    BY <1>1, Kept

(* A step that gives everything in flight back and closes the channel.      *)
LEMMA GivesBack ==
    ASSUME DeliveryInv, Disconnected, ~Nsq => ~Open',
           UNCHANGED <<backend, log, missing, wire, dropped, work, attempts, handled, givenUp>>
    PROVE  OnePlaceInv' /\ NoMessageLost' /\ queue' \subseteq DOMAIN log
  <1>1. queue' = queue \cup inflight /\ inflight' = {} /\ held' = {}
    BY DEF Disconnected
  <1>2. AtClient' = work /\ work \subseteq AtClient
    BY <1>1 DEF AtClient
  <1>3. OnePlaceInv'
    <2>1. (queue \cap inflight = {} /\ wire \cap dropped = {}
             /\ (wire \cup dropped) \cap (queue \cup inflight) = {})'
      BY <1>1 DEF DeliveryInv, OnePlaceInv
    <2>2. (\A m \in inflight : <<m, attempts[m]>> \in AtClient)'
      BY <1>1
    <2>3. (\A c \in AtClient : c[2] <= attempts[c[1]])'
      BY <1>2 DEF DeliveryInv, OnePlaceInv
    <2>4. (~Nsq => /\ \A c, d \in AtClient : c[1] = d[1] => c = d
                   /\ held \cap work = {}
                   /\ IF Open THEN MessagesOf(AtClient) \subseteq inflight ELSE held = {})'
      BY <1>1, <1>2 DEF DeliveryInv, OnePlaceInv, Nsq
    <2> QED
      BY <2>1, <2>2, <2>3, <2>4 DEF OnePlaceInv
  <1>4. NoMessageLost'
    BY <1>1, <1>3, Kept
  <1> QED
    BY <1>1, <1>3, <1>4 DEF DeliveryInv, DeliveryTypeOK

-----------------------------------------------------------------------------
(* Producers. *)

LEMMA CallsAre ==
    ASSUME NEW q \in Calls
    PROVE  q \in Seq(Payloads) /\ Len(q) \in Nat /\ DOMAIN q = 1 .. Len(q)
  <1>1. CASE \E p \in Payloads : q = <<p>>
    BY <1>1
  <1>2. CASE \E p \in Payloads, s \in Payloads : q = <<p, s>>
    BY <1>2
  <1> QED
    BY <1>1, <1>2 DEF Calls

(* What a call of a producer does, however it ends: it sends some payloads, *)
(* all of the call's if it returns nil, and they are where the broker has   *)
(* them.                                                                    *)
LEMMA BulkSendSends ==
    ASSUME DeliveryInv, NEW q \in Calls, BulkSend(q)
    PROVE  \E r \in Seq(Payloads) :
               /\ Len(log) + Len(r) <= MaxPublish /\ log' = log \o r
               /\ missing' = missing
               /\ \/ backend = "rabbitmq" /\ wire' = wire \cup New(r) /\ queue' = queue
                  \/ wire' = wire /\ queue' = queue \cup New(r)
  <1>1. q \in Seq(Payloads) /\ Len(q) \in Nat /\ DOMAIN q = 1 .. Len(q)
    BY CallsAre
  <1>2. ASSUME NEW r \in Seq(Payloads), NEW err, Elements(q) \subseteq Elements(r) \/ err,
               Sent(r, q, err)
        PROVE  /\ Len(log) + Len(r) <= MaxPublish /\ log' = log \o r /\ missing' = missing
    BY <1>2 DEF Sent
  <1>3. CASE backend = "rabbitmq"
    <2>1. PICK k \in 0 .. Len(q) : /\ Sent(SubSeq(q, 1, k), q, k < Len(q))
                                   /\ wire' = wire \cup New(SubSeq(q, 1, k)) /\ queue' = queue
      BY <1>3 DEF BulkSend, BulkSendRabbit
    <2>2. k \in Int /\ (k = Len(q) \/ k < Len(q))
      <3>1. \A n \in Nat : \A j \in 0 .. n : j \in Int /\ (j = n \/ j < n)
        OBVIOUS
      <3> QED
        BY <1>1, <2>1, <3>1
    <2>3. SubSeq(q, 1, k) \in Seq(Payloads)
      <3>1. \A i \in 1 .. k : q[i] \in Payloads
        BY <1>1, <2>1
      <3> QED
        BY <2>2, <3>1, SubSeqProperties
    <2>4. k = Len(q) => SubSeq(q, 1, k) = q
      BY <1>1
    <2>5. Elements(q) \subseteq Elements(SubSeq(q, 1, k)) \/ k < Len(q)
      BY <2>2, <2>4
    <2> QED
      BY <1>2, <1>3, <2>1, <2>3, <2>5
  <1>4. CASE backend # "rabbitmq"
    <2>1. wire' = wire
      BY <1>4 DEF BulkSend, BulkSendOnce
    <2>2. CASE \E r \in Requests(q), err \in BOOLEAN :
                  Sent(r, q, err) /\ queue' = queue \cup New(r)
      <3>1. PICK r \in Requests(q), err \in BOOLEAN :
                Sent(r, q, err) /\ queue' = queue \cup New(r)
        BY <2>2
      <3>2. r \in Seq(Payloads) /\ Elements(q) \subseteq Elements(r)
        <4>1. CASE r = q
          BY <1>1, <4>1
        <4>2. CASE r = q \o q
          BY <1>1, <4>2 DEF Elements
        <4>3. CASE r = q \o q \o q
          BY <1>1, <4>3 DEF Elements
        <4> QED
          BY <4>1, <4>2, <4>3 DEF Requests
      <3> QED
        BY <1>2, <2>1, <3>1, <3>2
    <2>3. CASE Sent(<<>>, q, TRUE) /\ queue' = queue
      <3>1. <<>> \in Seq(Payloads) /\ New(<<>>) = {}
        BY MessagesAre DEF New, DeliveryInv
      <3> QED
        BY <1>2, <2>1, <2>3, <3>1
    <2> QED
      BY <1>4, <2>2, <2>3 DEF BulkSend, BulkSendOnce
  <1> QED
    BY <1>3, <1>4

(* The messages of a call are new.                                          *)
LEMMA NewAre ==
    ASSUME DeliveryInv, NEW r \in Seq(Payloads), log' = log \o r,
           Len(log) + Len(r) <= MaxPublish
    PROVE  /\ log' \in Seq(Payloads) /\ Len(log') <= MaxPublish
           /\ DOMAIN log' = DOMAIN log \cup New(r) /\ DOMAIN log \cap New(r) = {}
  <1>1. log \in Seq(Payloads) /\ Len(log) \in Nat /\ Len(r) \in Nat
    BY DEF DeliveryInv, DeliveryTypeOK
  <1>2. Len(log') = Len(log) + Len(r) /\ DOMAIN log' = 1 .. Len(log) + Len(r)
        /\ log' \in Seq(Payloads)
    BY <1>1
  <1> QED
    BY <1>1, <1>2 DEF New

LEMMA BulkSendStep ==
    ASSUME DeliveryInv, NEW q \in Calls, BulkSend(q)
    PROVE  DeliveryInv'
  <1>1. PICK r \in Seq(Payloads) :
               /\ Len(log) + Len(r) <= MaxPublish /\ log' = log \o r
               /\ missing' = missing
               /\ \/ backend = "rabbitmq" /\ wire' = wire \cup New(r) /\ queue' = queue
                  \/ wire' = wire /\ queue' = queue \cup New(r)
    BY BulkSendSends
  <1> DEFINE new == New(r)
  <1>2. /\ log' \in Seq(Payloads) /\ Len(log') <= MaxPublish
        /\ DOMAIN log' = DOMAIN log \cup new /\ DOMAIN log \cap new = {}
    BY <1>1, NewAre
  <1>3. \/ backend = "rabbitmq" /\ wire' = wire \cup new /\ queue' = queue
        \/ wire' = wire /\ queue' = queue \cup new
    BY <1>1
  <1>4. UNCHANGED <<backend, dropped, inflight, held, work, attempts, handled, givenUp, loop,
                    forced, lost, ctx, closing, restarts>>
    BY DEF BulkSend
  <1> HIDE DEF new
  <1>5. DeliveryTypeOK'
    <2>1. (wire \cup dropped \cup queue \cup inflight \cup handled \cup givenUp \subseteq DOMAIN log)'
      BY <1>2, <1>3, <1>4 DEF DeliveryInv, DeliveryTypeOK
    <2>2. (held \cup work \subseteq Copies /\ \A c \in held \cup work : c[1] \in DOMAIN log)'
      BY <1>2, <1>4 DEF DeliveryInv, DeliveryTypeOK
    <2> QED
      BY <1>1, <1>2, <1>4, <2>1, <2>2 DEF DeliveryInv, DeliveryTypeOK
  <1>6. OnePlaceInv'
    <2>1. /\ wire \cup dropped \cup queue \cup inflight \subseteq DOMAIN log
      BY DEF DeliveryInv, DeliveryTypeOK
    <2>2. (queue \cap inflight = {} /\ wire \cap dropped = {}
             /\ (wire \cup dropped) \cap (queue \cup inflight) = {})'
      BY <1>2, <1>3, <1>4, <2>1 DEF DeliveryInv, OnePlaceInv
    <2> QED
      BY <1>4, <2>2 DEF DeliveryInv, OnePlaceInv, AtClient, MessagesOf, Nsq, Open
  <1>7. NoMessageLost'
    <2>1. (inflight \subseteq MessagesOf(AtClient))'
      BY <1>6, InFlightAtClient
    <2>2. \A m \in new : m \in queue' \/ (backend = "rabbitmq" /\ m \in wire')
      BY <1>3
    <2>3. \A m \in DOMAIN log :
          \/ m \in queue' \cup inflight' \cup handled'
          \/ m \in givenUp' /\ attempts'[m] > MaxAttempts
          \/ backend' = "rabbitmq" /\ m \in wire' \cup dropped'
      BY <1>3, <1>4 DEF DeliveryInv, NoMessageLost
    <2> QED
      BY <1>1, <1>2, <1>4, <2>1, <2>2, <2>3 DEF DeliveryInv, NoMessageLost
  <1>8. EndedInv'
    BY <1>4 DEF DeliveryInv, EndedInv, AtClient
  <1> QED
    BY <1>5, <1>6, <1>7, <1>8 DEF DeliveryInv

LEMMA RouteStep ==
    ASSUME DeliveryInv, NEW m \in Messages, Route(m)
    PROVE  DeliveryInv'
  <1>1. /\ m \in wire /\ wire' = wire \ {m}
        /\ \/ queue' = queue \cup {m} /\ dropped' = dropped
           \/ dropped' = dropped \cup {m} /\ queue' = queue
        /\ UNCHANGED <<backend, log, missing, inflight, held, work, attempts, handled, givenUp,
                       loop, forced, lost, ctx, closing, restarts>>
    BY DEF Route
  <1>2. DeliveryTypeOK'
    BY <1>1 DEF DeliveryInv, DeliveryTypeOK
  <1>3. OnePlaceInv'
    <2>1. (queue \cap inflight = {} /\ wire \cap dropped = {}
             /\ (wire \cup dropped) \cap (queue \cup inflight) = {})'
      BY <1>1 DEF DeliveryInv, OnePlaceInv
    <2> QED
      BY <1>1, <2>1 DEF DeliveryInv, OnePlaceInv, AtClient, MessagesOf, Nsq, Open
  <1>4. NoMessageLost'
    BY <1>1, <1>3, Kept
  <1> QED
    BY <1>1, <1>2, <1>3, <1>4 DEF DeliveryInv, EndedInv, AtClient

-----------------------------------------------------------------------------
(* Delivery to the client. *)

LEMMA DeliverStep ==
    ASSUME DeliveryInv, NEW m \in Messages, Deliver(m)
    PROVE  DeliveryInv'
  <1> DEFINE a == IF attempts[m] > (IF backend = "rabbitmq" THEN 0 ELSE MaxAttempts)
                  THEN attempts[m] ELSE attempts[m] + 1
  <1>1. /\ Open /\ m \in queue
        /\ queue' = queue \ {m} /\ inflight' = inflight \cup {m}
        /\ attempts' = [attempts EXCEPT ![m] = a] /\ held' = held \cup {<<m, a>>}
        /\ UNCHANGED <<backend, log, missing, wire, dropped, work, handled, givenUp, loop,
                       forced, lost, ctx, closing, restarts>>
    BY DEF Deliver
  <1>2. a \in 1 .. MaxAttempts + 1 /\ a >= attempts[m] /\ attempts[m] \in Nat
    BY DeliveryAssumption DEF DeliveryInv, DeliveryTypeOK
  <1> HIDE DEF a
  <1>3. /\ attempts' \in [Messages -> 0 .. MaxAttempts + 1] /\ attempts'[m] = a
        /\ \A n \in Messages : n # m => attempts'[n] = attempts[n]
        /\ \A n \in Messages : attempts[n] \in Nat
    BY <1>1, <1>2, DeliveryAssumption DEF DeliveryInv, DeliveryTypeOK
  <1>4. AtClient' = AtClient \cup {<<m, a>>}
    BY <1>1 DEF AtClient
  <1>5. DeliveryTypeOK'
    <2>1. m \in DOMAIN log /\ <<m, a>> \in Copies
      BY <1>1, <1>2 DEF DeliveryInv, DeliveryTypeOK, Copies
    <2>2. (held \cup work \subseteq Copies /\ \A c \in held \cup work : c[1] \in DOMAIN log)'
      BY <1>1, <2>1 DEF DeliveryInv, DeliveryTypeOK
    <2>3. (wire \cup dropped \cup queue \cup inflight \cup handled \cup givenUp \subseteq DOMAIN log)'
      BY <1>1, <2>1 DEF DeliveryInv, DeliveryTypeOK
    <2> QED
      BY <1>1, <1>3, <2>2, <2>3 DEF DeliveryInv, DeliveryTypeOK
  <1>6. OnePlaceInv'
    <2>1. (queue \cap inflight = {} /\ wire \cap dropped = {}
             /\ (wire \cup dropped) \cap (queue \cup inflight) = {})'
      BY <1>1 DEF DeliveryInv, OnePlaceInv
    <2>2. (\A n \in inflight : <<n, attempts[n]>> \in AtClient)'
      <3> SUFFICES ASSUME NEW n \in inflight'
                   PROVE  <<n, attempts'[n]>> \in AtClient'
        OBVIOUS
      <3>1. CASE n = m
        BY <1>3, <1>4, <3>1
      <3>2. CASE n # m
        <4>1. n \in inflight /\ n \in Messages
          BY <1>1, <3>2, MessagesAre DEF DeliveryInv, DeliveryTypeOK
        <4> QED
          BY <1>3, <1>4, <3>2, <4>1 DEF DeliveryInv, OnePlaceInv
      <3> QED
        BY <3>1, <3>2
    <2>3. (\A c \in AtClient : c[2] <= attempts[c[1]])'
      <3> SUFFICES ASSUME NEW c \in AtClient'
                   PROVE  c[2] <= attempts'[c[1]]
        OBVIOUS
      <3>1. CASE c = <<m, a>>
        BY <1>2, <1>3, <3>1
      <3>2. CASE c \in AtClient
        <4>1. c[1] \in Messages /\ c[2] \in Nat /\ c[2] <= attempts[c[1]]
          BY <3>2, CopiesAre DEF DeliveryInv, OnePlaceInv
        <4> QED
          BY <1>2, <1>3, <4>1
      <3> QED
        BY <1>4, <3>1, <3>2
    <2>4. CASE ~Nsq
      <3>1. m \notin inflight /\ MessagesOf(AtClient) \subseteq inflight /\ Open'
        BY <1>1, <2>4 DEF DeliveryInv, OnePlaceInv, Open
      <3>2. \A c \in AtClient : c[1] # m
        BY <3>1 DEF MessagesOf
      <3>3. \A c, d \in AtClient' : c[1] = d[1] => c = d
        BY <1>4, <2>4, <3>2 DEF DeliveryInv, OnePlaceInv
      <3>4. (held \cap work = {})'
        BY <1>1, <2>4, <3>2 DEF DeliveryInv, OnePlaceInv, AtClient
      <3>5. (MessagesOf(AtClient) \subseteq inflight)'
        BY <1>1, <1>4, <3>1 DEF MessagesOf
      <3> QED
        BY <2>1, <2>2, <2>3, <3>1, <3>3, <3>4, <3>5 DEF OnePlaceInv
    <2>5. CASE Nsq
      BY <1>1, <2>1, <2>2, <2>3, <2>5 DEF OnePlaceInv, Nsq
    <2> QED
      BY <2>4, <2>5
  <1>7. \A n \in DOMAIN log : attempts[n] > MaxAttempts => attempts'[n] > MaxAttempts
    <2> TAKE n \in DOMAIN log
    <2>1. n \in Messages
      BY MessagesAre DEF DeliveryInv
    <2>2. attempts'[n] \in Nat /\ attempts[n] \in Nat /\ attempts'[n] >= attempts[n]
      BY <1>2, <1>3, <2>1, DeliveryAssumption
    <2> QED
      BY <2>2, DeliveryAssumption
  <1>8. NoMessageLost'
    BY <1>1, <1>6, <1>7, Kept
  <1>9. EndedInv'
    BY <1>1 DEF Open, DeliveryInv, EndedInv
  <1> QED
    BY <1>5, <1>6, <1>8, <1>9 DEF DeliveryInv

(* A copy leaves the client, and the broker does not wait for its message   *)
(* any more.                                                                *)
LEMMA Answered ==
    ASSUME DeliveryInv, NEW c \in AtClient,
           UNCHANGED <<backend, log, wire, dropped, attempts, loop, lost, closing>>,
           \/ c \in held /\ Nsq /\ held' = held \ {c} /\ work' = work
           \/ c \in work /\ work' = work \ {c} /\ held' = held,
           inflight' = inflight \ {c[1]}, queue \subseteq queue',
           queue' \subseteq queue \cup ({c[1]} \cap inflight)
    PROVE  /\ OnePlaceInv' /\ queue' \subseteq DOMAIN log /\ inflight' \subseteq DOMAIN log
           /\ (held \cup work)' \subseteq held \cup work
  <1>1. AtClient' \subseteq AtClient
    BY DEF AtClient
  <1>2. \A d \in AtClient : d # c => d \in AtClient'
    BY DEF AtClient
  <1>3. (queue \cap inflight = {} /\ wire \cap dropped = {}
           /\ (wire \cup dropped) \cap (queue \cup inflight) = {})'
    BY DEF DeliveryInv, OnePlaceInv
  <1>4. (\A m \in inflight : <<m, attempts[m]>> \in AtClient)'
    <2> SUFFICES ASSUME NEW m \in inflight'
                 PROVE  <<m, attempts[m]>> \in AtClient'
      OBVIOUS
    <2>1. m \in inflight /\ m # c[1]
      OBVIOUS
    <2> QED
      BY <1>2, <2>1 DEF DeliveryInv, OnePlaceInv
  <1>5. (\A d \in AtClient : d[2] <= attempts[d[1]])'
    BY <1>1 DEF DeliveryInv, OnePlaceInv
  <1>6. (~Nsq => /\ \A d, e \in AtClient : d[1] = e[1] => d = e
                 /\ held \cap work = {}
                 /\ IF Open THEN MessagesOf(AtClient) \subseteq inflight ELSE held = {})'
    <2> SUFFICES ASSUME ~Nsq
                 PROVE  (/\ \A d, e \in AtClient : d[1] = e[1] => d = e
                         /\ held \cap work = {}
                         /\ IF Open THEN MessagesOf(AtClient) \subseteq inflight ELSE held = {})'
      BY DEF Nsq
    <2>1. c \in work /\ work' = work \ {c} /\ held' = held
      OBVIOUS
    <2>2. /\ \A d, e \in AtClient : d[1] = e[1] => d = e
          /\ held \cap work = {}
          /\ IF Open THEN MessagesOf(AtClient) \subseteq inflight ELSE held = {}
      BY DEF DeliveryInv, OnePlaceInv
    <2>3. c \notin AtClient'
      BY <2>1, <2>2 DEF AtClient
    <2>4. Open' <=> Open
      BY DEF Open
    <2>5. ASSUME Open
          PROVE  (MessagesOf(AtClient) \subseteq inflight)'
      <3>1. \A d \in AtClient' : d[1] \in inflight /\ d[1] # c[1]
        BY <1>1, <2>2, <2>3, <2>5 DEF MessagesOf
      <3> QED
        BY <3>1 DEF MessagesOf
    <2> QED
      BY <1>1, <2>1, <2>2, <2>4, <2>5
  <1>7. OnePlaceInv'
    BY <1>3, <1>4, <1>5, <1>6 DEF OnePlaceInv
  <1>8. (held \cup work)' \subseteq held \cup work
    OBVIOUS
  <1> QED
    BY <1>7, <1>8 DEF DeliveryInv, DeliveryTypeOK

LEMMA GiveUpStep ==
    ASSUME DeliveryInv, NEW c \in Copies, GiveUp(c)
    PROVE  DeliveryInv'
  <1>1. /\ Nsq /\ c \in held /\ c[2] > MaxAttempts
        /\ held' = held \ {c} /\ inflight' = inflight \ {c[1]}
        /\ givenUp' = givenUp \cup {c[1]}
        /\ UNCHANGED <<backend, log, missing, wire, dropped, queue, work, attempts, handled,
                       loop, forced, lost, ctx, closing, restarts>>
    BY DEF GiveUp
  <1>2. c \in AtClient /\ AtClient' \subseteq AtClient
    BY <1>1 DEF AtClient
  <1>3. OnePlaceInv' /\ (held \cup work)' \subseteq held \cup work /\ inflight' \subseteq DOMAIN log
    BY <1>1, <1>2, Answered
  <1>4. c[1] \in DOMAIN log /\ attempts[c[1]] > MaxAttempts
    <2>1. c[2] <= attempts[c[1]] /\ c[2] \in Nat /\ c[1] \in Messages
      BY <1>2, CopiesAre DEF DeliveryInv, OnePlaceInv
    <2>2. attempts[c[1]] \in Nat /\ MaxAttempts \in Nat
      BY <2>1, DeliveryAssumption DEF DeliveryInv, DeliveryTypeOK
    <2>3. attempts[c[1]] > MaxAttempts
      BY <1>1, <2>1, <2>2
    <2> QED
      BY <1>2, <2>3, CopiesAre DEF DeliveryInv
  <1>5. DeliveryTypeOK'
    BY <1>1, <1>3, <1>4 DEF DeliveryInv, DeliveryTypeOK
  <1>6. NoMessageLost'
    <2>1. \A m \in queue \cup inflight :
               \/ m \in queue' \cup inflight' \cup handled'
               \/ m \in givenUp' /\ attempts'[m] > MaxAttempts
      BY <1>1, <1>4
    <2> QED
      BY <1>1, <1>3, <2>1, Kept
  <1>7. EndedInv'
    BY <1>1, <1>2 DEF DeliveryInv, EndedInv
  <1> QED
    BY <1>3, <1>5, <1>6, <1>7 DEF DeliveryInv

LEMMA TakeStep ==
    ASSUME DeliveryInv, NEW c \in Copies, Take(c)
    PROVE  DeliveryInv'
  <1>1. /\ c \in held /\ (loop # "ended" \/ forced)
        /\ held' = held \ {c} /\ work' = work \cup {c}
        /\ UNCHANGED <<backend, log, missing, wire, dropped, queue, inflight, attempts, handled,
                       givenUp, loop, forced, lost, ctx, closing, restarts>>
    BY DEF Take
  <1>2. AtClient' = AtClient
    BY <1>1 DEF AtClient
  <1>3. OnePlaceInv'
    BY <1>1, <1>2 DEF DeliveryInv, OnePlaceInv, MessagesOf, Nsq, Open
  <1>4. NoMessageLost'
    BY <1>1, <1>3, Kept
  <1>5. EndedInv'
    BY <1>1, <1>2 DEF DeliveryInv, EndedInv
  <1>6. DeliveryTypeOK'
    BY <1>1 DEF DeliveryInv, DeliveryTypeOK
  <1> QED
    BY <1>3, <1>4, <1>5, <1>6 DEF DeliveryInv

LEMMA HandleStep ==
    ASSUME DeliveryInv, NEW c \in Copies, NEW results, Handle(c, results)
    PROVE  DeliveryInv'
  <1> DEFINE ok == ExecuteHandlers(results)
  <1>1. /\ c \in work /\ work' = work \ {c}
        /\ handled' = IF ok THEN handled \cup {c[1]} ELSE handled
        /\ inflight' = inflight \ {c[1]}
        /\ queue' = queue \cup GivenBack(c, ok)
        /\ givenUp' = IF ok \/ ~Dead(c) THEN givenUp ELSE givenUp \cup ({c[1]} \cap inflight)
        /\ UNCHANGED <<backend, log, missing, wire, dropped, held, attempts, loop, forced, lost,
                       ctx, closing, restarts>>
    BY DEF Handle, ExecuteHandlers
  <1> HIDE DEF ok
  <1>2. c \in AtClient /\ AtClient' \subseteq AtClient
    BY <1>1 DEF AtClient
  <1>3. GivenBack(c, ok) = IF ok \/ Dead(c) THEN {} ELSE {c[1]} \cap inflight
    BY DEF GivenBack
  <1>4. /\ OnePlaceInv' /\ queue' \subseteq DOMAIN log /\ inflight' \subseteq DOMAIN log
        /\ (held \cup work)' \subseteq held \cup work
    BY <1>1, <1>2, <1>3, Answered
  <1>5. c[1] \in DOMAIN log /\ (Dead(c) => attempts[c[1]] > MaxAttempts)
    <2>1. c[2] <= attempts[c[1]] /\ c[2] \in Nat /\ c[1] \in Messages /\ c[1] \in DOMAIN log
      BY <1>2, CopiesAre DEF DeliveryInv, OnePlaceInv
    <2>2. attempts[c[1]] \in Nat /\ MaxAttempts \in Nat
      BY <2>1, DeliveryAssumption DEF DeliveryInv, DeliveryTypeOK
    <2> QED
      BY <2>1, <2>2 DEF Dead
  <1>6. DeliveryTypeOK'
    BY <1>1, <1>4, <1>5 DEF DeliveryInv, DeliveryTypeOK
  <1>7. NoMessageLost'
    <2>1. \A m \in queue \cup inflight :
               \/ m \in queue' \cup inflight' \cup handled'
               \/ m \in givenUp' /\ attempts'[m] > MaxAttempts
      <3> SUFFICES ASSUME c[1] \in inflight
                   PROVE  \/ c[1] \in queue' \cup inflight' \cup handled'
                          \/ c[1] \in givenUp' /\ attempts'[c[1]] > MaxAttempts
        BY <1>1
      <3>1. CASE ok
        BY <1>1, <3>1
      <3>2. CASE ~ok /\ Dead(c)
        BY <1>1, <1>5, <3>2
      <3>3. CASE ~ok /\ ~Dead(c)
        BY <1>1, <1>3, <3>3
      <3> QED
        BY <3>1, <3>2, <3>3
    <2>2. handled \subseteq handled' /\ givenUp \subseteq givenUp'
      BY <1>1
    <2> QED
      BY <1>1, <1>4, <2>1, <2>2, Kept
  <1>8. EndedInv'
    BY <1>1, <1>2 DEF DeliveryInv, EndedInv
  <1> QED
    BY <1>4, <1>6, <1>7, <1>8 DEF DeliveryInv

LEMMA TimeOutStep ==
    ASSUME DeliveryInv, NEW m \in Messages, TimeOut(m)
    PROVE  DeliveryInv'
  <1>1. /\ Nsq /\ m \in inflight
        /\ inflight' = inflight \ {m} /\ queue' = queue \cup {m}
        /\ UNCHANGED <<backend, log, missing, wire, dropped, held, work, attempts, handled,
                       givenUp, loop, forced, lost, ctx, closing, restarts>>
    BY DEF TimeOut
  <1>2. AtClient' = AtClient
    BY <1>1 DEF AtClient
  <1>3. OnePlaceInv'
    BY <1>1, <1>2 DEF DeliveryInv, OnePlaceInv, Nsq
  <1>4. NoMessageLost'
    BY <1>1, <1>3, Kept
  <1>5. DeliveryTypeOK'
    <2>1. (wire \cup dropped \cup queue \cup inflight \cup handled \cup givenUp \subseteq DOMAIN log)'
      BY <1>1 DEF DeliveryInv, DeliveryTypeOK
    <2> QED
      BY <1>1, <2>1 DEF DeliveryInv, DeliveryTypeOK
  <1> QED
    BY <1>1, <1>2, <1>3, <1>4, <1>5 DEF DeliveryInv, EndedInv

-----------------------------------------------------------------------------
(* Cancellation, Close and the end of the process. *)

LEMMA ConnectionLostStep ==
    ASSUME DeliveryInv, ConnectionLost
    PROVE  DeliveryInv'
  <1>1. /\ backend = "rabbitmq" /\ lost' = TRUE /\ Disconnected /\ inflight' = {} /\ held' = {}
        /\ UNCHANGED <<backend, log, missing, wire, dropped, work, attempts, handled, givenUp,
                       loop, forced, ctx, closing, restarts>>
    BY DEF ConnectionLost, Disconnected
  <1>2. ~Open'
    BY <1>1 DEF Open
  <1>3. OnePlaceInv' /\ NoMessageLost' /\ queue' \subseteq DOMAIN log
    BY <1>1, <1>2, GivesBack
  <1> QED
    BY <1>1, <1>3 DEF DeliveryInv, DeliveryTypeOK, EndedInv

LEMMA StopOnCancelStep ==
    ASSUME DeliveryInv, StopOnCancel
    PROVE  DeliveryInv'
  <1>1. UNCHANGED <<backend, log, missing, wire, dropped, work, attempts, handled, givenUp,
                    forced, lost, ctx, closing, restarts>>
        /\ loop = "running" /\ loop' \in {"stopping", "ended"}
    BY DEF StopOnCancel
  <1>2. CASE UNCHANGED <<queue, held, inflight>> /\ backend \in {"nsq", "rabbitmq"}
    <2>1. backend = "nsq" => loop' = "stopping"
      BY <1>2 DEF StopOnCancel
    <2>2. OnePlaceInv' /\ NoMessageLost'
      <3>1. ~Nsq => (Open' <=> Open)
        BY <1>1, <1>2 DEF Open, Nsq
      <3> QED
        BY <1>1, <1>2, <3>1, NothingMoves
    <2> QED
      BY <1>1, <1>2, <2>1, <2>2 DEF DeliveryInv, DeliveryTypeOK, EndedInv, AtClient
  <1>3. CASE Disconnected /\ backend = "rocketmq" /\ loop' = "ended"
    <2>1. OnePlaceInv' /\ NoMessageLost' /\ queue' \subseteq DOMAIN log
      BY <1>1, <1>3, GivesBack DEF Open
    <2> QED
      BY <1>1, <1>3, <2>1 DEF DeliveryInv, DeliveryTypeOK, EndedInv, Disconnected
  <1> QED
    BY <1>2, <1>3 DEF StopOnCancel

LEMMA CloseStep ==
    ASSUME DeliveryInv, Close
    PROVE  DeliveryInv'
  <1>1. /\ UNCHANGED <<backend, log, missing, wire, dropped, work, attempts, handled, givenUp,
                       forced, lost, ctx, restarts>>
        /\ closing = "no" /\ closing' \in {"waiting", "returned"}
        /\ backend = "nsq" => closing' = "waiting"
        /\ loop' \in {loop, "stopping", "ended"} /\ (Nsq => loop' \in {loop, "stopping"})
        /\ (loop = "ended" => loop' = "ended")
    BY DEF Close, Nsq
  <1>2. CASE Nsq
    <2>1. UNCHANGED <<queue, held, inflight>>
      BY <1>2 DEF Close
    <2>2. OnePlaceInv' /\ NoMessageLost'
      BY <1>1, <1>2, <2>1, NothingMoves
    <2> QED
      BY <1>1, <1>2, <2>1, <2>2 DEF DeliveryInv, DeliveryTypeOK, EndedInv, AtClient
  <1>3. CASE ~Nsq
    <2>1. Disconnected /\ (backend = "rocketmq" => loop' = "ended")
      BY <1>3 DEF Close, Nsq
    <2>2. ~Open'
      BY <1>1, <1>3, <2>1 DEF Open, Nsq, DeliveryInv, DeliveryTypeOK
    <2>3. OnePlaceInv' /\ NoMessageLost' /\ queue' \subseteq DOMAIN log
      BY <1>1, <2>1, <2>2, GivesBack
    <2> QED
      BY <1>1, <1>3, <2>1, <2>3 DEF DeliveryInv, DeliveryTypeOK, EndedInv, Disconnected, Nsq
  <1> QED
    BY <1>2, <1>3

(* Steps that move no message.                                              *)
LEMMA QuietStep ==
    ASSUME DeliveryInv, Cancel \/ Drained \/ CloseReturns
    PROVE  DeliveryInv'
  <1>1. UNCHANGED <<backend, log, missing, wire, dropped, queue, inflight, held, work, attempts,
                    handled, givenUp, lost, restarts>>
    BY DEF Cancel, Drained, CloseReturns
  <1>2. ~Nsq => (Open' <=> Open)
    BY DEF Cancel, Drained, CloseReturns, Open, Nsq
  <1>3. EndedInv'
    BY <1>1 DEF Cancel, Drained, CloseReturns, DeliveryInv, EndedInv, AtClient
  <1>4. DeliveryTypeOK'
    BY <1>1 DEF Cancel, Drained, CloseReturns, DeliveryInv, DeliveryTypeOK
  <1> QED
    BY <1>1, <1>2, <1>3, <1>4, NothingMoves DEF DeliveryInv

LEMMA RestartStep ==
    ASSUME DeliveryInv, Restart
    PROVE  DeliveryInv'
  <1>1. /\ UNCHANGED <<backend, log, missing, wire, dropped, attempts, handled, givenUp>>
        /\ queue' = queue \cup inflight /\ inflight' = {} /\ held' = {} /\ work' = {}
        /\ loop' = "running" /\ forced' = FALSE /\ lost' = FALSE
        /\ ctx' = "live" /\ closing' = "no" /\ restarts' = restarts + 1 /\ restarts < MaxRestarts
    BY DEF Restart, Disconnected
  <1>2. AtClient' = {} /\ MessagesOf(AtClient)' = {}
    BY <1>1 DEF AtClient, MessagesOf
  <1>3. DeliveryTypeOK'
    <2>1. restarts' \in 0 .. MaxRestarts
      BY <1>1, DeliveryAssumption DEF DeliveryInv, DeliveryTypeOK
    <2> QED
      BY <1>1, <2>1 DEF DeliveryInv, DeliveryTypeOK
  <1>4. OnePlaceInv'
    <2>1. (queue \cap inflight = {} /\ wire \cap dropped = {}
             /\ (wire \cup dropped) \cap (queue \cup inflight) = {})'
      BY <1>1 DEF DeliveryInv, OnePlaceInv
    <2> QED
      BY <1>1, <1>2, <2>1 DEF OnePlaceInv
  <1>5. NoMessageLost'
    BY <1>1, <1>4, Kept
  <1> QED
    BY <1>1, <1>2, <1>3, <1>4, <1>5 DEF DeliveryInv, EndedInv

LEMMA NextInvariant == DeliveryInv /\ [DeliveryNext]_deliveryVars => DeliveryInv'
  <1> SUFFICES ASSUME DeliveryInv, [DeliveryNext]_deliveryVars
               PROVE  DeliveryInv'
    OBVIOUS
  <1>1. CASE UNCHANGED deliveryVars
    <2>1. OnePlaceInv' /\ NoMessageLost'
      BY <1>1, NothingMoves DEF deliveryVars, Open
    <2> QED
      BY <1>1, <2>1 DEF deliveryVars, DeliveryInv, DeliveryTypeOK, EndedInv, AtClient
  <1>2. ASSUME NEW q \in Calls, BulkSend(q)
        PROVE  DeliveryInv'
    BY <1>2, BulkSendStep
  <1>3. ASSUME NEW m \in Messages, Route(m) \/ Deliver(m) \/ TimeOut(m)
        PROVE  DeliveryInv'
    BY <1>3, RouteStep, DeliverStep, TimeOutStep
  <1>4. ASSUME NEW c \in Copies, GiveUp(c) \/ Take(c)
        PROVE  DeliveryInv'
    BY <1>4, GiveUpStep, TakeStep
  <1>5. ASSUME NEW c \in Copies, NEW results \in Results, Handle(c, results)
        PROVE  DeliveryInv'
    BY <1>5, HandleStep
  <1>6. CASE StopOnCancel \/ Close \/ ConnectionLost \/ Restart
    BY <1>6, StopOnCancelStep, CloseStep, ConnectionLostStep, RestartStep
  <1>7. CASE Cancel \/ Drained \/ CloseReturns
    BY <1>7, QuietStep
  <1> QED
    BY <1>1, <1>2, <1>3, <1>4, <1>5, <1>6, <1>7 DEF DeliveryNext, Client, Stopped

(* nsq.go, rabbitmq.go, rocketmq.go: the places of messages and copies, the *)
(* end of an NSQ client and the promise to the producer, which hold         *)
(* together in every state.                                                 *)
THEOREM Invariance == DeliverySpec => []DeliveryInv
  BY InitInvariant, NextInvariant, PTL DEF DeliverySpec

(* v2/brokerw/broker.go:19 to 20: a message that was sent is at the broker, *)
(* in flight with a copy to answer for it, handled, or given up after more  *)
(* than MaxAttempts deliveries, however late answers are and however often  *)
(* processes end; RabbitMQ, which confirms nothing, may lose it before it   *)
(* is in a queue.                                                           *)
THEOREM NoMessageLostHolds == DeliverySpec => []NoMessageLost
  <1>1. DeliveryInv => NoMessageLost
    BY DEF DeliveryInv
  <1> QED
    BY <1>1, Invariance, PTL

(* v2/brokerw/nsqw/nsq.go:115: after Close of the NSQ consumer nothing is   *)
(* in flight, unless its client gave up waiting.                            *)
THEOREM CloseDrainsHolds == DeliverySpec => []CloseDrains
  <1>1. DeliveryInv => CloseDrains
    <2> SUFFICES ASSUME DeliveryInv, backend = "nsq", closing = "returned", ~forced
                 PROVE  inflight = {} /\ AtClient = {}
      BY DEF CloseDrains
    <2>1. AtClient = {}
      BY DEF DeliveryInv, EndedInv
    <2> QED
      BY <2>1 DEF DeliveryInv, OnePlaceInv
  <1> QED
    BY <1>1, Invariance, PTL

(* A message that is in flight has its newest copy at the client, and only  *)
(* NSQ's client ever has a copy of a message that the broker took back: one *)
(* that timed out, in its buffer too, and may be handled twice at once.     *)
THEOREM OnePlaceHolds == DeliverySpec => []OnePlaceInv
  <1>1. DeliveryInv => OnePlaceInv
    BY DEF DeliveryInv
  <1> QED
    BY <1>1, Invariance, PTL

-----------------------------------------------------------------------------
(* Settled messages.                                                        *)

(* What is on its way, at the broker or in flight after a step was there    *)
(* before, or it is new; what is delivered was at the broker.               *)
LEMMA NothingReturns ==
    ASSUME DeliveryInv, [DeliveryNext]_deliveryVars
    PROVE  /\ Settled \subseteq Settled'
           /\ \A c \in Copies : c \in held' \ held => c[1] \notin Settled
  <1> DEFINE open == wire \cup queue \cup inflight
  <1>1. ASSUME log' = log, open' \subseteq open, held' \subseteq held
        PROVE  /\ Settled \subseteq Settled'
               /\ \A c \in Copies : c \in held' \ held => c[1] \notin Settled
    BY <1>1 DEF Settled
  <1>2. ASSUME NEW q \in Calls, BulkSend(q)
        PROVE  /\ Settled \subseteq Settled'
               /\ \A c \in Copies : c \in held' \ held => c[1] \notin Settled
    <2>1. PICK r \in Seq(Payloads) :
               /\ Len(log) + Len(r) <= MaxPublish /\ log' = log \o r
               /\ missing' = missing
               /\ \/ backend = "rabbitmq" /\ wire' = wire \cup New(r) /\ queue' = queue
                  \/ wire' = wire /\ queue' = queue \cup New(r)
      BY <1>2, BulkSendSends
    <2>2. DOMAIN log' = DOMAIN log \cup New(r) /\ DOMAIN log \cap New(r) = {}
      BY <2>1, NewAre
    <2>3. inflight' = inflight /\ held' = held
      BY <1>2 DEF BulkSend
    <2>4. open' = open \cup New(r)
      BY <2>1, <2>3
    <2> QED
      BY <2>2, <2>3, <2>4 DEF Settled
  <1>3. ASSUME NEW m \in Messages, Deliver(m)
        PROVE  /\ Settled \subseteq Settled'
               /\ \A c \in Copies : c \in held' \ held => c[1] \notin Settled
    <2>1. /\ log' = log /\ wire' = wire /\ m \in queue
          /\ queue' = queue \ {m} /\ inflight' = inflight \cup {m}
          /\ \A c \in held' \ held : c[1] = m
      BY <1>3 DEF Deliver
    <2> QED
      BY <2>1 DEF Settled
  <1>4. ASSUME NEW m \in Messages, Route(m) \/ TimeOut(m)
        PROVE  /\ Settled \subseteq Settled'
               /\ \A c \in Copies : c \in held' \ held => c[1] \notin Settled
    BY <1>1, <1>4 DEF Route, TimeOut
  <1>5. ASSUME NEW c \in Copies, NEW results, GiveUp(c) \/ Take(c) \/ Handle(c, results)
        PROVE  /\ Settled \subseteq Settled'
               /\ \A d \in Copies : d \in held' \ held => d[1] \notin Settled
    BY <1>1, <1>5 DEF GiveUp, Take, Handle, GivenBack
  <1>6. CASE StopOnCancel \/ Close \/ ConnectionLost \/ Restart
    <2>1. /\ log' = log /\ wire' = wire /\ held' \subseteq held
          /\ queue' \cup inflight' \subseteq queue \cup inflight
      BY <1>6 DEF StopOnCancel, Close, ConnectionLost, Restart, Disconnected
    <2> QED
      BY <1>1, <2>1
  <1>7. CASE Cancel \/ Drained \/ CloseReturns \/ UNCHANGED deliveryVars
    BY <1>1, <1>7 DEF Cancel, Drained, CloseReturns, deliveryVars
  <1> QED
    BY <1>2, <1>3, <1>4, <1>5, <1>6, <1>7 DEF DeliveryNext, Client, Stopped

(* nsq.go, rabbitmq.go, rocketmq.go: a message that was settled, handled or *)
(* given up, is not handed out again, though answers of older copies come   *)
(* late and connections break.                                              *)
THEOREM SettledStaySettledHolds == DeliverySpec => SettledStaySettled
  <1>1. DeliveryInv /\ [DeliveryNext]_deliveryVars
            => [/\ Settled \subseteq Settled'
                /\ \A c \in Copies : c \in held' \ held => c[1] \notin Settled]_deliveryVars
    BY NothingReturns
  <1> QED
    BY <1>1, Invariance, PTL DEF DeliverySpec, SettledStaySettled
=============================================================================
