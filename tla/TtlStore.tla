------------------------------ MODULE TtlStore ------------------------------
(***************************************************************************)
(* What the local cache promises its users: a map whose entries change     *)
(* when a user's request is served, or vanish the moment their time is up, *)
(* and at no other time.  There is no sweeping here: an expired entry is   *)
(* simply gone.                                                            *)
(***************************************************************************)
EXTENDS Integers

CONSTANTS
    StoreKeys,      \* keys
    StoreItems,     \* entries: records with a field until (0: no end)
    Users,          \* who asks for changes
    NoRequest       \* a user without a request

VARIABLES
    clock,          \* the time
    content,        \* the entry a reader finds under each key, or Nothing
    request         \* what each user asked for: an item for some keys

storeVars == <<clock, content, request>>

Nothing == [value |-> "nothing", until |-> 0]
Visible(item, time) == IF item.until > 0 /\ time > item.until THEN Nothing ELSE item

StoreInit ==
    /\ clock \in Nat
    /\ content = [k \in StoreKeys |-> Nothing]
    /\ request = [u \in Users |-> NoRequest]

Ask(u) ==
    /\ request[u] = NoRequest /\ request'[u] # NoRequest
    /\ request'[u].keys \subseteq StoreKeys
    /\ request'[u].item \in StoreItems \cup {Nothing}
    /\ request' = [request EXCEPT ![u] = request'[u]]
    /\ UNCHANGED <<clock, content>>

Serve(u) ==
    /\ request[u] # NoRequest
    /\ content' = [k \in StoreKeys |-> IF k \in request[u].keys
                                       THEN Visible(request[u].item, clock) ELSE content[k]]
    /\ request' = [request EXCEPT ![u] = NoRequest]
    /\ UNCHANGED clock

Pass ==
    /\ clock' = clock + 1
    /\ content' = [k \in StoreKeys |-> Visible(content[k], clock')]
    /\ UNCHANGED request

StoreNext == Pass \/ \E u \in Users : Ask(u) \/ Serve(u)

StoreSpec == StoreInit /\ [][StoreNext]_storeVars
=============================================================================
