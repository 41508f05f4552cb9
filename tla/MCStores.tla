------------------------------ MODULE MCStores ------------------------------
(* Transactions and Query (a program's database) and LocalCache (its        *)
(* cache), one at a time.                                                   *)
EXTENDS Transactions, Query, LocalCache

VARIABLE side

MCPrefixes == {<<"id", "id_card">>}
(* Not positive: no expiration. *)
MCTTLs == {-2, 1}

TransactionsRest == Init /\ helper = "sqlx"

AloneInit ==
    /\ side \in {"transactions", "query", "cache"}
    /\ IF side = "transactions" THEN Init ELSE TransactionsRest
    /\ QueryInit /\ CacheInit

AloneNext ==
    /\ UNCHANGED side
    /\ \/ side = "transactions" /\ Next /\ UNCHANGED <<call, cacheVars>>
       \/ side = "query" /\ QueryNext /\ UNCHANGED <<vars, cacheVars>>
       \/ side = "cache" /\ CacheNext /\ UNCHANGED <<vars, call>>

(* The fairness of what rests asks for nothing: no action it is about is    *)
(* enabled in an initial state.                                             *)
AloneSpec ==
    /\ AloneInit /\ [][AloneNext]_<<side, vars, call, cacheVars>>
    /\ Fairness /\ QueryFairness /\ CacheFairness
=============================================================================
