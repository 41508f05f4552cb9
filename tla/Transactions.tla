---------------------------- MODULE Transactions ----------------------------
(***************************************************************************)
(* The transaction helpers: DoInTransaction of sqlw/postgres ("postgres"), *)
(* and Transaction with GetDB of v2/sql/sqlxw ("sqlx"), v2/sql/gormw       *)
(* ("gorm") and v2/no-sql/mongow ("mongo"), with what they rely on of pgx, *)
(* database/sql, GORM and the MongoDB driver.                              *)
(*                                                                         *)
(* Each of Callers makes one transaction (level 1) whose callback may make *)
(* others (level 2), one at a time: through the helper's database on a     *)
(* connection of their own, or through the open transaction as a savepoint *)
(* in it.  A write is <<level, execution, number>>: executions of          *)
(* callbacks are numbered, for the MongoDB driver may run one again.       *)
(***************************************************************************)
EXTENDS Integers, FiniteSets

CONSTANTS
    Callers,
    Helpers,        \* packages considered
    MaxOpenConns,   \* size of the connection pool (0, no limit, is any large one)
    MaxWrites,      \* bound: writes of one execution
    MaxExecs        \* bound: executions of one caller's callbacks

ASSUME TransactionsAssumption ==
    /\ Helpers \subseteq {"postgres", "sqlx", "gorm", "mongo"}
    /\ MaxOpenConns \in Nat \ {0} /\ MaxWrites \in Nat /\ MaxExecs \in Nat \ {0}

VARIABLES
    helper,         \* the package in use
    pc,             \* where each caller is at each level
    inside,         \* level 2 is a savepoint of level 1
    exec, execs,    \* the execution at each level; how many there were
    outcome,        \* how the last callback at each level ended
    result,         \* what the helper returned at each level
    open,           \* open transactions of the database
    work,           \* uncommitted writes of each
    made, store,    \* writes ever made; writes committed
    unanswered,     \* executions answered by an error, though their commit was
                    \* done, or their rollback to a savepoint never sent
    ctxDone         \* the caller's context is done

database == <<open, work, made, store, unanswered>>
vars == <<helper, pc, inside, exec, execs, outcome, result, database, ctxDone>>

Levels == {1, 2}
InTx(c, l) == pc[c][l] \in {"fn", "commit", "rollback"}
Top(c, l)  == l = 2 \/ pc[c][2] \in {"off", "ended"}
Base(c, l) == IF l = 2 /\ inside[c] THEN 1 ELSE l
Open(c, l) == <<c, Base(c, l)>> \in open

(* The MongoDB driver holds no connection between two commands. *)
FreeConn == helper = "mongo" \/ Cardinality(open) < MaxOpenConns

Init ==
    /\ helper \in Helpers
    /\ pc = [c \in Callers |-> [l \in Levels |-> "off"]]
    /\ inside = [c \in Callers |-> FALSE]
    /\ exec = [c \in Callers |-> [l \in Levels |-> 0]]
    /\ execs = [c \in Callers |-> 0]
    /\ outcome = [c \in Callers |-> [l \in Levels |-> "nil"]]
    /\ result = [c \in Callers |-> [l \in Levels |-> "none"]]
    /\ open = {}
    /\ work = [c \in Callers |-> [l \in Levels |-> {}]]
    /\ made = [c \in Callers |-> {}] /\ store = [c \in Callers |-> {}]
    /\ unanswered = [c \in Callers |-> {}]
    /\ ctxDone = [c \in Callers |-> FALSE]

Call(c) ==
    /\ pc[c][1] = "off"
    /\ pc' = [pc EXCEPT ![c][1] = "begin"]
    /\ UNCHANGED <<helper, inside, exec, execs, outcome, result, database, ctxDone>>

(* Transaction of sqlxw takes a *sqlx.DB and that of mongow a client: only  *)
(* gormw and DoInTransaction can be given a transaction.                    *)
CallNested(c, savepoint) ==
    /\ pc[c][1] = "fn" /\ Top(c, 1)
    /\ execs[c] < MaxExecs
    /\ savepoint => helper \in {"postgres", "gorm"}
    /\ pc' = [pc EXCEPT ![c][2] = "begin"]
    /\ inside' = [inside EXCEPT ![c] = savepoint]
    /\ exec' = [exec EXCEPT ![c][2] = 0]
    /\ outcome' = [outcome EXCEPT ![c][2] = "nil"]
    /\ result' = [result EXCEPT ![c][2] = "none"]
    /\ UNCHANGED <<helper, execs, database, ctxDone>>

StartCallback(c, l) ==
    /\ execs' = [execs EXCEPT ![c] = @ + 1]
    /\ exec' = [exec EXCEPT ![c][l] = execs'[c]]
    /\ pc' = [pc EXCEPT ![c][l] = "fn"]

Begin(c, l) ==
    /\ pc[c][l] = "begin"
    /\ IF Base(c, l) = l THEN FreeConn ELSE Open(c, l)
    /\ StartCallback(c, l)
    /\ open' = open \cup {<<c, Base(c, l)>>}
    /\ work' = [work EXCEPT ![c][l] = {}]
    /\ UNCHANGED <<helper, inside, outcome, result, made, store, unanswered, ctxDone>>

Finish(c, l, r) ==
    /\ pc' = [pc EXCEPT ![c][l] = "ended"]
    /\ result' = [result EXCEPT ![c][l] = r]
    /\ UNCHANGED <<helper, inside, exec, execs, outcome, ctxDone>>

(* The database refuses, or the context ends the wait for a connection. *)
BeginFails(c, l) ==
    /\ pc[c][l] = "begin"
    /\ Finish(c, l, "error")
    /\ UNCHANGED database

(* Fault: the transaction is looked for under another context key. *)
GetDBDefault(c, l) == "database"

(* Where a callback's statement goes: the handle of its own transaction is  *)
(* in its context (or is its argument).  A transaction that is over refuses.*)
GetDB(c, l) == IF Open(c, l) THEN "transaction" ELSE "refused"

Write(c, l) ==
    /\ pc[c][l] = "fn" /\ Top(c, l)
    /\ LET n == Cardinality({w \in made[c] : w[2] = exec[c][l]})
           w == <<l, exec[c][l], n + 1>>
       IN  /\ n < MaxWrites
           /\ GetDB(c, l) # "refused"
           /\ made' = [made EXCEPT ![c] = @ \cup {w}]
           /\ work' = IF GetDB(c, l) = "transaction"
                      THEN [work EXCEPT ![c][l] = @ \cup {w}] ELSE work
           /\ store' = IF GetDB(c, l) = "database"
                       THEN [store EXCEPT ![c] = @ \cup {w}] ELSE store
    /\ UNCHANGED <<helper, pc, inside, exec, execs, outcome, result, open, unanswered, ctxDone>>

(* The callback returns nil or an error, or panics. *)
CallbackEnds(c, l, how) ==
    /\ pc[c][l] = "fn" /\ Top(c, l)
    /\ outcome' = [outcome EXCEPT ![c][l] = how]
    /\ pc' = [pc EXCEPT ![c][l] = IF how = "nil" THEN "commit" ELSE "rollback"]
    /\ UNCHANGED <<helper, inside, exec, execs, result, database, ctxDone>>

(* Fault: the error of a commit is dropped. *)
CommitOwnUnchecked(c, l, how) ==
    /\ store' = IF Open(c, l) /\ how # "lost"
                THEN [store EXCEPT ![c] = @ \cup work[c][l]] ELSE store
    /\ open' = open \ {<<c, l>>}
    /\ work' = [work EXCEPT ![c][l] = {}]
    /\ Finish(c, l, "nil")
    /\ UNCHANGED <<made, unanswered>>

(* A commit is done and answered; or done, the connection breaking before   *)
(* the answer; or not done.                                                 *)
CommitOwn(c, l, how) ==
    /\ store' = IF Open(c, l) /\ how # "lost"
                THEN [store EXCEPT ![c] = @ \cup work[c][l]] ELSE store
    /\ unanswered' = IF Open(c, l) /\ how = "unanswered"
                     THEN [unanswered EXCEPT ![c] = @ \cup {w[2] : w \in work[c][l]}]
                     ELSE unanswered
    /\ open' = open \ {<<c, l>>}
    /\ work' = [work EXCEPT ![c][l] = {}]
    /\ Finish(c, l, IF Open(c, l) /\ how = "done" THEN "nil" ELSE "error")
    /\ made' = made

(* A released savepoint's writes are the outer transaction's; if the        *)
(* release fails, the connection is gone and all is lost.                   *)
CommitSavepoint(c, how) ==
    LET released == Open(c, 2) /\ how = "done" IN
    /\ work' = [work EXCEPT ![c] = [l \in Levels |->
                   IF released /\ l = 1 THEN work[c][1] \cup work[c][2] ELSE {}]]
    /\ open' = IF released THEN open ELSE open \ {<<c, 1>>}
    /\ Finish(c, 2, IF released \/ helper = "gorm" THEN "nil" ELSE "error")
    /\ UNCHANGED <<made, store, unanswered>>

(* GORM does nothing at the end of a savepoint: it cannot fail. *)
Commit(c, l, how) ==
    /\ pc[c][l] = "commit"
    /\ IF Base(c, l) = l THEN CommitOwn(c, l, how)
       ELSE (how = "done" \/ (how = "lost" /\ helper = "postgres")) /\ CommitSavepoint(c, how)

(* What the helper returns after a rollback.  DoInTransaction recovers a    *)
(* panic and then returns its err, which is nil unless the rollback failed; *)
(* the others let the panic go on and ignore an error of the rollback.      *)
Reported(c, l, failed) ==
    IF helper # "postgres" THEN outcome[c][l]
    ELSE IF outcome[c][l] = "panic" /\ ~failed THEN "nil" ELSE "error"

(* Fault: the deferred function does nothing after a panic. *)
RollbackUnlessPanic(c, l, fails) ==
    /\ pc[c][l] = "rollback"
    /\ open' = IF outcome[c][l] = "panic" THEN open ELSE open \ {<<c, l>>}
    /\ work' = [work EXCEPT ![c][l] = {}]
    /\ Finish(c, l, Reported(c, l, fails \/ ~Open(c, l)))
    /\ UNCHANGED <<made, store, unanswered>>

(* Fault: an error of the callback does not prevent the commit. *)
RollbackOnlyPanic(c, l, fails) ==
    /\ pc[c][l] = "rollback"
    /\ open' = open \ {<<c, l>>}
    /\ work' = [work EXCEPT ![c][l] = {}]
    /\ store' = IF outcome[c][l] = "error" /\ Base(c, l) = l
                THEN [store EXCEPT ![c] = @ \cup work[c][l]] ELSE store
    /\ Finish(c, l, Reported(c, l, fails \/ ~Open(c, l)))
    /\ UNCHANGED <<made, unanswered>>

(* A rollback drops the transaction's writes, also when it fails, for then  *)
(* the connection is closed; a savepoint's takes the outer one with it.     *)
Rollback(c, l, fails) ==
    /\ pc[c][l] = "rollback"
    /\ open' = IF Base(c, l) = l \/ fails THEN open \ {<<c, Base(c, l)>>} ELSE open
    /\ work' = [work EXCEPT ![c] = [k \in Levels |->
                   IF k = l \/ (fails /\ k = Base(c, l)) THEN {} ELSE work[c][k]]]
    /\ Finish(c, l, Reported(c, l, fails \/ ~Open(c, l)))
    /\ UNCHANGED <<made, store, unanswered>>

(* pgx and database/sql do not send a statement whose context is done.  A   *)
(* nested call with a context of its own so leaves its writes in the outer  *)
(* transaction, which goes on.                                              *)
RollbackUnsent(c) ==
    /\ pc[c][2] = "rollback" /\ inside[c] /\ Open(c, 2)
    /\ work' = [work EXCEPT ![c] = [l \in Levels |-> IF l = 1 THEN work[c][1] \cup work[c][2] ELSE {}]]
    /\ unanswered' = [unanswered EXCEPT ![c] = @ \cup {w[2] : w \in work[c][2]}]
    /\ Finish(c, 2, Reported(c, 2, TRUE))
    /\ UNCHANGED <<open, made, store>>

(* WithTransaction of the MongoDB driver runs the callback again after an   *)
(* error that is labelled transient, its own or that of the commit.         *)
Retry(c, l) ==
    /\ helper = "mongo"
    /\ pc[c][l] \in {"commit", "rollback"} /\ outcome[c][l] # "panic"
    /\ execs[c] < MaxExecs
    /\ StartCallback(c, l)
    /\ work' = [work EXCEPT ![c][l] = {}]
    /\ UNCHANGED <<helper, inside, outcome, result, open, made, store, unanswered, ctxDone>>

ContextDone(c) ==
    /\ ~ctxDone[c]
    /\ ctxDone' = [ctxDone EXCEPT ![c] = TRUE]
    /\ UNCHANGED <<helper, pc, inside, exec, execs, outcome, result, database>>

(* database/sql, under sqlx and GORM, rolls a transaction back when its     *)
(* context is done, whatever the callback is doing.                         *)
DriverRollback(c, l) ==
    /\ helper \in {"sqlx", "gorm"}
    /\ ctxDone[c] /\ <<c, l>> \in open
    /\ open' = open \ {<<c, l>>}
    /\ work' = [work EXCEPT ![c] = [k \in Levels |-> IF Base(c, k) = l THEN {} ELSE work[c][k]]]
    /\ UNCHANGED <<helper, pc, inside, exec, execs, outcome, result,
                   made, store, unanswered, ctxDone>>

Ended ==
    /\ \A c \in Callers : pc[c][1] = "ended"
    /\ UNCHANGED vars

Hopeless(c, l) == ctxDone[c] \/ (Base(c, l) # l /\ ~Open(c, l))

Proceed(c) ==
    \E l \in Levels :
        \/ Begin(c, l)
        \/ Hopeless(c, l) /\ BeginFails(c, l)
        \/ \E how \in {"nil", "error", "panic"} : CallbackEnds(c, l, how)
        \/ \E how \in {"done", "unanswered", "lost"} : Commit(c, l, how)
        \/ \E fails \in BOOLEAN : Rollback(c, l, fails)

Next ==
    \/ \E c \in Callers :
          Call(c) \/ ContextDone(c) \/ RollbackUnsent(c) \/ \E sp \in BOOLEAN : CallNested(c, sp)
    \/ \E c \in Callers, l \in Levels :
          BeginFails(c, l) \/ Write(c, l) \/ Retry(c, l) \/ DriverRollback(c, l)
    \/ \E c \in Callers : Proceed(c)
    \/ Ended

Spec == Init /\ [][Next]_vars

(* The database answers and callbacks return, sooner or later, also those   *)
(* that make nested transactions.                                           *)
Fairness ==
    \A c \in Callers : /\ WF_vars(Proceed(c))
                      /\ SF_vars(\E how \in {"nil", "error", "panic"} : CallbackEnds(c, 1, how))

-----------------------------------------------------------------------------
(* Properties. *)

WrittenBy(c, e) == {w \in made[c] : w[2] = e}

(* Through failures, savepoints, retries and contexts that end: of each     *)
(* execution of a callback the database keeps all writes or none, and none  *)
(* before it ended; and however often the driver ran the callback of the    *)
(* outer transaction, one execution at most counts.                         *)
AllOrNothing ==
    \A c \in Callers :
        /\ \A e \in 1 .. MaxExecs :
              LET kept == WrittenBy(c, e) \cap store[c] IN
              /\ kept \in {{}, WrittenBy(c, e)}
              /\ \A l \in Levels : pc[c][l] = "fn" /\ exec[c][l] = e => kept = {}
        /\ \A v, w \in store[c] : v[1] = 1 /\ w[1] = 1 => v[2] = w[2]

(* Whoever gets nil from the helper finds its writes in the database, those *)
(* of a savepoint that got nil included.  DoInTransaction is no exception   *)
(* but for the panic it swallows.                                           *)
NilMeansStored ==
    \A c \in Callers : pc[c][1] = "ended" /\ result[c][1] = "nil" =>
        \A l \in Levels :
            result[c][l] # "nil" \/ (helper = "postgres" /\ "panic" \in {outcome[c][1], outcome[c][l]})
              \/ WrittenBy(c, exec[c][l]) \subseteq store[c]

(* Whoever gets an error or a panic finds none of its writes, unless the    *)
(* database committed and the answer was lost, or a nested call's own       *)
(* context kept the rollback to its savepoint from being sent (dml.go:103). *)
FailureMeansUndone ==
    \A c \in Callers, l \in Levels :
        pc[c][l] = "ended" /\ (result[c][l] \in {"error", "panic"} \/ outcome[c][l] = "panic") =>
            exec[c][l] \in unanswered[c] \/ WrittenBy(c, exec[c][l]) \cap store[c] = {}

(* With more connections than callers everybody gets through, nested        *)
(* transactions on connections of their own included.                       *)
TransactionsEnd == \A c \in Callers : pc[c][1] = "begin" ~> pc[c][1] = "ended"

-----------------------------------------------------------------------------
(* The inductive invariant. *)

Writes == Levels \X (Nat \ {0}) \X (Nat \ {0})
Active(c, l) == pc[c][l] \in {"fn", "commit", "rollback"}
Failed(c, l) == result[c][l] \in {"error", "panic"} \/ outcome[c][l] = "panic"
Uncommitted(c) == work[c][1] \cup work[c][2]

(* Every variable keeps the shape it has in the helpers or their drivers. *)
TypeOK ==
    /\ helper \in {"postgres", "sqlx", "gorm", "mongo"}
    /\ pc \in [Callers -> [Levels -> {"off", "begin", "fn", "commit", "rollback", "ended"}]]
    /\ inside \in [Callers -> BOOLEAN] /\ ctxDone \in [Callers -> BOOLEAN]
    /\ exec \in [Callers -> [Levels -> Nat]] /\ execs \in [Callers -> Nat]
    /\ outcome \in [Callers -> [Levels -> {"nil", "error", "panic"}]]
    /\ result \in [Callers -> [Levels -> {"none", "nil", "error", "panic"}]]
    /\ open \subseteq Callers \X Levels
    /\ work \in [Callers -> [Levels -> SUBSET Writes]]
    /\ made \in [Callers -> SUBSET Writes] /\ store \in [Callers -> SUBSET Writes]
    /\ \A c \in Callers : IsFiniteSet(made[c])
    /\ unanswered \in [Callers -> SUBSET Nat]

(* How the levels go together: a nested transaction is under way in the     *)
(* outer callback only, as a savepoint only where there are any; how a      *)
(* callback ended decides between commit and rollback.                      *)
NestInv(c) ==
    /\ pc[c][1] # "fn" => pc[c][2] \in {"off", "ended"}
    /\ pc[c][1] \in {"off", "begin"} => pc[c][2] = "off"
    /\ inside[c] => helper \in {"postgres", "gorm"}
    /\ \A l \in Levels : /\ pc[c][l] = "commit" => outcome[c][l] = "nil"
                         /\ pc[c][l] = "rollback" => outcome[c][l] # "nil"
                         /\ result[c][l] # "none" => pc[c][l] = "ended"

(* Executions are numbered as they begin, and no two share a number.        *)
ExecInv(c) ==
    /\ \A l \in Levels : /\ exec[c][l] <= execs[c]
                         /\ Active(c, l) => exec[c][l] # 0
                         /\ pc[c][l] \in {"off", "begin"} => exec[c][l] = 0
    /\ exec[c][1] = exec[c][2] => exec[c][1] = 0
    /\ \A w \in made[c] : w[2] <= execs[c]

(* The database and each transaction have all writes of an execution or     *)
(* none, and no more than one execution's of the outer callback.            *)
WholeInv(c) ==
    /\ Uncommitted(c) \cup store[c] \subseteq made[c]
    /\ \A v, w \in made[c] : v[2] = w[2] =>
          /\ v \in store[c] => w \in store[c]
          /\ \A l \in Levels : v \in work[c][l] => w \in work[c][l]
    /\ \A w \in work[c][1] : w[1] = 1 => w[2] = exec[c][1]
    /\ \A w \in work[c][2] : w[1] = 2
    /\ \A w \in store[c] : w[1] = 1 => w[2] = exec[c][1] /\ pc[c][1] = "ended"

(* A transaction under way has the writes of its execution, as long as it   *)
(* is open; nobody else has any of them.                                    *)
OwnInv(c) ==
    \A l \in Levels : Active(c, l) => \A w \in WrittenBy(c, exec[c][l]) :
        /\ Open(c, l) => w \in work[c][l]
        /\ w \notin store[c] /\ \A k \in Levels \ {l} : w \notin work[c][k]

(* What becomes of an execution that ended.  A nested one that its caller   *)
(* takes for stored is, or it is part of the outer transaction unless that  *)
(* is lost; of one that failed nothing is left, or its answer was wrong.    *)
EndedInv(c) ==
    /\ pc[c][2] = "ended" /\ result[c][2] = "nil" /\ pc[c][1] # "ended" =>
          \/ helper = "postgres" /\ outcome[c][2] = "panic"
          \/ WrittenBy(c, exec[c][2]) \subseteq store[c]
          \/ inside[c] /\ (~Open(c, 1) \/ WrittenBy(c, exec[c][2]) \subseteq work[c][1])
    /\ \A l \in Levels : pc[c][l] = "ended" /\ Failed(c, l) =>
          \/ exec[c][l] \in unanswered[c]
          \/ WrittenBy(c, exec[c][l]) \cap (store[c] \cup Uncommitted(c)) = {}

StoredInv(c) ==
    pc[c][1] = "ended" /\ result[c][1] = "nil" =>
        \A l \in Levels :
            result[c][l] # "nil" \/ (helper = "postgres" /\ "panic" \in {outcome[c][1], outcome[c][l]})
              \/ WrittenBy(c, exec[c][l]) \subseteq store[c]

CallerInv(c) ==
    NestInv(c) /\ ExecInv(c) /\ WholeInv(c) /\ OwnInv(c) /\ EndedInv(c) /\ StoredInv(c)
TransactionsInv == TypeOK /\ \A c \in Callers : CallerInv(c)

-----------------------------------------------------------------------------
(* What TransactionsEnd rests on besides the scheduling.                    *)

(* A connection is held by a transaction that is under way on a connection  *)
(* of its own, and by nobody else: none outlives its transaction, in        *)
(* whatever way that ended.  The pool gives out no more than it has.        *)
ConnectionsComeBack ==
    /\ \A c \in Callers, l \in Levels : <<c, l>> \in open => Active(c, l) /\ Base(c, l) = l
    /\ IsFiniteSet(open) /\ (helper # "mongo" => Cardinality(open) <= MaxOpenConns)

(* With more connections than callers, whoever waits for a connection finds *)
(* a free one, or somebody who holds one does not wait for a second one and *)
(* can go on: nested transactions cannot block each other for good.         *)
PoolNeverStuck ==
    IsFiniteSet(Callers) /\ Cardinality(Callers) < MaxOpenConns =>
        \A c \in Callers, l \in Levels : pc[c][l] = "begin" =>
            FreeConn \/ \E d \in Callers, k \in Levels : <<d, k>> \in open /\ Active(d, k) /\ Top(d, k)
=============================================================================
