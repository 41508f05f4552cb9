---------------------------- MODULE Stores_proofs ---------------------------
(***************************************************************************)
(* Proofs about Transactions, for any callers, helpers, connections and    *)
(* numbers of writes and executions; about Query, for any names and rows;  *)
(* and about LocalCache, for any keys, items, clients and times.           *)
(***************************************************************************)
EXTENDS Transactions, Query, LocalCache, FiniteSetTheorems, TLAPS

-----------------------------------------------------------------------------
(* Transactions. *)

(* What one caller's part of the invariant depends on. *)
Same(d) ==
    /\ helper' = helper /\ pc'[d] = pc[d] /\ inside'[d] = inside[d]
    /\ exec'[d] = exec[d] /\ execs'[d] = execs[d]
    /\ outcome'[d] = outcome[d] /\ result'[d] = result[d]
    /\ work'[d] = work[d] /\ made'[d] = made[d] /\ store'[d] = store[d]
    /\ unanswered'[d] = unanswered[d]
    /\ \A l \in Levels : <<d, l>> \in open' <=> <<d, l>> \in open

LEMMA SameKeeps ==
    ASSUME NEW d \in Callers, CallerInv(d), Same(d)
    PROVE  CallerInv(d)'
  <1>1. \A l \in Levels : /\ Open(d, l)' <=> Open(d, l)
                          /\ Active(d, l)' <=> Active(d, l)
                          /\ Failed(d, l)' <=> Failed(d, l)
    BY DEF Same, Open, Base, Active, Failed, Levels
  <1>2. Uncommitted(d)' = Uncommitted(d) /\ \A e : WrittenBy(d, e)' = WrittenBy(d, e)
    BY DEF Same, Uncommitted, WrittenBy
  <1>3. NestInv(d)' /\ ExecInv(d)'
    BY <1>1 DEF Same, CallerInv, NestInv, ExecInv
  <1>4. WholeInv(d)'
    BY <1>2 DEF Same, CallerInv, WholeInv
  <1>5. OwnInv(d)'
    BY <1>1, <1>2 DEF Same, CallerInv, OwnInv
  <1>6. EndedInv(d)' /\ StoredInv(d)'
    BY <1>1, <1>2 DEF Same, CallerInv, EndedInv, StoredInv, Levels
  <1> QED
    BY <1>3, <1>4, <1>5, <1>6 DEF CallerInv

(* A step of one caller. *)
LEMMA OneCaller ==
    ASSUME TransactionsInv, NEW c \in Callers, TypeOK', CallerInv(c)',
           \A d \in Callers \ {c} : Same(d)
    PROVE  TransactionsInv'
  BY SameKeeps DEF TransactionsInv

LEMMA CallStep ==
    ASSUME TransactionsInv, NEW c \in Callers, Call(c)
    PROVE  TransactionsInv'
  <1>1. /\ pc'[c][1] = "begin" /\ pc'[c][2] = pc[c][2] /\ pc[c][1] = "off"
        /\ \A d \in Callers \ {c} : pc'[d] = pc[d]
    BY DEF Call, TransactionsInv, TypeOK, Levels
  <1>2. TypeOK'
    BY DEF Call, TransactionsInv, TypeOK, database
  <1>3. \A d \in Callers \ {c} : Same(d)
    BY <1>1 DEF Call, Same, database
  <1>4. CallerInv(c)
    BY DEF TransactionsInv
  <1>5. NestInv(c)' /\ ExecInv(c)'
    BY <1>1, <1>4 DEF Call, CallerInv, NestInv, ExecInv, Active, Levels, database
  <1>6. WholeInv(c)' /\ OwnInv(c)'
    BY <1>1, <1>4 DEF Call, CallerInv, NestInv, WholeInv, OwnInv, Active, Open, Base, Levels, database,
                      WrittenBy, Uncommitted
  <1>7. EndedInv(c)' /\ StoredInv(c)'
    BY <1>1, <1>4 DEF Call, CallerInv, NestInv, EndedInv, StoredInv, Failed, Open, Base, Levels, database,
                      WrittenBy, Uncommitted
  <1> QED
    BY <1>2, <1>3, <1>5, <1>6, <1>7, OneCaller DEF CallerInv

LEMMA CallNestedStep ==
    ASSUME TransactionsInv, NEW c \in Callers, NEW sp \in BOOLEAN, CallNested(c, sp)
    PROVE  TransactionsInv'
  <1>1. /\ pc'[c][2] = "begin" /\ pc'[c][1] = "fn" /\ pc[c][1] = "fn"
        /\ pc[c][2] \in {"off", "ended"} /\ inside'[c] = sp
        /\ exec'[c][2] = 0 /\ exec'[c][1] = exec[c][1]
        /\ outcome'[c][2] = "nil" /\ outcome'[c][1] = outcome[c][1]
        /\ result'[c][2] = "none" /\ result'[c][1] = result[c][1]
    BY DEF CallNested, TransactionsInv, TypeOK, Top, Levels
  <1>2. TypeOK'
    BY DEF CallNested, TransactionsInv, TypeOK, database, Levels
  <1>3. \A d \in Callers \ {c} : Same(d)
    BY DEF CallNested, Same, database, TransactionsInv, TypeOK
  <1>4. CallerInv(c) /\ TypeOK
    BY DEF TransactionsInv
  <1>5. NestInv(c)' /\ ExecInv(c)'
    BY <1>1, <1>4 DEF CallNested, CallerInv, NestInv, ExecInv, Active, Levels, TypeOK, database
  <1>6. WholeInv(c)' /\ OwnInv(c)'
    BY <1>1, <1>4 DEF CallNested, CallerInv, WholeInv, OwnInv, Active, Open, Base, Levels, database,
                      WrittenBy, Uncommitted
  <1>7. EndedInv(c)' /\ StoredInv(c)'
    BY <1>1, <1>4 DEF CallNested, EndedInv, StoredInv, Failed, Levels
  <1> QED
    BY <1>2, <1>3, <1>5, <1>6, <1>7, OneCaller DEF CallerInv

(* No write is of an execution that is yet to begin, or of none. *)
LEMMA UnbegunWroteNothing ==
    ASSUME TypeOK, NEW c \in Callers, ExecInv(c)
    PROVE  WrittenBy(c, 0) = {} /\ WrittenBy(c, execs[c] + 1) = {}
  <1>1. \A w \in made[c] : w[2] \in Nat \ {0} /\ w[2] <= execs[c] /\ execs[c] \in Nat
    BY DEF TypeOK, Writes, ExecInv
  <1> QED
    BY <1>1 DEF WrittenBy

LEMMA BeginStep ==
    ASSUME TransactionsInv, NEW c \in Callers, NEW l \in Levels, Begin(c, l)
    PROVE  TransactionsInv'
  <1>1. PICK k \in Levels : k # l /\ Levels = {k, l}
    BY DEF Levels
  <1>2. /\ pc'[c][l] = "fn" /\ pc'[c][k] = pc[c][k] /\ pc[c][l] = "begin"
        /\ exec'[c][l] = execs[c] + 1 /\ exec'[c][k] = exec[c][k] /\ execs'[c] = execs[c] + 1
        /\ work'[c][l] = {} /\ work'[c][k] = work[c][k]
        /\ open' = open \cup {<<c, Base(c, l)>>}
    BY <1>1 DEF Begin, StartCallback, TransactionsInv, TypeOK
  <1>3. TypeOK'
    BY <1>1 DEF Begin, StartCallback, TransactionsInv, TypeOK, Base, Levels
  <1>4. \A d \in Callers \ {c} : Same(d)
    BY DEF Begin, StartCallback, Same, TransactionsInv, TypeOK
  <1>5. CallerInv(c) /\ TypeOK /\ execs[c] \in Nat /\ \A e \in {exec[c][1], exec[c][2]} : e \in Nat
    BY DEF TransactionsInv, TypeOK, Levels
  <1>6. NestInv(c)' /\ ExecInv(c)'
    BY <1>1, <1>2, <1>5 DEF Begin, CallerInv, NestInv, ExecInv, Active, Levels, TypeOK, Writes
  <1>7. WholeInv(c)'
    BY <1>1, <1>2, <1>5 DEF Begin, CallerInv, WholeInv, ExecInv, Levels, Uncommitted
  <1>8. \A e : WrittenBy(c, e)' = WrittenBy(c, e)
    BY DEF Begin, WrittenBy
  <1>9. Active(c, k) => Open(c, k)' = Open(c, k)
    BY <1>1, <1>2, <1>5 DEF Begin, CallerInv, NestInv, Active, Open, Base, Levels
  <1>10. OwnInv(c)'
    BY <1>1, <1>2, <1>5, <1>8, <1>9, UnbegunWroteNothing
       DEF Begin, CallerInv, OwnInv, Active
  <1>11. EndedInv(c)' /\ StoredInv(c)'
    BY <1>1, <1>2, <1>5, <1>8 DEF Begin, CallerInv, NestInv, EndedInv, StoredInv, Failed, Uncommitted,
                                  Levels, Open, Base
  <1> QED
    BY <1>3, <1>4, <1>6, <1>7, <1>10, <1>11, OneCaller DEF CallerInv

LEMMA BeginFailsStep ==
    ASSUME TransactionsInv, NEW c \in Callers, NEW l \in Levels, BeginFails(c, l)
    PROVE  TransactionsInv'
  <1>1. PICK k \in Levels : k # l /\ Levels = {k, l}
    BY DEF Levels
  <1>2. /\ pc'[c][l] = "ended" /\ pc'[c][k] = pc[c][k] /\ pc[c][l] = "begin"
        /\ result'[c][l] = "error" /\ result'[c][k] = result[c][k]
    BY <1>1 DEF BeginFails, Finish, TransactionsInv, TypeOK
  <1>3. TypeOK'
    BY <1>1 DEF BeginFails, Finish, TransactionsInv, TypeOK, database
  <1>4. \A d \in Callers \ {c} : Same(d)
    BY DEF BeginFails, Finish, Same, TransactionsInv, TypeOK, database
  <1>5. CallerInv(c) /\ TypeOK
    BY DEF TransactionsInv
  <1>6. NestInv(c)' /\ ExecInv(c)'
    BY <1>1, <1>2, <1>5 DEF BeginFails, Finish, CallerInv, NestInv, ExecInv, Active, Levels, database
  <1>7. WholeInv(c)' /\ OwnInv(c)'
    BY <1>1, <1>2, <1>5 DEF BeginFails, Finish, CallerInv, WholeInv, OwnInv, Active, Open, Base,
                            WrittenBy, Uncommitted, database
  <1>8. exec[c][l] = 0 /\ WrittenBy(c, 0)' = {}
    BY <1>2, <1>5, UnbegunWroteNothing DEF CallerInv, ExecInv, BeginFails, database, WrittenBy
  <1>9. EndedInv(c)' /\ StoredInv(c)'
    BY <1>1, <1>2, <1>5, <1>8 DEF BeginFails, Finish, CallerInv, NestInv, EndedInv, StoredInv, Failed,
                       Uncommitted, Levels, Open, Base, WrittenBy, database
  <1> QED
    BY <1>3, <1>4, <1>6, <1>7, <1>9, OneCaller DEF CallerInv

LEMMA WriteStep ==
    ASSUME TransactionsInv, NEW c \in Callers, NEW l \in Levels, Write(c, l)
    PROVE  TransactionsInv'
  <1> DEFINE e == exec[c][l]
             w == <<l, e, Cardinality({v \in made[c] : v[2] = e}) + 1>>
  <1>1. PICK k \in Levels : k # l /\ Levels = {k, l}
    BY DEF Levels
  <1>2. CallerInv(c) /\ TypeOK
    BY DEF TransactionsInv
  <1>3. /\ Open(c, l) /\ pc[c][l] = "fn" /\ (l = 1 => pc[c][2] \in {"off", "ended"})
        /\ made' = [made EXCEPT ![c] = @ \cup {w}]
        /\ work' = [work EXCEPT ![c][l] = @ \cup {w}]
        /\ UNCHANGED <<helper, pc, inside, exec, execs, outcome, result, open, store, unanswered, ctxDone>>
    BY DEF Write, GetDB, Top
  <1>4. w \in Writes /\ w[1] = l /\ w[2] = e
    <2>1. Cardinality({v \in made[c] : v[2] = e}) \in Nat
      BY <1>2, FS_Subset, FS_CardinalityType, {v \in made[c] : v[2] = e} \subseteq made[c] DEF TypeOK
    <2>2. e \in Nat \ {0}
      BY <1>2, <1>3 DEF CallerInv, ExecInv, Active, TypeOK
    <2> QED
      BY <2>1, <2>2 DEF Writes
  <1>5. /\ made'[c] = made[c] \cup {w} /\ work'[c][l] = work[c][l] \cup {w}
        /\ work'[c][k] = work[c][k]
    BY <1>1, <1>2, <1>3 DEF TypeOK
  <1>6. TypeOK'
    <2>1. \A d \in Callers : IsFiniteSet(made'[d])
      BY <1>2, <1>3, FS_AddElement DEF TypeOK
    <2> QED
      BY <1>2, <1>3, <1>4, <2>1 DEF TypeOK
  <1>7. \A d \in Callers \ {c} : Same(d)
    BY <1>2, <1>3 DEF Same, TypeOK
  <1>8. /\ WrittenBy(c, e)' = WrittenBy(c, e) \cup {w}
        /\ \A x : x # e => WrittenBy(c, x)' = WrittenBy(c, x)
    BY <1>3, <1>4, <1>5 DEF WrittenBy
  <1>9. exec[c][k] # e /\ Active(c, l) /\ Active(c, l)'
    BY <1>1, <1>2, <1>3 DEF CallerInv, ExecInv, Active, Levels
  <1>10. w \notin store[c] /\ w \notin work[c][k]
    BY <1>1, <1>2, <1>4, <1>9 DEF CallerInv, WholeInv, OwnInv, WrittenBy, Uncommitted, Levels
  <1>11. NestInv(c)' /\ ExecInv(c)'
    BY <1>2, <1>3, <1>4, <1>5, <1>9 DEF CallerInv, NestInv, ExecInv, Active, TypeOK
  <1>12. WholeInv(c)'
    <2>1. Uncommitted(c)' \cup store'[c] \subseteq made'[c]
      BY <1>1, <1>2, <1>3, <1>5 DEF CallerInv, WholeInv, Uncommitted, Levels
    <2>2. \A u, v \in made'[c] : u[2] = v[2] =>
             /\ u \in store[c] => v \in store[c]
             /\ u \in work[c][k] => v \in work[c][k]
      BY <1>1, <1>2, <1>4, <1>5, <1>9, <1>10 DEF CallerInv, WholeInv, OwnInv, WrittenBy, Levels
    <2>3. \A u, v \in made'[c] : u[2] = v[2] /\ u \in work'[c][l] => v \in work'[c][l]
      BY <1>1, <1>2, <1>3, <1>4, <1>5, <1>9 DEF CallerInv, WholeInv, OwnInv, WrittenBy, Levels
    <2>4. \A u, v \in made'[c] : u[2] = v[2] =>
             /\ u \in store'[c] => v \in store'[c]
             /\ \A n \in Levels : u \in work'[c][n] => v \in work'[c][n]
      BY <1>1, <1>3, <1>5, <2>2, <2>3
    <2>5. /\ \A v \in work'[c][1] : v[1] = 1 => v[2] = exec[c][1]
          /\ \A v \in work'[c][2] : v[1] = 2
      BY <1>1, <1>2, <1>4, <1>5 DEF CallerInv, WholeInv, Levels
    <2> QED
      BY <1>2, <1>3, <2>1, <2>4, <2>5 DEF CallerInv, WholeInv
  <1>13. OwnInv(c)'
    BY <1>1, <1>2, <1>3, <1>4, <1>5, <1>8, <1>9, <1>10
       DEF CallerInv, OwnInv, Active, Open, Base, WrittenBy
  <1>14. EndedInv(c)' /\ StoredInv(c)'
    BY <1>1, <1>2, <1>3, <1>4, <1>5, <1>8, <1>9
       DEF CallerInv, NestInv, EndedInv, StoredInv, Failed, Uncommitted, Levels, Open, Base, WrittenBy
  <1> QED
    BY <1>6, <1>7, <1>11, <1>12, <1>13, <1>14, OneCaller DEF CallerInv

LEMMA CallbackEndsStep ==
    ASSUME TransactionsInv, NEW c \in Callers, NEW l \in Levels, NEW how \in {"nil", "error", "panic"},
           CallbackEnds(c, l, how)
    PROVE  TransactionsInv'
  <1>1. PICK k \in Levels : k # l /\ Levels = {k, l}
    BY DEF Levels
  <1>2. /\ pc[c][l] = "fn" /\ (l = 1 => pc[c][2] \in {"off", "ended"})
        /\ pc'[c][l] = IF how = "nil" THEN "commit" ELSE "rollback"
        /\ pc'[c][k] = pc[c][k] /\ outcome'[c][l] = how /\ outcome'[c][k] = outcome[c][k]
    BY <1>1 DEF CallbackEnds, Top, TransactionsInv, TypeOK
  <1>3. TypeOK'
    BY DEF CallbackEnds, TransactionsInv, TypeOK, database
  <1>4. \A d \in Callers \ {c} : Same(d)
    BY DEF CallbackEnds, Same, TransactionsInv, TypeOK, database
  <1>5. CallerInv(c)
    BY DEF TransactionsInv
  <1>6. NestInv(c)' /\ ExecInv(c)'
    BY <1>1, <1>2, <1>5 DEF CallbackEnds, CallerInv, NestInv, ExecInv, Active, Levels, database
  <1>7. WholeInv(c)' /\ OwnInv(c)'
    BY <1>1, <1>2, <1>5 DEF CallbackEnds, CallerInv, WholeInv, OwnInv, Active, Open, Base,
                            WrittenBy, Uncommitted, database
  <1>8. EndedInv(c)' /\ StoredInv(c)'
    BY <1>1, <1>2, <1>5 DEF CallbackEnds, CallerInv, NestInv, EndedInv, StoredInv, Failed,
                       Uncommitted, Levels, Open, Base, WrittenBy, database
  <1> QED
    BY <1>3, <1>4, <1>6, <1>7, <1>8, OneCaller DEF CallerInv

LEMMA CommitOwnStep ==
    ASSUME TransactionsInv, NEW c \in Callers, NEW l \in Levels,
           NEW how \in {"done", "unanswered", "lost"},
           pc[c][l] = "commit", Base(c, l) = l, CommitOwn(c, l, how)
    PROVE  TransactionsInv'
  <1> DEFINE e == exec[c][l]
             stored == Open(c, l) /\ how # "lost"
             answered == Open(c, l) /\ how = "done"
  <1>1. PICK k \in Levels : k # l /\ Levels = {k, l}
    BY DEF Levels
  <1>2. CallerInv(c) /\ TypeOK
    BY DEF TransactionsInv
  <1>3. /\ pc'[c][l] = "ended" /\ pc'[c][k] = pc[c][k]
        /\ result'[c][l] = (IF answered THEN "nil" ELSE "error") /\ result'[c][k] = result[c][k]
        /\ work'[c][l] = {} /\ work'[c][k] = work[c][k]
        /\ store'[c] = IF stored THEN store[c] \cup work[c][l] ELSE store[c]
        /\ open' = open \ {<<c, l>>} /\ unanswered[c] \subseteq unanswered'[c]
        /\ UNCHANGED <<helper, inside, exec, execs, outcome, made>>
    BY <1>1, <1>2 DEF CommitOwn, Finish, TypeOK
  <1>4. TypeOK'
    <2>1. \A w \in work[c][l] : w[2] \in Nat
      BY <1>2 DEF TypeOK, Writes
    <2>2. unanswered' \in [Callers -> SUBSET Nat]
      BY <1>2, <2>1 DEF CommitOwn, TypeOK
    <2> QED
      BY <1>2, <2>2 DEF CommitOwn, Finish, TypeOK
  <1>5. \A d \in Callers \ {c} : Same(d)
    BY <1>2 DEF CommitOwn, Finish, Same, TypeOK
  <1>6. /\ Active(c, l) /\ ~Active(c, l)' /\ Active(c, k)' = Active(c, k) /\ exec[c][k] # e
        /\ outcome[c][l] = "nil" /\ (l = 1 => ~Active(c, 2))
        /\ \A x : WrittenBy(c, x)' = WrittenBy(c, x)
    BY <1>1, <1>2, <1>3 DEF CallerInv, NestInv, ExecInv, Active, Levels, WrittenBy
  <1>7. /\ Open(c, l) => WrittenBy(c, e) \subseteq work[c][l]
        /\ WrittenBy(c, e) \cap store[c] = {} /\ WrittenBy(c, e) \cap work[c][k] = {}
    BY <1>1, <1>2, <1>6 DEF CallerInv, OwnInv
  <1>8. NestInv(c)' /\ ExecInv(c)'
    BY <1>1, <1>2, <1>3, <1>6 DEF CallerInv, NestInv, ExecInv, Active, Levels
  <1>9. WholeInv(c)'
    <2>1. Uncommitted(c)' \cup store'[c] \subseteq made'[c]
      BY <1>1, <1>2, <1>3 DEF CallerInv, WholeInv, Uncommitted, Levels
    <2>2. \A v, w \in made'[c] : v[2] = w[2] =>
             /\ v \in store'[c] => w \in store'[c]
             /\ \A n \in Levels : v \in work'[c][n] => w \in work'[c][n]
      BY <1>1, <1>2, <1>3 DEF CallerInv, WholeInv
    <2>3. /\ \A w \in work'[c][1] : w[1] = 1 => w[2] = exec'[c][1]
          /\ \A w \in work'[c][2] : w[1] = 2
      BY <1>1, <1>2, <1>3 DEF CallerInv, WholeInv, Levels
    <2>4. \A w \in store'[c] : w[1] = 1 => w[2] = exec'[c][1] /\ pc'[c][1] = "ended"
      BY <1>1, <1>2, <1>3 DEF CallerInv, WholeInv, Levels
    <2> QED
      BY <2>1, <2>2, <2>3, <2>4 DEF WholeInv
  <1>10. OwnInv(c)'
    BY <1>1, <1>2, <1>3, <1>6 DEF CallerInv, OwnInv, NestInv, Active, Open, Base, Levels
  <1>11. unanswered'[c] = IF Open(c, l) /\ how = "unanswered"
                          THEN unanswered[c] \cup {w[2] : w \in work[c][l]} ELSE unanswered[c]
    BY <1>2 DEF CommitOwn, TypeOK
  <1>12. pc'[c][l] = "ended" /\ Failed(c, l)' =>
            e \in unanswered'[c] \/ WrittenBy(c, e) \cap (store'[c] \cup Uncommitted(c)') = {}
    <2>1. CASE stored /\ WrittenBy(c, e) # {}
      BY <1>3, <1>6, <1>7, <1>11, <2>1 DEF Failed, WrittenBy
    <2>2. CASE ~stored
      BY <1>1, <1>3, <1>7, <2>2 DEF Uncommitted, Levels
    <2> QED
      BY <2>1, <2>2
  <1>13. pc'[c][k] = "ended" /\ Failed(c, k)' =>
            exec[c][k] \in unanswered'[c]
              \/ WrittenBy(c, exec[c][k]) \cap (store'[c] \cup Uncommitted(c)') = {}
    BY <1>1, <1>2, <1>3 DEF CallerInv, EndedInv, Failed, Uncommitted, Levels
  <1>14. EndedInv(c)'
    BY <1>1, <1>2, <1>3, <1>6, <1>7, <1>12, <1>13 DEF CallerInv, NestInv, EndedInv, Levels, Active, Open, Base
  <1>15. StoredInv(c)'
    BY <1>1, <1>2, <1>3, <1>6, <1>7 DEF CallerInv, NestInv, EndedInv, StoredInv, Levels, Active, Open, Base
  <1> QED
    BY <1>4, <1>5, <1>8, <1>9, <1>10, <1>14, <1>15, OneCaller DEF CallerInv

LEMMA CommitSavepointStep ==
    ASSUME TransactionsInv, NEW c \in Callers, NEW how \in {"done", "lost"},
           pc[c][2] = "commit", Base(c, 2) = 1, CommitSavepoint(c, how)
    PROVE  TransactionsInv'
  <1> DEFINE e == exec[c][2]
             released == Open(c, 2) /\ how = "done"
  <1>2. CallerInv(c) /\ TypeOK
    BY DEF TransactionsInv
  <1>3. /\ pc'[c][2] = "ended" /\ pc'[c][1] = pc[c][1] /\ inside[c]
        /\ result'[c][2] = (IF released \/ helper = "gorm" THEN "nil" ELSE "error")
        /\ result'[c][1] = result[c][1]
        /\ work'[c][1] = (IF released THEN Uncommitted(c) ELSE {}) /\ work'[c][2] = {}
        /\ open' = IF released THEN open ELSE open \ {<<c, 1>>}
        /\ UNCHANGED <<helper, inside, exec, execs, outcome, made, store, unanswered, ctxDone>>
    BY <1>2 DEF CommitSavepoint, Finish, TypeOK, Levels, Uncommitted, Base
  <1>4. TypeOK'
    BY <1>2, <1>3 DEF CommitSavepoint, Finish, TypeOK, Levels
  <1>5. \A d \in Callers \ {c} : Same(d)
    BY <1>2, <1>3 DEF CommitSavepoint, Finish, Same, TypeOK
  <1>6. /\ Active(c, 2) /\ ~Active(c, 2)' /\ Active(c, 1)' = Active(c, 1) /\ pc[c][1] = "fn"
        /\ exec[c][1] # e /\ outcome[c][2] = "nil"
        /\ \A x : WrittenBy(c, x)' = WrittenBy(c, x)
    BY <1>2, <1>3 DEF CallerInv, NestInv, ExecInv, Active, Levels, WrittenBy
  <1>7. /\ Open(c, 2) => WrittenBy(c, e) \subseteq work[c][2]
        /\ WrittenBy(c, e) \cap store[c] = {} /\ WrittenBy(c, e) \cap work[c][1] = {}
    BY <1>2, <1>6 DEF CallerInv, OwnInv, Levels
  <1>8. NestInv(c)' /\ ExecInv(c)'
    BY <1>2, <1>3, <1>6 DEF CallerInv, NestInv, ExecInv, Active, Levels
  <1>9. WholeInv(c)'
    BY <1>2, <1>3 DEF CallerInv, WholeInv, Uncommitted, Levels
  <1>10. OwnInv(c)'
    BY <1>2, <1>3, <1>6 DEF CallerInv, OwnInv, Active, Open, Base, Levels, Uncommitted
  <1>11. EndedInv(c)' /\ StoredInv(c)'
    BY <1>2, <1>3, <1>6, <1>7 DEF CallerInv, EndedInv, StoredInv, Failed, Uncommitted, Levels, Open, Base
  <1> QED
    BY <1>4, <1>5, <1>8, <1>9, <1>10, <1>11, OneCaller DEF CallerInv

LEMMA RollbackStep ==
    ASSUME TransactionsInv, NEW c \in Callers, NEW l \in Levels, NEW fails \in BOOLEAN,
           Rollback(c, l, fails)
    PROVE  TransactionsInv'
  <1> DEFINE e == exec[c][l]
             both == fails /\ Base(c, l) # l
  <1>1. PICK k \in Levels : k # l /\ Levels = {k, l}
    BY DEF Levels
  <1>2. CallerInv(c) /\ TypeOK
    BY DEF TransactionsInv
  <1>3. /\ pc[c][l] = "rollback" /\ pc'[c][l] = "ended" /\ pc'[c][k] = pc[c][k]
        /\ result'[c][k] = result[c][k]
        /\ result'[c][l] = Reported(c, l, fails \/ ~Open(c, l))
        /\ work'[c][l] = {} /\ work'[c][k] = (IF both THEN {} ELSE work[c][k])
        /\ open' = IF Base(c, l) = l \/ fails THEN open \ {<<c, Base(c, l)>>} ELSE open
        /\ UNCHANGED <<helper, inside, exec, execs, outcome, made, store, unanswered, ctxDone>>
    BY <1>1, <1>2 DEF Rollback, Finish, TypeOK, Base, Levels
  <1>4. /\ result'[c][l] \in {"nil", "error", "panic"}
        /\ result'[c][l] = "nil" => helper = "postgres" /\ outcome[c][l] = "panic"
    BY <1>2, <1>3 DEF Reported, CallerInv, NestInv, TypeOK
  <1>5. TypeOK'
    <2>1. result' \in [Callers -> [Levels -> {"none", "nil", "error", "panic"}]]
      BY <1>2, <1>3, <1>4 DEF Rollback, Finish, TypeOK
    <2> QED
      BY <1>2, <1>3, <2>1 DEF Rollback, Finish, TypeOK
  <1>6. \A d \in Callers \ {c} : Same(d)
    BY <1>2, <1>3 DEF Rollback, Finish, Same, TypeOK
  <1>7. /\ Active(c, l) /\ ~Active(c, l)' /\ Active(c, k)' = Active(c, k) /\ exec[c][k] # e
        /\ (l = 1 => ~Active(c, 2))
        /\ \A x : WrittenBy(c, x)' = WrittenBy(c, x)
    BY <1>1, <1>2, <1>3 DEF CallerInv, NestInv, ExecInv, Active, Levels, WrittenBy
  <1>8. WrittenBy(c, e) \cap store[c] = {} /\ WrittenBy(c, e) \cap work[c][k] = {}
    BY <1>1, <1>2, <1>7 DEF CallerInv, OwnInv
  <1>9. NestInv(c)' /\ ExecInv(c)'
    BY <1>1, <1>2, <1>3, <1>7 DEF CallerInv, NestInv, ExecInv, Active, Levels
  <1>10. WholeInv(c)'
    BY <1>1, <1>2, <1>3 DEF CallerInv, WholeInv, Uncommitted, Levels
  <1>11. OwnInv(c)'
    BY <1>1, <1>2, <1>3, <1>7 DEF CallerInv, OwnInv, Active, Open, Base, Levels
  <1>12. EndedInv(c)'
    BY <1>1, <1>2, <1>3, <1>4, <1>7, <1>8
       DEF CallerInv, EndedInv, Failed, Uncommitted, Levels, Open, Base
  <1>13. StoredInv(c)'
    BY <1>1, <1>2, <1>3, <1>4 DEF CallerInv, StoredInv, NestInv, Levels
  <1> QED
    BY <1>5, <1>6, <1>9, <1>10, <1>11, <1>12, <1>13, OneCaller DEF CallerInv

LEMMA RollbackUnsentStep ==
    ASSUME TransactionsInv, NEW c \in Callers, RollbackUnsent(c)
    PROVE  TransactionsInv'
  <1> DEFINE e == exec[c][2]
  <1>1. Open(c, 2) /\ Base(c, 2) = 1 /\ pc[c][2] = "rollback" /\ inside[c]
    BY DEF RollbackUnsent, Base
  <1>2. CallerInv(c) /\ TypeOK
    BY DEF TransactionsInv
  <1>3. /\ pc'[c][2] = "ended" /\ pc'[c][1] = pc[c][1]
        /\ result'[c][2] = Reported(c, 2, TRUE) /\ result'[c][1] = result[c][1]
        /\ work'[c][1] = Uncommitted(c) /\ work'[c][2] = {}
        /\ unanswered'[c] = unanswered[c] \cup {w[2] : w \in work[c][2]}
        /\ UNCHANGED <<helper, inside, exec, execs, outcome, open, made, store, ctxDone>>
    <2>1. /\ pc'[c][2] = "ended" /\ pc'[c][1] = pc[c][1]
          /\ result'[c][2] = Reported(c, 2, TRUE) /\ result'[c][1] = result[c][1]
      <3> DEFINE r == Reported(c, 2, TRUE)
      <3>1. pc' = [pc EXCEPT ![c][2] = "ended"] /\ result' = [result EXCEPT ![c][2] = r]
        BY DEF RollbackUnsent, Finish
      <3> HIDE DEF r
      <3>2. /\ pc'[c][2] = "ended" /\ pc'[c][1] = pc[c][1]
            /\ result'[c][2] = r /\ result'[c][1] = result[c][1]
        BY <1>2, <3>1 DEF TypeOK, Levels
      <3> QED
        BY <3>2 DEF r
    <2>2. work'[c][1] = Uncommitted(c) /\ work'[c][2] = {}
      BY <1>2 DEF RollbackUnsent, TypeOK, Levels, Uncommitted
    <2>3. unanswered'[c] = unanswered[c] \cup {w[2] : w \in work[c][2]}
      BY <1>2 DEF RollbackUnsent, TypeOK
    <2>4. UNCHANGED <<helper, inside, exec, execs, outcome, open, made, store, ctxDone>>
      BY DEF RollbackUnsent, Finish
    <2> QED
      BY <2>1, <2>2, <2>3, <2>4
  <1>4. result'[c][2] \in {"error", "panic"}
    BY <1>1, <1>2, <1>3 DEF Reported, CallerInv, NestInv, TypeOK, Levels
  <1>5. TypeOK'
    <2>1. \A w \in work[c][2] : w[2] \in Nat
      BY <1>2 DEF TypeOK, Writes, Levels
    <2>2. unanswered' \in [Callers -> SUBSET Nat]
      BY <1>2, <2>1 DEF RollbackUnsent, TypeOK
    <2>3. result' \in [Callers -> [Levels -> {"none", "nil", "error", "panic"}]]
      BY <1>2, <1>3, <1>4 DEF RollbackUnsent, Finish, TypeOK, Levels
    <2>4. work' \in [Callers -> [Levels -> SUBSET Writes]]
      BY <1>2 DEF RollbackUnsent, TypeOK, Levels
    <2>5. pc' \in [Callers -> [Levels -> {"off", "begin", "fn", "commit", "rollback", "ended"}]]
      BY <1>2 DEF RollbackUnsent, Finish, TypeOK, Levels
    <2> QED
      BY <1>2, <1>3, <2>2, <2>3, <2>4, <2>5 DEF TypeOK
  <1>6. \A d \in Callers \ {c} : Same(d)
    BY <1>2, <1>3 DEF RollbackUnsent, Finish, Same, TypeOK
  <1>7. /\ Active(c, 2) /\ ~Active(c, 2)' /\ Active(c, 1)' = Active(c, 1) /\ pc[c][1] = "fn"
        /\ exec[c][1] # e
        /\ \A x : WrittenBy(c, x)' = WrittenBy(c, x)
    BY <1>1, <1>2, <1>3 DEF CallerInv, NestInv, ExecInv, Active, Levels, WrittenBy
  <1>8. WrittenBy(c, e) \subseteq work[c][2] /\ WrittenBy(c, e) \cap store[c] = {}
    BY <1>1, <1>2, <1>7 DEF CallerInv, OwnInv, Levels
  <1>9. NestInv(c)' /\ ExecInv(c)'
    BY <1>1, <1>2, <1>3, <1>7 DEF CallerInv, NestInv, ExecInv, Active, Levels
  <1>10. WholeInv(c)'
    BY <1>2, <1>3 DEF CallerInv, WholeInv, Uncommitted, Levels
  <1>11. OwnInv(c)'
    BY <1>1, <1>2, <1>3, <1>7 DEF CallerInv, OwnInv, Active, Open, Base, Levels, Uncommitted
  <1>12. e \in unanswered'[c] \/ WrittenBy(c, e) \cap (store'[c] \cup Uncommitted(c)') = {}
    <2>1. CASE WrittenBy(c, e) = {}
      BY <2>1
    <2>2. CASE WrittenBy(c, e) # {}
      BY <1>3, <1>8, <2>2 DEF WrittenBy
    <2> QED
      BY <2>1, <2>2
  <1>13. pc'[c][1] = "fn" /\ result'[c][2] # "nil"
    BY <1>3, <1>4, <1>7
  <1>14. EndedInv(c)'
    BY <1>2, <1>3, <1>7, <1>12, <1>13 DEF EndedInv, Levels
  <1>15. StoredInv(c)'
    BY <1>13 DEF StoredInv
  <1> QED
    BY <1>5, <1>6, <1>9, <1>10, <1>11, <1>14, <1>15, OneCaller DEF CallerInv

(* Only the MongoDB driver retries, and it knows no savepoints. *)
LEMMA RetryStep ==
    ASSUME TransactionsInv, NEW c \in Callers, NEW l \in Levels, Retry(c, l)
    PROVE  TransactionsInv'
  <1>1. PICK k \in Levels : k # l /\ Levels = {k, l}
    BY DEF Levels
  <1>2. CallerInv(c) /\ TypeOK /\ execs[c] \in Nat /\ \A e \in {exec[c][1], exec[c][2]} : e \in Nat
    BY DEF TransactionsInv, TypeOK, Levels
  <1>3. /\ helper = "mongo" /\ ~inside[c]
        /\ pc[c][l] \in {"commit", "rollback"} /\ pc'[c][l] = "fn" /\ pc'[c][k] = pc[c][k]
        /\ exec'[c][l] = execs[c] + 1 /\ exec'[c][k] = exec[c][k] /\ execs'[c] = execs[c] + 1
        /\ work'[c][l] = {} /\ work'[c][k] = work[c][k]
        /\ UNCHANGED <<helper, inside, outcome, result, open, made, store, unanswered, ctxDone>>
    BY <1>1, <1>2 DEF Retry, StartCallback, TypeOK, CallerInv, NestInv
  <1>4. TypeOK'
    BY <1>1, <1>2 DEF Retry, StartCallback, TypeOK, Levels
  <1>5. \A d \in Callers \ {c} : Same(d)
    BY <1>2 DEF Retry, StartCallback, Same, TypeOK
  <1>6. \A e : WrittenBy(c, e)' = WrittenBy(c, e)
    BY <1>3 DEF WrittenBy
  <1>7. NestInv(c)' /\ ExecInv(c)'
    BY <1>1, <1>2, <1>3 DEF CallerInv, NestInv, ExecInv, Active, Levels, TypeOK, Writes
  <1>8. WholeInv(c)'
    BY <1>1, <1>2, <1>3 DEF CallerInv, WholeInv, ExecInv, Levels, Uncommitted
  <1>9. OwnInv(c)'
    BY <1>1, <1>2, <1>3, <1>6, UnbegunWroteNothing DEF CallerInv, OwnInv, Active, Open, Base
  <1>10. EndedInv(c)' /\ StoredInv(c)'
    BY <1>1, <1>2, <1>3, <1>6
       DEF CallerInv, NestInv, EndedInv, StoredInv, Failed, Uncommitted, Levels, Open, Base
  <1> QED
    BY <1>4, <1>5, <1>7, <1>8, <1>9, <1>10, OneCaller DEF CallerInv

LEMMA DriverRollbackStep ==
    ASSUME TransactionsInv, NEW c \in Callers, NEW l \in Levels, DriverRollback(c, l)
    PROVE  TransactionsInv'
  <1>1. CallerInv(c) /\ TypeOK
    BY DEF TransactionsInv
  <1>2. /\ \A k \in Levels : work'[c][k] = IF Base(c, k) = l THEN {} ELSE work[c][k]
        /\ open' = open \ {<<c, l>>}
        /\ UNCHANGED <<helper, pc, inside, exec, execs, outcome, result, made, store, unanswered, ctxDone>>
    BY <1>1 DEF DriverRollback, TypeOK
  <1>3. TypeOK'
    BY <1>1 DEF DriverRollback, TypeOK
  <1>4. \A d \in Callers \ {c} : Same(d)
    BY <1>1, <1>2 DEF DriverRollback, Same, TypeOK
  <1>5. (\A e : WrittenBy(c, e)' = WrittenBy(c, e)) /\ Uncommitted(c)' \subseteq Uncommitted(c)
    BY <1>2 DEF WrittenBy, Uncommitted, Levels
  <1>6. NestInv(c)' /\ ExecInv(c)' /\ StoredInv(c)'
    BY <1>1, <1>2 DEF CallerInv, NestInv, ExecInv, StoredInv, Active, WrittenBy
  <1>7. WholeInv(c)'
    BY <1>1, <1>2, <1>5 DEF CallerInv, WholeInv, Levels
  <1>8. OwnInv(c)'
    BY <1>1, <1>2, <1>5 DEF CallerInv, OwnInv, Active, Open, Base, Levels
  <1>9. EndedInv(c)'
    BY <1>1, <1>2, <1>5 DEF CallerInv, EndedInv, Failed, Open, Base, Levels, Uncommitted
  <1> QED
    BY <1>3, <1>4, <1>6, <1>7, <1>8, <1>9, OneCaller DEF CallerInv

LEMMA TransactionsInitInvariant == Init => TransactionsInv
  <1> SUFFICES ASSUME Init, TransactionsAssumption
               PROVE  TransactionsInv
    BY TransactionsAssumption
  <1>1. TypeOK
    BY FS_EmptySet DEF Init, TypeOK, TransactionsAssumption
  <1>2. ASSUME NEW c \in Callers
        PROVE  CallerInv(c)
    BY DEF Init, CallerInv, NestInv, ExecInv, WholeInv, OwnInv, EndedInv, StoredInv, Active, Uncommitted,
           Levels, WrittenBy
  <1> QED
    BY <1>1, <1>2 DEF TransactionsInv

LEMMA TransactionsNextInvariant == TransactionsInv /\ [Next]_vars => TransactionsInv'
  <1> SUFFICES ASSUME TransactionsInv, [Next]_vars
               PROVE  TransactionsInv'
    OBVIOUS
  <1>1. ASSUME NEW c \in Callers, Call(c) \/ ContextDone(c) \/ RollbackUnsent(c)
                 \/ \E sp \in BOOLEAN : CallNested(c, sp)
        PROVE  TransactionsInv'
    <2>1. CASE ContextDone(c)
      <3>1. TypeOK'
        BY <2>1 DEF ContextDone, TransactionsInv, TypeOK, database
      <3>2. \A d \in Callers : Same(d)
        BY <2>1 DEF ContextDone, Same, database
      <3> QED
        BY <3>1, <3>2, SameKeeps DEF TransactionsInv
    <2> QED
      BY <1>1, <2>1, CallStep, CallNestedStep, RollbackUnsentStep
  <1>2. ASSUME NEW c \in Callers, NEW l \in Levels,
               BeginFails(c, l) \/ Write(c, l) \/ Retry(c, l) \/ DriverRollback(c, l)
        PROVE  TransactionsInv'
    BY <1>2, BeginFailsStep, WriteStep, RetryStep, DriverRollbackStep
  <1>3. ASSUME NEW c \in Callers, Proceed(c)
        PROVE  TransactionsInv'
    <2>1. ASSUME NEW l \in Levels, NEW how \in {"done", "unanswered", "lost"}, Commit(c, l, how)
          PROVE  TransactionsInv'
      <3>1. CASE Base(c, l) = l
        BY <2>1, <3>1, CommitOwnStep DEF Commit
      <3>2. CASE Base(c, l) # l
        <4>1. l = 2 /\ Base(c, 2) = 1
          BY <3>2 DEF Base, Levels
        <4>2. pc[c][2] = "commit" /\ how \in {"done", "lost"} /\ CommitSavepoint(c, how)
          BY <2>1, <3>2, <4>1 DEF Commit
        <4> QED
          BY <4>1, <4>2, CommitSavepointStep
      <3> QED
        BY <3>1, <3>2
    <2>2. ASSUME NEW l \in Levels, Begin(c, l) \/ BeginFails(c, l)
          PROVE  TransactionsInv'
      BY <2>2, BeginStep, BeginFailsStep
    <2>3. ASSUME NEW l \in Levels, NEW how \in {"nil", "error", "panic"}, CallbackEnds(c, l, how)
          PROVE  TransactionsInv'
      BY <2>3, CallbackEndsStep
    <2>4. ASSUME NEW l \in Levels, NEW fails \in BOOLEAN, Rollback(c, l, fails)
          PROVE  TransactionsInv'
      BY <2>4, RollbackStep
    <2> QED
      BY <1>3, <2>1, <2>2, <2>3, <2>4 DEF Proceed
  <1>4. CASE Ended \/ UNCHANGED vars
    <2>1. UNCHANGED vars
      BY <1>4 DEF Ended
    <2>2. TypeOK'
      BY <2>1 DEF vars, database, TransactionsInv, TypeOK
    <2>3. \A d \in Callers : Same(d)
      BY <2>1 DEF vars, database, Same
    <2> QED
      BY <2>2, <2>3, SameKeeps DEF TransactionsInv
  <1> QED
    BY <1>1, <1>2, <1>3, <1>4 DEF Next

(* The types, how the levels nest, the numbering of executions, and what    *)
(* the database and the open transactions hold of each, hold together in    *)
(* every state.                                                             *)
THEOREM TransactionsInvariance == Spec => []TransactionsInv
  BY TransactionsInitInvariant, TransactionsNextInvariant, PTL DEF Spec

(* v2/sql/sqlxw, gormw, no-sql/mongow and sqlw/postgres: of each execution  *)
(* of a callback all writes are kept or none, none while it runs, and of    *)
(* the outer callback one execution at most, whatever fails and is retried. *)
THEOREM AllOrNothingHolds == Spec => []AllOrNothing
  <1>1. TransactionsInv => AllOrNothing
    <2> SUFFICES ASSUME TransactionsInv, NEW c \in Callers
                 PROVE  AllOrNothing!(c)
      BY DEF AllOrNothing
    <2>1. WholeInv(c) /\ OwnInv(c)
      BY DEF TransactionsInv, CallerInv
    <2>2. ASSUME NEW e \in 1 .. MaxExecs
          PROVE  WrittenBy(c, e) \cap store[c] \in {{}, WrittenBy(c, e)}
      BY <2>1 DEF WholeInv, WrittenBy
    <2>3. ASSUME NEW l \in Levels, pc[c][l] = "fn"
          PROVE  WrittenBy(c, exec[c][l]) \cap store[c] = {}
      BY <2>1, <2>3 DEF OwnInv, Active
    <2>4. \A v, w \in store[c] : v[1] = 1 /\ w[1] = 1 => v[2] = w[2]
      BY <2>1 DEF WholeInv
    <2> QED
      BY <2>2, <2>3, <2>4
  <1> QED
    BY <1>1, TransactionsInvariance, PTL

(* Whoever gets nil finds the writes stored, savepoints' writes included,   *)
(* but for the panic that sqlw/postgres/helper.go swallows.                 *)
THEOREM NilMeansStoredHolds == Spec => []NilMeansStored
  <1>1. TransactionsInv => NilMeansStored
    BY DEF TransactionsInv, CallerInv, StoredInv, NilMeansStored
  <1> QED
    BY <1>1, TransactionsInvariance, PTL

(* Whoever gets an error or a panic finds nothing stored, unless the        *)
(* database committed and its answer was lost.                              *)
THEOREM FailureMeansUndoneHolds == Spec => []FailureMeansUndone
  <1>1. TransactionsInv => FailureMeansUndone
    BY DEF TransactionsInv, CallerInv, EndedInv, Failed, FailureMeansUndone
  <1> QED
    BY <1>1, TransactionsInvariance, PTL

(* A step of one caller that opens no connection and keeps none that its     *)
(* transaction does not hold.                                               *)
LEMMA ConnectionKept ==
    ASSUME TypeOK, ConnectionsComeBack, NEW c \in Callers, open' \subseteq open, helper' = helper,
           \A d \in Callers \ {c} : pc'[d] = pc[d] /\ inside'[d] = inside[d],
           \A l \in Levels : <<c, l>> \in open' => Active(c, l)' /\ Base(c, l)' = l
    PROVE  ConnectionsComeBack'
  <1>1. \A d \in Callers, l \in Levels : <<d, l>> \in open' => Active(d, l)' /\ Base(d, l)' = l
    BY DEF ConnectionsComeBack, Active, Base
  <1>2. IsFiniteSet(open') /\ Cardinality(open') <= Cardinality(open)
    BY FS_Subset DEF ConnectionsComeBack
  <1>3. Cardinality(open') \in Nat /\ Cardinality(open) \in Nat
    BY <1>2, FS_CardinalityType DEF ConnectionsComeBack
  <1>4. helper' # "mongo" => Cardinality(open') <= MaxOpenConns
    BY <1>2, <1>3, TransactionsAssumption DEF ConnectionsComeBack
  <1> QED
    BY <1>1, <1>2, <1>4 DEF ConnectionsComeBack

LEMMA BeginConnection ==
    ASSUME TransactionsInv, ConnectionsComeBack, NEW c \in Callers, NEW l \in Levels, Begin(c, l)
    PROVE  ConnectionsComeBack'
  <1>1. /\ helper' = helper /\ inside' = inside /\ pc[c][l] = "begin"
        /\ pc' = [pc EXCEPT ![c][l] = "fn"] /\ open' = open \cup {<<c, Base(c, l)>>}
    BY DEF Begin, StartCallback
  <1>2. /\ pc'[c][l] = "fn" /\ \A d \in Callers \ {c} : pc'[d] = pc[d]
        /\ \A k \in Levels \ {l} : pc'[c][k] = pc[c][k]
    BY <1>1 DEF TransactionsInv, TypeOK
  <1>3. CASE Base(c, l) = l
    <2>1. \A d \in Callers, k \in Levels : <<d, k>> \in open' => Active(d, k)' /\ Base(d, k)' = k
      BY <1>1, <1>2, <1>3 DEF ConnectionsComeBack, Active, Base
    <2>2. /\ IsFiniteSet(open')
          /\ Cardinality(open') = IF <<c, l>> \in open THEN Cardinality(open) ELSE Cardinality(open) + 1
      BY <1>1, <1>3, FS_AddElement DEF ConnectionsComeBack
    <2>3. Cardinality(open) \in Nat
      BY FS_CardinalityType DEF ConnectionsComeBack
    <2>4. helper # "mongo" => Cardinality(open) < MaxOpenConns
      BY <1>3 DEF Begin, FreeConn
    <2>5. helper' # "mongo" => Cardinality(open') <= MaxOpenConns
      BY <1>1, <2>2, <2>3, <2>4, TransactionsAssumption
    <2> QED
      BY <2>1, <2>2, <2>5 DEF ConnectionsComeBack
  <1>4. CASE Base(c, l) # l
    <2>1. open' = open /\ l = 2
      BY <1>1, <1>4 DEF Begin, Open, Base, Levels
    <2>2. \A k \in Levels : <<c, k>> \in open' => Active(c, k)' /\ Base(c, k)' = k
      BY <1>1, <1>2, <2>1 DEF ConnectionsComeBack, Active, Base
    <2> QED
      BY <1>1, <1>2, <2>1, <2>2, ConnectionKept DEF TransactionsInv
  <1> QED
    BY <1>3, <1>4

(* A transaction that ends, on a connection of its own, gives it back.      *)
LEMMA FinishConnection ==
    ASSUME TransactionsInv, ConnectionsComeBack, NEW c \in Callers, NEW l \in Levels, NEW r,
           Finish(c, l, r), open' \subseteq open, <<c, l>> \notin open'
    PROVE  ConnectionsComeBack'
  <1>1. /\ helper' = helper /\ inside' = inside /\ pc' = [pc EXCEPT ![c][l] = "ended"]
    BY DEF Finish
  <1>2. /\ \A d \in Callers \ {c} : pc'[d] = pc[d]
        /\ \A k \in Levels \ {l} : pc'[c][k] = pc[c][k]
    BY <1>1 DEF TransactionsInv, TypeOK
  <1>3. \A k \in Levels : <<c, k>> \in open' => Active(c, k)' /\ Base(c, k)' = k
    BY <1>1, <1>2 DEF ConnectionsComeBack, Active, Base
  <1> QED
    BY <1>1, <1>2, <1>3, ConnectionKept DEF TransactionsInv

LEMMA NextConnections == TransactionsInv /\ ConnectionsComeBack /\ [Next]_vars => ConnectionsComeBack'
  <1> SUFFICES ASSUME TransactionsInv, ConnectionsComeBack, [Next]_vars
               PROVE  ConnectionsComeBack'
    OBVIOUS
  <1>1. ASSUME NEW c \in Callers, Call(c) \/ ContextDone(c) \/ \E sp \in BOOLEAN : CallNested(c, sp)
        PROVE  ConnectionsComeBack'
    <2>1. /\ helper' = helper /\ open' = open
          /\ \A d \in Callers \ {c} : pc'[d] = pc[d] /\ inside'[d] = inside[d]
      BY <1>1 DEF Call, ContextDone, CallNested, database, TransactionsInv, TypeOK
    <2>2. \A l \in Levels : <<c, l>> \in open => Active(c, l)' /\ Base(c, l)' = l
      <3>1. CASE Call(c)
        <4>1. pc[c][1] = "off" /\ inside' = inside /\ \A l \in Levels \ {1} : pc'[c][l] = pc[c][l]
          BY <3>1 DEF Call, TransactionsInv, TypeOK
        <4> QED
          BY <4>1 DEF ConnectionsComeBack, Active, Base
      <3>2. CASE ContextDone(c)
        BY <3>2 DEF ContextDone, ConnectionsComeBack, Active, Base
      <3>3. CASE \E sp \in BOOLEAN : CallNested(c, sp)
        <4>1. /\ pc[c][2] \in {"off", "ended"} /\ \A l \in Levels \ {2} : pc'[c][l] = pc[c][l]
          BY <3>3 DEF CallNested, Top, TransactionsInv, TypeOK, Levels
        <4>2. \A l \in Levels : <<c, l>> \in open => l = 1 /\ Active(c, l)
          BY <4>1 DEF ConnectionsComeBack, Active, Levels
        <4> QED
          BY <4>1, <4>2 DEF Active, Base
      <3> QED
        BY <1>1, <3>1, <3>2, <3>3
    <2> QED
      BY <2>1, <2>2, ConnectionKept DEF TransactionsInv
  <1>2. ASSUME NEW c \in Callers, NEW l \in Levels, BeginFails(c, l)
        PROVE  ConnectionsComeBack'
    <2>1. pc[c][l] = "begin" /\ Finish(c, l, "error") /\ open' = open
      BY <1>2 DEF BeginFails, database
    <2>2. <<c, l>> \notin open
      BY <2>1 DEF ConnectionsComeBack, Active
    <2> QED
      BY <2>1, <2>2, FinishConnection
  <1>3. ASSUME NEW c \in Callers, NEW l \in Levels, Write(c, l) \/ DriverRollback(c, l)
        PROVE  ConnectionsComeBack'
    <2>1. helper' = helper /\ open' \subseteq open /\ pc' = pc /\ inside' = inside
      BY <1>3 DEF Write, DriverRollback
    <2>2. \A k \in Levels : <<c, k>> \in open' => Active(c, k)' /\ Base(c, k)' = k
      BY <2>1 DEF ConnectionsComeBack, Active, Base
    <2> QED
      BY <2>1, <2>2, ConnectionKept DEF TransactionsInv
  <1>4. ASSUME NEW c \in Callers, NEW l \in Levels,
               Retry(c, l) \/ \E how \in {"nil", "error", "panic"} : CallbackEnds(c, l, how)
        PROVE  ConnectionsComeBack'
    <2>1. /\ helper' = helper /\ open' = open /\ inside' = inside
          /\ \E p \in {"fn", "commit", "rollback"} : pc' = [pc EXCEPT ![c][l] = p]
      BY <1>4 DEF Retry, StartCallback, CallbackEnds, database
    <2>2. /\ \A d \in Callers \ {c} : pc'[d] = pc[d]
          /\ pc'[c][l] \in {"fn", "commit", "rollback"}
          /\ \A k \in Levels \ {l} : pc'[c][k] = pc[c][k]
      BY <2>1 DEF TransactionsInv, TypeOK
    <2>3. \A k \in Levels : <<c, k>> \in open' => Active(c, k)' /\ Base(c, k)' = k
      BY <2>1, <2>2 DEF ConnectionsComeBack, Active, Base
    <2> QED
      BY <2>1, <2>2, <2>3, ConnectionKept DEF TransactionsInv
  <1>5. ASSUME NEW c \in Callers, NEW l \in Levels, NEW how \in {"done", "unanswered", "lost"},
               Commit(c, l, how)
        PROVE  ConnectionsComeBack'
    <2>1. CASE Base(c, l) = l
      <3>1. /\ Finish(c, l, IF Open(c, l) /\ how = "done" THEN "nil" ELSE "error")
            /\ open' = open \ {<<c, l>>}
        BY <1>5, <2>1 DEF Commit, CommitOwn
      <3> QED
        BY <3>1, FinishConnection
    <2>2. CASE Base(c, l) # l
      <3>1. l = 2 /\ <<c, 2>> \notin open
        BY <2>2 DEF Base, Levels, ConnectionsComeBack
      <3>2. open' \subseteq open /\ \E r : Finish(c, 2, r)
        BY <1>5, <2>2 DEF Commit, CommitSavepoint
      <3> QED
        BY <3>1, <3>2, FinishConnection
    <2> QED
      BY <2>1, <2>2
  <1>6. ASSUME NEW c \in Callers, NEW l \in Levels, NEW fails \in BOOLEAN, Rollback(c, l, fails)
        PROVE  ConnectionsComeBack'
    <2>1. open' \subseteq open /\ <<c, l>> \notin open'
      <3>1. CASE Base(c, l) = l
        BY <1>6, <3>1 DEF Rollback
      <3>2. CASE Base(c, l) # l
        BY <1>6, <3>2 DEF Rollback, ConnectionsComeBack
      <3> QED
        BY <3>1, <3>2
    <2> QED
      BY <1>6, <2>1, FinishConnection DEF Rollback
  <1>7. CASE Ended \/ UNCHANGED vars
    <2>1. helper' = helper /\ open' = open /\ pc' = pc /\ inside' = inside
      BY <1>7 DEF Ended, vars, database
    <2> QED
      BY <2>1 DEF ConnectionsComeBack, Active, Base
  <1>8. ASSUME NEW c \in Callers, RollbackUnsent(c)
        PROVE  ConnectionsComeBack'
    <2>1. inside[c] /\ open' = open /\ Finish(c, 2, Reported(c, 2, TRUE))
      BY <1>8 DEF RollbackUnsent
    <2>2. Base(c, 2) = 1 /\ 2 \in Levels
      BY <2>1 DEF Base, Levels
    <2>3. <<c, 2>> \notin open
      BY <2>2 DEF ConnectionsComeBack
    <2> QED
      BY <2>1, <2>2, <2>3, FinishConnection
  <1> QED
    BY <1>1, <1>2, <1>3, <1>4, <1>5, <1>6, <1>7, <1>8, BeginConnection DEF Next, Proceed

(* A connection is held by a transaction under way on a connection of its   *)
(* own, and by nobody else; the pool gives out no more than it has.         *)
THEOREM ConnectionsComeBackHolds == Spec => []ConnectionsComeBack
  <1>1. Init => ConnectionsComeBack
    BY FS_EmptySet, TransactionsAssumption DEF Init, ConnectionsComeBack
  <1>2. TransactionsInv /\ ConnectionsComeBack /\ [Next]_vars => ConnectionsComeBack'
    BY NextConnections
  <1> QED
    BY <1>1, <1>2, TransactionsInvariance, PTL DEF Spec

(* With more connections than callers nested transactions cannot block each *)
(* other for good: if all connections are taken, one of the callers that    *)
(* hold them does not wait for another.                                     *)
THEOREM PoolNeverStuckHolds == Spec => []PoolNeverStuck
  <1>1. ASSUME ConnectionsComeBack, TypeOK
        PROVE  PoolNeverStuck
    <2> SUFFICES ASSUME IsFiniteSet(Callers), Cardinality(Callers) < MaxOpenConns, ~FreeConn,
                        ~\E d \in Callers, k \in Levels : <<d, k>> \in open /\ Active(d, k) /\ Top(d, k)
                 PROVE  FALSE
      BY DEF PoolNeverStuck
    <2>1. \A d \in Callers, k \in Levels : <<d, k>> \in open => k = 1
      BY <1>1 DEF ConnectionsComeBack, Top, Levels
    <2>2. open \in SUBSET (Callers \X {1})
      BY <1>1, <2>1 DEF TypeOK
    <2>3. IsFiniteSet(Callers \X {1}) /\ Cardinality(Callers \X {1}) = Cardinality(Callers) * 1
      <3>1. IsFiniteSet({1}) /\ Cardinality({1}) = 1
        BY FS_Singleton
      <3> QED
        BY <3>1, FS_Product
    <2>4. Cardinality(Callers) \in Nat /\ Cardinality(open) \in Nat
      BY <1>1, FS_CardinalityType DEF ConnectionsComeBack
    <2>5. Cardinality(open) <= Cardinality(Callers)
      BY <2>2, <2>3, <2>4, FS_Subset
    <2>6. ~(Cardinality(open) < MaxOpenConns)
      BY DEF FreeConn
    <2> QED
      BY <2>4, <2>5, <2>6, TransactionsAssumption
  <1>2. TransactionsInv => TypeOK
    BY DEF TransactionsInv
  <1> QED
    BY <1>1, <1>2, ConnectionsComeBackHolds, TransactionsInvariance, PTL

-----------------------------------------------------------------------------
(* Query. *)

LEMMA QueryInitInvariant == QueryInit => QueryInv
  BY DEF QueryInit, QueryInv, NoCallYet, Calls, BindInv, Destinations, Unbound

(* A step of one call: the others are as they were. *)
LEMMA OneCall ==
    ASSUME QueryInv, NEW c \in Askers, NEW q \in Calls, BindInv(q), call' = [call EXCEPT ![c] = q]
    PROVE  QueryInv'
  <1>1. call' \in [Askers -> Calls] /\ call'[c] = q /\ \A d \in Askers \ {c} : call'[d] = call[d]
    BY DEF QueryInv
  <1>2. \A d \in Askers : BindInv(call'[d])
    BY <1>1 DEF QueryInv
  <1> QED
    BY <1>1, <1>2 DEF QueryInv, BindInv, IsTorn

(* A step of one call that touches neither arguments nor their places. *)
LEMMA SameBindings ==
    ASSUME QueryInv, NEW c \in Askers, NEW q \in Calls, q.pc # "idle",
           q.left = call[c].left, q.args = call[c].args, q.place = call[c].place,
           call' = [call EXCEPT ![c] = q]
    PROVE  QueryInv'
  <1>1. BindInv(call[c])
    BY DEF QueryInv
  <1>2. BindInv(q)
    BY <1>1 DEF BindInv, IsTorn
  <1> QED
    BY <1>2, OneCall

LEMMA BindKeeps ==
    ASSUME QueryInv, NEW c \in Askers, NEW k \in Names, Bind(c, k)
    PROVE  QueryInv'
  <1> DEFINE q == call[c]
             place == [n \in Names |->
                          CASE q.place[n] # Unbound           -> q.place[n]
                            [] q.place[n] = Unbound /\ n = k  -> Number(c)
                            [] q.place[n] = Unbound /\ n # k  ->
                                  IF <<k, n>> \in Prefixes THEN Torn ELSE Unbound]
             r == [q EXCEPT !.left = q.left \ {k}, !.args = Append(q.args, k), !.place = place]
  <1>1. /\ q \in Calls /\ BindInv(q) /\ k \in q.left /\ q.pc = "prepare"
        /\ call' = [call EXCEPT ![c] = r]
    BY DEF QueryInv, Bind
  <1>2. Number(c) = Len(q.args) + 1 /\ Number(c) \in Nat \ {0}
    BY <1>1 DEF Number, Calls
  <1> HIDE DEF q
  <1>3. place \in [Names -> Int]
    <2>1. ASSUME NEW n \in Names
          PROVE  place[n] \in Int
      BY <1>1, <1>2 DEF Calls, Unbound, Torn
    <2> QED
      BY <2>1
  <1> HIDE DEF place
  <1>4. /\ r \in Calls /\ r.pc = "prepare" /\ r.left = q.left \ {k}
        /\ r.args = Append(q.args, k) /\ r.place = place
    <2>1. q.left \ {k} \in SUBSET Names /\ Append(q.args, k) \in Seq(Names)
      BY <1>1 DEF Calls
    <2> DEFINE args == Append(q.args, k)
               left == q.left \ {k}
    <2>2. left \in SUBSET Names /\ args \in Seq(Names) /\ r = [q EXCEPT !.left = left, !.args = args, !.place = place]
      BY <2>1
    <2> HIDE DEF args, left, r
    <2>3. /\ r \in Calls /\ r.pc = q.pc /\ r.left = left /\ r.args = args /\ r.place = place
      BY <1>1, <1>3, <2>2 DEF Calls
    <2> QED
      BY <1>1, <2>3 DEF left, args
  <1>5. \A n \in q.left : n # k => place[n] = Unbound \/ (place[n] = Torn /\ \E m \in Names : <<m, n>> \in Prefixes)
    BY <1>1 DEF BindInv, IsTorn, Calls, place, Unbound, Torn
  <1>6. place[k] = Number(c) \/ (place[k] = Torn /\ \E m \in Names : <<m, k>> \in Prefixes)
    <2>1. q.place[k] = Unbound \/ (q.place[k] = Torn /\ \E m \in Names : <<m, k>> \in Prefixes)
      BY <1>1 DEF BindInv, IsTorn
    <2>2. q.place[k] = Unbound => place[k] = Number(c)
      BY DEF place
    <2>3. q.place[k] = Torn => place[k] = Torn
      BY DEF place, Unbound, Torn
    <2> QED
      BY <2>1, <2>2, <2>3
  <1>7. \A n \in Names : q.place[n] # Unbound => place[n] = q.place[n]
    BY DEF place
  <1>8. /\ Len(r.args) = Number(c) /\ r.args[Number(c)] = k
        /\ \A i \in DOMAIN q.args : r.args[i] = q.args[i] /\ q.args[i] \in Names /\ i \in Nat \ {0}
        /\ DOMAIN r.args = DOMAIN q.args \cup {Number(c)}
    <2> HIDE DEF r
    <2>1. q.args \in Seq(Names)
      BY <1>1 DEF Calls
    <2> QED
      BY <1>2, <1>4, <2>1
  <1> HIDE DEF r
  <1>9. BindInv(r)
    <2>1. \A n \in r.left : r.place[n] = Unbound \/ IsTorn(r, n)
      BY <1>4, <1>5 DEF IsTorn
    <2>2. ASSUME NEW i \in DOMAIN q.args
          PROVE  /\ r.args[i] \notin r.left
                 /\ r.place[r.args[i]] = i \/ IsTorn(r, r.args[i])
      <3>1. /\ q.args[i] \in Names /\ q.args[i] \notin q.left /\ i # Unbound
            /\ q.place[q.args[i]] = i \/ IsTorn(q, q.args[i])
        BY <1>1, <1>8 DEF BindInv, Unbound
      <3>2. place[q.args[i]] = q.place[q.args[i]]
        BY <3>1, <1>7 DEF IsTorn, Unbound, Torn
      <3> QED
        BY <3>1, <3>2, <1>4, <1>8 DEF IsTorn
    <2>3. /\ r.args[Number(c)] \notin r.left
          /\ r.place[r.args[Number(c)]] = Number(c) \/ IsTorn(r, r.args[Number(c)])
      BY <1>4, <1>6, <1>8 DEF IsTorn
    <2> QED
      BY <1>4, <1>8, <2>1, <2>2, <2>3 DEF BindInv
  <1> QED
    BY <1>1, <1>4, <1>9, OneCall

LEMMA AskKeeps ==
    ASSUME QueryInv, NEW c \in Askers, NEW dest \in Destinations, NEW params \in SUBSET Names,
           Ask(c, dest, params)
    PROVE  QueryInv'
  <1> DEFINE q == [call[c] EXCEPT !.pc = "prepare", !.dest = dest, !.left = params]
  <1>1. call[c] \in Calls /\ BindInv(call[c]) /\ call[c].pc = "idle"
    BY DEF QueryInv, Ask
  <1>2. q \in Calls
    BY <1>1 DEF Calls
  <1>3. q.pc = "prepare" /\ q.left = params /\ q.args = call[c].args /\ q.place = call[c].place
    BY <1>1 DEF Calls
  <1>4. call' = [call EXCEPT ![c] = q]
    BY DEF Ask, QueryInv
  <1> HIDE DEF q
  <1>5. BindInv(q)
    BY <1>1, <1>3 DEF BindInv
  <1> QED
    BY <1>2, <1>4, <1>5, OneCall

LEMMA ReturnsKeeps ==
    ASSUME QueryInv, NEW c \in Askers, NEW err \in {"none", "query", "scan", "noRows", "panic"},
           NEW holds \in BOOLEAN, Returns(c, err, holds)
    PROVE  QueryInv'
  <1> DEFINE q == [call[c] EXCEPT !.pc = "returned", !.err = err, !.holds = holds]
  <1>1. call[c] \in Calls
    BY DEF QueryInv
  <1>2. q \in Calls
    BY <1>1 DEF Calls
  <1>3. q.pc = "returned" /\ q.left = call[c].left /\ q.args = call[c].args /\ q.place = call[c].place
    BY <1>1 DEF Calls
  <1>4. call' = [call EXCEPT ![c] = q]
    BY DEF Returns, QueryInv
  <1> HIDE DEF q
  <1> QED
    BY <1>2, <1>3, <1>4, SameBindings

LEMMA SendQueryKeeps ==
    ASSUME QueryInv, NEW c \in Askers, NEW rows \in 0 .. MaxRows, SendQuery(c, rows)
    PROVE  QueryInv'
  <1> DEFINE q == [call[c] EXCEPT !.pc = "rows", !.rows = rows, !.holds = TRUE]
  <1>1. call[c] \in Calls
    BY DEF QueryInv
  <1>2. rows \in Nat
    BY QueryAssumption
  <1>3. q \in Calls
    BY <1>1, <1>2, "rows" \in {"idle", "prepare", "rows", "returned"} DEF Calls
  <1>4. q.pc = "rows" /\ q.left = call[c].left /\ q.args = call[c].args /\ q.place = call[c].place
    BY <1>1 DEF Calls
  <1>5. ASSUME call[c].dest # "exec"
        PROVE  call' = [call EXCEPT ![c] = q]
    BY <1>5 DEF SendQuery, QueryInv
  <1>6. ASSUME call[c].dest = "exec"
        PROVE  Returns(c, "none", FALSE)
    BY <1>6 DEF SendQuery
  <1> HIDE DEF q
  <1> QED
    BY <1>3, <1>4, <1>5, <1>6, SameBindings, ReturnsKeeps

LEMMA BreaksKeeps ==
    ASSUME QueryInv, NEW c \in Askers, Breaks(c)
    PROVE  QueryInv'
  <1> DEFINE q == [call[c] EXCEPT !.broken = TRUE, !.holds = FALSE]
  <1>1. call[c] \in Calls /\ call[c].pc = "rows"
    BY DEF QueryInv, Breaks
  <1>2. q \in Calls
    BY <1>1 DEF Calls
  <1>3. q.pc = "rows" /\ q.left = call[c].left /\ q.args = call[c].args /\ q.place = call[c].place
    BY <1>1 DEF Calls
  <1>4. call' = [call EXCEPT ![c] = q]
    BY DEF Breaks, QueryInv
  <1> HIDE DEF q
  <1> QED
    BY <1>2, <1>3, <1>4, SameBindings

LEMMA SliceRowKeeps ==
    ASSUME QueryInv, NEW c \in Askers, NEW how \in RowOutcomes, SliceRow(c, how)
    PROVE  QueryInv'
  <1> DEFINE q == [call[c] EXCEPT !.read = call[c].read + 1]
  <1>1. call[c] \in Calls /\ call[c].pc = "rows"
    BY DEF QueryInv, SliceRow
  <1>2. q \in Calls
    <2>1. call[c].read + 1 \in Nat
      BY <1>1 DEF Calls
    <2> QED
      BY <1>1, <2>1 DEF Calls
  <1>3. q.pc = "rows" /\ q.left = call[c].left /\ q.args = call[c].args /\ q.place = call[c].place
    BY <1>1 DEF Calls
  <1>4. ASSUME how = "read"
        PROVE  call' = [call EXCEPT ![c] = q]
    BY <1>4 DEF SliceRow, QueryInv
  <1>5. ASSUME how # "read"
        PROVE  Returns(c, "scan", FALSE) \/ Returns(c, "panic", TRUE)
    BY <1>5 DEF SliceRow, RowOutcomes
  <1> HIDE DEF q
  <1> QED
    BY <1>2, <1>3, <1>4, <1>5, SameBindings, ReturnsKeeps

LEMMA FirstRowKeeps ==
    ASSUME QueryInv, NEW c \in Askers, NEW how \in RowOutcomes, FirstRow(c, how)
    PROVE  QueryInv'
  <1> DEFINE q == [call[c] EXCEPT !.pc = "returned", !.read = 1, !.holds = StillHeld(c)]
  <1>1. call[c] \in Calls
    BY DEF QueryInv
  <1>2. q \in Calls
    BY <1>1 DEF Calls, StillHeld
  <1>3. q.pc = "returned" /\ q.left = call[c].left /\ q.args = call[c].args /\ q.place = call[c].place
    BY <1>1 DEF Calls
  <1>4. ASSUME More(c), how = "read"
        PROVE  call' = [call EXCEPT ![c] = q]
    BY <1>4 DEF FirstRow, QueryInv
  <1>5. ASSUME ~More(c) \/ how # "read"
        PROVE  \E err \in {"noRows", "scan", "panic"} : Returns(c, err, FALSE)
    BY <1>5 DEF FirstRow, RowOutcomes
  <1> HIDE DEF q
  <1> QED
    BY <1>2, <1>3, <1>4, <1>5, SameBindings, ReturnsKeeps

LEMMA QueryNextInvariant == QueryInv /\ [QueryNext]_call => QueryInv'
  <1> SUFFICES ASSUME QueryInv, [QueryNext]_call
               PROVE  QueryInv'
    OBVIOUS
  <1>1. ASSUME NEW c \in Askers, QueryStep(c)
        PROVE  QueryInv'
    BY <1>1, BindKeeps, SendQueryKeeps, ReturnsKeeps, SliceRowKeeps, FirstRowKeeps
       DEF QueryStep, QueryFails, SliceEnd
  <1>2. CASE UNCHANGED call
    BY <1>2 DEF QueryInv, BindInv, IsTorn
  <1> QED
    BY <1>1, <1>2, AskKeeps, BreaksKeeps DEF QueryNext

(* What a name that is bound, or is yet to be, stands for, in every state. *)
THEOREM QueryInvariance == QuerySpec => []QueryInv
  BY QueryInitInvariant, QueryNextInvariant, PTL DEF QuerySpec

(* sqlw/postgres/dml.go:23: each named parameter stands for its own value,  *)
(* whatever the order of the walk, unless another name begins its name.     *)
THEOREM ParametersBoundHolds == QuerySpec => []ParametersBound
  <1>1. QueryInv => ParametersBound
    BY DEF QueryInv, BindInv, IsTorn, ParametersBound
  <1> QED
    BY <1>1, QueryInvariance, PTL

(* A step of one call that takes no connection, or takes one of the pool's. *)
LEMMA HoldOfOne ==
    ASSUME QueryInv, ConnectionsReturned, NEW c \in Askers, NEW q, HoldInv(q),
           call' = [call EXCEPT ![c] = q],
           q.holds => call[c].holds \/ Cardinality(Busy) < PoolSize
    PROVE  ConnectionsReturned'
  <1>1. call'[c] = q /\ \A d \in Askers \ {c} : call'[d] = call[d]
    BY DEF QueryInv
  <1>2. \A d \in Askers : HoldInv(call'[d])
    BY <1>1 DEF ConnectionsReturned
  <1>3. IsFiniteSet(Busy) /\ Cardinality(Busy) \in Nat /\ Cardinality(Busy) <= PoolSize
    BY FS_CardinalityType DEF ConnectionsReturned
  <1>4. IsFiniteSet(Busy') /\ Cardinality(Busy') <= PoolSize
    <2>1. CASE q.holds /\ ~call[c].holds
      <3>1. Busy' = Busy \cup {c}
        BY <1>1, <2>1 DEF Busy
      <3>2. /\ IsFiniteSet(Busy')
            /\ Cardinality(Busy') = IF c \in Busy THEN Cardinality(Busy) ELSE Cardinality(Busy) + 1
        BY <1>3, <3>1, FS_AddElement
      <3> QED
        BY <1>3, <2>1, <3>2, QueryAssumption
    <2>2. CASE ~q.holds \/ call[c].holds
      <3>1. Busy' \in SUBSET Busy
        BY <1>1, <2>2 DEF Busy
      <3>2. IsFiniteSet(Busy') /\ Cardinality(Busy') <= Cardinality(Busy)
        BY <1>3, <3>1, FS_Subset
      <3>3. Cardinality(Busy') \in Nat
        BY <3>2, FS_CardinalityType
      <3> QED
        BY <1>3, <3>2, <3>3, QueryAssumption
    <2> QED
      BY <2>1, <2>2
  <1> QED
    BY <1>2, <1>4 DEF ConnectionsReturned

LEMMA ReturnsLetsGo ==
    ASSUME QueryInv, ConnectionsReturned, NEW c \in Askers, NEW err, Returns(c, err, FALSE)
    PROVE  ConnectionsReturned'
  <1> DEFINE q == [call[c] EXCEPT !.pc = "returned", !.err = err, !.holds = FALSE]
  <1>1. call[c] \in Calls
    BY DEF QueryInv
  <1>2. q.pc = "returned" /\ q.holds = FALSE
    BY <1>1 DEF Calls
  <1>3. call' = [call EXCEPT ![c] = q]
    BY DEF Returns, QueryInv
  <1> HIDE DEF q
  <1>4. HoldInv(q)
    BY <1>2 DEF HoldInv
  <1> QED
    BY <1>2, <1>3, <1>4, HoldOfOne

LEMMA AskTakesNone ==
    ASSUME QueryInv, ConnectionsReturned, NEW c \in Askers, NEW dest \in Destinations,
           NEW params \in SUBSET Names, Ask(c, dest, params)
    PROVE  ConnectionsReturned'
  <1> DEFINE q == [call[c] EXCEPT !.pc = "prepare", !.dest = dest, !.left = params]
  <1>1. call[c] \in Calls /\ HoldInv(call[c]) /\ call[c].pc = "idle"
    BY DEF QueryInv, ConnectionsReturned, Ask
  <1>2. /\ q.pc = "prepare" /\ q.holds = call[c].holds /\ q.broken = call[c].broken
        /\ q.read = call[c].read /\ q.err = call[c].err
    BY <1>1 DEF Calls
  <1>3. call' = [call EXCEPT ![c] = q]
    BY DEF Ask, QueryInv
  <1> HIDE DEF q
  <1>4. HoldInv(q)
    BY <1>1, <1>2 DEF HoldInv, Leaks
  <1> QED
    BY <1>2, <1>3, <1>4, HoldOfOne

LEMMA BindTakesNone ==
    ASSUME QueryInv, ConnectionsReturned, NEW c \in Askers, NEW k \in Names, Bind(c, k)
    PROVE  ConnectionsReturned'
  <1> PICK l, a, p : call' = [call EXCEPT ![c] = [@ EXCEPT !.left = l, !.args = a, !.place = p]]
    BY DEF Bind, QueryInv
  <1> DEFINE q == [call[c] EXCEPT !.left = l, !.args = a, !.place = p]
  <1>1. call[c] \in Calls /\ HoldInv(call[c]) /\ call[c].pc = "prepare"
    BY DEF QueryInv, ConnectionsReturned, Bind
  <1>2. /\ q.pc = "prepare" /\ q.holds = call[c].holds /\ q.broken = call[c].broken
        /\ q.read = call[c].read /\ q.err = call[c].err
    BY <1>1 DEF Calls
  <1>3. call' = [call EXCEPT ![c] = q]
    BY DEF QueryInv
  <1> HIDE DEF q
  <1>4. HoldInv(q)
    BY <1>1, <1>2 DEF HoldInv, Leaks
  <1> QED
    BY <1>2, <1>3, <1>4, HoldOfOne

LEMMA SendQueryTakesOne ==
    ASSUME QueryInv, ConnectionsReturned, NEW c \in Askers, NEW rows \in 0 .. MaxRows,
           SendQuery(c, rows)
    PROVE  ConnectionsReturned'
  <1> DEFINE q == [call[c] EXCEPT !.pc = "rows", !.rows = rows, !.holds = TRUE]
  <1>1. call[c] \in Calls /\ HoldInv(call[c]) /\ call[c].pc = "prepare" /\ Cardinality(Busy) < PoolSize
    BY DEF QueryInv, ConnectionsReturned, SendQuery
  <1>2. /\ q.pc = "rows" /\ q.holds = TRUE /\ q.broken = call[c].broken /\ q.dest = call[c].dest
        /\ q.read = call[c].read /\ q.err = call[c].err /\ q.rows = rows
    BY <1>1 DEF Calls
  <1>3. ASSUME call[c].dest # "exec"
        PROVE  call' = [call EXCEPT ![c] = q]
    BY <1>3 DEF SendQuery, QueryInv
  <1>4. ASSUME call[c].dest = "exec"
        PROVE  Returns(c, "none", FALSE)
    BY <1>4 DEF SendQuery
  <1> HIDE DEF q
  <1>5. ASSUME call[c].dest # "exec"
        PROVE  HoldInv(q)
    <2>1. q.broken = FALSE /\ q.read = 0 /\ q.err = "none"
      BY <1>1, <1>2 DEF HoldInv, Calls
    <2>2. 0 <= rows
      BY QueryAssumption
    <2> QED
      BY <1>2, <1>5, <2>1, <2>2 DEF HoldInv
  <1> QED
    BY <1>1, <1>3, <1>4, <1>5, HoldOfOne, ReturnsLetsGo

LEMMA BreaksGivesBack ==
    ASSUME QueryInv, ConnectionsReturned, NEW c \in Askers, Breaks(c)
    PROVE  ConnectionsReturned'
  <1> DEFINE q == [call[c] EXCEPT !.broken = TRUE, !.holds = FALSE]
  <1>1. call[c] \in Calls /\ HoldInv(call[c]) /\ call[c].pc = "rows"
    BY DEF QueryInv, ConnectionsReturned, Breaks
  <1>2. /\ q.pc = "rows" /\ q.holds = FALSE /\ q.broken = TRUE /\ q.dest = call[c].dest
        /\ q.read = call[c].read /\ q.err = call[c].err /\ q.rows = call[c].rows
    BY <1>1 DEF Calls
  <1>3. call' = [call EXCEPT ![c] = q]
    BY DEF Breaks, QueryInv
  <1> HIDE DEF q
  <1>4. HoldInv(q)
    BY <1>1, <1>2 DEF HoldInv, Leaks
  <1> QED
    BY <1>2, <1>3, <1>4, HoldOfOne

LEMMA SliceRowHolds ==
    ASSUME QueryInv, ConnectionsReturned, NEW c \in Askers, NEW how \in RowOutcomes, SliceRow(c, how)
    PROVE  ConnectionsReturned'
  <1> DEFINE q == [call[c] EXCEPT !.read = call[c].read + 1]
  <1>1. call[c] \in Calls /\ HoldInv(call[c]) /\ call[c].pc = "rows" /\ call[c].read < call[c].rows
    BY DEF QueryInv, ConnectionsReturned, SliceRow, More
  <1>2. /\ q.pc = "rows" /\ q.holds = call[c].holds /\ q.broken = call[c].broken
        /\ q.dest = call[c].dest /\ q.read = call[c].read + 1 /\ q.err = call[c].err
        /\ q.rows = call[c].rows
    BY <1>1 DEF Calls
  <1>3. ASSUME how = "read"
        PROVE  call' = [call EXCEPT ![c] = q]
    BY <1>3 DEF SliceRow, QueryInv
  <1>4. ASSUME how = "scan"
        PROVE  Returns(c, "scan", FALSE)
    BY <1>4 DEF SliceRow
  <1> DEFINE p == [call[c] EXCEPT !.pc = "returned", !.err = "panic", !.holds = TRUE]
  <1>7. /\ call[c].dest = "slice" /\ call[c].holds
        /\ p.pc = "returned" /\ p.dest = call[c].dest /\ p.err = "panic"
    BY <1>1 DEF Calls, SliceRow, More, HoldInv
  <1>8. ASSUME how = "panic"
        PROVE  call' = [call EXCEPT ![c] = p]
    BY <1>8 DEF SliceRow, Returns, QueryInv
  <1>5. call[c].read \in Nat /\ call[c].rows \in Nat
    BY <1>1 DEF Calls
  <1> HIDE DEF q, p
  <1>9. HoldInv(p)
    BY <1>7 DEF HoldInv, Leaks
  <1>6. HoldInv(q)
    BY <1>1, <1>2, <1>5 DEF HoldInv, Leaks
  <1> QED
    BY <1>2, <1>3, <1>4, <1>6, <1>7, <1>8, <1>9, HoldOfOne, ReturnsLetsGo DEF RowOutcomes

LEMMA FirstRowKeepsAScalars ==
    ASSUME QueryInv, ConnectionsReturned, NEW c \in Askers, NEW how \in RowOutcomes, FirstRow(c, how)
    PROVE  ConnectionsReturned'
  <1> DEFINE q == [call[c] EXCEPT !.pc = "returned", !.read = 1, !.holds = StillHeld(c)]
  <1>1. call[c] \in Calls /\ HoldInv(call[c]) /\ call[c].pc = "rows"
    BY DEF QueryInv, ConnectionsReturned, FirstRow
  <1>2. /\ q.pc = "returned" /\ q.holds = (call[c].dest = "scalar") /\ q.dest = call[c].dest
        /\ q.err = call[c].err
    BY <1>1 DEF Calls, StillHeld
  <1>3. ASSUME More(c), how = "read"
        PROVE  call' = [call EXCEPT ![c] = q]
    BY <1>3 DEF FirstRow, QueryInv
  <1>4. ASSUME ~More(c) \/ how # "read"
        PROVE  \E err \in {"noRows", "scan", "panic"} : Returns(c, err, FALSE)
    BY <1>4 DEF FirstRow, RowOutcomes
  <1> HIDE DEF q
  <1>5. HoldInv(q)
    BY <1>1, <1>2 DEF HoldInv, Leaks
  <1>6. More(c) => call[c].holds
    BY <1>1 DEF More, HoldInv
  <1> QED
    BY <1>3, <1>4, <1>5, <1>6, HoldOfOne, ReturnsLetsGo

LEMMA NextReturns == QueryInv /\ ConnectionsReturned /\ [QueryNext]_call => ConnectionsReturned'
  <1> SUFFICES ASSUME QueryInv, ConnectionsReturned, [QueryNext]_call
               PROVE  ConnectionsReturned'
    OBVIOUS
  <1>1. ASSUME NEW c \in Askers, QueryStep(c)
        PROVE  ConnectionsReturned'
    BY <1>1, BindTakesNone, SendQueryTakesOne, ReturnsLetsGo, SliceRowHolds,
       FirstRowKeepsAScalars
       DEF QueryStep, QueryFails, SliceEnd
  <1>2. CASE UNCHANGED call
    BY <1>2 DEF ConnectionsReturned, HoldInv, Busy
  <1> QED
    BY <1>1, <1>2, AskTakesNone, BreaksGivesBack DEF QueryNext

(* sqlw/postgres/dml.go, utils/converter: whatever fails, a connection is   *)
(* held by a call that reads its rows, or by one that has read a scalar or  *)
(* whose slice panicked over a row, and never are more held than the pool   *)
(* has.                                                                     *)
THEOREM ConnectionsReturnedHolds == QuerySpec => []ConnectionsReturned
  <1>1. QueryInit => ConnectionsReturned
    <2> SUFFICES ASSUME QueryInit
                 PROVE  ConnectionsReturned
      OBVIOUS
    <2>1. \A c \in Askers : HoldInv(call[c])
      BY DEF QueryInit, NoCallYet, HoldInv
    <2>2. Busy = {}
      BY DEF QueryInit, NoCallYet, Busy
    <2> QED
      BY <2>1, <2>2, FS_EmptySet, QueryAssumption DEF ConnectionsReturned
  <1>2. QueryInv /\ ConnectionsReturned /\ [QueryNext]_call => ConnectionsReturned'
    BY NextReturns
  <1> QED
    BY <1>1, <1>2, QueryInvariance, PTL DEF QuerySpec

(* A call waits for a connection only while somebody else reads rows, which *)
(* come to an end, or when each connection of the pool was leaked by a      *)
(* scalar that was read or a slice that panicked (converter.go:88, 119).    *)
THEOREM QueriesNeverStuckHolds == QuerySpec => []QueriesNeverStuck
  <1>1. ASSUME ConnectionsReturned
        PROVE  QueriesNeverStuck
    <2> SUFFICES ASSUME NEW c \in Askers, call[c].pc = "prepare", ~(Cardinality(Busy) < PoolSize),
                        ~\E d \in Askers \ {c} : call[d].pc = "rows" /\ call[d].dest # "exec"
                 PROVE  Cardinality(Leaked) = PoolSize
      BY DEF QueriesNeverStuck
    <2>1. Cardinality(Busy) = PoolSize
      BY <1>1, FS_CardinalityType, QueryAssumption DEF ConnectionsReturned
    <2>2. \A d \in Askers : call[d].holds => Leaks(call[d])
      <3> SUFFICES ASSUME NEW d \in Askers, call[d].holds
                   PROVE  Leaks(call[d])
        OBVIOUS
      <3>1. HoldInv(call[d]) /\ HoldInv(call[c])
        BY <1>1 DEF ConnectionsReturned
      <3>2. call[d].pc # "rows"
        BY <3>1 DEF HoldInv
      <3> QED
        BY <3>1, <3>2 DEF HoldInv
    <2>3. Leaked = Busy
      BY <2>2 DEF Leaked, Busy
    <2> QED
      BY <2>1, <2>3
  <1> QED
    BY <1>1, ConnectionsReturnedHolds, PTL

-----------------------------------------------------------------------------
(* LocalCache. *)

LEMMA IdleIsNoRequest == Idle.op = "idle" /\ Idle \notin Requests /\ \A r \in Requests : r # Idle
  BY DEF Idle, Requests

LEMMA ItemsExpire ==
    /\ NoItem.until = 0
    /\ \A item \in Item \cup {NoItem} : item.until \in Nat
    /\ \A time : ~Expired(NoItem, time)
  BY DEF NoItem, Item, Expired

LEMMA CacheInitInvariant == CacheInit => CacheInv
  BY DEF CacheInit, CacheInv

LEMMA BeginWriteType ==
    ASSUME CacheInv, NEW c \in Clients, NEW keys \in SUBSET CacheKeys,
           NEW item \in Item \cup {NoItem}, BeginWrite(c, keys, item)
    PROVE  CacheInv'
  <1>1. [op |-> "write", keys |-> keys, item |-> item] \in Requests
    BY DEF Requests
  <1> QED
    BY <1>1 DEF CacheInv, BeginWrite

(* What SetKV, Delete and Clear write. *)
LEMMA WritesAre ==
    ASSUME CacheInv, NEW c \in Clients
    PROVE  /\ \A k \in CacheKeys : Delete(c, k) => BeginWrite(c, {k}, NoItem)
           /\ \A k \in CacheKeys, v \in Values, ttl \in TTLs :
                 SetKV(c, k, v, ttl) => \E item \in Item : BeginWrite(c, {k}, item)
           /\ Clear(c) => BeginWrite(c, CacheKeys, NoItem)
  <1>1. \A v \in Values, ttl \in TTLs : [value |-> v, until |-> Expiration(ttl)] \in Item
    BY CacheAssumption DEF CacheInv, Expiration, Item
  <1> QED
    BY <1>1 DEF Delete, SetKV, Clear

LEMMA CacheNextInvariant == CacheInv /\ [CacheNext]_cacheVars => CacheInv'
  <1> SUFFICES ASSUME CacheInv, [CacheNext]_cacheVars
               PROVE  CacheInv'
    OBVIOUS
  <1>1. CASE Tick \/ StopCleanup \/ BeginSweep \/ StopSweeper \/ Crashed \/ UNCHANGED cacheVars
             \/ \E interval \in {0, 1} : InitCall(interval)
    BY <1>1 DEF CacheInv, Tick, StopCleanup, BeginSweep, StopSweeper, Crashed, cacheVars, InitCall
  <1>2. ASSUME NEW c \in Clients, NEW k \in CacheKeys, BeginGet(c, k)
        PROVE  CacheInv'
    <2>1. [op |-> "get", keys |-> {k}, item |-> items[k]] \in Requests
      BY DEF CacheInv, Requests
    <2> QED
      BY <1>2, <2>1 DEF CacheInv, BeginGet
  <1>3. ASSUME NEW c \in Clients,
               Clear(c) \/ \E k \in CacheKeys : Delete(c, k) \/ \E v \in Values, ttl \in TTLs : SetKV(c, k, v, ttl)
        PROVE  CacheInv'
    BY <1>3, WritesAre, BeginWriteType
  <1>4. ASSUME NEW c \in Clients, EndGet(c)
        PROVE  CacheInv'
    BY <1>4 DEF CacheInv, EndGet
  <1>5. ASSUME NEW c \in Clients, EndWrite(c)
        PROVE  CacheInv'
    <2>1. client[c] \in Requests
      BY <1>5, IdleIsNoRequest DEF CacheInv, EndWrite
    <2>2. client[c].item \in Item \cup {NoItem}
      BY <2>1 DEF Requests
    <2> QED
      BY <1>5, <2>2 DEF CacheInv, EndWrite
  <1>6. CASE EndSweep
    BY <1>6 DEF CacheInv, EndSweep
  <1> QED
    BY <1>1, <1>2, <1>3, <1>4, <1>5, <1>6 DEF CacheNext

(* The map, the requests and the time the sweeper read, in every state. *)
THEOREM CacheInvariance == CacheSpec => []CacheInv
  BY CacheInitInvariant, CacheNextInvariant, PTL DEF CacheSpec

LEMMA StoreInitHolds == CacheInit => Store!StoreInit
  BY ItemsExpire, IdleIsNoRequest DEF CacheInit, Store!StoreInit, Found, Requested, Store!Nothing, NoItem

(* A request that begins is asked for, one that ends is served. *)
LEMMA WriteAsks ==
    ASSUME CacheInv, NEW c \in Clients, NEW keys \in SUBSET CacheKeys,
           NEW item \in Item \cup {NoItem}, BeginWrite(c, keys, item)
    PROVE  Store!Ask(c)
  <1> DEFINE r == [op |-> "write", keys |-> keys, item |-> item]
  <1>1. /\ client[c] = Idle /\ client' = [client EXCEPT ![c] = r]
        /\ UNCHANGED <<now, items>>
    BY DEF BeginWrite
  <1>2. r # Idle /\ r.op # "get" /\ r.keys = keys /\ r.item = item /\ Idle.op # "get"
    BY DEF Idle
  <1> HIDE DEF r
  <1>3. Requested' = [Requested EXCEPT ![c] = r] /\ Requested'[c] = r /\ Requested[c] = Idle
    BY <1>1, <1>2 DEF CacheInv, Requested
  <1>4. Found' = Found
    BY <1>1 DEF Found
  <1> QED
    BY <1>1, <1>2, <1>3, <1>4 DEF Store!Ask, Store!Nothing, NoItem

LEMMA WriteIsServed ==
    ASSUME CacheInv, NEW c \in Clients, EndWrite(c)
    PROVE  Store!Serve(c)
  <1>1. client[c] \in Requests /\ client[c].op = "write" /\ client[c] # Idle
    BY IdleIsNoRequest DEF CacheInv, EndWrite
  <1>2. Requested[c] = client[c] /\ Requested' = [Requested EXCEPT ![c] = Idle]
    BY <1>1, IdleIsNoRequest DEF CacheInv, Requested, EndWrite
  <1>3. now' = now
    BY DEF EndWrite
  <1>4. Found' = [k \in CacheKeys |-> IF k \in client[c].keys
                                      THEN Store!Visible(client[c].item, now) ELSE Found[k]]
    BY <1>3 DEF Found, Store!Visible, EndWrite, Expired, Store!Nothing, NoItem
  <1> QED
    BY <1>1, <1>2, <1>3, <1>4 DEF Store!Serve

(* An entry that expired is gone whether or not it was swept. *)
LEMMA TimePasses ==
    ASSUME CacheInv, Tick
    PROVE  Store!Pass
  <1>1. now' = now + 1 /\ items' = items /\ client' = client
    BY DEF Tick
  <1>2. \A k \in CacheKeys : Found'[k] = Store!Visible(Found[k], now')
    BY <1>1, ItemsExpire DEF CacheInv, Found, Store!Visible, Expired, Store!Nothing, NoItem
  <1>3. Requested' = Requested
    BY <1>1 DEF Requested
  <1> QED
    BY <1>1, <1>2, <1>3 DEF Store!Pass, Found

LEMMA SweepIsInvisible ==
    ASSUME CacheInv, EndSweep
    PROVE  UNCHANGED Store!storeVars
  <1>1. now' = now /\ client' = client
    BY DEF EndSweep
  <1>2. ASSUME NEW k \in CacheKeys
        PROVE  Found'[k] = Found[k]
    <2>1. k \in ToSweep(sweepNow) => Expired(items[k], now)
      BY ItemsExpire DEF CacheInv, ToSweep, Expired
    <2> QED
      BY <1>1, <2>1, ItemsExpire DEF EndSweep, Found
  <1> QED
    BY <1>1, <1>2 DEF Store!storeVars, Found, Requested

LEMMA StoreStep ==
    ASSUME CacheInv, [CacheNext]_cacheVars
    PROVE  [Store!StoreNext]_(Store!storeVars)
  <1>1. CASE StopCleanup \/ BeginSweep \/ StopSweeper \/ Crashed \/ UNCHANGED cacheVars
             \/ \E interval \in {0, 1} : InitCall(interval)
    BY <1>1 DEF StopCleanup, BeginSweep, StopSweeper, Crashed, cacheVars, InitCall,
                Store!storeVars, Found, Requested
  <1>2. ASSUME NEW c \in Clients, NEW k \in CacheKeys, BeginGet(c, k)
        PROVE  UNCHANGED Store!storeVars
    BY <1>2, IdleIsNoRequest DEF CacheInv, BeginGet, Store!storeVars, Found, Requested
  <1>3. ASSUME NEW c \in Clients, EndGet(c)
        PROVE  UNCHANGED Store!storeVars
    BY <1>3, IdleIsNoRequest DEF CacheInv, EndGet, Store!storeVars, Found, Requested
  <1>4. ASSUME NEW c \in Clients,
               Clear(c) \/ \E k \in CacheKeys : Delete(c, k) \/ \E v \in Values, ttl \in TTLs : SetKV(c, k, v, ttl)
        PROVE  Store!Ask(c)
    BY <1>4, WritesAre, WriteAsks
  <1> QED
    BY <1>1, <1>2, <1>3, <1>4, WriteIsServed, TimePasses, SweepIsInvisible DEF CacheNext, Store!StoreNext

(* v2/localcachew/cache.go: a reader sees a map whose entries change when a *)
(* SetKV, Delete or Clear does it, or vanish by expiring; the sweeper, with *)
(* the time it read however long ago, is never seen.                        *)
THEOREM StoreRefinement == CacheSpec => ImplementsStore
  BY StoreInitHolds, StoreStep, CacheInvariance, PTL DEF CacheSpec, ImplementsStore
=============================================================================
