------------------------------- MODULE Query --------------------------------
(***************************************************************************)
(* Get, Select and Exec of sqlw/postgres (dml.go) over a pool of           *)
(* connections, with the rows read by utils/converter.  Several goroutines *)
(* query at once; a query holds its connection until its rows are closed.  *)
(*                                                                         *)
(* Of a query's text only the places of named parameters count, of a row   *)
(* only that it is one.                                                    *)
(***************************************************************************)
EXTENDS Integers, Sequences, FiniteSets

CONSTANTS
    Askers,
    Names,          \* names of parameters
    Prefixes,       \* <<k, n>>: the name k begins the name n
    PoolSize,
    MaxRows         \* bound: rows of an answer

ASSUME QueryAssumption ==
    Prefixes \subseteq Names \X Names /\ PoolSize \in Nat \ {0} /\ MaxRows \in Nat

VARIABLE call

Destinations == {"slice", "map", "struct", "scalar", "exec"}
(* What stands in the text for a name: the name, a part of it behind another *)
(* argument's number, or its own number.                                    *)
Unbound == 0
Torn == -1

NoCallYet == [pc |-> "idle", dest |-> "exec", place |-> [n \in Names |-> Unbound],
              left |-> {}, args |-> <<>>, rows |-> 0, read |-> 0,
              broken |-> FALSE, holds |-> FALSE, err |-> "none"]

QueryInit == call = [c \in Askers |-> NoCallYet]

Busy == {c \in Askers : call[c].holds}

-----------------------------------------------------------------------------
(* prepareQueryNamed. *)

(* A call with a number of parameters; none for the variants without names. *)
Ask(c, dest, params) ==
    /\ call[c].pc = "idle"
    /\ call' = [call EXCEPT ![c].pc = "prepare", ![c].dest = dest, ![c].left = params]

(* Fault: an argument is numbered from zero. *)
NumberFromZero(c) == Len(call[c].args)
(* The number the next argument gets. *)
Number(c) == Len(call[c].args) + 1

(* The map is walked in any order.  A name is replaced wherever it stands,  *)
(* which is also at the beginning of a longer one.                          *)
Bind(c, k) ==
    /\ call[c].pc = "prepare" /\ k \in call[c].left
    /\ call' = [call EXCEPT
          ![c].left = @ \ {k}, ![c].args = Append(@, k),
          ![c].place = [n \in Names |->
              CASE @[n] # Unbound                          -> @[n]
                [] @[n] = Unbound /\ n = k                 -> Number(c)
                [] @[n] = Unbound /\ n # k                 ->
                      IF <<k, n>> \in Prefixes THEN Torn ELSE Unbound]]

-----------------------------------------------------------------------------
(* The query and its rows.  pgx closes rows by itself when they end, when   *)
(* the connection breaks, and when a Scan fails.                            *)

Returns(c, err, holds) ==
    call' = [call EXCEPT ![c].pc = "returned", ![c].err = err, ![c].holds = holds]

(* A connection of the pool, if it has one; the query may fail. *)
SendQuery(c, rows) ==
    /\ call[c].pc = "prepare" /\ call[c].left = {} /\ Cardinality(Busy) < PoolSize
    /\ IF call[c].dest = "exec" THEN Returns(c, "none", FALSE)
       ELSE call' = [call EXCEPT ![c].pc = "rows", ![c].rows = rows, ![c].holds = TRUE]
QueryFails(c) ==
    /\ call[c].pc = "prepare" /\ call[c].left = {} /\ Cardinality(Busy) < PoolSize
    /\ Returns(c, "query", FALSE)

More(c) == call[c].read < call[c].rows /\ ~call[c].broken

(* The connection breaks under rows that are being read: Next returns FALSE.*)
Breaks(c) ==
    /\ call[c].pc = "rows" /\ ~call[c].broken
    /\ call' = [call EXCEPT ![c].broken = TRUE, ![c].holds = FALSE]

(* A row is read, or pgx cannot scan it, or what it scanned is nothing the  *)
(* destination takes (NULL for an element that is no struct, a value of     *)
(* another type) and reflect panics.  A panic leaves the call; whoever      *)
(* called it recovers.                                                      *)
RowOutcomes == {"read", "scan", "panic"}

(* One round of the loop of a slice; a row that cannot be read ends it.     *)
(* Nothing closes the rows of a loop that panics.                           *)
SliceRow(c, how) ==
    /\ call[c].pc = "rows" /\ call[c].dest = "slice" /\ More(c)
    /\ CASE how = "read"  -> call' = [call EXCEPT ![c].read = @ + 1]
         [] how = "scan"  -> Returns(c, "scan", FALSE)
         [] how = "panic" -> Returns(c, "panic", TRUE)
(* What ended the rows is not asked for. *)
SliceEnd(c) ==
    /\ call[c].pc = "rows" /\ call[c].dest = "slice" /\ ~More(c)
    /\ Returns(c, "none", FALSE)

(* Fault: nothing closes the rows of a struct. *)
StillHeldStruct(c) == call[c].dest \in {"struct", "scalar"}
(* The deferred Close of a map or a struct also follows a panic; the rows   *)
(* of a scalar, of which there may be more, nobody closes.                  *)
StillHeld(c) == call[c].dest = "scalar"

(* A map, struct or scalar takes the first row.  The map that was read is   *)
(* not the caller's.                                                        *)
FirstRow(c, how) ==
    /\ call[c].pc = "rows" /\ call[c].dest \in {"map", "struct", "scalar"}
    /\ how = "panic" => call[c].dest = "struct"
    /\ CASE ~More(c)                        -> Returns(c, "noRows", FALSE)
         [] More(c) /\ how = "scan"     -> Returns(c, "scan", FALSE)
         [] More(c) /\ how = "panic"    -> Returns(c, "panic", FALSE)
         [] More(c) /\ how = "read"     ->
              call' = [call EXCEPT ![c].pc = "returned", ![c].read = 1,
                                   ![c].holds = StillHeld(c)]

QueryStep(c) ==
    \/ \E k \in Names : Bind(c, k)
    \/ \E rows \in 0 .. MaxRows : SendQuery(c, rows)
    \/ QueryFails(c)
    \/ \E how \in RowOutcomes : SliceRow(c, how) \/ FirstRow(c, how)
    \/ SliceEnd(c)

QueryNext ==
    \E c \in Askers :
        \/ \E dest \in Destinations, params \in SUBSET Names : Ask(c, dest, params)
        \/ Breaks(c) \/ QueryStep(c)

QuerySpec == QueryInit /\ [][QueryNext]_call

(* A goroutine goes on; one that waits for a connection is next some time.  *)
QueryFairness == \A c \in Askers : WF_call(QueryStep(c))

-----------------------------------------------------------------------------
(* Properties. *)

(* Each named parameter of the text stands for its own value, in whatever   *)
(* order the map is walked, unless its name begins with another one         *)
(* (dml.go:23).                                                             *)
ParametersBound ==
    \A c \in Askers : \A i \in DOMAIN call[c].args :
        LET n == call[c].args[i] IN
        call[c].place[n] = i \/ (call[c].place[n] = Torn /\ \E k \in Names : <<k, n>> \in Prefixes)

(* A call that is over and keeps its connection for good: it has read a     *)
(* scalar (converter.go:119), or a row of its slice panicked (converter.go: *)
(* 88).                                                                     *)
Leaks(q) ==
    /\ q.pc = "returned"
    /\ (q.dest = "scalar" /\ q.err = "none") \/ (q.dest = "slice" /\ q.err = "panic")
Leaked == {c \in Askers : call[c].holds /\ Leaks(call[c])}

(* Every call returns: a connection that another one waits for comes back,  *)
(* unless as many as the pool has were kept by scalars that were read and   *)
(* by slices that panicked; fewer of them hold up nobody for good, and      *)
(* nothing else that fails does.                                            *)
CallsReturn ==
    \A c \in Askers :
        call[c].pc # "idle" ~> call[c].pc = "returned" \/ Cardinality(Leaked) >= PoolSize
-----------------------------------------------------------------------------
(* The inductive invariant. *)

Calls == [pc : {"idle", "prepare", "rows", "returned"}, dest : Destinations,
          place : [Names -> Int], left : SUBSET Names, args : Seq(Names),
          rows : Nat, read : Nat, broken : BOOLEAN, holds : BOOLEAN,
          err : {"none", "query", "scan", "noRows", "panic"}]

IsTorn(q, n) == q.place[n] = Torn /\ \E k \in Names : <<k, n>> \in Prefixes

(* A name that is yet to be bound stands where it did, or is torn; one that *)
(* was bound is not bound again.  A call begins with nothing bound.         *)
BindInv(q) ==
    /\ q.pc = "idle" => q.args = <<>> /\ \A n \in Names : q.place[n] = Unbound
    /\ \A n \in q.left : q.place[n] = Unbound \/ IsTorn(q, n)
    /\ \A i \in DOMAIN q.args : /\ q.args[i] \notin q.left
                                /\ q.place[q.args[i]] = i \/ IsTorn(q, q.args[i])

QueryInv == call \in [Askers -> Calls] /\ \A c \in Askers : BindInv(call[c])

-----------------------------------------------------------------------------
(* What CallsReturn rests on besides the scheduling.                        *)

(* A connection is held by a call that reads its rows, until it breaks, or  *)
(* by one that leaked it, and by nobody else, whatever failed; what is read *)
(* are rows of an answer.  The pool gives out no more than it has.          *)
HoldInv(q) ==
    /\ q.holds => q.pc = "rows" \/ Leaks(q)
    /\ q.pc = "rows" => q.dest # "exec" /\ q.read <= q.rows /\ q.holds = ~q.broken
    /\ q.pc \in {"idle", "prepare"} => ~q.broken /\ q.read = 0
    /\ q.pc # "returned" => q.err = "none"
ConnectionsReturned ==
    /\ \A c \in Askers : HoldInv(call[c])
    /\ IsFiniteSet(Busy) /\ Cardinality(Busy) <= PoolSize

(* A call that waits for a connection finds a free one, or somebody else is *)
(* reading rows and has a next step, or the pool's connections were leaked, *)
(* every one of them.                                                       *)
QueriesNeverStuck ==
    \A c \in Askers : call[c].pc = "prepare" /\ call[c].left = {} =>
        \/ Cardinality(Busy) < PoolSize
        \/ \E d \in Askers \ {c} : call[d].pc = "rows" /\ call[d].dest # "exec"
        \/ Cardinality(Leaked) = PoolSize
=============================================================================
