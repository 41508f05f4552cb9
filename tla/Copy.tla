-------------------------------- MODULE Copy --------------------------------
(***************************************************************************)
(* copy.Copy (copy/struct.go): the rules by which a value of one type is   *)
(* converted into a destination of another, in the order they are tried.   *)
(* They are defined on Go values up to what the rules look at, and a state *)
(* machine copies a value into a destination and the result back.          *)
(*                                                                         *)
(* A type is a kind with the types of its parts and, for a struct, the     *)
(* names of each field by priority ("null" is one of sql.NullString and    *)
(* its like).  A value has a number n (counted in halves, so that integers *)
(* are even and times in half seconds), a class c of text, and its parts   *)
(* e; a pointer or an interface has none if it is nil.  The parts of a map *)
(* stand in the order in which it is walked, and names are equal if they   *)
(* are up to case.  Values with a method AssignTo (pgtype before pgx v5),  *)
(* and slices of bytes, are left out.                                      *)
(***************************************************************************)
EXTENDS CopyNumbers, Sequences, SequencesExt

CONSTANTS
    CopyTypes,      \* types of destinations
    CopyValues      \* values to copy

VARIABLES arch, source, target, outcome, back

copyVars == <<arch, source, target, outcome, back>>

Type(k) == [k |-> k, of |-> <<>>, names |-> <<>>]
Of(k, types) == [k |-> k, of |-> types, names |-> <<>>]
Struct(types, names) == [k |-> "struct", of |-> types, names |-> names]
Value(t, n, c, e) == [t |-> t, n |-> n, c |-> c, e |-> e, keys |-> <<>>]
Map(t, keys, e) == [t |-> t, n |-> 0, c |-> "", e |-> e, keys |-> keys]

StructKinds == {"struct", "time", "null"}

(* Seconds of the zero time.Time before 1970. *)
ZeroTime == -8

RECURSIVE Zero(_)
Zero(t) ==
    Value(t, IF t.k = "time" THEN ZeroTime ELSE 0, IF t.k = "null" THEN "null" ELSE "",
          IF t.k \in {"array", "struct", "null"} THEN [i \in DOMAIN t.of |-> Zero(t.of[i])] ELSE <<>>)

Nil(v)   == [err |-> FALSE, v |-> v]
Error(v) == [err |-> TRUE, v |-> v]

(* Numbers all pass through a float64 (CopyNumbers). *)
NumberFrom(d, s) == [d EXCEPT !.n = NumberToNumber(arch, d.t.k, s.t.k, s.n)]

-----------------------------------------------------------------------------
(* Texts, times and what is left. *)

LooksLikeJSON(s) == s.t.k = "string" /\ s.c \in {"json", "bad json"}

(* The text that is JSON is a list of one number. *)
ConvertJSON(d, s) ==
    IF d.t.k = "slice" /\ s.c = "json" /\ (d.t.of[1].k = "float64" \/ Fits(s.n, d.t.of[1].k))
    THEN Nil([d EXCEPT !.e = <<Value(d.t.of[1], s.n, "", <<>>)>>]) ELSE Error(d)

(* RFC 3339 and Unix seconds both go by the second. *)
ToTime(d, s) ==
    IF s.n % 2 = 0 /\ (s.t.k \in {"int", "int64"} \/ (s.t.k = "string" /\ s.c \in {"rfc3339", "digits"}))
    THEN Nil([d EXCEPT !.n = s.n]) ELSE Error(d)
Seconds(n) == 2 * (n \div 2)
FromTime(d, s) ==
    CASE d.t.k = "string"           -> Nil([d EXCEPT !.n = Seconds(s.n), !.c = "rfc3339"])
      [] d.t.k \in {"int", "int64"} -> Nil([d EXCEPT !.n = Seconds(s.n)])
      [] OTHER                      -> Error(d)

(* fmt.Sprint: numbers and truth values read back, a list of one number is *)
(* JSON, and other lists and structs only look like it.                    *)
Inner(s) == IF s.t.k = "any" /\ s.e # <<>> THEN s.e[1] ELSE s
OneNumber(s) == s.t.k \in {"slice", "array"} /\ Len(s.e) = 1 /\ s.e[1].t.k \in NumberKinds
Printed(s) ==
    CASE s.t.k \in NumberKinds \cup {"string"} -> [n |-> s.n, c |-> IF s.t.k = "string" THEN s.c ELSE "digits"]
      [] s.t.k = "bool"                        -> [n |-> s.n, c |-> "bool"]
      [] OneNumber(s)                          -> [n |-> s.e[1].n, c |-> "json"]
      [] s.t.k \in {"slice", "array", "struct"} /\ ~OneNumber(s) -> [n |-> 0, c |-> "bad json"]
      [] OTHER                                 -> [n |-> s.n, c |-> "text"]

FallbackConvert(d, s) ==
    CASE d.t.k = "string" -> Nil([d EXCEPT !.n = Printed(Inner(s)).n, !.c = Printed(Inner(s)).c])
      [] d.t.k = "bool" /\ s.t.k \in NumberKinds -> Nil([d EXCEPT !.n = IF s.n # 0 THEN 2 ELSE 0])
      [] d.t.k = "bool" /\ s.t.k = "string" /\ (s.c = "bool" \/ (s.c = "digits" /\ s.n \in {0, 2})) ->
            Nil([d EXCEPT !.n = s.n])
      [] OTHER -> Error(d)

-----------------------------------------------------------------------------
(* Parts. *)

(* The results for the parts of d up to the first error are kept in place. *)
InPlace(d, rs) ==
    LET errs == {i \in DOMAIN rs : rs[i].err}
        last == IF errs = {} THEN Len(rs) ELSE Min(errs)
    IN  [err |-> errs # {},
         v |-> [d EXCEPT !.e = [i \in DOMAIN d.e |-> IF i <= last /\ i \in DOMAIN rs THEN rs[i].v ELSE d.e[i]]]]

(* The parts are collected first, and set when all are converted. *)
AtOnce(d, keys, rs) ==
    IF \E i \in DOMAIN rs : rs[i].err THEN Error(d)
    ELSE Nil([d EXCEPT !.keys = keys, !.e = [i \in DOMAIN rs |-> rs[i].v]])

(* The field a name stands for: the first that has it. *)
FieldOf(t, name) == Min({i \in DOMAIN t.names : name \in ToSet(t.names[i])})
NamesOf(t) == UNION {ToSet(t.names[i]) : i \in DOMAIN t.names}

(* The part of a struct or map that fills a field with these names: for a   *)
(* struct by the first name it has, for a map the first key that is a name. *)
SourcesFor(names, s) ==
    IF s.t.k = "struct"
    THEN LET known == {i \in DOMAIN names : names[i] \in NamesOf(s.t)} IN
         IF known = {} THEN <<>> ELSE <<s.e[FieldOf(s.t, names[Min(known)])]>>
    ELSE LET hits == {i \in DOMAIN s.keys : s.keys[i] \in ToSet(names)} IN
         IF hits = {} THEN <<>> ELSE <<s.e[Min(hits)]>>

Boxed(v) == Value(Type("any"), 0, "", <<v>>)

RECURSIVE Assign(_, _)
Each(d, vs) == [i \in DOMAIN vs |-> Assign(Zero(d.t.of[1]), vs[i])]

SliceConvert(d, s) == AtOnce(d, <<>>, Each(d, IF s.t.k \in {"slice", "array"} THEN s.e ELSE <<s>>))

ArrayConvert(d, s) ==
    IF s.t.k \notin {"slice", "array"} THEN Error(d)
    ELSE InPlace(d, [i \in 1 .. Min({Len(d.e), Len(s.e)}) |-> Assign(d.e[i], s.e[i])])

(* A struct becomes a map with every name of every field. *)
MapConvert(d, s) ==
    CASE s.t.k = "map"    -> AtOnce(d, s.keys, Each(d, s.e))
      [] s.t.k = "struct" ->
            LET keys == SetToSeq(NamesOf(s.t)) IN
            AtOnce(d, keys, Each(d, [i \in DOMAIN keys |-> Boxed(s.e[FieldOf(s.t, keys[i])])]))
      [] OTHER            -> Error(d)

StructConvert(d, s) ==
    IF s.t.k \notin {"struct", "map"} THEN Error(d)
    ELSE InPlace(d, [i \in DOMAIN d.e |->
            LET from == IF d.t.names = <<>> THEN <<>> ELSE SourcesFor(d.t.names[i], s) IN
            IF from = <<>> THEN Nil(d.e[i]) ELSE Assign(d.e[i], from[1])])

-----------------------------------------------------------------------------
(* The rules in their order. *)

Convert(d, s) ==
    CASE d.t.k \in StructKinds \cup {"map", "slice"} /\ LooksLikeJSON(s) -> ConvertJSON(d, s)
      [] OTHER ->
    CASE d.t.k \in NumberKinds /\ s.t.k \in NumberKinds -> Nil(NumberFrom(d, s))
      [] d.t.k \in NumberKinds /\ s.t.k = "string"      ->
            IF s.c = "digits" THEN Nil(NumberFrom(d, s)) ELSE Error(d)
      [] d.t.k = "time"                                 -> ToTime(d, s)
      [] d.t.k # "time" /\ s.t.k = "time"               -> FromTime(d, s)
      [] OTHER ->
    CASE d.t.k = "slice"             -> SliceConvert(d, s)
      [] d.t.k = "array"             -> ArrayConvert(d, s)
      [] d.t.k = "map"               -> MapConvert(d, s)
      [] d.t.k \in {"struct", "null"} -> StructConvert(d, s)
      [] OTHER                       -> FallbackConvert(d, s)

(* convertAssign: pointers, values that are assignable, NULL, and the rules.*)
Assign(d, s) ==
    CASE s.t.k = "ptr" -> IF s.e = <<>> THEN Nil(Zero(d.t)) ELSE Assign(d, s.e[1])
      [] s.t.k # "ptr" /\ d.t.k = "ptr" ->
            IF s.t.k = "null" /\ s.c = "null" THEN Nil(Zero(d.t))
            ELSE LET r == Assign(IF d.e = <<>> THEN Zero(d.t.of[1]) ELSE d.e[1], s)
                 IN  [r EXCEPT !.v = [d EXCEPT !.e = <<r.v>>]]
      [] OTHER ->
    CASE s.t = d.t      -> Nil(s)
      [] s.t # d.t /\ d.t.k = "any" -> Nil(Boxed(s))
      [] s.t # d.t /\ d.t.k # "any" /\ Inner(s).t.k = "null" ->
            IF Inner(s).c = "null" THEN Nil(Zero(d.t)) ELSE Assign(d, Inner(s).e[1])
      [] OTHER          -> Convert(d, s)

-----------------------------------------------------------------------------
(* A value is copied into a destination, which holds something, and what it *)
(* became is copied into one of the value's own type.                       *)

Targets == UNION {{Zero(t)} \cup {v \in CopyValues : v.t = t} : t \in CopyTypes}

CopyInit ==
    /\ arch \in Architectures
    /\ source \in CopyValues /\ target \in Targets
    /\ outcome = [done |-> FALSE, err |-> FALSE, v |-> target]
    /\ back = [done |-> FALSE, err |-> FALSE, v |-> source]

CopyForth ==
    LET r == Assign(target, source) IN
    /\ ~outcome.done
    /\ outcome' = [done |-> TRUE, err |-> r.err, v |-> r.v]
    /\ UNCHANGED <<arch, source, target, back>>

(* An interface is passed as what is in it; a nil one makes Copy panic. *)
CopyBack ==
    LET r == Assign(Zero(source.t), Inner(outcome.v)) IN
    /\ outcome.done /\ ~outcome.err /\ ~back.done /\ outcome.v # Zero(Type("any"))
    /\ back' = [done |-> TRUE, err |-> r.err, v |-> r.v]
    /\ UNCHANGED <<arch, source, target, outcome>>

CopyNext == CopyForth \/ CopyBack
CopySpec == CopyInit /\ [][CopyNext]_copyVars

-----------------------------------------------------------------------------
(* Whether a type can hold all there is to a value. *)
RECURSIVE Holds(_, _)
Holds(t, v) ==
    CASE v.t.k = "ptr"           -> v.e # <<>> /\ Holds(t, v.e[1])
      [] v.t.k # "ptr" /\ (t = v.t \/ t.k = "any") -> TRUE
      [] v.t.k # "ptr" /\ t.k = "ptr"            -> Holds(t.of[1], v)
      [] OTHER ->
    CASE v.t.k \in NumberKinds -> Fits(v.n, t.k) \/ t.k = "string"
      [] v.t.k = "time"        -> v.n % 2 = 0 /\ t.k \in {"int", "int64", "string"}
      [] v.t.k = "slice"       -> t.k = "slice" /\ \A i \in DOMAIN v.e : Holds(t.of[1], v.e[i])
      [] v.t.k = "struct"      ->
            /\ t.k = "struct"
            /\ \A i \in DOMAIN v.e :
                  \E j \in DOMAIN t.names : t.names[j] = v.t.names[i] /\ Holds(t.of[j], v.e[i])
      [] OTHER                 -> FALSE

(* A number between two floats: it moves by half their distance at most, or *)
(* is rounded to the first integer above the type, which amd64 makes the    *)
(* least one.                                                               *)
Moved(n, m) ==
    /\ Rounded(n) # n
    /\ \/ 2 * Abs(m - n) <= Gap(n)
       \/ arch = "amd64" /\ Rounded(n) = 2 * IntTop /\ m = -2 * IntTop

(* What becomes of a value. *)
RECURSIVE Near(_, _)
Near(v, w) ==
    /\ v.t = w.t /\ v.c = w.c /\ v.keys = w.keys
    /\ v.n = w.n \/ (v.t.k \in NumberKinds /\ Moved(v.n, w.n))
    /\ DOMAIN v.e = DOMAIN w.e /\ \A i \in DOMAIN v.e : Near(v.e[i], w.e[i])

(* A value copied into a type that can hold it, over whatever was there,   *)
(* and copied back is the value it was: no sign, no text and no field is    *)
(* lost on the way through texts, times and names, and no number that has a *)
(* float64.  An integer that has none (beyond 2^53) loses its last digits   *)
(* on its way through one even if both types are integers that hold it, and *)
(* at the top of int64 its sign (copy/struct.go:32-129, 313-346).           *)
RoundTrip == back.done /\ Holds(target.t, source) => ~back.err /\ Near(source, back.v)
=============================================================================
