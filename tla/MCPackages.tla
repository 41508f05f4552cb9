----------------------------- MODULE MCPackages -----------------------------
(* Packages that work in their callers' goroutines and know nothing of one  *)
(* another, one at a time: Web (v2/httpw), Request (the older middlewares), *)
(* StateMachine, Storage and Copy.                                          *)
EXTENDS Web, Request, StateMachine, Storage, Copy

VARIABLE side

(* Types and values that meet every rule of Copy.  Integers have six bits,  *)
(* and floats four significant ones, so that some integers are between two  *)
(* floats, and the largest is rounded up beyond the range.                  *)
V(k, n, c) == Value(Type(k), n, c, <<>>)
List(k, t, e) == Value(Of(k, <<t>>), 0, "", e)
NullText == [Of("null", <<Type("string")>>) EXCEPT !.names = <<>>]
Pair == Of("array", <<Type("int"), Type("int")>>)
Row == Struct(<<Type("int8"), Type("string")>>, <<<<"id">>, <<"title", "name">>>>)
Record == Struct(<<Type("float64"), Type("time"), Type("string")>>,
                 <<<<"id">>, <<"at">>, <<"title", "name">>>>)

MCTypes ==
    {Type(k) : k \in {"int", "int64", "int8", "uint8", "float64", "string", "bool", "time", "any"}}
        \cup {Of("ptr", <<Type("int")>>), Of("slice", <<Type("int8")>>), Of("slice", <<Type("float64")>>)}
        \cup {Pair, Of("map", <<Type("int")>>), Of("map", <<Type("any")>>), Row, Record}

MCValues ==
    {V("int", n, "") : n \in {-64, -2, 0, 2, 34, 62}} \cup {V("int64", 62, ""), V("uint8", 14, "")}
        \cup {V("int8", n, "") : n \in {-8, 6}} \cup {V("float64", n, "") : n \in {-3, 60, 64}}
        \cup {V("string", 2, c) : c \in {"digits", "rfc3339", "bool", "json", "bad json", "text"}}
        \cup {V("string", 3, "digits"), V("bool", 2, ""), V("time", 4, ""), V("time", 5, "")}
        \cup {List("ptr", Type("int"), <<>>), List("ptr", Type("int"), <<V("int", 10, "")>>)}
        \cup {Value(NullText, 0, "null", <<V("string", 0, "text")>>),
              Value(NullText, 0, "", <<V("string", 2, "digits")>>)}
        \cup {List("slice", Type("int8"), <<V("int8", -4, ""), V("int8", 6, "")>>),
              List("slice", Type("float64"), <<V("float64", 3, "")>>),
              List("slice", Type("any"), <<Boxed(V("int", 4, "")), Boxed(V("string", 0, "text"))>>),
              List("slice", Type("string"), <<V("string", 2, "digits"), V("string", 0, "text")>>),
              Value(Pair, 0, "", <<V("int", 2, ""), V("int", 4, "")>>)}
        \cup {Map(Of("map", <<Type("string")>>), <<"name", "id">>, <<V("string", 0, "text"), V("string", 2, "digits")>>),
              Map(Of("map", <<Type("any")>>), <<"id">>, <<Boxed(V("int", 4, ""))>>),
              Map(Of("map", <<Type("int")>>), <<"id">>, <<V("int", 4, "")>>)}
        \cup {Value(Row, 0, "", <<V("int8", -6, ""), V("string", 0, "text")>>),
              Value(Record, 0, "", <<V("float64", 6, ""), V("time", 4, ""), V("string", 0, "text")>>)}

WebRests == WebInit /\ fw = "echow"
RequestRests == RequestInit /\ order = <<>> /\ errMap = DefaultMap /\ header.client = NoId
StorageRests == StorageInit /\ provider = "awsw"
CopyRests == CopyInit /\ arch = "amd64" /\ source = V("int", 0, "") /\ target = source

AloneInit ==
    /\ side \in {"web", "request", "machine", "storage", "copy"}
    /\ IF side = "web" THEN WebInit ELSE WebRests
    /\ IF side = "request" THEN RequestInit ELSE RequestRests
    /\ IF side = "storage" THEN StorageInit ELSE StorageRests
    /\ IF side = "copy" THEN CopyInit ELSE CopyRests
    /\ FsmInit

AloneNext ==
    /\ UNCHANGED side
    /\ \/ side = "web" /\ WebNext /\ UNCHANGED <<requestVars, fsmVars, storageVars, copyVars>>
       \/ side = "request" /\ RequestNext /\ UNCHANGED <<webVars, fsmVars, storageVars, copyVars>>
       \/ side = "machine" /\ FsmNext /\ UNCHANGED <<webVars, requestVars, storageVars, copyVars>>
       \/ side = "storage" /\ StorageNext /\ UNCHANGED <<webVars, requestVars, fsmVars, copyVars>>
       \/ side = "copy" /\ CopyNext /\ UNCHANGED <<webVars, requestVars, fsmVars, storageVars>>

AloneSpec == AloneInit /\ [][AloneNext]_<<side, webVars, requestVars, fsmVars, storageVars, copyVars>>
=============================================================================
