-------------------------------- MODULE Web ---------------------------------
(***************************************************************************)
(* How an HTTP request is answered through v2/httpw: echow, ginw and muxw, *)
(* with responsew and statusw.  The initial state chooses the framework.   *)
(* Routers are built, and requests are handled, concurrently.              *)
(*                                                                         *)
(* An answer is the status that went out and the bodies written one behind *)
(* the other; its texts are left out, except for who set a field of an     *)
(* error's payload.                                                        *)
(***************************************************************************)
EXTENDS Integers, Sequences, FiniteSetsExt

CONSTANTS
    Routers, Requests,
    Fields,         \* of a statusw.Error that With* sets
    LogicalCodes,   \* of the errors that handlers return
    FileChunks      \* bound: chunks of a file

ASSUME WebAssumption == FileChunks \in Nat /\ LogicalCodes \subseteq Int

VARIABLES
    fw,             \* "echow", "ginw" or "muxw"
    built,          \* routers New has made
    own,            \* those whose Config has an ErrorHandler
    global,         \* globalErrorHandler of muxw: a router, or "none"
    template,       \* the predefined error: who set each field
    req             \* the requests

webVars == <<fw, built, own, global, template, req>>

NoErr == [kind |-> "none"]
NewRequest == [pc |-> "new", router |-> "none", err |-> NoErr, set |-> {}, sent |-> 0,
               bodies |-> <<>>, logged |-> 0, by |-> "none", cut |-> FALSE]

WebInit ==
    /\ fw \in {"echow", "ginw", "muxw"}
    /\ built = {} /\ own = {} /\ global = "none"
    /\ template = [f \in Fields |-> "template"]
    /\ req = [q \in Requests |-> NewRequest]

Goto(q, pc) == req' = [req EXCEPT ![q].pc = pc]
At(q, pc) == req[q].pc = pc

(* New: muxw keeps the handler, or that there is none, for all its routers. *)
New(r, custom) ==
    /\ r \notin built /\ built' = built \cup {r}
    /\ own' = IF custom THEN own \cup {r} ELSE own
    /\ global' = IF fw = "muxw" THEN (IF custom THEN r ELSE "none") ELSE global
    /\ UNCHANGED <<fw, template, req>>

-----------------------------------------------------------------------------
(* The handler of the application. *)

(* A route that is not there: gin and mux answer by themselves, mux without *)
(* its middleware; echo's error goes the way of every other.                *)
Enter(q, r, found) ==
    /\ At(q, "new") /\ r \in built
    /\ req' = [req EXCEPT ![q] = [@ EXCEPT
            !.router = r,
            !.pc = IF found THEN "handling" ELSE IF fw = "echow" THEN "failed" ELSE "done",
            !.err = IF found THEN NoErr ELSE [kind |-> "plain"],
            !.sent = IF found \/ fw = "echow" THEN 0 ELSE 404,
            !.bodies = IF found \/ fw = "echow" THEN <<>> ELSE <<"error">>,
            !.logged = IF ~found /\ fw = "ginw" THEN 404 ELSE 0]]
    /\ UNCHANGED <<fw, built, own, global, template>>

(* The handler takes the predefined error ... *)
TakeTemplate(q, code) ==
    /\ At(q, "handling")
    /\ req' = [req EXCEPT ![q].pc = "deriving",
                          ![q].err = [kind |-> "status", code |-> code, fields |-> template,
                                      encodes |-> TRUE]]
    /\ UNCHANGED <<fw, built, own, global, template>>

(* Fault: With* sets the field in place. *)
WithNoClone(q, f, encodes) ==
    /\ At(q, "deriving") /\ f \notin req[q].set
    /\ req' = [req EXCEPT ![q].err.fields[f] = q, ![q].set = @ \cup {f},
                          ![q].err.encodes = IF f = "data" THEN encodes ELSE @]
    /\ template' = [template EXCEPT ![f] = q]
    /\ UNCHANGED <<fw, built, own, global>>
(* ... and derives its own from it: With* sets a field of a clone.  What    *)
(* WithData is given may be of a type that JSON cannot express.             *)
With(q, f, encodes) ==
    /\ At(q, "deriving") /\ f \notin req[q].set
    /\ req' = [req EXCEPT ![q].err.fields[f] = q, ![q].set = @ \cup {f},
                          ![q].err.encodes = IF f = "data" THEN encodes ELSE @]
    /\ UNCHANGED <<fw, built, own, global, template>>

ReturnError(q) ==
    /\ At(q, "deriving") /\ Goto(q, "failed")
    /\ UNCHANGED <<fw, built, own, global, template>>
ReturnPlain(q) ==
    /\ At(q, "handling")
    /\ req' = [req EXCEPT ![q].pc = "failed", ![q].err = [kind |-> "plain"]]
    /\ UNCHANGED <<fw, built, own, global, template>>

(* A panic of the handler, or of the reader of a file. *)
Panic(q) ==
    /\ At(q, "handling") \/ At(q, "streaming")
    /\ req' = [req EXCEPT ![q].pc = "panic", ![q].err = [kind |-> "plain"],
                          ![q].cut = req[q].sent # 0]
    /\ UNCHANGED <<fw, built, own, global, template>>

-----------------------------------------------------------------------------
(* ApiWrap: what becomes of the data. *)

(* The whole value is encoded before a byte is written.  A value that does  *)
(* not encode is an error in echow and ginw, and nothing but the status in  *)
(* muxw, which drops what Encode returns.                                   *)
WriteValue(q, encodes) ==
    /\ At(q, "handling")
    /\ req' = IF encodes \/ fw = "muxw"
              THEN [req EXCEPT ![q] = [@ EXCEPT !.pc = "out", !.sent = 200, !.cut = ~encodes,
                                                !.bodies = IF encodes THEN <<"value">> ELSE <<>>]]
              ELSE [req EXCEPT ![q] = [@ EXCEPT !.pc = "failed", !.err = [kind |-> "plain"]]]
    /\ UNCHANGED <<fw, built, own, global, template>>

(* A file is streamed.  Only echow sends the status before the first chunk. *)
WriteFile(q) ==
    /\ At(q, "handling")
    /\ req' = [req EXCEPT ![q] = [@ EXCEPT !.pc = "streaming",
                                           !.sent = IF fw = "echow" THEN 200 ELSE 0]]
    /\ UNCHANGED <<fw, built, own, global, template>>

Committed(q) == IF req[q].sent = 0 THEN 200 ELSE req[q].sent
Chunk(q) ==
    /\ At(q, "streaming") /\ Len(req[q].bodies) < FileChunks
    /\ req' = [req EXCEPT ![q].sent = Committed(q), ![q].bodies = Append(@, "chunk")]
    /\ UNCHANGED <<fw, built, own, global, template>>
EndOfFile(q) ==
    /\ At(q, "streaming")
    /\ req' = [req EXCEPT ![q].pc = "out", ![q].sent = Committed(q)]
    /\ UNCHANGED <<fw, built, own, global, template>>
(* Reading or writing fails.  muxw drops the error. *)
StreamFails(q) ==
    /\ At(q, "streaming")
    /\ req' = [req EXCEPT ![q] = [@ EXCEPT
                  !.pc = IF fw = "muxw" THEN "out" ELSE "failed",
                  !.err = IF fw = "muxw" THEN req[q].err ELSE [kind |-> "plain"],
                  !.sent = IF fw = "muxw" THEN Committed(q) ELSE req[q].sent,
                  !.cut = fw = "muxw" \/ req[q].sent # 0]]
    /\ UNCHANGED <<fw, built, own, global, template>>

-----------------------------------------------------------------------------
(* Errors. *)

(* A logical code without the digits behind its first three. *)
Lead(code) == Max({d \in {code \div 10^k : k \in 0 .. 9} : d <= 999})

(* responsew.Error: the status of an error. *)
ErrorStatus(err) ==
    IF err.kind = "status" /\ Lead(err.code) \in 100 .. 599 THEN Lead(err.code) ELSE 500

(* The custom handler that will see the error of a request. *)
HandlerFor(q) ==
    IF fw = "muxw" THEN global ELSE IF req[q].router \in own THEN req[q].router ELSE "none"

(* A custom handler answers, but that of ginw may leave it to the default.  *)
CustomAnswers(q, handled) == HandlerFor(q) # "none" /\ (fw = "ginw" => handled)
(* Fault: the default answer follows that of a custom handler. *)
DefaultAnswersToo(q, handled) == TRUE
DefaultAnswers(q, handled) == ~CustomAnswers(q, handled)

Encodes(err) == err.kind = "status" => err.encodes

(* A status that a custom handler uses; whatever went out before, stays. *)
CustomStatus == 422
StatusAfter(q, handled) ==
    CASE req[q].sent # 0                              -> req[q].sent
      [] req[q].sent = 0 /\ CustomAnswers(q, handled) -> CustomStatus
      [] OTHER -> IF fw = "echow" /\ ~Encodes(req[q].err) THEN 200 ELSE ErrorStatus(req[q].err)

BodiesOf(q, handled) ==
    (IF CustomAnswers(q, handled) THEN <<"custom">> ELSE <<>>) \o
    (IF DefaultAnswers(q, handled) /\ Encodes(req[q].err) THEN <<"error">> ELSE <<>>)

(* What the line of the request's log says: echow infers it, muxw has none. *)
LoggedStatus(q, handled) ==
    CASE fw = "echow" -> ErrorStatus(req[q].err)
      [] fw = "ginw"  -> StatusAfter(q, handled)
      [] fw = "muxw"  -> 0

(* muxw looks whether there is a handler ... *)
HandlerIsThere(q) ==
    /\ At(q, "failed") /\ fw = "muxw" /\ global # "none"
    /\ Goto(q, "calling")
    /\ UNCHANGED <<fw, built, own, global, template>>
(* ... and reads it again to call it.  A router made in between may have    *)
(* left none, and the call of nil panics.                                   *)
HandlerIsGone(q) ==
    /\ At(q, "calling") /\ global = "none"
    /\ req' = [req EXCEPT ![q].pc = "panic", ![q].err = [kind |-> "plain"]]
    /\ UNCHANGED <<fw, built, own, global, template>>

(* The error handler writes its answer behind whatever was written before.  *)
AnswerError(q, handled) ==
    /\ \/ At(q, "failed") /\ (fw = "muxw" => global = "none")
       \/ At(q, "calling") /\ global # "none"
    /\ req' = [req EXCEPT ![q] = [@ EXCEPT !.pc = "done", !.by = HandlerFor(q),
                                           !.sent = StatusAfter(q, handled),
                                           !.bodies = req[q].bodies \o BodiesOf(q, handled),
                                           !.logged = LoggedStatus(q, handled)]]
    /\ UNCHANGED <<fw, built, own, global, template>>

(* Recovery is outside of the log.  echow recovers to its error handler,    *)
(* ginw to a status, muxw not at all: the connection is closed.             *)
Recover(q) ==
    /\ At(q, "panic")
    /\ req' = [req EXCEPT ![q] =
            CASE fw = "echow" -> [@ EXCEPT !.pc = "done", !.by = HandlerFor(q),
                                           !.sent = StatusAfter(q, TRUE),
                                           !.bodies = req[q].bodies \o BodiesOf(q, TRUE)]
              [] fw = "ginw"  -> [@ EXCEPT !.pc = "done",
                                           !.sent = IF req[q].sent = 0 THEN 500 ELSE req[q].sent]
              [] fw = "muxw"  -> [@ EXCEPT !.pc = "aborted"]]
    /\ UNCHANGED <<fw, built, own, global, template>>

(* The handler returned nil: the line of the log. *)
Out(q) ==
    /\ At(q, "out")
    /\ req' = [req EXCEPT ![q].pc = "done", ![q].logged = IF fw = "muxw" THEN 0 ELSE 200]
    /\ UNCHANGED <<fw, built, own, global, template>>

WebNext ==
    \/ \E r \in Routers, custom \in BOOLEAN : New(r, custom)
    \/ \E q \in Requests :
          \/ \E r \in built, found \in BOOLEAN : Enter(q, r, found)
          \/ \E code \in LogicalCodes : TakeTemplate(q, code)
          \/ \E f \in Fields, encodes \in BOOLEAN : With(q, f, encodes)
          \/ \E encodes \in BOOLEAN : WriteValue(q, encodes)
          \/ ReturnError(q) \/ ReturnPlain(q) \/ Panic(q)
          \/ WriteFile(q) \/ Chunk(q) \/ EndOfFile(q) \/ StreamFails(q)
          \/ HandlerIsThere(q) \/ HandlerIsGone(q)
          \/ \E handled \in BOOLEAN : AnswerError(q, handled)
          \/ Recover(q) \/ Out(q)

WebSpec == WebInit /\ [][WebNext]_webVars

-----------------------------------------------------------------------------
(* Properties. *)

(* statusw/status.go:54: the payload of an error has the fields its request *)
(* set and is otherwise the predefined one's, whatever other requests       *)
(* derive from it meanwhile.                                                *)
PayloadIsOwn ==
    \A q \in Requests :
        req[q].err.kind = "status" =>
            \A f \in Fields :
                req[q].err.fields[f] = IF f \in req[q].set THEN q ELSE "template"

OnlyChunks(r) == \A i \in DOMAIN r.bodies : r.bodies[i] = "chunk"
(* Pieces of a file, and behind them what an error handler wrote. *)
ChunksAndHandler(r) ==
    /\ r.bodies # <<>> /\ r.bodies[Len(r.bodies)] \in {"error", "custom"}
    /\ \A i \in 1 .. Len(r.bodies) - 1 : r.bodies[i] = "chunk"

(* The handler's data.  Only muxw goes on when it does not encode (mux.go:  *)
(* 97) or its stream fails (mux.go:102).                                    *)
DataAnswered(r) ==
    /\ r.sent = 200
    /\ (r.bodies = <<"value">> /\ ~r.cut) \/ (OnlyChunks(r) /\ (r.cut => fw = "muxw"))

(* An error or a panic before anything went out.  A payload that does not   *)
(* encode leaves an empty answer, as gin's recovery does.                   *)
ErrorAnswered(r) ==
    CASE r.bodies = <<>> -> ~Encodes(r.err) \/ (fw = "ginw" /\ r.sent = 500)
      [] r.bodies = <<"custom">> ->
            /\ r.sent = CustomStatus
            /\ IF fw = "muxw" THEN r.by \in built ELSE r.by = r.router
      [] OTHER ->
            /\ r.bodies = <<"error">>
            /\ r.sent = IF r.err.kind = "status" THEN ErrorStatus(r.err)
                        ELSE IF fw # "echow" /\ r.sent = 404 THEN 404 ELSE 500

(* One afterwards: the status is out, and the answer of one handler follows *)
(* the pieces of the file, except where gin recovers.                       *)
CutAnswered(r) == r.sent = 200 /\ (ChunksAndHandler(r) \/ (fw = "ginw" /\ OnlyChunks(r)))

Answered(r) ==
    /\ r.pc = "done" =>
          CASE r.err.kind = "none"              -> DataAnswered(r)
            [] r.err.kind # "none" /\ ~r.cut   -> ErrorAnswered(r)
            [] r.err.kind # "none" /\ r.cut    -> CutAnswered(r)
    /\ r.pc = "aborted" => fw = "muxw" /\ OnlyChunks(r)

LogIsRight(r) ==
    r.pc = "done" /\ r.logged # 0 =>
        /\ fw = "echow" /\ r.err.kind # "none" => r.logged = ErrorStatus(r.err)
        /\ (fw = "echow" => r.by = "none" /\ ~r.cut /\ Encodes(r.err)) => r.logged = r.sent

(* A request that is done was answered once: with its value or the pieces   *)
(* of its file and 200, or by one error handler with the status of the      *)
(* error.  In echow and ginw that handler is the one of its own router.  An *)
(* error after the first piece of a file went out (echo.go:118, gin.go:103) *)
(* leaves the 200 and adds the answer of one handler behind the pieces; in  *)
(* muxw it is dropped, and so is a value that does not encode.  A request   *)
(* that is done without any answer is one whose connection muxw closed, on  *)
(* a panic.  The log names the status of the error; that is the status the  *)
(* client was sent in ginw always, and in echow unless a custom handler     *)
(* answers, the answer had begun or does not encode (echo.go:75).           *)
AnsweredOnce == \A q \in Requests : Answered(req[q]) /\ LogIsRight(req[q])

(* mux.go:20 says that the ErrorHandler of a router's Config overrides the  *)
(* default response to an error: an error that a handler returned is        *)
(* answered by the ErrorHandler of the request's own router, and by the     *)
(* default one if that has none.                                            *)
OwnHandlerAnswers ==
    \A q \in Requests :
        req[q].pc = "done" /\ req[q].err.kind = "status" =>
            req[q].by = IF req[q].router \in own THEN req[q].router ELSE "none"

-----------------------------------------------------------------------------
(* The inductive invariant. *)

PlainErr == [kind |-> "plain"]
StatusErrs == [kind : {"status"}, code : Int, fields : [Fields -> Requests \cup {"template"}],
               encodes : BOOLEAN]
Pieces == {"value", "chunk", "custom", "error"}
Answers == [pc : {"new", "handling", "deriving", "streaming", "failed", "calling", "panic", "out", "done", "aborted"},
            router : Routers \cup {"none"}, err : {NoErr, PlainErr} \cup StatusErrs,
            set : SUBSET Fields, sent : Nat, bodies : Seq(Pieces), logged : Nat,
            by : Routers \cup {"none"}, cut : BOOLEAN]

OwnFields(q, r) ==
    r.err \in StatusErrs =>
        r.err.fields = [f \in Fields |-> IF f \in r.set THEN q ELSE "template"]

(* How far the answer is: nothing goes out before the handler has decided,  *)
(* and what had gone out when an error came makes it one that is cut.       *)
StageInv(r) ==
    LET unanswered == r.logged = 0 /\ r.by = "none" IN
    /\ r.pc \in {"new", "handling"} => r.set = {}
    /\ r.pc \in {"new", "handling", "deriving", "streaming"} => ~r.cut
    /\ r.pc \in {"new", "handling", "streaming", "out"} => r.err = NoErr
    /\ r.pc \in {"new", "handling", "deriving"} => r.sent = 0 /\ r.bodies = <<>>
    /\ r.pc \notin {"done", "aborted"} => unanswered
    /\ r.pc # "new" => r.router \in built
    /\ r.pc = "deriving" => r.err \in StatusErrs
    /\ r.pc = "streaming" => r.sent \in {0, 200} /\ OnlyChunks(r) /\ (r.sent = 0 => r.bodies = <<>>)
    /\ r.pc \in {"failed", "calling", "panic"} =>
          /\ r.err # NoErr /\ r.sent \in {0, 200} /\ OnlyChunks(r)
          /\ IF r.sent = 0 THEN r.bodies = <<>> /\ ~r.cut ELSE r.cut /\ r.err = PlainErr
    /\ r.pc = "panic" => r.err = PlainErr
    /\ r.pc = "out" => DataAnswered(r)

WebInv ==
    /\ fw \in {"echow", "ginw", "muxw"}
    /\ template = [f \in Fields |-> "template"]
    /\ built \subseteq Routers /\ own \subseteq built /\ global \in built \cup {"none"}
    /\ req \in [Requests -> Answers]
    /\ \A q \in Requests : OwnFields(q, req[q]) /\ StageInv(req[q])
                         /\ Answered(req[q]) /\ LogIsRight(req[q])
=============================================================================
