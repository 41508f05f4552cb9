------------------------------ MODULE Request -------------------------------
(***************************************************************************)
(* One HTTP request through the first version's packages on echo v4: the   *)
(* middlewares of loggerw and tracer, in either order or absent, spans,    *)
(* the handler with response.Success, and response.CustomHttpErrorHandler  *)
(* on the errors of response and errow.                                    *)
(*                                                                         *)
(* An id is where it came from: the client, or the package that drew it.   *)
(***************************************************************************)
EXTENDS Integers, Sequences, SequencesExt, FiniteSetsExt

CONSTANTS
    Spans,
    Codes,      \* codes of the errow.ErrorW that handlers return
    Statuses,   \* given to the constructors of response
    MaxEnds     \* bound: records in the trace

ASSUME RequestAssumption ==
    Codes \subseteq Int /\ Statuses \subseteq 200 .. 599 /\ MaxEnds \in Nat

VARIABLES
    order,      \* the middlewares, outermost first
    errMap,     \* mapErrorResponse: DefaultMap or empty
    pc,         \* 1 .. : entering a middleware; "handler", "flush", ...
    header,     \* X-Request-ID: of the client, and as later handlers see it
    requestId,  \* loggerw's id in the context
    traceId,    \* tracer's id in the context; "" outside of a trace
    reply,      \* X-Request-ID, status, error code and bodies of the answer
    err,        \* what the handler returned
    panicked,
    span,       \* the spans, and how often End was called before Flush
    timeline, errCnt,   \* of the trace
    traceLog,   \* what Flush logged, if it did
    accessLog   \* what loggerw's middleware logged

requestVars == <<order, errMap, pc, header, requestId, traceId, reply, err, panicked,
                 span, timeline, errCnt, traceLog, accessLog>>

NoId == ""
NoError == [kind |-> "none"]
NotLogged == [done |-> FALSE]
NewSpan == [open |-> FALSE, failed |-> FALSE, ends |-> [b \in BOOLEAN |-> 0]]

(* MapDefaultErrResponse: the codes it has and the status each stands for.  *)
DefaultMap == [c \in {500000, 440000, 404000, 403000, 401000, 400000} |-> c \div 1000]

Orders == {<<>>, <<"log">>, <<"trace">>, <<"log", "trace">>, <<"trace", "log">>}
ErrMaps == {DefaultMap, [c \in {} |-> 0]}

RequestInit ==
    /\ order \in Orders /\ errMap \in ErrMaps
    /\ pc = "in" /\ header \in {[client |-> id, seen |-> id] : id \in {NoId, "client"}}
    /\ requestId = NoId /\ traceId = NoId
    /\ reply = [id |-> NoId, status |-> 200, code |-> 0, sent |-> FALSE, bodies |-> <<>>]
    /\ err = NoError /\ panicked = FALSE
    /\ span = [s \in Spans |-> NewSpan]
    /\ timeline = <<>> /\ errCnt = 0
    /\ traceLog = NotLogged /\ accessLog = NotLogged

-----------------------------------------------------------------------------
(* The middlewares on the way in. *)

(* Fault: the id is only put into the context. *)
EnsuredNotShown == [ctx |-> IF requestId = NoId THEN "log" ELSE requestId, header |-> header.seen]
(* ensureRequestID looks for the id in the context only; the request's      *)
(* header is set to it.                                                     *)
Ensured == LET id == IF requestId = NoId THEN "log" ELSE requestId
           IN  [ctx |-> id, header |-> id]

EnterLog ==
    /\ requestId' = Ensured.ctx /\ header' = [header EXCEPT !.seen = Ensured.header]
    /\ reply' = [reply EXCEPT !.id = Ensured.ctx]
    /\ UNCHANGED traceId

(* tracer takes the header's id, if there is one. *)
TraceId == IF header.seen = NoId THEN "trace" ELSE header.seen

EnterTrace ==
    /\ traceId' = TraceId /\ reply' = [reply EXCEPT !.id = TraceId]
    /\ UNCHANGED <<header, requestId>>

MiddlewaresIn ==
    /\ pc = "in"
    /\ IF order = <<>> THEN pc' = "handler" /\ UNCHANGED <<header, requestId, traceId, reply>>
       ELSE /\ IF Head(order) = "log" THEN EnterLog ELSE EnterTrace
            /\ pc' = IF Len(order) = 2 THEN "in2" ELSE "handler"
    /\ UNCHANGED <<order, errMap, err, panicked, span, timeline, errCnt, traceLog, accessLog>>

SecondIn ==
    /\ pc = "in2" /\ pc' = "handler"
    /\ IF order[2] = "log" THEN EnterLog ELSE EnterTrace
    /\ UNCHANGED <<order, errMap, err, panicked, span, timeline, errCnt, traceLog, accessLog>>

-----------------------------------------------------------------------------
(* Spans, also in goroutines that outlive the handler.  Without a trace a   *)
(* span belongs to one of its own, which is never logged: it is left out.   *)

Traced == traceId # NoId

StartSpan(s) ==
    /\ pc \notin {"in", "in2"} /\ Traced /\ ~span[s].open
    /\ span' = [span EXCEPT ![s].open = TRUE]
    /\ UNCHANGED <<order, errMap, pc, header, requestId, traceId, reply, err, panicked,
                   timeline, errCnt, traceLog, accessLog>>

FailSpan(s) ==
    /\ span[s].open
    /\ span' = [span EXCEPT ![s].failed = TRUE]
    /\ UNCHANGED <<order, errMap, pc, header, requestId, traceId, reply, err, panicked,
                   timeline, errCnt, traceLog, accessLog>>

(* End does not look whether it was called before: every call records.      *)
Ends(s) ==
    /\ span[s].open /\ Len(timeline) < MaxEnds
    /\ span' = IF traceLog.done THEN span ELSE [span EXCEPT ![s].ends[span[s].failed] = @ + 1]
    /\ errCnt' = IF span[s].failed THEN errCnt + 1 ELSE errCnt
    /\ UNCHANGED <<order, errMap, pc, header, requestId, traceId, reply, err, panicked,
                   traceLog, accessLog>>
Recorded(s) == [span |-> s, failed |-> span[s].failed]

(* Fault: a failed span is counted but not recorded. *)
EndSpanFailedUnrecorded(s) ==
    Ends(s) /\ timeline' = IF span[s].failed THEN timeline ELSE Append(timeline, Recorded(s))
EndSpan(s) == Ends(s) /\ timeline' = Append(timeline, Recorded(s))

-----------------------------------------------------------------------------
(* The handler. *)

(* What a handler may return: an ErrorW, wrapped or not; an ErrorResponse,  *)
(* around any error or nil, with the status and the code that HTTPError was *)
(* given or that another constructor chose (the code is then that of an     *)
(* ErrorW inside); an error of echo's, of the validation, or any other.     *)
Errors ==
    {[kind |-> "errorw", code |-> c] : c \in Codes} \cup
    [kind : {"response"}, status : Statuses, code : Codes,
     inner : {"errorw", "echo404", "validation", "plain", "nil"}] \cup
    {[kind |-> k] : k \in {"echo404", "validation", "plain"}}

(* SuccessOK, SuccessCreated or an answer of its own went out, before the   *)
(* error maybe. *)
Return(e, wrote) ==
    /\ pc = "handler" /\ pc' = "out"
    /\ err' = e
    /\ reply' = IF wrote = 0 THEN reply
                ELSE [reply EXCEPT !.sent = TRUE, !.status = wrote, !.bodies = <<"success">>]
    /\ (e = NoError) => wrote # 0
    /\ UNCHANGED <<order, errMap, header, requestId, traceId, panicked, span, timeline,
                   errCnt, traceLog, accessLog>>

(* The Recover of echo that applications put first turns a panic into an    *)
(* error; middlewares inside of it see none of their code run but defers.   *)
Panics ==
    /\ pc = "handler" /\ pc' = "out" /\ panicked' = TRUE
    /\ UNCHANGED <<order, errMap, header, requestId, traceId, reply, err, span, timeline,
                   errCnt, traceLog, accessLog>>

-----------------------------------------------------------------------------
(* The way out. *)

Level == IF err # NoError THEN "error" ELSE IF errCnt > 0 THEN "warn" ELSE "info"

(* Flush logs a copy made under the lock.  WireLogger gives the line the    *)
(* request's id, or else the trace's.                                       *)
Flush ==
    traceLog' = [done |-> TRUE, level |-> Level, spans |-> timeline, errors |-> errCnt,
                 id |-> traceId,
                 line |-> IF order = <<"log", "trace">> THEN requestId ELSE traceId]

(* The status of the reply is 200 until an answer goes out.  A panic passes *)
(* loggerw by.                                                              *)
LogAccess ==
    accessLog' = IF panicked THEN NotLogged
                 ELSE [done |-> TRUE, status |-> reply.status, id |-> requestId]

MiddlewaresOut ==
    /\ pc = "out" /\ pc' = IF Len(order) = 2 THEN "out2" ELSE "answer"
    /\ IF order # <<>> /\ Last(order) = "trace" THEN Flush ELSE UNCHANGED traceLog
    /\ IF order # <<>> /\ Last(order) = "log" THEN LogAccess ELSE UNCHANGED accessLog
    /\ UNCHANGED <<order, errMap, header, requestId, traceId, reply, err, panicked, span,
                   timeline, errCnt>>

SecondOut ==
    /\ pc = "out2" /\ pc' = "answer"
    /\ IF order[1] = "trace" THEN Flush /\ UNCHANGED accessLog ELSE LogAccess /\ UNCHANGED traceLog
    /\ UNCHANGED <<order, errMap, header, requestId, traceId, reply, err, panicked, span,
                   timeline, errCnt>>

(* ConvertError tries the keys in descending order. *)
KeyFor(code) == Max({k \in DOMAIN errMap : code >= k})
Converted(e) ==
    IF e.kind = "errorw" /\ \E k \in DOMAIN errMap : e.code >= k
    THEN [kind |-> "response", status |-> errMap[KeyFor(e.code)], code |-> e.code, inner |-> "errorw"]
    ELSE e

(* Fault: a validation error keeps the status of its wrapper. *)
ResponseOfKeepsStatus(e) ==
    LET c == Converted(e) IN
    IF c.kind = "response" THEN c ELSE [kind |-> "response", status |-> 500, code |-> 500000, inner |-> c.kind]
(* The ErrorResponse that is sent: 500 for what is none; then what is       *)
(* inside may still make it a 404 or 400.                                   *)
ResponseOf(e) ==
    LET c == Converted(e)
        r == IF c.kind = "response" THEN c
             ELSE [kind |-> "response", status |-> 500, code |-> 500000, inner |-> c.kind]
    IN  CASE r.inner = "echo404"    -> [r EXCEPT !.status = 404, !.code = 404000]
          [] r.inner = "validation" -> [r EXCEPT !.status = 400, !.code = 400000]
          [] OTHER                  -> r

(* CustomHttpErrorHandler.  loggerw's Error calls Error of the inner error, *)
(* and panics if that is nil: nothing is sent and the connection is closed. *)
HandleError(e) ==
    LET r == ResponseOf(e) IN
    IF r.inner = "nil" THEN pc' = "aborted" /\ UNCHANGED reply
    ELSE /\ pc' = "done"
         /\ reply' = [reply EXCEPT !.status = IF reply.sent THEN @ ELSE r.status,
                                   !.code = r.code, !.sent = TRUE, !.bodies = Append(@, "error")]

Answer ==
    /\ pc = "answer"
    /\ IF panicked THEN HandleError([kind |-> "plain"])
       ELSE IF err # NoError THEN HandleError(err)
       ELSE pc' = "done" /\ UNCHANGED reply
    /\ UNCHANGED <<order, errMap, header, requestId, traceId, err, panicked, span, timeline,
                   errCnt, traceLog, accessLog>>

RequestNext ==
    \/ MiddlewaresIn \/ SecondIn \/ Panics \/ MiddlewaresOut \/ SecondOut \/ Answer
    \/ \E e \in Errors \cup {NoError}, wrote \in {0, 200, 201} : Return(e, wrote)
    \/ \E s \in Spans : StartSpan(s) \/ FailSpan(s) \/ EndSpan(s)

RequestSpec == RequestInit /\ [][RequestNext]_requestVars

-----------------------------------------------------------------------------
(* Properties. *)

(* With loggerw outside of tracer, the request's header, both contexts, the *)
(* answer and both log lines have one id.  The access log has the status    *)
(* that went out, or the 200 of an answer that had not begun, of a request  *)
(* whose error is still to be answered (middleware.go:48).                  *)
LogsAgree ==
    /\ accessLog.done /\ pc = "done" =>
          \/ accessLog.status = reply.status
          \/ accessLog.status = 200 /\ err # NoError /\ reply.bodies = <<"error">>
    /\ order = <<"log", "trace">> /\ pc \notin {"in", "in2"} =>
          /\ {header.seen, requestId, traceId, reply.id} = {requestId}
          /\ traceLog.done => {traceLog.id, traceLog.line} = {requestId}
          /\ accessLog.done => accessLog.id = requestId

(* trace.go:122 and 145: the one line of a trace has one record for each    *)
(* call of End before it, as a failure if Fail had been called before, and  *)
(* no other: a span that is ended twice is there twice, and one that is not *)
(* ended in time is not there.  It counts the failures among its records.   *)
(* Its level is an error's if and only if an error is answered, except      *)
(* after a panic, which Flush does not see (echo_middleware.go:38); failed  *)
(* spans make a warning.                                                    *)
RecordsOf(spans, s, failed) == {i \in DOMAIN spans : spans[i] = [span |-> s, failed |-> failed]}
FailedIn(spans) == {i \in DOMAIN spans : spans[i].failed}

TraceIsWhole ==
    traceLog.done =>
        /\ \A s \in Spans, b \in BOOLEAN :
              Cardinality(RecordsOf(traceLog.spans, s, b)) = span[s].ends[b]
        /\ traceLog.errors = Cardinality(FailedIn(traceLog.spans))
        /\ traceLog.level = "info" => traceLog.errors = 0
        /\ pc = "done" /\ ~panicked =>
              (traceLog.level = "error" <=> "error" \in ToSet(reply.bodies))

(* echo_error.go:262: an ErrorW is answered with a status not below that of *)
(* any code of the map its own code reaches, and with 500 if it reaches     *)
(* none.  An ErrorResponse keeps the status and the code it was made with,  *)
(* whatever ErrorW is inside of it, but for echo's 404 and the validation's *)
(* 400, which come before it.  So an error is answered as a success only    *)
(* where a handler sent one before, or gave HTTPError such a status.        *)
ErrorsAreAnswered ==
    LET reached == {k \in DOMAIN errMap : err.code >= k}
        inside == IF err.kind = "response" THEN err.inner ELSE err.kind
    IN  pc = "done" /\ err # NoError /\ reply.bodies = <<"error">> =>
            /\ reply.status < 400 => err.kind = "response" /\ err.status = reply.status
            /\ inside \in {"echo404", "validation"} =>
                  reply.status = (IF inside = "echo404" THEN 404 ELSE 400) /\ reply.code = 1000 * reply.status
            /\ err.kind = "response" /\ inside \in {"errorw", "plain"} =>
                  reply.status = err.status /\ reply.code = err.code
            /\ err.kind = "errorw" => \A k \in reached : reply.status >= errMap[k]
            /\ err.kind = "errorw" /\ reached # {} => reply.code = err.code
            /\ err.kind = "errorw" /\ reached = {} => reply.status = 500 /\ reply.code = 500000

-----------------------------------------------------------------------------
(* The inductive invariant. *)

Ids == {NoId, "client", "log", "trace"}
Replies == [id : Ids, status : Nat, code : Int, sent : BOOLEAN,
            bodies : {<<>>, <<"success">>, <<"error">>, <<"success", "error">>}]
Spanned == [open : BOOLEAN, failed : BOOLEAN, ends : [BOOLEAN -> Nat]]
Records == [span : Spans, failed : BOOLEAN]

RequestTypes ==
    /\ order \in Orders /\ errMap \in ErrMaps
    /\ pc \in {"in", "in2", "handler", "out", "out2", "answer", "done", "aborted"}
    /\ header \in [client : Ids, seen : Ids] /\ requestId \in Ids /\ traceId \in Ids
    /\ reply \in Replies
    /\ err \in Errors \cup {NoError} /\ panicked \in BOOLEAN
    /\ span \in [Spans -> Spanned]
    /\ traceLog.done \in BOOLEAN /\ accessLog.done \in BOOLEAN

HasTrace == order \in {<<"trace">>, <<"log", "trace">>, <<"trace", "log">>}

(* Whose id is where, as far as the middlewares have run. *)
IdInv ==
    /\ pc \in {"in2", "out2"} => Len(order) = 2
    /\ HasTrace /\ pc \notin {"in", "in2"} => Traced
    /\ order = <<"trace", "log">> /\ pc = "in2" => Traced
    /\ order = <<"log", "trace">> =>
          /\ pc # "in" => requestId # NoId /\ header.seen = requestId /\ reply.id = requestId
          /\ pc \notin {"in", "in2"} => traceId = requestId
          /\ traceLog.done => traceLog.id = requestId /\ traceLog.line = requestId
          /\ accessLog.done => accessLog.id = requestId

Whole(spans, errors) ==
    /\ spans \in Seq(Records)
    /\ \A s \in Spans, b \in BOOLEAN : Cardinality(RecordsOf(spans, s, b)) = span[s].ends[b]
    /\ errors = Cardinality(FailedIn(spans))

(* The timeline is whole until it is flushed, and what was flushed from     *)
(* then on: spans end late.                                                 *)
TimelineInv ==
    /\ pc \in {"in", "in2"} => \A s \in Spans : ~span[s].open
    /\ HasTrace /\ ~traceLog.done => Whole(timeline, errCnt)
    /\ traceLog.done =>
          /\ HasTrace /\ pc \in {"out2", "answer", "done", "aborted"}
          /\ pc = "out2" => order = <<"log", "trace">>
          /\ Whole(traceLog.spans, traceLog.errors)
          /\ traceLog.level = IF err # NoError THEN "error"
                              ELSE IF traceLog.errors > 0 THEN "warn" ELSE "info"

(* What has gone out, and what is left to be answered. *)
ReplyInv ==
    /\ pc \in {"in", "in2", "handler"} => err = NoError /\ ~panicked /\ ~reply.sent
    /\ panicked => err = NoError
    /\ pc # "done" => /\ reply.bodies = IF reply.sent THEN <<"success">> ELSE <<>>
                      /\ reply.sent \/ reply.status = 200
    /\ pc \in {"out", "out2", "answer"} /\ err = NoError /\ ~panicked => reply.sent
    /\ pc = "done" /\ ~panicked =>
          IF err = NoError THEN reply.bodies = <<"success">>
          ELSE \/ /\ reply.bodies = <<"error">>
                  /\ reply.status = ResponseOf(err).status /\ reply.code = ResponseOf(err).code
               \/ reply.bodies = <<"success", "error">>
    /\ accessLog.done =>
          /\ ~panicked /\ pc \in {"out2", "answer", "done", "aborted"}
          /\ \/ accessLog.status = reply.status
             \/ pc = "done" /\ accessLog.status = 200 /\ err # NoError /\ reply.bodies = <<"error">>

RequestInv == RequestTypes /\ IdInv /\ TimelineInv /\ ReplyInv
=============================================================================
