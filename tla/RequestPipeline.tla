-------------------------- MODULE RequestPipeline --------------------------
(***************************************************************************)
(* One HTTP request on its way through the middlewares, the route and its  *)
(* transaction, and back.  A layer that answers starts a response that     *)
(* passes the layers outside it, each of which adds its headers or takes   *)
(* note of the status; an exception passes the same layers.                *)
(***************************************************************************)
EXTENDS ErrorMapping

CONSTANTS
    BodyLimit, UploadLimit,   \* max_request_body_bytes of the api and of documents
    MaxBody,                  \* bound on the size of a body
    Readers,                  \* who reads the body of a request, see Reader
    LateExits                 \* a subset of BOOLEAN: do dependencies exit after the response?

\* Bodies are read by the framework for its routes, by an endpoint itself (no
\* route of the application does), or by nobody when the route takes none.
Reader == {"framework", "raw", "nobody"}

ASSUME LimitAssumption ==
    /\ {BodyLimit, UploadLimit, MaxBody} \subseteq Nat
    /\ BodyLimit <= UploadLimit /\ UploadLimit < MaxBody
    /\ LateExits \subseteq BOOLEAN /\ Readers \subseteq Reader

VARIABLES
    request,     \* what the client sent, and what its route is like
    lateExit,    \* the framework's version runs dependency exits after the response
    layer,       \* the layer that has control
    phase,       \* "down", "parse", "endpoint", "exit", "respond", "up", "done"
    exc,         \* the exception on its way up, or "none"
    http,        \* the status of that exception when it is an HTTPException
    received,    \* bytes of the body that were received
    answer,      \* the status that the endpoint wants to answer
    tx,          \* the request's transaction
    wire,        \* responses started on the connection
    captured,    \* status_code of AccessLogMiddleware
    started,     \* response_started of UnhandledExceptionMiddleware
    logged       \* statuses in the access log

vars == <<request, lateExit, layer, phase, exc, http, received, answer, tx, wire,
          captured, started, logged>>

\* _register_middlewares, from the outermost to the innermost.
Layers ==
    <<"request_context", "unhandled", "access_log", "timing", "security", "cors",
      "trusted_host", "gzip", "body_limit", "exceptions", "route">>

Index(l) == CHOOSE i \in DOMAIN Layers : Layers[i] = l
Outside(l, m) == Index(l) < Index(m)

\* The layers that add headers to a response that l starts.
Headers(l) == {h \in {"request_context", "timing", "security"} : Outside(h, l)}

\* Variant: a request that answers nothing counts as a success.
DefaultStatusOk == 200

\* Variant: no status until a response starts.
DefaultStatusNone == 0

\* The status in the log when no response was started.
DefaultStatus == 500

Request ==
    [gate : {"ok", "preflight", "bad_host"},      \* for CORS and TrustedHost
     declared : {"none", "length", "malformed"},  \* the content-length header
     size : 0 .. MaxBody,
     upload : BOOLEAN,                            \* POST below the documents prefix
     reader : Readers,
     transactional : BOOLEAN]                     \* get_database_transaction

TypeOK ==
    /\ request \in Request /\ lateExit \in BOOLEAN
    /\ layer \in 1 .. Len(Layers)
    /\ phase \in {"down", "parse", "endpoint", "exit", "respond", "up", "done"}
    /\ exc \in ErrorClass \cup {"none"} /\ http \in {400, 404, 405, 429}
    /\ received \in 0 .. request.size
    /\ answer \in {200, 401, 500}
    /\ tx \in {"none", "open", "committed", "rolled_back", "failed"}
    /\ wire \in Seq([status : 200 .. 503, headers : SUBSET {"request_context", "timing", "security"}])
    /\ captured \in 200 .. 503 /\ started \in BOOLEAN
    /\ logged \in Seq(200 .. 503)

Init ==
    /\ request \in Request /\ lateExit \in LateExits
    /\ layer = 1 /\ phase = "down"
    /\ exc = "none" /\ http = 404
    /\ received = 0 /\ answer = 500 /\ tx = "none"
    /\ wire = <<>> /\ captured = DefaultStatus /\ started = FALSE /\ logged = <<>>

-----------------------------------------------------------------------------
\* Layer l starts a response.
Starts(l, status) ==
    /\ wire' = Append(wire, [status |-> status, headers |-> Headers(l)])
    /\ captured' = IF Outside("access_log", l) THEN status ELSE captured
    /\ started' = (started \/ Outside("unhandled", l))

Quiet == UNCHANGED <<wire, captured, started>>

\* The code inside the route ends, with exception e or none.
Ends(e) == exc' = e /\ phase' = "up"

\* A middleware answers by itself and returns.
Answers(l, status) ==
    /\ Layers[layer] = l /\ phase = "down"
    /\ Starts(l, status)
    /\ phase' = "up"
    /\ UNCHANGED <<request, lateExit, layer, exc, http, received, answer, tx, logged>>

\* _limit_for_scope
Limit == IF request.upload THEN UploadLimit ELSE BodyLimit

\* _declared_size_exceeds_limit
DeclaredTooLarge ==
    \/ request.declared = "malformed"
    \/ request.declared = "length" /\ request.size > Limit

Preflight == request.gate = "preflight" /\ Answers("cors", 200)

BadHost == request.gate = "bad_host" /\ Answers("trusted_host", 400)

RejectDeclared == DeclaredTooLarge /\ Answers("body_limit", 413)

\* Every other layer calls the next one; the route parses its body first.
Descend ==
    /\ phase = "down"
    /\ CASE Layers[layer] = "cors" -> request.gate # "preflight"
         [] Layers[layer] = "trusted_host" -> request.gate # "bad_host"
         [] Layers[layer] = "body_limit" -> ~DeclaredTooLarge
         [] OTHER -> Layers[layer] # "route"
    /\ layer' = layer + 1
    /\ phase' = IF Layers[layer'] = "route" THEN "parse" ELSE "down"
    /\ UNCHANGED <<request, lateExit, exc, http, received, answer, tx, wire, captured, started, logged>>

-----------------------------------------------------------------------------
\* Variant: bytes that arrive are not counted.
StreamTooLargeNever(n) == FALSE

\* limited_receive
StreamTooLarge(n) == n > Limit

\* One more byte of the body.  The exception for too many of them reaches the
\* middleware when the endpoint itself reads the body; the framework's
\* parser turns it into an HTTPException 400.
Receive ==
    /\ phase = "parse" /\ received < request.size /\ request.reader # "nobody"
    /\ received' = received + 1
    /\ IF StreamTooLarge(received')
         THEN IF request.reader = "raw"
                THEN Ends("RequestBodyTooLargeError") /\ UNCHANGED http
                ELSE Ends("HTTPException") /\ http' = 400
         ELSE UNCHANGED <<exc, phase, http>>
    /\ UNCHANGED <<request, lateExit, layer, answer, tx, wire, captured, started, logged>>

\* The body does not parse, or no route matches.
Refuse ==
    /\ phase = "parse"
    /\ \/ Ends("RequestValidationError") /\ UNCHANGED http
       \/ Ends("HTTPException") /\ http' \in {404, 405}
    /\ UNCHANGED <<request, lateExit, layer, received, answer, tx, wire, captured, started, logged>>

\* get_database_transaction enters, or its begin fails.
Open ==
    /\ phase = "parse" /\ (received = request.size \/ request.reader = "nobody")
    /\ \/ phase' = "endpoint" /\ tx' = (IF request.transactional THEN "open" ELSE "none") /\ UNCHANGED exc
       \/ request.transactional /\ Ends("SQLAlchemyError") /\ UNCHANGED tx
    /\ UNCHANGED <<request, lateExit, layer, http, received, answer, wire, captured, started, logged>>

\* The endpoint returns a response: a success, or the 401 of a refresh that
\* was refused, whose work is committed too.
Return ==
    /\ phase = "endpoint"
    /\ answer' \in {200, 401}
    /\ phase' = IF lateExit THEN "respond" ELSE "exit"
    /\ UNCHANGED <<request, lateExit, layer, exc, http, received, tx, wire, captured, started, logged>>

Raised == ErrorClass \ {"Exception", "RequestBodyTooLargeError"}

\* The endpoint or a dependency raises, or the task is cancelled; __aexit__
\* rolls back before any handler sees the exception.
Raise(c) ==
    /\ phase = "endpoint"
    /\ Ends(c)
    /\ http' = IF c = "HTTPException" THEN 429 ELSE http
    /\ tx' = IF tx = "open" THEN "rolled_back" ELSE tx
    /\ UNCHANGED <<request, lateExit, layer, received, answer, wire, captured, started, logged>>

\* Variant: a commit that fails is logged and forgotten.
CommitFailureForgotten == "none"

\* __aexit__ raises what the commit raised.
CommitFailure == "SQLAlchemyError"

\* The exit of get_database_transaction: the commit, which may fail.
Exit ==
    /\ phase = "exit"
    /\ \/ /\ tx' = IF tx = "open" THEN "committed" ELSE tx
          /\ phase' = (IF lateExit THEN "up" ELSE "respond") /\ UNCHANGED exc
       \/ /\ tx = "open" /\ tx' = "failed"
          /\ exc' = CommitFailure
          /\ phase' = IF CommitFailure = "none" /\ ~lateExit THEN "respond" ELSE "up"
    /\ UNCHANGED <<request, lateExit, layer, http, received, answer, wire, captured, started, logged>>

Respond ==
    /\ phase = "respond"
    /\ Starts("route", answer)
    /\ phase' = IF lateExit THEN "exit" ELSE "up"
    /\ UNCHANGED <<request, lateExit, layer, exc, http, received, answer, tx, logged>>

-----------------------------------------------------------------------------
\* What the layer with control does with the exception that reaches it.

\* The framework's handler boundary: a handler answers, unless a response was
\* started, which turns the exception into another one.
HandleException ==
    /\ Layers[layer] = "exceptions"
    /\ IF exc # "none" /\ Handled(exc)
         THEN IF wire = <<>>
                THEN Starts("exceptions", StatusOf(exc, http)) /\ exc' = "none"
                ELSE Quiet /\ exc' = "Unknown"
         ELSE Quiet /\ UNCHANGED exc
    /\ UNCHANGED logged

\* RequestBodyLimitMiddleware
RejectStreamed ==
    /\ Layers[layer] = "body_limit"
    /\ IF exc = "RequestBodyTooLargeError" THEN Starts("body_limit", 413) /\ exc' = "none"
                                           ELSE Quiet /\ UNCHANGED exc
    /\ UNCHANGED logged

\* AccessLogMiddleware, finally
Log ==
    /\ Layers[layer] = "access_log"
    /\ logged' = Append(logged, captured)
    /\ Quiet /\ UNCHANGED exc

\* UnhandledExceptionMiddleware: raise if response_started
MayAnswer == ~started

CatchUnhandled ==
    /\ Layers[layer] = "unhandled"
    /\ IF exc # "none" /\ IsA(exc, "Exception") /\ MayAnswer
         THEN Starts("unhandled", 500) /\ exc' = "none"
         ELSE Quiet /\ UNCHANGED exc
    /\ UNCHANGED logged

PassUp ==
    /\ Layers[layer] \notin {"exceptions", "body_limit", "access_log", "unhandled"}
    /\ Quiet /\ UNCHANGED <<exc, logged>>

Ascend ==
    /\ phase = "up"
    /\ HandleException \/ RejectStreamed \/ Log \/ CatchUnhandled \/ PassUp
    /\ IF layer = 1 THEN phase' = "done" /\ UNCHANGED layer
                    ELSE layer' = layer - 1 /\ UNCHANGED phase
    /\ UNCHANGED <<request, lateExit, http, received, answer, tx>>

Next ==
    \/ Descend \/ Preflight \/ BadHost \/ RejectDeclared
    \/ Receive \/ Refuse \/ Open \/ Return \/ Exit \/ Respond \/ Ascend
    \/ \E c \in Raised : Raise(c)

Spec == Init /\ [][Next]_vars

-----------------------------------------------------------------------------
(* Properties *)

Done == phase = "done"

\* A request is answered exactly once whatever fails and wherever, unless it
\* was cancelled; a second response is never started ("ASGI forbids starting
\* a second response", UnhandledExceptionMiddleware).
AnsweredOnce ==
    /\ Len(wire) <= 1
    /\ Done /\ exc # "Cancelled" => Len(wire) = 1

\* The access log has one line per request, with the status that the client
\* was sent, also when it was sent from outside the log (AccessLogMiddleware).
LogTellsStatus ==
    Done => Len(logged) = 1 /\ (wire # <<>> => logged[1] = wire[1].status)

\* No request succeeds that declared a body over the limit, or of whose body
\* more than the limit was read, whoever read it (RequestBodyLimitMiddleware).
OversizedNeverSucceeds ==
    \A i \in DOMAIN wire :
        wire[i].status < 400 /\ request.gate # "preflight" =>
          received <= Limit /\ (request.declared = "length" => request.size <= Limit)

\* Every response carries the request id; every one but the 500 for an
\* unknown failure is timed and hardened (the order of _register_middlewares).
ResponsesCorrelated ==
    \A i \in DOMAIN wire :
        /\ "request_context" \in wire[i].headers
        /\ {"timing", "security"} \subseteq wire[i].headers \/ wire[i].status = 500

\* The client of a transaction that failed to commit is told so
\* (database_exception_handler, "reporting an infrastructure outage"), as
\* long as the framework lets dependencies exit before it sends the response.
DatabaseFailuresReported ==
    Done /\ tx = "failed" /\ ~lateExit => wire[1].status = 503

\* A body over the limit is answered 413 (test_http_middleware.py,
\* test_rejects_request_body_over_configured_limit).
OversizedIs413 ==
    Done /\ request.gate = "ok" /\ received > Limit => wire[1].status = 413

\* Client and log agree on what became of a request: one answer, one line in
\* the log with its status, and the headers of the layers it came through.
AnswersAreLogged == AnsweredOnce /\ LogTellsStatus /\ ResponsesCorrelated
=============================================================================
