------------------------------- MODULE JsonRpc -------------------------------
(***************************************************************************)
(* jsonrpc/jsonrpc.go and errors.go as values: what a request is checked   *)
(* for before it is dispatched, in which order, and the code of every      *)
(* error a client can be answered.                                         *)
(***************************************************************************)
EXTENDS Integers, FiniteSetsExt

CONSTANT CORS     \* whether the handler was built with WithCORS

ASSUME CORSAssumption == CORS \in BOOLEAN

Methods == {"CreateCron", "GetCron", "UpdateCron", "DeleteCron", "ListCrons",
            "RunCron"}

\* An HTTP request: json tells whether the body decodes into a request object,
\* params whether they decode into the method's message. An id of null and no
\* id at all decode alike; "empty" stands for the empty string.
Request == [http   : {"POST", "OPTIONS", "GET"},
            json   : BOOLEAN,
            id     : {"given", "empty", "null"},
            v2     : BOOLEAN,
            method : Methods \cup {"empty", "other"},
            params : BOOLEAN]

\* What decides the fate of a request before the service sees it, in order.
Checks(req) ==
    << <<CORS /\ req.http = "OPTIONS", "preflight">>,
       <<req.http # "POST",            "ErrInvalidRequest">>,
       <<~req.json,                    "ErrParseError">>,
       <<req.id = "empty",             "ErrInvalidRequest">>,
       <<~req.v2,                      "ErrInvalidRequest">>,
       <<req.method = "empty",         "ErrInvalidRequest">>,
       <<req.method \notin Methods,    "ErrMethodNotFound">>,
       <<~req.params,                  "ErrInvalidParams">> >>

Stopped(req) == {i \in DOMAIN Checks(req) : Checks(req)[i][1]}

Dispatched(req) == Stopped(req) = {}
Rejection(req)  == Checks(req)[Min(Stopped(req))][2]

\* The codes of the error objects. A result has none, a preflight has no body.
Result == 0
Code == [preflight           |-> 200,
         ErrServerError      |-> -32000,
         ErrUnauthenticated  |-> -32001,
         ErrPermissionDenied |-> -32003,
         ErrNotFound         |-> -32004,
         ErrInvalidRequest   |-> -32600,
         ErrMethodNotFound   |-> -32601,
         ErrUnimplemented    |-> -32601,
         ErrInvalidParams    |-> -32602,
         ErrInternalError    |-> -32603,
         ErrParseError       |-> -32700]

\* grpcToJSONRPCError. An error without a status counts as internal, too.
ErrorOf(status) ==
    CASE status = "InvalidArgument"  -> "ErrInvalidParams"
      [] status = "NotFound"         -> "ErrNotFound"
      [] status = "Unauthenticated"  -> "ErrUnauthenticated"
      [] status = "PermissionDenied" -> "ErrPermissionDenied"
      [] status = "Unimplemented"    -> "ErrUnimplemented"
      [] OTHER                       -> "ErrInternalError"

\* The code that answers a service error.
Answer(status) == IF status = "OK" THEN Result ELSE Code[ErrorOf(status)]

Codes == {Result} \cup {Code[e] : e \in DOMAIN Code}
=============================================================================
