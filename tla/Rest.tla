-------------------------------- MODULE Rest --------------------------------
(***************************************************************************)
(* One request to the REST server, from the router to the wire:            *)
(* middlewareValidation and its responseWriter (integration/rest/          *)
(* openapi.go), the budget of the route (rest.go, options.go), a handler   *)
(* that does what it likes with the writer, with the responses of          *)
(* response_error.go and response_success.go or without, and what net/http *)
(* sends.  The handler may panic at any step.                              *)
(*                                                                         *)
(* A code of errorstack is the status it is the canonical code of; 0 is    *)
(* VALIDATION_FAILED.  A body is the number of times it was written to.    *)
(***************************************************************************)
EXTENDS Integers, Sequences, SequencesExt, Spans

CONSTANTS
  MaxSteps, \* bound: what the handler does before it returns
  NoSpan, NoVerdict

ASSUME RestAssumption ==
  /\ MaxSteps \in Nat
  /\ NoSpan \notin SpanRecords
  /\ NoVerdict \notin [status : 0 .. 599, written : Nat]

VARIABLES
  phase,    \* "received", "handling", "validating" the response, "over"
  config,   \* OpenAPI is enabled, and describes the route
  reqSpan,  \* the two spans of the middleware
  resSpan,
  deferred, \* the response is validated when the handler ends
  timer,    \* the budget: "none", "running", "spent", "released"
  header,   \* the Content-Type in the header map
  rw,       \* the responseWriter of the middleware
  wire,     \* what net/http has sent
  res,      \* the response the handler is building
  verdict,  \* the response the middleware validated
  steps,    \* what the handler has done so far
  history   \* (history) whether it kept to the protocol of http.ResponseWriter

mwVars == <<config, reqSpan, resSpan, deferred, timer, verdict>>
vars == <<phase, mwVars, header, rw, wire, res, steps, history>>

\* 103 is informational, 204 has no body, 418 has no code of its own; 0 is the
\* status of a ResponseSuccess before SetStatus.
Statuses == {0, 103, 200, 204, 404, 418, 500, 503}
ContentTypes == {"none", "json", "stream"}
Bodies == {"none", "raw", "data", "errors"}

\* A RouteOption sets the budget, but for nil: WithTimeout, WithoutTimeout (0).
Timeouts == {-1, 0, 5}
Options == [isNil : {FALSE}, timeout : Timeouts] \cup {[isNil |-> TRUE, timeout |-> 0]}
OptionLists == UNION {[1 .. n -> Options] : n \in 0 .. 2}

NoResponse == [kind |-> "none", status |-> 0, codes |-> {}, metadata |-> "none"]

TypeOK ==
  /\ phase \in {"received", "handling", "validating", "over"}
  /\ config \in [openapi : BOOLEAN, described : BOOLEAN]
  /\ reqSpan \in SpanRecords \cup {NoSpan} /\ resSpan \in SpanRecords \cup {NoSpan}
  /\ deferred \in BOOLEAN
  /\ timer \in {"none", "running", "spent", "released"}
  /\ header \in ContentTypes
  /\ rw \in [status : Statuses, buffered : Nat, streaming : BOOLEAN]
  /\ wire \in [status : Statuses, type : ContentTypes, written : Nat, body : Bodies,
               codes : SUBSET Statuses, answered : BOOLEAN, aborted : BOOLEAN]
  /\ res \in [kind : {"none", "error", "success"}, status : Statuses,
              codes : SUBSET Statuses, metadata : {"none", "good", "bad"}]
  /\ verdict \in [status : Statuses, written : Nat] \cup {NoVerdict}
  /\ steps \in 0 .. MaxSteps
  /\ history \in [regular : BOOLEAN, header : BOOLEAN, blank : BOOLEAN]

Init ==
  /\ phase = "received"
  /\ config \in [openapi : BOOLEAN, described : BOOLEAN]
  /\ reqSpan = NoSpan /\ resSpan = NoSpan
  /\ deferred = FALSE
  /\ timer = "none"
  /\ header = "none"
  /\ rw = [status |-> 200, buffered |-> 0, streaming |-> FALSE]
  /\ wire = [status |-> 0, type |-> "none", written |-> 0, body |-> "none",
             codes |-> {}, answered |-> FALSE, aborted |-> FALSE]
  /\ res = NoResponse
  /\ verdict = NoVerdict
  /\ steps = 0
  /\ history = [regular |-> TRUE, header |-> FALSE, blank |-> FALSE]

-----------------------------------------------------------------------------
(* The router, the middleware and the budget *)

\* resolveRouteOptions: the options apply in order over the default.
Resolve(default, opts) ==
  FoldLeft(LAMBDA t, o : IF o.isNil THEN t ELSE o.timeout, default, opts)

\* (mutant) The span of the request goes on until the handler returns.
ReqSpanOpen(valid) == IF valid THEN Started ELSE RecordError(Started)

\* An invalid request is recorded, and handled all the same.
ReqSpan(valid) == End(IF valid THEN Started ELSE RecordError(Started))

Receive ==
  /\ phase = "received"
  /\ phase' = "handling"
  /\ IF config.openapi
     THEN \E valid \in BOOLEAN : reqSpan' = ReqSpan(valid /\ config.described)
     ELSE UNCHANGED reqSpan
  /\ deferred' = (config.openapi /\ config.described)
  /\ \E default \in {0, 10}, opts \in OptionLists :
       timer' = IF Resolve(default, opts) <= 0 THEN "none" ELSE "running"
  /\ UNCHANGED <<config, resSpan, header, rw, wire, res, verdict, steps, history>>

Spend ==
  /\ timer = "running"
  /\ timer' = "spent"
  /\ UNCHANGED <<phase, config, reqSpan, resSpan, deferred, header, rw, wire,
                 res, verdict, steps, history>>

-----------------------------------------------------------------------------
(* The writers.  Each takes the writer's record and the Content-Type now. *)

NetHeader(w, status, type) ==
  IF w.status # 0 \/ status = 103 THEN w
  ELSE [w EXCEPT !.status = status, !.type = type]

NetWrite(w, body, codes, type) ==
  LET sent == NetHeader(w, 200, type)
  IN IF sent.status = 204 THEN sent
     ELSE [sent EXCEPT !.written = @ + 1, !.body = body, !.codes = codes]

\* detectStreaming latches.
Detect(r, type) == [r EXCEPT !.streaming = @ \/ type = "stream"]

RwHeader(r, status, type) == Detect([r EXCEPT !.status = status], type)

\* (mutant) A stream is detected by WriteHeader only.
RwWriteBlind(r, type) == IF r.streaming THEN r ELSE [r EXCEPT !.buffered = @ + 1]

\* What is not a stream is kept for the validation.
RwWrite(r, type) ==
  LET d == Detect(r, type) IN IF d.streaming THEN d ELSE [d EXCEPT !.buffered = @ + 1]

\* The writer of the middleware is there when OpenAPI is enabled.
ToRw(r) == rw' = IF config.openapi THEN r ELSE rw

-----------------------------------------------------------------------------
(* The handler *)

Does ==
  /\ phase = "handling" /\ steps < MaxSteps
  /\ steps' = steps + 1

\* The handler ends: the budget is released, then the deferred function of the
\* middleware runs, then net/http sends an empty response or, after a panic,
\* aborts the connection.
Ends(panics, r, w) ==
  LET sent == [w EXCEPT !.status = IF @ = 0 /\ ~ panics THEN 200 ELSE @,
                        !.type = IF w.status = 0 /\ ~ panics THEN header ELSE @,
                        !.aborted = panics]
  IN /\ phase' = IF deferred /\ ~ r.streaming THEN "validating" ELSE "over"
     /\ timer' = IF timer = "none" THEN "none" ELSE "released"
     /\ ToRw(r)
     /\ wire' = sent
     /\ res' = NoResponse
     /\ UNCHANGED <<config, reqSpan, resSpan, deferred, verdict>>

Stays == phase' = phase /\ UNCHANGED mwVars

SetStream ==
  /\ Does /\ Stays
  /\ header' = "stream"
  /\ history' = [history EXCEPT !.regular = @ /\ wire.status = 0]
  /\ UNCHANGED <<rw, wire, res>>

WriteHeader ==
  /\ Does /\ Stays
  /\ \E s \in Statuses \ {0, 500, 503} :
       /\ ToRw(RwHeader(rw, s, header))
       /\ wire' = NetHeader(wire, s, header)
       /\ history' = [history EXCEPT !.regular = @ /\ wire.status = 0 /\ s # 103,
                                     !.header = TRUE]
  /\ UNCHANGED <<header, res>>

Write ==
  /\ Does /\ Stays
  /\ ToRw(RwWrite(rw, header))
  /\ wire' = NetWrite(wire, "raw", {}, header)
  /\ UNCHANGED <<header, res, history>>

\* Through Unwrap: the middleware does not see it.
Flush ==
  /\ Does /\ Stays
  /\ wire' = NetHeader(wire, 200, header)
  /\ UNCHANGED <<header, rw, res, history>>

Panic ==
  /\ phase = "handling"
  /\ Ends(TRUE, rw, wire)
  /\ UNCHANGED <<header, steps, history>>

Return ==
  /\ phase = "handling"
  /\ Ends(FALSE, rw, wire)
  /\ UNCHANGED <<header, steps, history>>

-----------------------------------------------------------------------------
(* The responses *)

\* (mutant) A status with no code of its own has none.
CodeOrNone(status) == IF status \in {404, 500, 503} THEN status ELSE -1

\* HTTPStatusToCode: a status with no code of its own has that of 500.
Code(status) == IF status \in {404, 500, 503} THEN status ELSE 500

NewError == [kind |-> "error", status |-> 500, codes |-> {Code(500)}, metadata |-> "none"]
NewSuccess == [NoResponse EXCEPT !.kind = "success"]

\* SetStatus replaces the entries by one that has the code of the status.
Seed(status) == {Code(status)}

\* NewValidation: at least one entry, whatever it is given.
Validations(n) == IF n = 0 THEN {Code(500)} ELSE {0}

Build ==
  /\ Does /\ Stays
  /\ \/ res = NoResponse /\ res' \in {NewError, NewSuccess}
     \/ /\ res.kind # "none"
        /\ \E s \in {200, 204, 404, 418, 500} :
             res' = [res EXCEPT !.status = s,
                                !.codes = IF res.kind = "error" THEN Seed(s) ELSE @]
     \/ /\ res.kind # "none"
        /\ \E m \in {"good", "bad"} : res' = [res EXCEPT !.metadata = m]
  /\ UNCHANGED <<header, rw, wire, history>>

SetValidations ==
  /\ Does /\ Stays
  /\ res.kind = "error"
  /\ \E n \in 0 .. 1 :
       /\ res' = [res EXCEPT !.codes = Validations(n)]
       /\ history' = [history EXCEPT !.blank = @ \/ n = 0]
  /\ UNCHANGED <<header, rw, wire>>

\* Metadata that does not marshal is replaced by a constant response.
Fails == res.metadata = "bad"
Body == IF res.kind = "error" THEN "errors" ELSE "data"

\* (mutant) The constant response is sent with the status that was set.
StatusSet == res.status

Status == IF Fails THEN 500 ELSE res.status
Codes == IF res.kind = "success" THEN {} ELSE IF Fails THEN {Code(500)} ELSE res.codes

RwAnswer(status) == RwWrite(RwHeader(rw, status, "json"), "json")
NetAnswer(status, body, codes) ==
  NetWrite([NetHeader(wire, status, "json") EXCEPT !.answered = wire.status = 0],
           body, codes, "json")

\* Write of the two responses: Content-Type, WriteHeader, Write.  net/http
\* panics on the status 0, which is that of a ResponseSuccess without SetStatus,
\* unless a header was sent before: then it ignores the status.
Respond ==
  /\ Does
  /\ res.kind # "none"
  /\ header' = "json"
  /\ history' = [history EXCEPT !.regular = @ /\ wire.status = 0, !.header = TRUE]
  /\ IF Status = 0 /\ wire.status = 0
     THEN Ends(TRUE, RwHeader(rw, 0, "json"), wire)
     ELSE /\ Stays
          /\ ToRw(RwAnswer(Status))
          /\ wire' = NetAnswer(Status, Body, Codes)
          /\ res' = NoResponse

\* The probes, and the handlers of what is not found or not allowed, answer with
\* the same responses.
BuiltIn ==
  /\ phase = "handling" /\ steps = 0
  /\ header' = "json"
  /\ \E s \in {200, 404, 503} :
       Ends(FALSE, RwAnswer(s),
            NetAnswer(s, IF s >= 300 THEN "errors" ELSE "data", IF s >= 300 THEN Seed(s) ELSE {}))
  /\ UNCHANGED <<steps, history>>

-----------------------------------------------------------------------------
(* The response is validated *)

\* (mutant) What is buffered is validated with the status of the first response.
ValidatedFirst == [status |-> 200, written |-> rw.buffered]

Validated == [status |-> rw.status, written |-> rw.buffered]

ValidateResponse ==
  /\ phase = "validating"
  /\ phase' = "over"
  /\ verdict' = Validated
  /\ \E valid \in BOOLEAN : resSpan' = End(IF valid THEN Started ELSE RecordError(Started))
  /\ UNCHANGED <<config, reqSpan, deferred, timer, header, rw, wire, res, steps, history>>

Over == phase = "over" /\ UNCHANGED vars

Next ==
  \/ Receive \/ Spend \/ SetStream \/ WriteHeader \/ Write \/ Flush \/ Panic \/ Return
  \/ Build \/ SetValidations \/ Respond \/ BuiltIn \/ ValidateResponse \/ Over

Spec == Init /\ [][Next]_vars

-----------------------------------------------------------------------------
(* Properties *)

\* The middleware validates what the client gets: the status on the wire, and
\* as much of the body, however the handler answers, provided it calls
\* WriteHeader at most once, before anything else and with no informational
\* status (openapi.go:34-41).  A 204 has no body on the wire, whatever was written.
ValidatedIsSent ==
  phase = "over" /\ verdict # NoVerdict /\ history.regular /\ ~ wire.aborted =>
    /\ verdict.status = wire.status
    /\ wire.status # 204 => verdict.written = wire.written

\* "A streamed response is flushed as written and is neither buffered nor
\* validated" (openapi.go:44-46), and every other response of a described route
\* is validated.  That is said of the handlers of ValidatedIsSent, which choose the
\* Content-Type before the first byte and send the header once; of the validation,
\* where the handler did not panic.  A stream that was flushed but never written to
\* is not recognised.
StreamsAreLeftAlone ==
  history.regular =>
    /\ wire.type = "stream" => rw.buffered = 0
    /\ phase = "over" /\ deferred /\ ~ wire.aborted =>
         /\ wire.type # "stream" => verdict # NoVerdict
         /\ wire.type = "stream" /\ (wire.written > 0 \/ history.header) => verdict = NoVerdict

\* Whatever the handler does, a panic included, a request that is over has ended
\* the spans of the middleware and released its budget (openapi.go:105, 193;
\* rest.go:157).
NothingLeftBehind ==
  phase = "over" =>
    /\ reqSpan # NoSpan => reqSpan.ended
    /\ resSpan # NoSpan => resSpan.ended
    /\ timer # "running"

\* The codes of the errors on the wire are those of the status on the wire, or
\* of validations, after any sequence of SetStatus, SetValidations, SetMetadata
\* and whether or not the metadata marshals (response_error.go:16-25, 84-100);
\* SetValidations of nothing gives INTERNAL_ERROR at any status.
CodesMatchStatus ==
  wire.answered /\ wire.body = "errors" /\ wire.written = 1 /\ ~ history.blank =>
    wire.codes \in {{Code(wire.status)}, {0}}

=============================================================================
