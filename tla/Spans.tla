------------------------------- MODULE Spans -------------------------------
(***************************************************************************)
(* The status of a span, as the three layers that hold it set it: Span of  *)
(* telemetry/trace, over statusSpan of internal/telemetry/trace, over the  *)
(* span of the OpenTelemetry SDK.  Each of the two layers of this          *)
(* repository has a latch of its own for "an error was recorded".          *)
(***************************************************************************)

\* outer is Span.hasError, inner is statusSpan.hasError.
SpanRecords == [status : {"unset", "error", "ok"}, ended : BOOLEAN,
                inner : BOOLEAN, outer : BOOLEAN]

\* trace.Start, and statusTracer.Start below it.
Started == [status |-> "unset", ended |-> FALSE, inner |-> FALSE, outer |-> FALSE]

\* The span of the SDK: an ended span does not change, nor does the status Ok.
SdkSetStatus(s, code) ==
  IF s.ended \/ s.status = "ok" THEN s ELSE [s EXCEPT !.status = code]

\* statusSpan.SetStatus and statusSpan.End.
StatusSetStatus(s, code) ==
  SdkSetStatus([s EXCEPT !.inner = @ \/ code = "error"], code)

StatusEnd(s) ==
  [(IF s.inner THEN s ELSE SdkSetStatus(s, "ok")) EXCEPT !.ended = TRUE]

\* Span.RecordError, for an error that is not nil.
RecordError(s) == StatusSetStatus([s EXCEPT !.outer = TRUE], "error")

\* (mutant) Ok is set whatever was recorded.
EndOk(s) == StatusEnd(StatusSetStatus(s, "ok"))

\* Span.End.
End(s) == StatusEnd(IF s.outer THEN s ELSE StatusSetStatus(s, "ok"))

=============================================================================
