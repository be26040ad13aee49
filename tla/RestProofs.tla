----------------------------- MODULE RestProofs -----------------------------
(***************************************************************************)
(* Proofs about Rest: what the middleware validates is what is sent, for a *)
(* handler that takes any number of steps in any order.                    *)
(***************************************************************************)
EXTENDS Rest, TLAPS

Writers == [status : Statuses, buffered : Nat, streaming : BOOLEAN]
Wires == [status : Statuses, type : ContentTypes, written : Nat, body : Bodies,
          codes : SUBSET Statuses, answered : BOOLEAN, aborted : BOOLEAN]
Responses == [kind : {"none", "error", "success"}, status : Statuses,
              codes : SUBSET Statuses, metadata : {"none", "good", "bad"}]
Histories == [regular : BOOLEAN, header : BOOLEAN, blank : BOOLEAN]

-----------------------------------------------------------------------------
(* The writers *)

\* Lemma.  WriteHeader of net/http counts once, and not for 103.
LEMMA NetHeaderEffect ==
  ASSUME NEW w \in Wires, NEW s \in Statuses, NEW t \in ContentTypes
  PROVE  LET n == NetHeader(w, s, t) IN
         /\ n \in Wires
         /\ n.status = (IF w.status # 0 \/ s = 103 THEN w.status ELSE s)
         /\ n.type = (IF w.status # 0 \/ s = 103 THEN w.type ELSE t)
         /\ n.written = w.written /\ n.body = w.body /\ n.codes = w.codes
         /\ n.answered = w.answered /\ n.aborted = w.aborted
  BY DEF NetHeader, Wires

\* What is sent with one more body.
WithBody(w, k, b, cs) == [w EXCEPT !.written = k, !.body = b, !.codes = cs]

\* Lemma.  A body is a part of what is sent.
LEMMA BodyEffect ==
  ASSUME NEW w \in Wires, NEW k \in Nat, NEW b \in Bodies, NEW cs \in SUBSET Statuses
  PROVE  LET n == WithBody(w, k, b, cs) IN
         /\ n \in Wires
         /\ n.status = w.status /\ n.type = w.type
         /\ n.written = k /\ n.body = b /\ n.codes = cs
         /\ n.answered = w.answered /\ n.aborted = w.aborted
  BY DEF Wires, WithBody

\* Lemma.  Write of net/http sends the header 200 first, and no body after 204.
LEMMA NetWriteEffect ==
  ASSUME NEW w \in Wires, NEW b \in Bodies, NEW cs \in SUBSET Statuses, NEW t \in ContentTypes
  PROVE  LET n == NetWrite(w, b, cs, t)
             status == IF w.status = 0 THEN 200 ELSE w.status
         IN
         /\ n \in Wires
         /\ n.status = status
         /\ n.type = (IF w.status = 0 THEN t ELSE w.type)
         /\ n.written = (IF status = 204 THEN w.written ELSE w.written + 1)
         /\ n.body = (IF status = 204 THEN w.body ELSE b)
         /\ n.codes = (IF status = 204 THEN w.codes ELSE cs)
         /\ n.answered = w.answered /\ n.aborted = w.aborted
<1> DEFINE sent == NetHeader(w, 200, t)
<1>1. /\ sent \in Wires
      /\ sent.status = (IF w.status = 0 THEN 200 ELSE w.status)
      /\ sent.type = (IF w.status = 0 THEN t ELSE w.type)
      /\ sent.written = w.written /\ sent.body = w.body /\ sent.codes = w.codes
      /\ sent.answered = w.answered /\ sent.aborted = w.aborted
  <2>1. 200 \in Statuses
    BY DEF Statuses
  <2> QED
    BY <2>1, NetHeaderEffect
<1>2. NetWrite(w, b, cs, t) =
        IF sent.status = 204 THEN sent
        ELSE WithBody(sent, sent.written + 1, b, cs)
  BY <1>1 DEF NetWrite, WithBody, Wires
<1> HIDE DEF sent
<1>3. LET n == WithBody(sent, sent.written + 1, b, cs) IN
      /\ n \in Wires
      /\ n.status = sent.status /\ n.type = sent.type
      /\ n.written = sent.written + 1 /\ n.body = b /\ n.codes = cs
      /\ n.answered = sent.answered /\ n.aborted = sent.aborted
  <2>1. sent \in Wires /\ sent.written + 1 \in Nat
    BY <1>1 DEF Wires
  <2> QED
    BY <2>1, BodyEffect
<1>4. CASE sent.status = 204
  BY <1>1, <1>2, <1>4
<1>5. CASE sent.status # 204
  BY <1>1, <1>2, <1>3, <1>5
<1> QED
  BY <1>4, <1>5

\* Lemma.  WriteHeader of the middleware keeps the last status.
LEMMA RwHeaderEffect ==
  ASSUME NEW r \in Writers, NEW s \in Statuses, NEW t \in ContentTypes
  PROVE  LET n == RwHeader(r, s, t) IN
         /\ n \in Writers
         /\ n.status = s /\ n.buffered = r.buffered
         /\ n.streaming = (r.streaming \/ t = "stream")
  BY DEF RwHeader, Detect, Writers

\* Lemma.  Write of the middleware buffers what is not a stream.
LEMMA RwWriteEffect ==
  ASSUME NEW r \in Writers, NEW t \in ContentTypes
  PROVE  LET n == RwWrite(r, t) IN
         /\ n \in Writers
         /\ n.status = r.status
         /\ n.streaming = (r.streaming \/ t = "stream")
         /\ n.buffered = (IF r.streaming \/ t = "stream" THEN r.buffered ELSE r.buffered + 1)
<1>1. /\ Detect(r, t) \in Writers
      /\ Detect(r, t).status = r.status /\ Detect(r, t).buffered = r.buffered
      /\ Detect(r, t).streaming = (r.streaming \/ t = "stream")
  BY DEF Detect, Writers
<1>2. RwWrite(r, t) =
        IF r.streaming \/ t = "stream" THEN Detect(r, t)
        ELSE [Detect(r, t) EXCEPT !.buffered = r.buffered + 1]
  BY <1>1 DEF RwWrite, Writers
<1>3. CASE r.streaming \/ t = "stream"
  BY <1>1, <1>2, <1>3
<1>4. CASE ~ (r.streaming \/ t = "stream")
  BY <1>1, <1>2, <1>4 DEF Writers
<1> QED
  BY <1>3, <1>4

\* Lemma.  A response goes through both writers at once.
LEMMA AnswerEffect ==
  ASSUME TypeOK, NEW s \in Statuses \ {103}, s # 0 \/ wire.status # 0,
         NEW b \in Bodies, NEW cs \in SUBSET Statuses
  PROVE  /\ LET n == NetAnswer(s, b, cs)
                status == IF wire.status = 0 THEN s ELSE wire.status
            IN
            /\ n \in Wires
            /\ n.status = status
            /\ n.type = (IF wire.status = 0 THEN "json" ELSE wire.type)
            /\ n.written = (IF status = 204 THEN wire.written ELSE wire.written + 1)
            /\ n.body = (IF status = 204 THEN wire.body ELSE b)
            /\ n.codes = (IF status = 204 THEN wire.codes ELSE cs)
            /\ n.answered = (wire.status = 0) /\ n.aborted = wire.aborted
         /\ LET n == RwAnswer(s) IN
            /\ n \in Writers
            /\ n.status = s /\ n.streaming = rw.streaming
            /\ n.buffered = (IF rw.streaming THEN rw.buffered ELSE rw.buffered + 1)
<1>1. wire \in Wires /\ rw \in Writers /\ "json" \in ContentTypes /\ s # 103
  BY DEF TypeOK, Wires, Writers, ContentTypes
<1> DEFINE h == NetHeader(wire, s, "json")
           a == [h EXCEPT !.answered = wire.status = 0]
<1>2. /\ h \in Wires
      /\ h.status = (IF wire.status = 0 THEN s ELSE wire.status)
      /\ h.type = (IF wire.status = 0 THEN "json" ELSE wire.type)
      /\ h.written = wire.written /\ h.body = wire.body /\ h.codes = wire.codes
      /\ h.aborted = wire.aborted
  BY <1>1, NetHeaderEffect
<1> HIDE DEF h
<1>3. /\ a \in Wires
      /\ a.status = h.status /\ a.type = h.type /\ a.written = h.written
      /\ a.body = h.body /\ a.codes = h.codes /\ a.aborted = h.aborted
      /\ a.answered = (wire.status = 0)
  BY <1>1, <1>2 DEF Wires
<1>4. NetAnswer(s, b, cs) = NetWrite(a, b, cs, "json")
  BY DEF NetAnswer, h
<1> HIDE DEF a
<1>5. a.status # 0
  BY <1>1, <1>2, <1>3
<1>6. LET n == NetAnswer(s, b, cs) IN
      /\ n \in Wires
      /\ n.status = a.status /\ n.type = a.type
      /\ n.written = (IF a.status = 204 THEN a.written ELSE a.written + 1)
      /\ n.body = (IF a.status = 204 THEN a.body ELSE b)
      /\ n.codes = (IF a.status = 204 THEN a.codes ELSE cs)
      /\ n.answered = a.answered /\ n.aborted = a.aborted
  BY <1>1, <1>3, <1>4, <1>5, NetWriteEffect
<1>7. LET n == RwAnswer(s) IN
      /\ n \in Writers
      /\ n.status = s /\ n.streaming = rw.streaming
      /\ n.buffered = (IF rw.streaming THEN rw.buffered ELSE rw.buffered + 1)
  <2> DEFINE hd == RwHeader(rw, s, "json")
  <2>1. /\ hd \in Writers /\ hd.status = s /\ hd.buffered = rw.buffered
        /\ hd.streaming = rw.streaming
    BY <1>1, RwHeaderEffect DEF Writers
  <2>2. RwAnswer(s) = RwWrite(hd, "json")
    BY DEF RwAnswer
  <2> HIDE DEF hd
  <2>3. hd.streaming \in BOOLEAN
    BY <2>1 DEF Writers
  <2> QED
    BY <1>1, <2>1, <2>2, <2>3, RwWriteEffect
<1>8. LET n == NetAnswer(s, b, cs)
          status == IF wire.status = 0 THEN s ELSE wire.status
      IN
      /\ n \in Wires
      /\ n.status = status
      /\ n.type = (IF wire.status = 0 THEN "json" ELSE wire.type)
      /\ n.written = (IF status = 204 THEN wire.written ELSE wire.written + 1)
      /\ n.body = (IF status = 204 THEN wire.body ELSE b)
      /\ n.codes = (IF status = 204 THEN wire.codes ELSE cs)
      /\ n.answered = (wire.status = 0) /\ n.aborted = wire.aborted
  BY <1>2, <1>3, <1>6
<1> QED
  BY <1>7, <1>8

\* Lemma.  How a handler ends.
LEMMA EndsEffect ==
  ASSUME TypeOK, NEW panics \in BOOLEAN, NEW r \in Writers, NEW w \in Wires, Ends(panics, r, w)
  PROVE  /\ wire' \in Wires /\ rw' \in Writers
         /\ wire'.status = (IF w.status = 0 /\ ~ panics THEN 200 ELSE w.status)
         /\ wire'.type = (IF w.status = 0 /\ ~ panics THEN header ELSE w.type)
         /\ wire'.aborted = panics
         /\ wire'.written = w.written /\ wire'.body = w.body
         /\ wire'.codes = w.codes /\ wire'.answered = w.answered
         /\ rw' = (IF config.openapi THEN r ELSE rw)
         /\ phase' = (IF deferred /\ ~ r.streaming THEN "validating" ELSE "over")
         /\ timer' = (IF timer = "none" THEN "none" ELSE "released")
         /\ res' = NoResponse
         /\ UNCHANGED <<config, reqSpan, resSpan, deferred, verdict>>
<1>1. rw \in Writers /\ header \in ContentTypes /\ 200 \in Statuses
  BY DEF TypeOK, Writers, Statuses
<1>2. wire' = [w EXCEPT !.status = IF w.status = 0 /\ ~ panics THEN 200 ELSE w.status,
                        !.type = IF w.status = 0 /\ ~ panics THEN header ELSE w.type,
                        !.aborted = panics]
  BY DEF Ends, Wires
<1>3. /\ rw' = (IF config.openapi THEN r ELSE rw)
      /\ phase' = (IF deferred /\ ~ r.streaming THEN "validating" ELSE "over")
      /\ timer' = (IF timer = "none" THEN "none" ELSE "released")
      /\ res' = NoResponse
      /\ UNCHANGED <<config, reqSpan, resSpan, deferred, verdict>>
  BY DEF Ends, ToRw
<1> QED
  BY <1>1, <1>2, <1>3 DEF Wires

-----------------------------------------------------------------------------
(* The types *)

\* A response has a status that net/http sends at once, or none.
RestTypes == TypeOK /\ res.status # 103

\* Lemma.  The spans of the middleware are over when they are set.
LEMMA SpansEnd ==
  ASSUME NEW valid \in BOOLEAN
  PROVE  LET s == End(IF valid THEN Started ELSE RecordError(Started)) IN
         s \in SpanRecords /\ s.ended /\ s # NoSpan
<1>1. Started \in SpanRecords /\ RecordError(Started) \in SpanRecords
  BY DEF Started, RecordError, StatusSetStatus, SdkSetStatus, SpanRecords
<1>2. End(Started) \in SpanRecords /\ End(Started).ended
  BY DEF Started, End, StatusEnd, StatusSetStatus, SdkSetStatus, SpanRecords
<1>3. End(RecordError(Started)) \in SpanRecords /\ End(RecordError(Started)).ended
  BY DEF Started, End, RecordError, StatusEnd, StatusSetStatus, SdkSetStatus, SpanRecords
<1> QED
  BY <1>2, <1>3, RestAssumption

\* Lemma.  A code is that of a status.
LEMMA CodesAre ==
  /\ \A s \in Statuses : Code(s) \in Statuses /\ Seed(s) \in SUBSET Statuses
  /\ \A n \in 0 .. 1 : Validations(n) \in SUBSET Statuses
  BY DEF Code, Seed, Validations, Statuses

\* Lemma.  What Build may make of the response.
LEMMA BuildEffect ==
  ASSUME RestTypes, Build
  PROVE  /\ res' \in Responses /\ res'.status # 103
         /\ \/ res' = NewError
            \/ res'.kind = "success"
            \/ /\ res.kind = "error" /\ res'.kind = "error"
               /\ \/ res'.codes = {Code(res'.status)}
                  \/ res'.codes = res.codes /\ res'.status = res.status
<1>1. res \in Responses /\ res.status # 103
  BY DEF RestTypes, TypeOK, Responses
<1>2. CASE res' \in {NewError, NewSuccess}
  BY <1>2, CodesAre DEF NewError, NewSuccess, NoResponse, Responses, Statuses
<1>3. ASSUME res.kind # "none", NEW m \in {"good", "bad"}, res' = [res EXCEPT !.metadata = m]
      PROVE  /\ res' \in Responses /\ res'.status = res.status /\ res'.kind = res.kind
             /\ res'.codes = res.codes
  BY <1>1, <1>3 DEF Responses
<1>4. res.kind # "none" => res.kind \in {"error", "success"}
  BY <1>1 DEF Responses
<1>5. \/ res' \in {NewError, NewSuccess}
      \/ /\ res.kind # "none"
         /\ \E s \in {200, 204, 404, 418, 500} :
              res' = [res EXCEPT !.status = s,
                                 !.codes = IF res.kind = "error" THEN Seed(s) ELSE res.codes]
      \/ /\ res.kind # "none"
         /\ \E m \in {"good", "bad"} : res' = [res EXCEPT !.metadata = m]
  BY <1>1 DEF Build, Responses
<1>6. CASE /\ res.kind # "none"
           /\ \E s \in {200, 204, 404, 418, 500} :
                res' = [res EXCEPT !.status = s,
                                   !.codes = IF res.kind = "error" THEN Seed(s) ELSE res.codes]
  <2>1. PICK s \in {200, 204, 404, 418, 500} :
          res' = [res EXCEPT !.status = s,
                             !.codes = IF res.kind = "error" THEN Seed(s) ELSE res.codes]
    BY <1>6
  <2>2. /\ res' \in Responses /\ res'.status = s /\ res'.kind = res.kind
        /\ res.kind = "error" => res'.codes = {Code(s)}
    <3>1. s \in Statuses
      BY DEF Statuses
    <3>2. (IF res.kind = "error" THEN Seed(s) ELSE res.codes) \in SUBSET Statuses
      BY <1>1, <3>1, CodesAre DEF Responses
    <3> QED
      BY <1>1, <2>1, <3>1, <3>2 DEF Responses, Seed
  <2>3. res'.status # 103
    BY <2>2
  <2>4. res.kind = "error" => res'.codes = {Code(res'.status)}
    BY <2>2
  <2> QED
    BY <1>4, <1>6, <2>2, <2>3, <2>4
<1>7. CASE /\ res.kind # "none"
           /\ \E m \in {"good", "bad"} : res' = [res EXCEPT !.metadata = m]
  BY <1>1, <1>3, <1>4, <1>7
<1>8. CASE res' = NewSuccess
  BY <1>2, <1>8 DEF NewSuccess, NoResponse, Responses, Statuses
<1>9. CASE res' = NewError
  BY <1>2, <1>9 DEF NewError, Statuses
<1> QED
  BY <1>5, <1>6, <1>7, <1>8, <1>9

\* Lemma.  SetValidations replaces the codes.
LEMMA SetValidationsEffect ==
  ASSUME RestTypes, SetValidations
  PROVE  /\ res' \in Responses /\ res'.status = res.status /\ res'.kind = "error"
         /\ history' \in Histories /\ history'.regular = history.regular
         /\ history'.header = history.header /\ (history.blank => history'.blank)
         /\ history'.blank \/ res'.codes = {0}
<1>1. PICK n \in 0 .. 1 : /\ res' = [res EXCEPT !.codes = Validations(n)]
                         /\ history' = [history EXCEPT !.blank = history.blank \/ n = 0]
  BY DEF SetValidations, RestTypes, TypeOK
<1>2. res \in Responses /\ history \in Histories /\ res.kind = "error"
  BY DEF RestTypes, TypeOK, Responses, Histories, SetValidations
<1>3. Validations(n) \in SUBSET Statuses /\ (n # 0 => Validations(n) = {0})
  BY CodesAre DEF Validations
<1>4. /\ res' \in Responses /\ res'.status = res.status /\ res'.kind = "error"
      /\ res'.codes = Validations(n)
  BY <1>1, <1>2, <1>3 DEF Responses
<1>5. /\ history' \in Histories /\ history'.regular = history.regular
      /\ history'.header = history.header /\ history'.blank = (history.blank \/ n = 0)
  BY <1>1, <1>2 DEF Histories
<1> QED
  BY <1>3, <1>4, <1>5

\* Lemma.  A response that is sent, and what its status and codes can be.
LEMMA RespondEffect ==
  ASSUME RestTypes, Respond
  PROVE  /\ phase = "handling" /\ steps < MaxSteps /\ steps' = steps + 1
         /\ header' = "json" /\ res' = NoResponse
         /\ history' = [history EXCEPT !.regular = history.regular /\ wire.status = 0, !.header = TRUE]
         /\ Codes \in SUBSET Statuses /\ Body \in Bodies
         /\ \/ Status = 0 /\ Ends(TRUE, RwHeader(rw, 0, "json"), wire)
            \/ /\ Status \in Statuses \ {103} /\ (Status # 0 \/ wire.status # 0) /\ Stays
               /\ rw' = (IF config.openapi THEN RwAnswer(Status) ELSE rw)
               /\ wire' = NetAnswer(Status, Body, Codes)
<1>1. res \in Responses /\ res.status # 103
  BY DEF RestTypes, TypeOK, Responses
<1>2. Status \in Statuses /\ Status # 103
  BY <1>1 DEF Status, Responses, Statuses
<1>3. Codes \in SUBSET Statuses
  <2>1. Code(500) \in Statuses
    BY DEF Code, Statuses
  <2> QED
    BY <1>1, <2>1 DEF Codes, Responses
<1>4. Body \in Bodies
  BY DEF Body, Bodies
<1>5. history' = [history EXCEPT !.regular = history.regular /\ wire.status = 0, !.header = TRUE]
  BY DEF Respond, RestTypes, TypeOK
<1>6. /\ phase = "handling" /\ steps < MaxSteps /\ steps' = steps + 1
      /\ header' = "json" /\ res' = NoResponse
  BY DEF Respond, Does, Ends
<1> QED
  BY <1>2, <1>3, <1>4, <1>5, <1>6 DEF Respond, ToRw

\* TypeOK, by the names of its parts.
Types ==
  /\ phase \in {"received", "handling", "validating", "over"}
  /\ config \in [openapi : BOOLEAN, described : BOOLEAN]
  /\ reqSpan \in SpanRecords \cup {NoSpan} /\ resSpan \in SpanRecords \cup {NoSpan}
  /\ deferred \in BOOLEAN
  /\ timer \in {"none", "running", "spent", "released"}
  /\ header \in ContentTypes
  /\ rw \in Writers /\ wire \in Wires /\ res \in Responses
  /\ verdict \in [status : Statuses, written : Nat] \cup {NoVerdict}
  /\ steps \in 0 .. MaxSteps
  /\ history \in Histories

\* Lemma.  They are the same, now and in the next state.
LEMMA TypesAre == (TypeOK <=> Types) /\ (TypeOK' <=> Types')
  BY DEF TypeOK, Types, Writers, Wires, Responses, Histories

\* Lemma.  What every step of the handler leaves alone while it runs.
LEMMA HandlerTypes ==
  ASSUME TypeOK, Does, Stays, header' \in ContentTypes, rw' \in Writers, wire' \in Wires,
         res' \in Responses, history' \in Histories
  PROVE  TypeOK'
<1>1. /\ phase' = phase /\ config' = config /\ reqSpan' = reqSpan /\ resSpan' = resSpan
      /\ deferred' = deferred /\ timer' = timer /\ verdict' = verdict
  BY DEF Stays, mwVars
<1>2. steps' \in 0 .. MaxSteps
  BY TypesAre, RestAssumption DEF Types, Does
<1> QED
  BY <1>1, <1>2, TypesAre DEF Types

\* Lemma.  So is the type of a handler that ends.
LEMMA EndsTypes ==
  ASSUME TypeOK, NEW panics \in BOOLEAN, NEW r \in Writers, NEW w \in Wires, Ends(panics, r, w),
         header' \in ContentTypes, history' \in Histories, steps' \in 0 .. MaxSteps
  PROVE  TypeOK' /\ res' = NoResponse
<1>1. NoResponse \in Responses
  BY DEF NoResponse, Responses, Statuses
<1>2. /\ wire' \in Wires /\ rw' \in Writers
      /\ phase' = (IF deferred /\ ~ r.streaming THEN "validating" ELSE "over")
      /\ timer' = (IF timer = "none" THEN "none" ELSE "released")
      /\ res' = NoResponse
      /\ UNCHANGED <<config, reqSpan, resSpan, deferred, verdict>>
  BY EndsEffect
<1> QED
  BY <1>1, <1>2, TypesAre DEF Types

\* Lemma.  The types survive every step.
LEMMA TypesStep == RestTypes /\ [Next]_vars => RestTypes'
<1> SUFFICES ASSUME RestTypes, [Next]_vars PROVE RestTypes'
  OBVIOUS
<1>1. TypeOK /\ res.status # 103
  BY DEF RestTypes
<1>2. /\ header \in ContentTypes /\ rw \in Writers /\ wire \in Wires
      /\ res \in Responses /\ history \in Histories /\ steps \in 0 .. MaxSteps
      /\ {"stream", "json", "none"} = ContentTypes
  BY <1>1, TypesAre DEF Types, ContentTypes
<1>3. CASE UNCHANGED vars
  <2>1. TypeOK'
    BY <1>1, <1>3, TypesAre DEF Types, vars, mwVars
  <2> QED
    BY <1>1, <1>3, <2>1 DEF RestTypes, vars
<1>4. CASE Receive
  <2>1. PICK valid \in BOOLEAN :
          reqSpan' = reqSpan \/ reqSpan' = ReqSpan(valid)
    <3>1. ASSUME config.openapi
          PROVE  \E valid \in BOOLEAN : reqSpan' = ReqSpan(valid)
      <4>1. PICK v \in BOOLEAN : reqSpan' = ReqSpan(v /\ config.described)
        BY <1>4, <3>1 DEF Receive
      <4>2. (v /\ config.described) \in BOOLEAN
        OBVIOUS
      <4> QED
        BY <4>1, <4>2
    <3>2. ~ config.openapi => reqSpan' = reqSpan
      BY <1>4 DEF Receive
    <3> QED
      BY <3>1, <3>2
  <2>2. ReqSpan(valid) \in SpanRecords
    BY SpansEnd DEF ReqSpan
  <2>3. /\ phase' = "handling" /\ deferred' = (config.openapi /\ config.described)
        /\ UNCHANGED <<config, resSpan, header, rw, wire, res, verdict, steps, history>>
    BY <1>4 DEF Receive
  <2>4. timer' \in {"none", "running"}
    BY <1>4 DEF Receive
  <2>5. TypeOK'
    BY <1>1, <2>1, <2>2, <2>3, <2>4, TypesAre DEF Types
  <2> QED
    BY <1>1, <2>3, <2>5 DEF RestTypes
<1>5. CASE Spend
  <2>1. TypeOK'
    BY <1>1, <1>5, TypesAre DEF Types, Spend
  <2> QED
    BY <1>1, <1>5, <2>1 DEF RestTypes, Spend
<1>6. CASE SetStream
  <2>1. history' \in Histories
    BY <1>2, <1>6 DEF SetStream, Histories
  <2>2. /\ Does /\ Stays /\ header' = "stream" /\ UNCHANGED <<rw, wire, res>>
    BY <1>6 DEF SetStream
  <2> QED
    BY <1>1, <1>2, <2>1, <2>2, HandlerTypes DEF RestTypes
<1>7. CASE WriteHeader
  <2>1. PICK s \in Statuses \ {0, 500, 503} :
          /\ rw' = (IF config.openapi THEN RwHeader(rw, s, header) ELSE rw)
          /\ wire' = NetHeader(wire, s, header)
          /\ history' = [history EXCEPT !.regular = history.regular /\ wire.status = 0 /\ s # 103,
                                        !.header = TRUE]
    BY <1>2, <1>7 DEF WriteHeader, ToRw, Histories
  <2>2. rw' \in Writers /\ wire' \in Wires /\ history' \in Histories
    <3>1. wire' \in Wires
      BY <1>2, <2>1, NetHeaderEffect
    <3>2. rw' \in Writers
      BY <1>2, <2>1, RwHeaderEffect
    <3>3. history' \in Histories
      BY <1>2, <2>1 DEF Histories
    <3> QED
      BY <3>1, <3>2, <3>3
  <2>3. Does /\ Stays /\ UNCHANGED <<header, res>>
    BY <1>7 DEF WriteHeader
  <2> QED
    BY <1>1, <1>2, <2>2, <2>3, HandlerTypes DEF RestTypes
<1>8. CASE Write
  <2>1. /\ rw' = (IF config.openapi THEN RwWrite(rw, header) ELSE rw)
        /\ wire' = NetWrite(wire, "raw", {}, header)
        /\ Does /\ Stays /\ UNCHANGED <<header, res, history>>
    BY <1>8 DEF Write, ToRw
  <2>2. "raw" \in Bodies /\ {} \in SUBSET Statuses
    BY DEF Bodies
  <2>3. rw' \in Writers /\ wire' \in Wires
    BY <1>2, <2>1, <2>2, RwWriteEffect, NetWriteEffect
  <2> QED
    BY <1>1, <1>2, <2>1, <2>3, HandlerTypes DEF RestTypes
<1>9. CASE Flush
  <2>1. /\ wire' = NetHeader(wire, 200, header)
        /\ Does /\ Stays /\ UNCHANGED <<header, rw, res, history>>
    BY <1>9 DEF Flush
  <2>2. 200 \in Statuses
    BY DEF Statuses
  <2>3. wire' \in Wires
    BY <1>2, <2>1, <2>2, NetHeaderEffect
  <2> QED
    BY <1>1, <1>2, <2>1, <2>3, HandlerTypes DEF RestTypes
<1>10. ASSUME NEW panics \in BOOLEAN, NEW r \in Writers, NEW w \in Wires, Ends(panics, r, w),
              header' \in ContentTypes, history' \in Histories, steps' \in 0 .. MaxSteps
       PROVE  RestTypes'
  <2>1. TypeOK' /\ res' = NoResponse
    BY <1>1, <1>10, EndsTypes
  <2> QED
    BY <2>1 DEF RestTypes, NoResponse
<1>11. CASE Panic
  BY <1>2, <1>10, <1>11 DEF Panic
<1>12. CASE Return
  BY <1>2, <1>10, <1>12 DEF Return
<1>13. CASE Build
  <2>1. Does /\ Stays /\ UNCHANGED <<header, rw, wire, history>>
    BY <1>13 DEF Build
  <2>2. res' \in Responses /\ res'.status # 103
    BY <1>13, BuildEffect
  <2> QED
    BY <1>1, <1>2, <2>1, <2>2, HandlerTypes DEF RestTypes
<1>14. CASE SetValidations
  <2>1. Does /\ Stays /\ UNCHANGED <<header, rw, wire>>
    BY <1>14 DEF SetValidations
  <2>2. res' \in Responses /\ res'.status = res.status /\ history' \in Histories
    BY <1>14, SetValidationsEffect
  <2> QED
    BY <1>1, <1>2, <2>1, <2>2, HandlerTypes DEF RestTypes
<1>15. CASE Respond
  <2>1. /\ phase = "handling" /\ steps < MaxSteps /\ steps' = steps + 1
        /\ header' = "json" /\ res' = NoResponse
        /\ history' = [history EXCEPT !.regular = history.regular /\ wire.status = 0, !.header = TRUE]
        /\ Codes \in SUBSET Statuses /\ Body \in Bodies
    BY <1>15, RespondEffect
  <2>2. history' \in Histories
    BY <1>2, <2>1 DEF Histories
  <2>3. NoResponse \in Responses /\ NoResponse.status # 103
    BY DEF NoResponse, Responses, Statuses
  <2>4. CASE Status = 0 /\ Ends(TRUE, RwHeader(rw, 0, "json"), wire)
    <3>1. RwHeader(rw, 0, "json") \in Writers
      <4>1. 0 \in Statuses
        BY DEF Statuses
      <4> QED
        BY <1>2, <4>1, RwHeaderEffect
    <3>2. steps' \in 0 .. MaxSteps
      BY <1>2, <2>1, RestAssumption
    <3> QED
      BY <1>2, <1>10, <2>1, <2>2, <2>4, <3>1, <3>2
  <2>5. CASE /\ Status \in Statuses \ {103} /\ (Status # 0 \/ wire.status # 0) /\ Stays
             /\ rw' = (IF config.openapi THEN RwAnswer(Status) ELSE rw)
             /\ wire' = NetAnswer(Status, Body, Codes)
    <3>1. NetAnswer(Status, Body, Codes) \in Wires /\ RwAnswer(Status) \in Writers
      BY <1>1, <2>1, <2>5, AnswerEffect
    <3>2. Does
      BY <2>1 DEF Does
    <3>3. rw' \in Writers
      BY <1>2, <2>5, <3>1
    <3> QED
      BY <1>1, <1>2, <2>1, <2>2, <2>3, <2>5, <3>1, <3>2, <3>3, HandlerTypes DEF RestTypes
  <2> QED
    BY <1>15, <2>4, <2>5, RespondEffect
<1>16. CASE BuiltIn
  <2>1. PICK s \in {200, 404, 503} :
          Ends(FALSE, RwAnswer(s),
               NetAnswer(s, IF s >= 300 THEN "errors" ELSE "data", IF s >= 300 THEN Seed(s) ELSE {}))
    BY <1>16 DEF BuiltIn
  <2>2. s \in Statuses \ {0, 103} /\ Seed(s) \in SUBSET Statuses
    BY CodesAre DEF Statuses
  <2>3. /\ (IF s >= 300 THEN "errors" ELSE "data") \in Bodies
        /\ (IF s >= 300 THEN Seed(s) ELSE {}) \in SUBSET Statuses
    BY <2>2 DEF Bodies
  <2>4. /\ RwAnswer(s) \in Writers
        /\ NetAnswer(s, IF s >= 300 THEN "errors" ELSE "data", IF s >= 300 THEN Seed(s) ELSE {}) \in Wires
    BY <1>1, <2>2, <2>3, AnswerEffect
  <2>5. header' = "json" /\ UNCHANGED <<steps, history>>
    BY <1>16 DEF BuiltIn
  <2> QED
    BY <1>2, <1>10, <2>1, <2>4, <2>5
<1>17. CASE ValidateResponse
  <2>1. PICK valid \in BOOLEAN :
          resSpan' = End(IF valid THEN Started ELSE RecordError(Started))
    BY <1>17 DEF ValidateResponse
  <2>2. resSpan' \in SpanRecords
    BY <2>1, SpansEnd
  <2>3. /\ phase' = "over" /\ verdict' = [status |-> rw.status, written |-> rw.buffered]
        /\ UNCHANGED <<config, reqSpan, deferred, timer, header, rw, wire, res, steps, history>>
    BY <1>17 DEF ValidateResponse, Validated
  <2>4. verdict' \in [status : Statuses, written : Nat]
    BY <1>2, <2>3 DEF Writers
  <2>5. TypeOK'
    BY <1>1, <2>2, <2>3, <2>4, TypesAre DEF Types
  <2> QED
    BY <1>1, <2>3, <2>5 DEF RestTypes
<1> QED
  BY <1>3, <1>4, <1>5, <1>6, <1>7, <1>8, <1>9, <1>11, <1>12, <1>13, <1>14, <1>15, <1>16, <1>17
     DEF Next, Over

\* Lemma.  The state a request starts in.
LEMMA TypesInit == Init => RestTypes
<1> SUFFICES ASSUME Init PROVE RestTypes
  OBVIOUS
<1>1. rw \in Writers /\ history \in Histories
  BY DEF Init, Writers, Histories, Statuses
<1>2. wire \in Wires
  BY DEF Init, Wires, Statuses, ContentTypes, Bodies
<1>3. res \in Responses /\ res.status # 103
  BY DEF Init, NoResponse, Responses, Statuses
<1>4. Types
  <2>1. steps \in 0 .. MaxSteps
    BY RestAssumption DEF Init
  <2>2. header \in ContentTypes
    BY DEF Init, ContentTypes
  <2>3. config \in [openapi : BOOLEAN, described : BOOLEAN]
    BY DEF Init
  <2>4. /\ phase = "received" /\ reqSpan = NoSpan /\ resSpan = NoSpan /\ deferred = FALSE
        /\ timer = "none" /\ verdict = NoVerdict
    BY DEF Init
  <2> QED
    BY <1>1, <1>2, <1>3, <2>1, <2>2, <2>3, <2>4 DEF Types
<1> QED
  BY <1>3, <1>4, TypesAre DEF RestTypes

\* RestTypes holds in every reachable state.
THEOREM TypesInvariant == Spec => []RestTypes
  BY TypesInit, TypesStep, PTL DEF Spec

\* Type correctness.
THEOREM TypeCorrect == Spec => []TypeOK
<1>1. RestTypes => TypeOK
  BY DEF RestTypes
<1> QED
  BY <1>1, TypesInvariant, PTL

-----------------------------------------------------------------------------
(* The spans and the budget *)

SpansOK ==
  /\ reqSpan # NoSpan => reqSpan.ended
  /\ resSpan # NoSpan => resSpan.ended
  /\ phase \in {"validating", "over"} => timer # "running"

\* SpansOK holds in every reachable state.
THEOREM SpansInvariant == Spec => []SpansOK
<1>1. Init => SpansOK
  BY DEF Init, SpansOK
<1>2. SpansOK /\ [Next]_vars => SpansOK'
  <2> SUFFICES ASSUME SpansOK, [Next]_vars PROVE SpansOK'
    OBVIOUS
  <2>1. CASE UNCHANGED vars
    BY <2>1 DEF SpansOK, vars, mwVars
  <2>2. CASE Receive
    <3>1. reqSpan' # NoSpan => reqSpan'.ended
      <4>1. CASE config.openapi
        <5>1. PICK v \in BOOLEAN : reqSpan' = ReqSpan(v /\ config.described)
          BY <2>2, <4>1 DEF Receive
        <5>2. (v /\ config.described) \in BOOLEAN
          OBVIOUS
        <5> QED
          BY <5>1, <5>2, SpansEnd DEF ReqSpan
      <4>2. CASE ~ config.openapi
        BY <2>2, <4>2 DEF Receive, SpansOK
      <4> QED
        BY <4>1, <4>2
    <3> QED
      BY <2>2, <3>1 DEF Receive, SpansOK
  <2>3. CASE Spend
    BY <2>3 DEF Spend, SpansOK
  <2>4. CASE Stays
    BY <2>4 DEF Stays, mwVars, SpansOK
  <2>5. ASSUME NEW panics, NEW r, NEW w, Ends(panics, r, w)
        PROVE  SpansOK'
    BY <2>5 DEF Ends, SpansOK
  <2>6. CASE ValidateResponse
    <3>1. resSpan'.ended
      BY <2>6, SpansEnd DEF ValidateResponse
    <3> QED
      BY <2>6, <3>1 DEF ValidateResponse, SpansOK
  <2>7. CASE Panic \/ Return
    BY <2>5, <2>7 DEF Panic, Return
  <2>8. CASE Respond
    BY <2>4, <2>5, <2>8 DEF Respond
  <2>9. CASE BuiltIn
    BY <2>5, <2>9 DEF BuiltIn
  <2>10. CASE SetStream \/ WriteHeader \/ Write \/ Flush \/ Build \/ SetValidations
    BY <2>4, <2>10 DEF SetStream, WriteHeader, Write, Flush, Build, SetValidations
  <2> QED
    BY <2>1, <2>2, <2>3, <2>6, <2>7, <2>8, <2>9, <2>10 DEF Next, Over
<1> QED
  BY <1>1, <1>2, PTL DEF Spec

\* Whatever the handler does, a request that is over has ended the spans of the
\* middleware and released its budget.
THEOREM NothingIsLeftBehind == Spec => []NothingLeftBehind
<1>1. SpansOK => NothingLeftBehind
  BY DEF SpansOK, NothingLeftBehind
<1> QED
  BY <1>1, SpansInvariant, PTL

-----------------------------------------------------------------------------
(* The codes of an error *)

\* The codes of the response the handler builds, and of what was sent.
CodesOK ==
  /\ res.kind = "error" /\ ~ history.blank => res.codes \in {{Code(res.status)}, {0}}
  /\ wire.status = 0 => wire.written = 0 /\ ~ wire.answered
  /\ CodesMatchStatus

\* Lemma.  A handler that ends sends no code that was not sent.
LEMMA CodesEnd ==
  ASSUME RestTypes, CodesOK, NEW panics \in BOOLEAN, NEW r \in Writers,
         Ends(panics, r, wire), history'.blank = history.blank
  PROVE  CodesOK'
<1>1. TypeOK /\ wire \in Wires
  BY TypesAre DEF RestTypes, Types
<1>2. /\ wire'.status = (IF wire.status = 0 /\ ~ panics THEN 200 ELSE wire.status)
      /\ wire'.written = wire.written /\ wire'.body = wire.body
      /\ wire'.codes = wire.codes /\ wire'.answered = wire.answered
      /\ res' = NoResponse
  BY <1>1, EndsEffect
<1>3. wire'.status = 0 => wire'.written = 0 /\ ~ wire'.answered
  BY <1>2 DEF CodesOK
<1>4. wire'.answered => wire'.status = wire.status
  BY <1>2 DEF CodesOK
<1>5. res'.kind # "error"
  BY <1>2 DEF NoResponse
<1>6. wire'.answered /\ wire'.body = "errors" /\ wire'.written = 1 /\ ~ history'.blank =>
        wire'.codes \in {{Code(wire'.status)}, {0}}
  BY <1>2, <1>4 DEF CodesOK, CodesMatchStatus
<1> QED
  BY <1>3, <1>5, <1>6 DEF CodesOK, CodesMatchStatus

\* Lemma.  CodesOK survives every step.
LEMMA CodesStep == RestTypes /\ CodesOK /\ [Next]_vars => CodesOK'
<1> SUFFICES ASSUME RestTypes, CodesOK, [Next]_vars PROVE CodesOK'
  OBVIOUS
<1>1. /\ TypeOK /\ rw \in Writers /\ wire \in Wires /\ header \in ContentTypes
      /\ history \in Histories
  BY TypesAre DEF RestTypes, Types
<1>2. ASSUME UNCHANGED <<res, wire, history>>
      PROVE  CodesOK'
  BY <1>2 DEF CodesOK, CodesMatchStatus
<1>3. CASE UNCHANGED vars
  BY <1>2, <1>3 DEF vars
<1>4. CASE Receive \/ Spend \/ ValidateResponse
  BY <1>2, <1>4 DEF Receive, Spend, ValidateResponse
<1>5. CASE SetStream
  <2>1. history'.blank = history.blank
    BY <1>1, <1>5 DEF SetStream, Histories
  <2>2. UNCHANGED <<wire, res>>
    BY <1>5 DEF SetStream
  <2> QED
    BY <2>1, <2>2 DEF CodesOK, CodesMatchStatus
<1>6. CASE WriteHeader
  <2>1. PICK s \in Statuses \ {0, 500, 503} :
          /\ wire' = NetHeader(wire, s, header)
          /\ history' = [history EXCEPT !.regular = history.regular /\ wire.status = 0 /\ s # 103,
                                        !.header = TRUE]
    BY <1>1, <1>6 DEF WriteHeader, Histories
  <2>2. history'.blank = history.blank /\ res' = res
    BY <1>1, <1>6, <2>1 DEF WriteHeader, Histories
  <2>3. /\ wire'.answered = wire.answered /\ wire'.written = wire.written
        /\ wire'.body = wire.body /\ wire'.codes = wire.codes
        /\ wire.status # 0 => wire'.status = wire.status
    BY <1>1, <2>1, NetHeaderEffect
  <2>4. wire'.answered => wire'.status = wire.status
    BY <2>3 DEF CodesOK
  <2>5. wire'.status = 0 => wire.status = 0
    BY <2>3
  <2> QED
    BY <2>2, <2>3, <2>4, <2>5 DEF CodesOK, CodesMatchStatus
<1>7. CASE Write
  <2>1. wire' = NetWrite(wire, "raw", {}, header) /\ UNCHANGED <<res, history>>
    BY <1>7 DEF Write
  <2>2. "raw" \in Bodies /\ {} \in SUBSET Statuses
    BY DEF Bodies
  <2> DEFINE status == IF wire.status = 0 THEN 200 ELSE wire.status
  <2>3. /\ wire'.status = status /\ wire'.answered = wire.answered
        /\ wire'.written = (IF status = 204 THEN wire.written ELSE wire.written + 1)
        /\ wire'.body = (IF status = 204 THEN wire.body ELSE "raw")
        /\ wire'.codes = (IF status = 204 THEN wire.codes ELSE {})
    BY <1>1, <2>1, <2>2, NetWriteEffect
  <2>4. wire'.status # 0 /\ (wire.status # 0 => wire'.status = wire.status)
    BY <2>3
  <2>5. CASE status = 204
    <3>1. wire.answered => wire'.status = wire.status
      BY <2>4 DEF CodesOK
    <3> QED
      BY <2>1, <2>3, <2>4, <2>5, <3>1 DEF CodesOK, CodesMatchStatus
  <2>6. CASE status # 204
    BY <2>1, <2>3, <2>4, <2>6 DEF CodesOK, CodesMatchStatus
  <2> QED
    BY <2>5, <2>6
<1>8. CASE Flush
  <2>1. wire' = NetHeader(wire, 200, header) /\ UNCHANGED <<res, history>>
    BY <1>8 DEF Flush
  <2>2. 200 \in Statuses
    BY DEF Statuses
  <2>3. /\ wire'.answered = wire.answered /\ wire'.written = wire.written
        /\ wire'.body = wire.body /\ wire'.codes = wire.codes
        /\ wire.status # 0 => wire'.status = wire.status
    BY <1>1, <2>1, <2>2, NetHeaderEffect
  <2>4. wire'.answered => wire'.status = wire.status
    BY <2>3 DEF CodesOK
  <2>5. wire'.status = 0 => wire.status = 0
    BY <2>3
  <2> QED
    BY <2>1, <2>3, <2>4, <2>5 DEF CodesOK, CodesMatchStatus
<1>9. CASE Panic \/ Return
  BY <1>1, <1>9, CodesEnd DEF Panic, Return
<1>10. CASE Build
  <2>1. UNCHANGED <<wire, history>>
    BY <1>10 DEF Build
  <2>2. res'.kind = "error" /\ ~ history.blank => res'.codes \in {{Code(res'.status)}, {0}}
    <3>1. CASE res' = NewError
      BY <3>1 DEF NewError
    <3>2. CASE res'.kind = "success"
      BY <3>2
    <3>3. CASE /\ res.kind = "error" /\ res'.kind = "error"
               /\ \/ res'.codes = {Code(res'.status)}
                  \/ res'.codes = res.codes /\ res'.status = res.status
      BY <3>3 DEF CodesOK
    <3> QED
      BY <1>10, <3>1, <3>2, <3>3, BuildEffect
  <2> QED
    BY <2>1, <2>2 DEF CodesOK, CodesMatchStatus
<1>11. CASE SetValidations
  <2>1. wire' = wire
    BY <1>11 DEF SetValidations
  <2>2. (history.blank => history'.blank) /\ (history'.blank \/ res'.codes = {0})
    BY <1>11, SetValidationsEffect
  <2> QED
    BY <2>1, <2>2 DEF CodesOK, CodesMatchStatus
<1>12. CASE Respond
  <2>1. history'.blank = history.blank
    <3>1. history' = [history EXCEPT !.regular = history.regular /\ wire.status = 0, !.header = TRUE]
      BY <1>12, RespondEffect
    <3> QED
      BY <1>1, <3>1 DEF Histories
  <2>2. CASE Status = 0 /\ Ends(TRUE, RwHeader(rw, 0, "json"), wire)
    <3>1. RwHeader(rw, 0, "json") \in Writers
      <4>1. 0 \in Statuses /\ "json" \in ContentTypes
        BY DEF Statuses, ContentTypes
      <4> QED
        BY <1>1, <4>1, RwHeaderEffect
    <3> QED
      BY <2>1, <2>2, <3>1, CodesEnd
  <2>3. CASE /\ Status \in Statuses \ {103} /\ (Status # 0 \/ wire.status # 0)
             /\ wire' = NetAnswer(Status, Body, Codes)
    <3>1. Codes \in SUBSET Statuses /\ Body \in Bodies /\ res' = NoResponse
      BY <1>12, RespondEffect
    <3> DEFINE status == IF wire.status = 0 THEN Status ELSE wire.status
    <3>2. /\ wire'.status = status
          /\ wire'.written = (IF status = 204 THEN wire.written ELSE wire.written + 1)
          /\ wire'.body = (IF status = 204 THEN wire.body ELSE Body)
          /\ wire'.codes = (IF status = 204 THEN wire.codes ELSE Codes)
          /\ wire'.answered = (wire.status = 0)
      BY <1>1, <2>3, <3>1, AnswerEffect
    <3>3. wire'.status # 0
      BY <2>3, <3>2
    <3>4. Body = "errors" /\ ~ history.blank => Codes \in {{Code(Status)}, {0}}
      <4>1. CASE Fails
        BY <4>1 DEF Body, Codes, Status
      <4>2. CASE ~ Fails
        BY <4>2 DEF Body, Codes, Status, CodesOK
      <4> QED
        BY <4>1, <4>2
    <3>5. CASE wire.status = 0 /\ Status # 204
      BY <2>1, <3>1, <3>2, <3>3, <3>4, <3>5 DEF CodesOK, CodesMatchStatus, NoResponse
    <3>6. CASE wire.status = 0 /\ Status = 204
      <4>1. wire'.written = 0
        BY <3>2, <3>6 DEF CodesOK
      <4> QED
        BY <2>1, <3>1, <3>3, <4>1 DEF CodesOK, CodesMatchStatus, NoResponse
    <3>7. CASE wire.status # 0
      BY <2>1, <3>1, <3>2, <3>3, <3>7 DEF CodesOK, CodesMatchStatus, NoResponse
    <3> QED
      BY <3>5, <3>6, <3>7
  <2> QED
    BY <1>12, <2>2, <2>3, RespondEffect
<1>13. CASE BuiltIn
  <2>1. PICK s \in {200, 404, 503} :
          Ends(FALSE, RwAnswer(s),
               NetAnswer(s, IF s >= 300 THEN "errors" ELSE "data", IF s >= 300 THEN Seed(s) ELSE {}))
    BY <1>13 DEF BuiltIn
  <2> DEFINE b == IF s >= 300 THEN "errors" ELSE "data"
             cs == IF s >= 300 THEN Seed(s) ELSE {}
             w == NetAnswer(s, b, cs)
  <2>2. s \in Statuses \ {0, 103} /\ b \in Bodies /\ cs \in SUBSET Statuses /\ s # 204
    <3>1. s \in Statuses \ {0, 103} /\ s # 204
      BY DEF Statuses
    <3> QED
      BY <3>1, CodesAre DEF Bodies
  <2>3. b = "errors" => cs = {Code(s)}
    BY DEF Seed
  <2> HIDE DEF b, cs
  <2> DEFINE status == IF wire.status = 0 THEN s ELSE wire.status
  <2>4. /\ w \in Wires /\ w.status = status
        /\ w.body = (IF status = 204 THEN wire.body ELSE b)
        /\ w.codes = (IF status = 204 THEN wire.codes ELSE cs)
        /\ w.answered = (wire.status = 0)
        /\ RwAnswer(s) \in Writers
    BY <1>1, <2>2, AnswerEffect
  <2>5. Ends(FALSE, RwAnswer(s), w)
    BY <2>1 DEF b, cs
  <2> HIDE DEF w
  <2>6. /\ wire'.status = (IF w.status = 0 THEN 200 ELSE w.status)
        /\ wire'.body = w.body /\ wire'.codes = w.codes /\ wire'.answered = w.answered
        /\ res' = NoResponse
    <3>1. PICK panics \in BOOLEAN : panics = FALSE /\ Ends(panics, RwAnswer(s), w)
      BY <2>5
    <3> QED
      BY <1>1, <2>4, <3>1, EndsEffect
  <2>7. w.status # 0
    BY <2>2, <2>4
  <2>8. history' = history
    BY <1>13 DEF BuiltIn
  <2>9. wire'.status # 0 /\ res'.kind # "error"
    BY <2>6, <2>7 DEF NoResponse
  <2>10. ASSUME wire'.answered, wire'.body = "errors"
         PROVE  wire'.codes = {Code(wire'.status)}
    <3>1. wire.status = 0 /\ status = s /\ wire'.status = s
      <4>1. wire.status = 0
        BY <2>4, <2>6, <2>10
      <4>2. status = s
        BY <4>1
      <4> QED
        BY <2>4, <2>6, <2>7, <4>1, <4>2
    <3>2. b = "errors" /\ wire'.codes = cs
      BY <2>2, <2>4, <2>6, <2>10, <3>1
    <3> QED
      BY <2>3, <3>1, <3>2
  <2> QED
    BY <2>9, <2>10 DEF CodesOK, CodesMatchStatus
<1> QED
  BY <1>3, <1>4, <1>5, <1>6, <1>7, <1>8, <1>9, <1>10, <1>11, <1>12, <1>13 DEF Next, Over

\* CodesOK holds in every reachable state.
THEOREM CodesInvariant == Spec => []CodesOK
<1>1. Init => CodesOK
  BY DEF Init, CodesOK, CodesMatchStatus, NoResponse
<1> QED
  BY <1>1, CodesStep, TypesInvariant, PTL DEF Spec

\* The codes of the errors on the wire are those of the status on the wire, or
\* of validations, after any sequence of calls of the handler.
THEOREM CodesAreOfTheStatus == Spec => []CodesMatchStatus
<1>1. CodesOK => CodesMatchStatus
  BY DEF CodesOK
<1> QED
  BY <1>1, CodesInvariant, PTL

-----------------------------------------------------------------------------
(* What the middleware sees, and what the client gets *)

\* How far the request is, and whether its response was validated.
PhaseOK ==
  /\ deferred => config.openapi
  /\ phase \in {"received", "handling"} /\ steps = 0 => wire.status = 0
  /\ phase # "over" => verdict = NoVerdict
  /\ phase = "validating" => deferred /\ ~ rw.streaming
  /\ phase = "over" => verdict = IF deferred /\ ~ rw.streaming THEN Validated ELSE NoVerdict
  /\ phase \in {"validating", "over"} /\ ~ wire.aborted => wire.status # 0

\* Until the first byte the middleware has seen nothing; from then on it has the
\* status, and either all of the body or none of it, by the Content-Type that
\* was sent.
WriterOK ==
  history.regular =>
    /\ phase \in {"received", "handling"} /\ wire.status = 0 =>
         rw.status = 200 /\ rw.buffered = 0 /\ ~ rw.streaming /\ ~ history.header
    /\ phase \in {"received", "handling"} /\ wire.status # 0 => header = wire.type
    /\ config.openapi /\ wire.status # 0 => rw.status = wire.status
    /\ config.openapi /\ ~ rw.streaming /\ wire.status # 204 => rw.buffered = wire.written
    /\ wire.status # 0 /\ rw.streaming => wire.type = "stream"
    /\ config.openapi /\ wire.status # 0 /\ wire.type = "stream" /\ (wire.written > 0 \/ history.header) =>
         rw.streaming
    /\ wire.type = "stream" => rw.buffered = 0

\* Lemma.  PhaseOK survives every step.
LEMMA PhaseStep == RestTypes /\ PhaseOK /\ [Next]_vars => PhaseOK'
<1> SUFFICES ASSUME RestTypes, PhaseOK, [Next]_vars PROVE PhaseOK'
  OBVIOUS
<1>1. /\ TypeOK /\ rw \in Writers /\ wire \in Wires /\ steps \in Nat
  BY TypesAre, RestAssumption DEF RestTypes, Types
<1>2. CASE UNCHANGED vars
  BY <1>2 DEF vars, mwVars, PhaseOK, Validated
<1>3. CASE Receive
  BY <1>3 DEF Receive, PhaseOK
<1>4. CASE Spend
  BY <1>4 DEF Spend, PhaseOK, Validated
<1>5. ASSUME Does, Stays
      PROVE  PhaseOK'
  BY <1>1, <1>5 DEF Does, Stays, mwVars, PhaseOK
<1>6. ASSUME NEW panics \in BOOLEAN, NEW r \in Writers, NEW w \in Wires, Ends(panics, r, w),
             phase = "handling"
      PROVE  PhaseOK'
  <2>1. /\ wire'.status = (IF w.status = 0 /\ ~ panics THEN 200 ELSE w.status)
        /\ wire'.aborted = panics
        /\ rw' = (IF config.openapi THEN r ELSE rw)
        /\ phase' = (IF deferred /\ ~ r.streaming THEN "validating" ELSE "over")
        /\ UNCHANGED <<config, deferred, verdict>>
    BY <1>1, <1>6, EndsEffect
  <2>2. deferred => rw' = r
    BY <2>1 DEF PhaseOK
  <2>3. ~ wire'.aborted => wire'.status # 0
    BY <2>1
  <2> QED
    BY <1>6, <2>1, <2>2, <2>3 DEF PhaseOK
<1>7. CASE Panic \/ Return
  <2>1. PICK panics \in BOOLEAN : Ends(panics, rw, wire)
    BY <1>7 DEF Panic, Return
  <2> QED
    BY <1>1, <1>6, <1>7, <2>1 DEF Panic, Return
<1>8. CASE SetStream \/ WriteHeader \/ Write \/ Flush \/ Build \/ SetValidations
  BY <1>5, <1>8 DEF SetStream, WriteHeader, Write, Flush, Build, SetValidations
<1>9. CASE Respond
  <2>1. Does /\ phase = "handling"
    BY <1>9 DEF Respond, Does
  <2>2. RwHeader(rw, 0, "json") \in Writers
    <3>1. 0 \in Statuses /\ "json" \in ContentTypes
      BY DEF Statuses, ContentTypes
    <3> QED
      BY <1>1, <3>1, RwHeaderEffect
  <2>3. CASE Stays
    BY <1>5, <2>1, <2>3
  <2>4. CASE Ends(TRUE, RwHeader(rw, 0, "json"), wire)
    <3>1. PICK panics \in BOOLEAN : Ends(panics, RwHeader(rw, 0, "json"), wire)
      BY <2>4
    <3> QED
      BY <1>1, <1>6, <2>1, <2>2, <3>1
  <2> QED
    BY <1>9, <2>3, <2>4 DEF Respond
<1>10. CASE BuiltIn
  <2>1. PICK s \in {200, 404, 503} :
          Ends(FALSE, RwAnswer(s),
               NetAnswer(s, IF s >= 300 THEN "errors" ELSE "data", IF s >= 300 THEN Seed(s) ELSE {}))
    BY <1>10 DEF BuiltIn
  <2> DEFINE b == IF s >= 300 THEN "errors" ELSE "data"
             cs == IF s >= 300 THEN Seed(s) ELSE {}
  <2>2. s \in Statuses \ {0, 103} /\ b \in Bodies /\ cs \in SUBSET Statuses
    <3>1. s \in Statuses \ {0, 103}
      BY DEF Statuses
    <3> QED
      BY <3>1, CodesAre DEF Bodies
  <2>3. RwAnswer(s) \in Writers /\ NetAnswer(s, b, cs) \in Wires
    BY <1>1, <2>2, AnswerEffect
  <2>4. PICK panics \in BOOLEAN : Ends(panics, RwAnswer(s), NetAnswer(s, b, cs))
    BY <2>1
  <2> HIDE DEF b, cs
  <2> QED
    BY <1>6, <1>10, <2>3, <2>4 DEF BuiltIn
<1>11. CASE ValidateResponse
  BY <1>11 DEF ValidateResponse, PhaseOK, Validated
<1> QED
  BY <1>2, <1>3, <1>4, <1>7, <1>8, <1>9, <1>10, <1>11 DEF Next, Over

\* Lemma.  WriterOK survives the end of a handler: with what it sent, or with a
\* panic.
LEMMA WriterEnd ==
  ASSUME RestTypes, WriterOK, CodesOK, phase = "handling",
         NEW panics \in BOOLEAN, Ends(panics, rw, wire), UNCHANGED <<header, history>>
  PROVE  WriterOK'
<1>1. TypeOK /\ rw \in Writers /\ wire \in Wires /\ wire.written \in Nat
  BY TypesAre DEF RestTypes, Types, Wires
<1>2. /\ wire'.status = (IF wire.status = 0 /\ ~ panics THEN 200 ELSE wire.status)
      /\ wire'.type = (IF wire.status = 0 /\ ~ panics THEN header ELSE wire.type)
      /\ wire'.written = wire.written /\ rw' = rw /\ config' = config
      /\ phase' \in {"validating", "over"}
  BY <1>1, EndsEffect
<1>3. CASE wire.status = 0 /\ ~ panics
  <2>1. wire'.status = 200 /\ wire'.type = header /\ wire'.written = 0
    BY <1>2, <1>3 DEF CodesOK
  <2> QED
    BY <1>2, <1>3, <2>1 DEF WriterOK
<1>4. CASE wire.status # 0 \/ panics
  <2>1. wire'.status = wire.status /\ wire'.type = wire.type
    BY <1>2, <1>4
  <2> QED
    BY <1>2, <2>1 DEF WriterOK
<1> QED
  BY <1>3, <1>4

\* Lemma.  WriterOK survives what the handler does with the writer.
LEMMA WriterCalls ==
  ASSUME RestTypes, WriterOK, CodesOK, SetStream \/ WriteHeader \/ Write \/ Flush
  PROVE  WriterOK'
<1>1. /\ TypeOK /\ rw \in Writers /\ wire \in Wires /\ header \in ContentTypes
      /\ history \in Histories
      /\ wire.written \in Nat /\ rw.buffered \in Nat /\ rw.streaming \in BOOLEAN
  BY TypesAre DEF RestTypes, Types, Wires, Writers
<1>2. phase = "handling" /\ phase' = phase /\ config' = config
  BY DEF SetStream, WriteHeader, Write, Flush, Does, Stays, mwVars
<1>3. CASE SetStream
  <2>1. /\ history'.regular = (history.regular /\ wire.status = 0) /\ history'.header = history.header
        /\ UNCHANGED <<rw, wire>>
    BY <1>1, <1>3 DEF SetStream, Histories
  <2> QED
    BY <1>2, <2>1 DEF WriterOK
<1>4. CASE WriteHeader
  <2>1. PICK s \in Statuses \ {0, 500, 503} :
          /\ rw' = (IF config.openapi THEN RwHeader(rw, s, header) ELSE rw)
          /\ wire' = NetHeader(wire, s, header)
          /\ history' = [history EXCEPT !.regular = history.regular /\ wire.status = 0 /\ s # 103,
                                        !.header = TRUE]
    BY <1>1, <1>4 DEF WriteHeader, ToRw, Histories
  <2>2. /\ history'.regular = (history.regular /\ wire.status = 0 /\ s # 103)
        /\ header' = header
    BY <1>1, <1>4, <2>1 DEF Histories, WriteHeader
  <2> SUFFICES ASSUME history'.regular PROVE WriterOK'
    BY DEF WriterOK
  <2>3. history.regular /\ wire.status = 0 /\ s # 103 /\ s # 0
    BY <2>2
  <2>4. wire'.status = s /\ wire'.type = header /\ wire'.written = 0
    <3>1. wire'.status = s /\ wire'.type = header /\ wire'.written = wire.written
      BY <1>1, <2>1, <2>3, NetHeaderEffect
    <3> QED
      BY <2>3, <3>1 DEF CodesOK
  <2>5. rw.buffered = 0 /\ ~ rw.streaming
    BY <1>2, <2>3 DEF WriterOK
  <2>6. /\ config.openapi => rw'.status = s /\ (rw'.streaming <=> header = "stream")
        /\ ~ config.openapi => ~ rw'.streaming
        /\ rw'.buffered = 0
    BY <1>1, <2>1, <2>5, RwHeaderEffect
  <2> QED
    BY <1>2, <2>2, <2>3, <2>4, <2>6 DEF WriterOK
<1>5. CASE Write
  <2>1. /\ rw' = (IF config.openapi THEN RwWrite(rw, header) ELSE rw)
        /\ wire' = NetWrite(wire, "raw", {}, header)
        /\ UNCHANGED <<header, history>>
    BY <1>5 DEF Write, ToRw
  <2>2. "raw" \in Bodies /\ {} \in SUBSET Statuses
    BY DEF Bodies
  <2> SUFFICES ASSUME history.regular PROVE WriterOK'
    BY <2>1 DEF WriterOK
  <2> DEFINE status == IF wire.status = 0 THEN 200 ELSE wire.status
  <2>3. /\ wire'.status = status /\ wire'.type = (IF wire.status = 0 THEN header ELSE wire.type)
        /\ wire'.written = (IF status = 204 THEN wire.written ELSE wire.written + 1)
    BY <1>1, <2>1, <2>2, NetWriteEffect
  <2>4. wire'.type = header
    BY <1>2, <2>3 DEF WriterOK
  <2>5. /\ config.openapi =>
             /\ rw'.status = rw.status /\ (rw'.streaming <=> rw.streaming \/ header = "stream")
             /\ rw'.buffered = (IF rw.streaming \/ header = "stream" THEN rw.buffered ELSE rw.buffered + 1)
        /\ ~ config.openapi => rw' = rw
    BY <1>1, <2>1, RwWriteEffect
  <2>6. wire.status = 0 => /\ rw.status = 200 /\ rw.buffered = 0 /\ ~ rw.streaming
                          /\ wire.written = 0
    BY <1>2 DEF WriterOK, CodesOK
  <2>7. wire'.status # 0 /\ (config.openapi => rw'.status = wire'.status)
    BY <2>3, <2>5, <2>6 DEF WriterOK
  <2>8. ASSUME config.openapi, ~ rw'.streaming, wire'.status # 204
        PROVE  rw'.buffered = wire'.written
    <3>1. rw'.buffered = rw.buffered + 1 /\ wire'.written = wire.written + 1 /\ ~ rw.streaming
      BY <2>3, <2>5, <2>8
    <3>2. wire.status # 204
      BY <2>3, <2>8
    <3> QED
      BY <2>8, <3>1, <3>2 DEF WriterOK
  <2>9. rw'.streaming => wire'.type = "stream"
    BY <2>3, <2>4, <2>5, <2>6 DEF WriterOK
  <2>10. config.openapi /\ wire'.type = "stream" => rw'.streaming
    BY <2>4, <2>5
  <2>11. wire'.type = "stream" => rw'.buffered = 0
    BY <2>3, <2>4, <2>5, <2>6 DEF WriterOK
  <2> QED
    BY <1>2, <2>1, <2>4, <2>7, <2>8, <2>9, <2>10, <2>11 DEF WriterOK
<1>6. CASE Flush
  <2>1. wire' = NetHeader(wire, 200, header) /\ UNCHANGED <<header, rw, history>>
    BY <1>6 DEF Flush
  <2>2. 200 \in Statuses
    BY DEF Statuses
  <2>3. /\ wire'.status = (IF wire.status # 0 THEN wire.status ELSE 200)
        /\ wire'.type = (IF wire.status # 0 THEN wire.type ELSE header)
        /\ wire'.written = wire.written
    BY <1>1, <2>1, <2>2, NetHeaderEffect
  <2>4. CASE wire.status # 0
    BY <1>2, <2>1, <2>3, <2>4 DEF WriterOK
  <2>5. CASE wire.status = 0
    <3>1. wire'.status = 200 /\ wire'.type = header /\ wire'.written = 0
      BY <2>3, <2>5 DEF CodesOK
    <3> QED
      BY <1>2, <2>1, <2>5, <3>1 DEF WriterOK
  <2> QED
    BY <2>4, <2>5
<1> QED
  BY <1>3, <1>4, <1>5, <1>6

\* Lemma.  WriterOK survives a response, of the handler or of the router.
LEMMA WriterAnswers ==
  ASSUME RestTypes, WriterOK, CodesOK, PhaseOK, Respond \/ BuiltIn
  PROVE  WriterOK'
<1>1. /\ TypeOK /\ rw \in Writers /\ wire \in Wires /\ header \in ContentTypes
      /\ history \in Histories /\ wire.written \in Nat /\ rw.streaming \in BOOLEAN
  BY TypesAre DEF RestTypes, Types, Wires, Writers
<1>2. phase = "handling" /\ header' = "json"
  BY DEF Respond, BuiltIn, Does
<1>3. history.regular /\ wire.status = 0 =>
        rw.status = 200 /\ rw.buffered = 0 /\ ~ rw.streaming /\ wire.written = 0
  BY <1>2 DEF WriterOK, CodesOK
<1>4. CASE Respond
  <2>1. history'.regular = (history.regular /\ wire.status = 0)
    <3>1. history' = [history EXCEPT !.regular = history.regular /\ wire.status = 0, !.header = TRUE]
      BY <1>4, RespondEffect
    <3> QED
      BY <1>1, <3>1 DEF Histories
  <2> SUFFICES ASSUME history'.regular PROVE WriterOK'
    BY DEF WriterOK
  <2>2. history.regular /\ wire.status = 0
    BY <2>1
  <2>3. CASE Status = 0 /\ Ends(TRUE, RwHeader(rw, 0, "json"), wire)
    <3>1. /\ RwHeader(rw, 0, "json") \in Writers
          /\ RwHeader(rw, 0, "json").buffered = rw.buffered
      <4>1. 0 \in Statuses /\ "json" \in ContentTypes
        BY DEF Statuses, ContentTypes
      <4> QED
        BY <1>1, <4>1, RwHeaderEffect
    <3>2. PICK panics \in BOOLEAN : panics = TRUE /\ Ends(panics, RwHeader(rw, 0, "json"), wire)
      BY <2>3
    <3>3. /\ wire'.status = wire.status /\ wire'.type = wire.type /\ wire'.written = wire.written
          /\ rw' = (IF config.openapi THEN RwHeader(rw, 0, "json") ELSE rw)
          /\ phase' \in {"validating", "over"}
      BY <1>1, <3>1, <3>2, EndsEffect
    <3>4. rw'.buffered = 0 /\ wire'.written = 0 /\ wire'.status = 0
      BY <1>3, <2>2, <3>1, <3>3
    <3> QED
      BY <3>3, <3>4 DEF WriterOK
  <2>4. CASE /\ Status \in Statuses \ {103} /\ (Status # 0 \/ wire.status # 0) /\ Stays
             /\ rw' = (IF config.openapi THEN RwAnswer(Status) ELSE rw)
             /\ wire' = NetAnswer(Status, Body, Codes)
    <3>1. Codes \in SUBSET Statuses /\ Body \in Bodies
      BY <1>4, RespondEffect
    <3>2. /\ wire'.status = Status /\ wire'.type = "json"
          /\ wire'.written = (IF Status = 204 THEN 0 ELSE 1)
      BY <1>1, <1>3, <2>2, <2>4, <3>1, AnswerEffect
    <3>3. /\ ~ rw'.streaming
          /\ config.openapi => rw'.status = Status /\ rw'.buffered = 1
      BY <1>1, <1>3, <2>2, <2>4, AnswerEffect, <3>1
    <3>4. config' = config /\ Status # 0
      BY <2>2, <2>4 DEF Stays, mwVars
    <3> QED
      BY <1>2, <3>2, <3>3, <3>4 DEF WriterOK
  <2> QED
    BY <1>4, <2>3, <2>4, RespondEffect
<1>5. CASE BuiltIn
  <2>1. PICK s \in {200, 404, 503} :
          Ends(FALSE, RwAnswer(s),
               NetAnswer(s, IF s >= 300 THEN "errors" ELSE "data", IF s >= 300 THEN Seed(s) ELSE {}))
    BY <1>5 DEF BuiltIn
  <2> DEFINE b == IF s >= 300 THEN "errors" ELSE "data"
             cs == IF s >= 300 THEN Seed(s) ELSE {}
             w == NetAnswer(s, b, cs)
  <2>2. s \in Statuses \ {0, 103} /\ b \in Bodies /\ cs \in SUBSET Statuses /\ s # 204 /\ s # 0
    <3>1. s \in Statuses \ {0, 103} /\ s # 204 /\ s # 0
      BY DEF Statuses
    <3> QED
      BY <3>1, CodesAre DEF Bodies
  <2>3. history' = history /\ wire.status = 0
    BY <1>5 DEF BuiltIn, PhaseOK
  <2> SUFFICES ASSUME history.regular PROVE WriterOK'
    BY <2>3 DEF WriterOK
  <2> HIDE DEF b, cs
  <2> DEFINE status == IF wire.status = 0 THEN s ELSE wire.status
  <2>4. w \in Wires /\ w.status = s /\ w.type = "json" /\ w.written = wire.written + 1
    <3>1. /\ w \in Wires /\ w.status = status
          /\ w.type = (IF wire.status = 0 THEN "json" ELSE wire.type)
          /\ w.written = (IF status = 204 THEN wire.written ELSE wire.written + 1)
      BY <1>1, <2>2, AnswerEffect
    <3> QED
      BY <2>2, <2>3, <3>1
  <2>5. /\ RwAnswer(s) \in Writers /\ RwAnswer(s).status = s
        /\ RwAnswer(s).streaming = rw.streaming
        /\ RwAnswer(s).buffered = (IF rw.streaming THEN rw.buffered ELSE rw.buffered + 1)
    BY <1>1, <2>2, AnswerEffect
  <2>6. PICK panics \in BOOLEAN : panics = FALSE /\ Ends(panics, RwAnswer(s), w)
    BY <2>1 DEF b, cs
  <2> HIDE DEF w
  <2>7. /\ wire'.status = (IF w.status = 0 THEN 200 ELSE w.status)
        /\ wire'.type = (IF w.status = 0 THEN header ELSE w.type)
        /\ wire'.written = w.written
        /\ rw' = (IF config.openapi THEN RwAnswer(s) ELSE rw)
        /\ phase' \in {"validating", "over"} /\ config' = config
    BY <1>1, <2>4, <2>5, <2>6, EndsEffect
  <2>8. wire'.status = s /\ wire'.type = "json" /\ wire'.written = 1
    BY <1>3, <2>2, <2>3, <2>4, <2>7
  <2>9. /\ ~ rw'.streaming
        /\ config.openapi => rw'.status = s /\ rw'.buffered = 1
    BY <1>3, <2>3, <2>5, <2>7
  <2> QED
    BY <2>2, <2>7, <2>8, <2>9 DEF WriterOK
<1> QED
  BY <1>4, <1>5

\* Lemma.  WriterOK survives every step.
LEMMA WriterStep == RestTypes /\ WriterOK /\ CodesOK /\ PhaseOK /\ [Next]_vars => WriterOK'
<1> SUFFICES ASSUME RestTypes, WriterOK, CodesOK, PhaseOK, [Next]_vars PROVE WriterOK'
  OBVIOUS
<1>1. CASE UNCHANGED vars
  BY <1>1 DEF vars, mwVars, WriterOK
<1>2. CASE Receive
  BY <1>2 DEF Receive, WriterOK
<1>3. CASE Spend
  BY <1>3 DEF Spend, WriterOK
<1>4. CASE ValidateResponse
  BY <1>4 DEF ValidateResponse, WriterOK
<1>5. CASE SetStream \/ WriteHeader \/ Write \/ Flush
  BY <1>5, WriterCalls
<1>6. CASE Respond \/ BuiltIn
  BY <1>6, WriterAnswers
<1>7. CASE Panic \/ Return
  <2>1. PICK panics \in BOOLEAN : Ends(panics, rw, wire)
    BY <1>7 DEF Panic, Return
  <2>2. phase = "handling" /\ UNCHANGED <<header, history>>
    BY <1>7 DEF Panic, Return
  <2> QED
    BY <2>1, <2>2, WriterEnd
<1>8. CASE Build
  BY <1>8 DEF Build, Stays, mwVars, WriterOK
<1>9. CASE SetValidations
  <2>1. history'.regular = history.regular /\ history'.header = history.header
    BY <1>9, SetValidationsEffect
  <2> QED
    BY <1>9, <2>1 DEF SetValidations, Stays, mwVars, WriterOK
<1> QED
  BY <1>1, <1>2, <1>3, <1>4, <1>5, <1>6, <1>7, <1>8, <1>9 DEF Next, Over

\* PhaseOK and WriterOK hold in every reachable state.
THEOREM WriterInvariant == Spec => [](PhaseOK /\ WriterOK)
<1>1. Init => PhaseOK /\ WriterOK
  BY DEF Init, PhaseOK, WriterOK
<1>2. RestTypes /\ CodesOK /\ PhaseOK /\ WriterOK /\ [Next]_vars => PhaseOK' /\ WriterOK'
  BY PhaseStep, WriterStep
<1> QED
  BY <1>1, <1>2, TypesInvariant, CodesInvariant, PTL DEF Spec

\* What the middleware validates is the status and the body the client gets,
\* whatever a regular handler does, in any number of steps.
THEOREM WhatIsValidatedIsSent == Spec => []ValidatedIsSent
<1>1. PhaseOK /\ WriterOK => ValidatedIsSent
  <2> SUFFICES ASSUME PhaseOK, WriterOK, phase = "over", verdict # NoVerdict, history.regular,
                      ~ wire.aborted
               PROVE  /\ verdict.status = wire.status
                      /\ wire.status # 204 => verdict.written = wire.written
    BY DEF ValidatedIsSent
  <2>1. /\ config.openapi /\ ~ rw.streaming /\ wire.status # 0
        /\ verdict = [status |-> rw.status, written |-> rw.buffered]
    BY DEF PhaseOK, Validated
  <2> QED
    BY <2>1 DEF WriterOK
<1> QED
  BY <1>1, WriterInvariant, PTL

\* A stream is neither buffered nor validated, and every other response of a
\* described route is validated, whatever a regular handler does.
THEOREM StreamsAreNotValidated == Spec => []StreamsAreLeftAlone
<1>1. RestTypes /\ PhaseOK /\ WriterOK => StreamsAreLeftAlone
  <2> SUFFICES ASSUME RestTypes, PhaseOK, WriterOK, history.regular
               PROVE  /\ wire.type = "stream" => rw.buffered = 0
                      /\ phase = "over" /\ deferred /\ ~ wire.aborted =>
                           /\ wire.type # "stream" => verdict # NoVerdict
                           /\ wire.type = "stream" /\ (wire.written > 0 \/ history.header) =>
                                verdict = NoVerdict
    BY DEF StreamsAreLeftAlone
  <2>1. Validated # NoVerdict
    <3>1. rw.status \in 0 .. 599 /\ rw.buffered \in Nat
      BY TypesAre DEF RestTypes, Types, Writers, Statuses
    <3> QED
      BY <3>1, RestAssumption DEF Validated
  <2>2. wire.type = "stream" => rw.buffered = 0
    BY DEF WriterOK
  <2>3. ASSUME phase = "over", deferred, ~ wire.aborted
        PROVE  /\ wire.type # "stream" => verdict # NoVerdict
               /\ wire.type = "stream" /\ (wire.written > 0 \/ history.header) => verdict = NoVerdict
    <3>1. config.openapi /\ wire.status # 0
      BY <2>3 DEF PhaseOK
    <3>2. verdict = IF rw.streaming THEN NoVerdict ELSE Validated
      BY <2>3 DEF PhaseOK
    <3> QED
      BY <2>1, <3>1, <3>2 DEF WriterOK
  <2> QED
    BY <2>2, <2>3
<1> QED
  BY <1>1, TypesInvariant, WriterInvariant, PTL

=============================================================================
