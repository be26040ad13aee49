--------------------------- MODULE TemporalProofs ---------------------------
(***************************************************************************)
(* Theorems about Events and TemporalClient.                               *)
(*                                                                         *)
(* What is read of an event anywhere on a chain of calls, for every set of *)
(* events, every length of the chain and every way back and forth between  *)
(* services, workflows, children and activities.  Over Temporal an event   *)
(* is carried whole.  As baggage it goes through the two conversions of    *)
(* flatmap.go: Sent is such a trip, and SentIsLeft says what one more of   *)
(* them leaves of an event that made some (OneMore), until none changes    *)
(* anything, so that the invariants hold over any number of trips.         *)
(*                                                                         *)
(* What the Temporal client concludes from the first of its two requests,  *)
(* for any number of callers, queues and runs.  IInv is inductive: a call  *)
(* keeps what it learned about the server true because a schedule stays as *)
(* it is and a closed run stays closed.                                    *)
(***************************************************************************)
EXTENDS Events, TemporalClient, SequenceTheorems, TLAPS

-----------------------------------------------------------------------------
(* Over Temporal: nothing is lost                                          *)

\* Where the code of each place looks first is where the last event is, as
\* long as no baggage and no unreadable header came in between.
Carried ==
    /\ place \in Places
    /\ road = "direct" =>
           /\ last # NoEvent
           /\ place = "workflow" => ctx.temporal = last
           /\ place # "workflow" => ctx.event = last
    /\ DOMAIN ctx = {"event", "baggage", "temporal"}

\* Lemma.  Starting a span leaves the event of the context alone.
LEMMA SpanKeepsEvent ==
    ASSUME NEW c, DOMAIN c = {"event", "baggage", "temporal"}
    PROVE  /\ ContextOfSpan(c).event = c.event
           /\ ContextOfSpan(c).temporal = c.temporal
           /\ DOMAIN ContextOfSpan(c) = {"event", "baggage", "temporal"}
  BY DEF ContextOfSpan

\* Lemma.  An event that was found is carried by the headers as it is.
LEMMA HeadersAreExact ==
    ASSUME NEW e, e # NoEvent
    PROVE  /\ ExtractToWorkflow(Root, e).temporal = e
           /\ Extract(Root, e).event = e
  BY DEF ExtractToWorkflow, Extract, ContextWithEvent, Decoded, Root

\* Lemma.  What Temporal puts into a context has the fields of a context.
LEMMA ContextShape ==
    ASSUME NEW e
    PROVE  /\ DOMAIN Root = {"event", "baggage", "temporal"}
           /\ DOMAIN ExtractToWorkflow(Root, e) = {"event", "baggage", "temporal"}
           /\ DOMAIN Extract(Root, e) = {"event", "baggage", "temporal"}
  BY DEF ExtractToWorkflow, Extract, ContextWithEvent, Root

\* Carried holds initially and every step keeps it.
THEOREM CarriedInductive == Spec => []Carried
<1>1. Init => Carried
  BY DEF Init, Carried, Places, Root
<1>2. Carried /\ [Next]_vars => Carried'
  <2> SUFFICES ASSUME Carried, [Next]_vars PROVE Carried'
    OBVIOUS
  <2>1. ASSUME NEW e \in Attachable, Attach(e) PROVE Carried'
    <3>1. e # NoEvent
      BY AttachableAssumption
    <3>2. ctx'.event = e /\ DOMAIN ctx' = {"event", "baggage", "temporal"}
      BY <2>1 DEF Carried, Attach, ContextWithEvent
    <3> QED
      BY <2>1, <3>1, <3>2 DEF Carried, Attach
  <2>2. CASE StartSpan
    <3>1. /\ ctx'.event = ctx.event
          /\ DOMAIN ctx' = {"event", "baggage", "temporal"}
      BY <2>2, SpanKeepsEvent DEF Carried, StartSpan
    <3> QED
      BY <2>2, <3>1 DEF Carried, StartSpan
  <2>3. CASE CallService
    <3>1. road' # "direct"
      BY <2>3 DEF CallService
    <3>2. DOMAIN ctx' = {"event", "baggage", "temporal"}
      BY <2>3 DEF CallService, Root
    <3> QED
      BY <2>3, <3>1, <3>2 DEF Carried, CallService, Leave, Places
  <2>4. CASE CallHttpClient
    BY <2>4 DEF Carried, CallHttpClient, Leave, Places, Root
  <2>5. ASSUME NEW readable \in BOOLEAN, ExecuteWorkflow(readable) PROVE Carried'
    <3>1. place' = "workflow" /\ last' = last
      BY <2>5 DEF ExecuteWorkflow, Leave
    <3>2. DOMAIN ctx' = {"event", "baggage", "temporal"}
      BY <2>5, ContextShape DEF ExecuteWorkflow
    <3>3. ASSUME road' = "direct" PROVE last # NoEvent /\ ctx'.temporal = last
      <4>1. readable /\ road = "direct"
        BY <2>5, <3>3 DEF ExecuteWorkflow, RoadAfter
      <4>2. Inject(ctx) = last /\ last # NoEvent
        BY <2>5, <4>1 DEF Carried, ExecuteWorkflow, Inject, EventFromContext
      <4>3. ctx' = ExtractToWorkflow(Root, Inject(ctx))
        BY <2>5, <4>1 DEF ExecuteWorkflow
      <4> QED
        BY <4>2, <4>3, HeadersAreExact
    <3> QED
      BY <3>1, <3>2, <3>3 DEF Carried, Places
  <2>6. ASSUME NEW readable \in BOOLEAN, ExecuteChild(readable) PROVE Carried'
    <3>1. place' = "workflow" /\ last' = last
      BY <2>6 DEF ExecuteChild, Leave
    <3>2. DOMAIN ctx' = {"event", "baggage", "temporal"}
      BY <2>6, ContextShape DEF ExecuteChild
    <3>3. ASSUME road' = "direct" PROVE last # NoEvent /\ ctx'.temporal = last
      <4>1. readable /\ road = "direct"
        BY <2>6, <3>3 DEF ExecuteChild, RoadAfter
      <4>2. InjectFromWorkflow(ctx) = last /\ last # NoEvent
        BY <2>6, <4>1 DEF Carried, ExecuteChild, InjectFromWorkflow
      <4>3. ctx' = ExtractToWorkflow(Root, InjectFromWorkflow(ctx))
        BY <2>6, <4>1 DEF ExecuteChild
      <4> QED
        BY <4>2, <4>3, HeadersAreExact
    <3> QED
      BY <3>1, <3>2, <3>3 DEF Carried, Places
  <2>7. ASSUME NEW readable \in BOOLEAN, ExecuteActivity(readable) PROVE Carried'
    <3>1. place' = "activity" /\ last' = last
      BY <2>7 DEF ExecuteActivity, Leave
    <3>2. DOMAIN ctx' = {"event", "baggage", "temporal"}
      BY <2>7, ContextShape DEF ExecuteActivity
    <3>3. ASSUME road' = "direct" PROVE last # NoEvent /\ ctx'.event = last
      <4>1. readable /\ road = "direct"
        BY <2>7, <3>3 DEF ExecuteActivity, RoadAfter
      <4>2. InjectFromWorkflow(ctx) = last /\ last # NoEvent
        BY <2>7, <4>1 DEF Carried, ExecuteActivity, InjectFromWorkflow
      <4>3. ctx' = Extract(Root, InjectFromWorkflow(ctx))
        BY <2>7, <4>1 DEF ExecuteActivity
      <4> QED
        BY <4>2, <4>3, HeadersAreExact
    <3> QED
      BY <3>1, <3>2, <3>3 DEF Carried, Places
  <2>8. CASE UNCHANGED vars
    BY <2>8 DEF Carried, vars
  <2> QED
    BY <2>1, <2>2, <2>3, <2>4, <2>5, <2>6, <2>7, <2>8 DEF Next
<1> QED
  BY <1>1, <1>2, PTL DEF Spec

\* An event attached in a handler is read unchanged in the workflow, its
\* children and its activities (propagator.go).
THEOREM TemporalCarriesExactly == Spec => []TemporalIsExact
<1>1. Carried => TemporalIsExact
  BY DEF Carried, TemporalIsExact, InEffect, EventFromTemporal, EventFromContext
<1> QED
  BY <1>1, CarriedInductive, PTL

-----------------------------------------------------------------------------
(* As baggage: what a trip leaves of an event                              *)

\* What becomes of a text that is sent as baggage and read again, and of one
\* that is sent under a path.
Carries(t) == IF Encodable(t) THEN Unescape(t) ELSE NoText
CarriesAt(path, t) == IF IsToken(path) THEN Carries(t) ELSE NoText

\* An event after a trip as baggage.
Sent(e) == FromFlatMap(Members(ToFlatMap(e)))

\* The pairs of a path and a text of an event, zero values too.
Pairs(e) ==
    {<<<<"name">>, e.name>>, <<<<"page">>, e.page>>, <<<<"is_anonymous">>, e.anonymous>>}
    \cup {<<<<"meta">> \o k, e.meta[k]>> : k \in DOMAIN e.meta}
    \cup {<<<<"subscriptions", i - 1, "id">>, e.subscriptions[i]>> : i \in DOMAIN e.subscriptions}

\* One trip more than d.
OneMore(d) == IF d = MaxEscapes + 1 THEN d ELSE d + 1

\* What there is of a text.
LEMMA TextShape ==
    ASSUME NEW t \in Texts \cup {NoText}
    PROVE  /\ t = [escapes |-> t.escapes, rest |-> t.rest]
           /\ t.escapes \in Nat /\ t.escapes <= MaxEscapes
           /\ t.rest \in {"plain", "refused"} \/ (t = NoText /\ t.escapes = 0)
<1>1. CASE t = NoText
  <2>1. t = [escapes |-> 0, rest |-> t.rest] /\ t.escapes = 0
    BY <1>1 DEF NoText, Literal
  <2> QED BY <1>1, <2>1, AttachableAssumption
<1>2. CASE t \in Texts
  BY <1>2, AttachableAssumption DEF Texts
<1> QED BY <1>1, <1>2

\* NoText is no text, goes on as it is, and so do the booleans.
LEMMA NoTextIsNone ==
    /\ NoText \notin Texts /\ NoText.escapes = 0 /\ NoText.rest # "plain" /\ NoText.rest # "refused"
    /\ Carries(NoText) = NoText
    /\ \A t \in Booleans \cup {NoText} : Carries(t) = t
<1>1. NoText.escapes = 0 /\ NoText.rest # "plain" /\ NoText.rest # "refused"
  BY DEF NoText, Literal
<1>2. NoText \notin Texts
  BY <1>1 DEF Texts
<1>3. \A t \in Booleans : t.escapes = 0 /\ t.rest # "refused"
  BY DEF Booleans, Literal
<1>4. \A t \in Booleans \cup {NoText} : Carries(t) = t
  BY <1>1, <1>3 DEF Carries, Encodable, Unescape
<1> QED BY <1>1, <1>2, <1>4

\* A text that NewMember accepts is a text again, another one is missing.
LEMMA CarriedText ==
    ASSUME NEW t \in Texts \cup {NoText}
    PROVE  /\ Carries(t) \in Texts \cup {NoText}
           /\ Carries(t) # NoText <=> t # NoText /\ Encodable(t)
<1>1. CASE t = NoText
  BY <1>1, NoTextIsNone
<1>2. CASE t \in Texts /\ ~ Encodable(t)
  BY <1>2 DEF Carries
<1>3. CASE t \in Texts /\ Encodable(t)
  <2>1. Unescape(t) \in Texts
    BY <1>3, AttachableAssumption DEF Texts, Unescape
  <2> QED BY <1>3, <2>1, NoTextIsNone DEF Carries
<1> QED BY <1>1, <1>2, <1>3

\* After zero trips a text is what it was, and a trip more carries it once more.
LEMMA CarriedAfter ==
    ASSUME NEW t \in Texts \cup {NoText}, NEW d \in Trips
    PROVE  /\ After(0, t) = t
           /\ OneMore(d) \in Trips \ {0}
           /\ Carries(After(d, t)) = After(OneMore(d), t)
           /\ t = NoText => After(d, t) = NoText
<1> DEFINE n == t.escapes
           r == t.rest
           s == OneMore(d)
<1>1. /\ t = [escapes |-> n, rest |-> r] /\ n \in Nat /\ n <= MaxEscapes
      /\ r \in {"plain", "refused"} \/ (t = NoText /\ n = 0)
  BY TextShape
<1>2. s \in Nat /\ s # 0 /\ s \in Trips /\ d \in Nat /\ (d <= n => s = d + 1) /\ (d > n => s > n)
  BY <1>1, AttachableAssumption DEF Trips, OneMore
<1>3. \A x \in Nat :
        /\ x <= n => After(x, t) = [escapes |-> n - x, rest |-> r]
        /\ x > n /\ r = "refused" => After(x, t) = NoText
        /\ x > n /\ r # "refused" => After(x, t) = [escapes |-> 0, rest |-> r]
  <2> TAKE x \in Nat
  <2>1. After(x, t) = IF x <= n THEN [t EXCEPT !.escapes = n - x]
                      ELSE IF r = "refused" THEN NoText ELSE [escapes |-> 0, rest |-> r]
    BY DEF After, Literal
  <2>2. [t EXCEPT !.escapes = n - x] = [escapes |-> n - x, rest |-> r]
    BY <1>1
  <2>3. x <= n <=> ~ (x > n)
    BY <1>1
  <2> HIDE DEF n, r
  <2> QED BY <2>1, <2>2, <2>3
<1>4. After(0, t) = t
  BY <1>1, <1>3
<1>5. ASSUME t = NoText PROVE \A x \in Nat : After(x, t) = NoText
  <2>1. n = 0 /\ r # "refused" /\ NoText = [escapes |-> 0, rest |-> r] /\ Literal(r) = NoText
    BY <1>1, <1>5, NoTextIsNone DEF Literal
  <2> HIDE DEF n, r
  <2> QED BY <1>3, <2>1
<1> HIDE DEF n, r, s
<1>6. Carries(After(d, t)) = After(s, t)
  <2>1. CASE d < n
    <3>1. After(d, t) = [escapes |-> n - d, rest |-> r] /\ n - d > 0
      BY <1>1, <1>2, <1>3, <2>1
    <3>2. Carries(After(d, t)) = [escapes |-> n - d - 1, rest |-> r]
      BY <3>1, <1>1, <1>2 DEF Carries, Encodable, Unescape
    <3> QED BY <1>1, <1>2, <1>3, <2>1, <3>2
  <2>2. CASE d = n
    <3>1. After(d, t) = [escapes |-> 0, rest |-> r]
      BY <1>1, <1>2, <1>3, <2>2
    <3>2. Carries(After(d, t)) = IF r = "refused" THEN NoText ELSE [escapes |-> 0, rest |-> r]
      BY <3>1 DEF Carries, Encodable, Unescape
    <3>3. s > n
      BY <1>1, <1>2, <2>2
    <3>4. After(s, t) = IF r = "refused" THEN NoText ELSE [escapes |-> 0, rest |-> r]
      BY <1>2, <1>3, <3>3
    <3> QED BY <3>2, <3>4
  <2>3. CASE d > n
    <3>1. After(s, t) = After(d, t)
      BY <1>1, <1>2, <1>3, <2>3
    <3>2. CASE r = "refused"
      <4>1. After(d, t) = NoText
        BY <1>1, <1>2, <1>3, <2>3, <3>2
      <4> QED BY <3>1, <4>1, NoTextIsNone
    <3>3. CASE r # "refused"
      <4>1. After(d, t) = [escapes |-> 0, rest |-> r]
        BY <1>1, <1>2, <1>3, <2>3, <3>3 DEF Literal
      <4>2. Carries(After(d, t)) = After(d, t)
        BY <3>3, <4>1 DEF Carries, Encodable, Unescape
      <4> QED BY <3>1, <4>2
    <3> QED BY <3>2, <3>3
  <2> QED BY <1>1, <1>2, <2>1, <2>2, <2>3
<1> QED BY <1>2, <1>4, <1>5, <1>6 DEF s

\* A path of two segments, from its first and its second.
LEMMA TwoSegments ==
    ASSUME NEW S, NEW a \in S, NEW b \in S
    PROVE  <<a>> \o <<b>> = <<a, b>>
<1> DEFINE w == <<a>> \o <<b>>
           v == <<a, b>>
<1>1. w \in Seq(S) /\ Len(w) = 2 /\ w[1] = a /\ w[2] = b
  OBVIOUS
<1>2. v \in Seq(S) /\ Len(v) = 2 /\ v[1] = a /\ v[2] = b
  OBVIOUS
<1> HIDE DEF w, v
<1>3. \A i \in 1 .. 2 : i = 1 \/ i = 2
  OBVIOUS
<1>4. \A i \in 1 .. Len(w) : w[i] = v[i]
  BY <1>1, <1>2, <1>3
<1>5. w = v
  BY <1>1, <1>2, <1>4, SeqEqual
<1> QED BY <1>5 DEF w, v

\* A path of three segments, from its first and the others.
LEMMA ThreeSegments ==
    ASSUME NEW S, NEW a \in S, NEW b \in S, NEW c \in S
    PROVE  <<a>> \o <<b, c>> = <<a, b, c>>
<1> DEFINE w == <<a>> \o <<b, c>>
           v == <<a, b, c>>
<1>1. w \in Seq(S) /\ Len(w) = 3 /\ w[1] = a /\ w[2] = b /\ w[3] = c
  OBVIOUS
<1>2. v \in Seq(S) /\ Len(v) = 3 /\ v[1] = a /\ v[2] = b /\ v[3] = c
  OBVIOUS
<1> HIDE DEF w, v
<1>3. \A i \in 1 .. 3 : i = 1 \/ i = 2 \/ i = 3
  OBVIOUS
<1>4. \A i \in 1 .. Len(w) : w[i] = v[i]
  BY <1>1, <1>2, <1>3
<1>5. w = v
  BY <1>1, <1>2, <1>4, SeqEqual
<1> QED BY <1>5 DEF w, v

\* The paths of the map: they differ, and Tail gives the key back.
LEMMA MetaPaths ==
    /\ \A k \in MetaKeys : k = <<"key">> \/ k = BlankKey \/ k = <<"key", "dotted">>
    /\ <<"meta">> \o <<"key">> = <<"meta", "key">>
    /\ <<"meta">> \o BlankKey = <<"meta", "blank">>
    /\ <<"meta">> \o <<"key", "dotted">> = <<"meta", "key", "dotted">>
    /\ Tail(<<"meta", "key">>) = <<"key">> /\ Tail(<<"meta", "blank">>) = BlankKey
    /\ Len(<<"key">>) = 1 /\ Len(BlankKey) = 1 /\ Len(<<"key", "dotted">>) = 2
<1> DEFINE S == {"meta", "key", "dotted", "blank"}
<1>1. "meta" \in S /\ "key" \in S /\ "dotted" \in S /\ "blank" \in S
  OBVIOUS
<1> HIDE DEF S
<1>2. <<"meta">> \o <<"key">> = <<"meta", "key">>
  BY <1>1, TwoSegments
<1>3. <<"meta">> \o BlankKey = <<"meta", "blank">>
  BY <1>1, TwoSegments DEF BlankKey
<1>4. <<"meta">> \o <<"key", "dotted">> = <<"meta", "key", "dotted">>
  BY <1>1, ThreeSegments
<1>5. Tail(<<"meta", "key">>) = <<"key">> /\ Tail(<<"meta", "blank">>) = BlankKey
  <2>1. Tail(<<"meta", "key">>) = <<"key">>
    OBVIOUS
  <2>2. Tail(<<"meta", "blank">>) = <<"blank">>
    OBVIOUS
  <2> QED BY <2>1, <2>2 DEF BlankKey
<1>6. Len(<<"key">>) = 1 /\ Len(BlankKey) = 1 /\ Len(<<"key", "dotted">>) = 2
  BY DEF BlankKey
<1>7. \A k \in MetaKeys : k = <<"key">> \/ k = BlankKey \/ k = <<"key", "dotted">>
  BY DEF MetaKeys
<1> QED BY <1>2, <1>3, <1>4, <1>5, <1>6, <1>7

\* A path outside the map is a token.
LEMMA OtherTokens ==
    ASSUME NEW path, path[1] # "meta"
    PROVE  IsToken(path)
<1>1. <<"meta", "blank">>[1] = "meta"
  OBVIOUS
<1>2. <<"meta">> \o BlankKey = <<"meta", "blank">>
  BY MetaPaths
<1> QED BY <1>1, <1>2 DEF IsToken

\* The path of a key of the map determines the key, and is a token but for the
\* blank one.
LEMMA MetaPathOf ==
    ASSUME NEW k \in MetaKeys
    PROVE  /\ (<<"meta">> \o k)[1] = "meta"
           /\ Len(<<"meta">> \o k) = Len(k) + 1
           /\ Len(k) = 1 => Tail(<<"meta">> \o k) = k /\ Len(<<"meta">> \o k) = 2
           /\ Len(k) = 2 => k = <<"key", "dotted">>
           /\ Len(k) \in {1, 2}
           /\ IsToken(<<"meta">> \o k) <=> k # BlankKey
<1>1. CASE k = <<"key">>
  <2>1. <<"meta">> \o k = <<"meta", "key">> /\ Len(k) = 1 /\ Tail(<<"meta", "key">>) = k
    BY <1>1, MetaPaths
  <2>2. Len(<<"meta", "key">>) = 2 /\ <<"meta", "key">>[1] = "meta"
    OBVIOUS
  <2>3. <<"meta", "key">> # <<"meta", "blank">>
    OBVIOUS
  <2>4. k # BlankKey
    BY <1>1 DEF BlankKey
  <2>5. IsToken(<<"meta">> \o k) <=> k # BlankKey
    BY <2>1, <2>3, <2>4, MetaPaths DEF IsToken
  <2> QED BY <2>1, <2>2, <2>5
<1>2. CASE k = BlankKey
  <2>1. <<"meta">> \o k = <<"meta", "blank">> /\ Len(k) = 1
        /\ Tail(<<"meta", "blank">>) = k
    BY <1>2, MetaPaths
  <2>2. Len(<<"meta", "blank">>) = 2 /\ <<"meta", "blank">>[1] = "meta"
    OBVIOUS
  <2>3. IsToken(<<"meta">> \o k) <=> k # BlankKey
    BY <1>2 DEF IsToken
  <2> QED BY <2>1, <2>2, <2>3
<1>3. CASE k = <<"key", "dotted">>
  <2>1. <<"meta">> \o k = <<"meta", "key", "dotted">> /\ Len(k) = 2
    BY <1>3, MetaPaths
  <2>2. Len(<<"meta", "key", "dotted">>) = 3 /\ <<"meta", "key", "dotted">>[1] = "meta"
    OBVIOUS
  <2>3. <<"meta", "key", "dotted">> # <<"meta", "blank">>
    OBVIOUS
  <2>4. k # BlankKey
    BY <1>3 DEF BlankKey
  <2>5. IsToken(<<"meta">> \o k) <=> k # BlankKey
    BY <2>1, <2>3, <2>4, MetaPaths DEF IsToken
  <2> QED BY <1>3, <2>1, <2>2, <2>5
<1> QED BY <1>1, <1>2, <1>3, MetaPaths

\* The fields of an event.
LEMMA EventFields ==
    ASSUME NEW e \in Event
    PROVE  /\ e.name \in Texts \cup {NoText} /\ e.page \in Texts \cup {NoText}
           /\ e.anonymous \in Booleans \cup {NoText}
           /\ DOMAIN e.meta \subseteq MetaKeys
           /\ \A k \in DOMAIN e.meta : e.meta[k] \in Texts \cup {NoText}
           /\ e.subscriptions \in Seq(Texts \cup {NoText})
           /\ Len(e.subscriptions) \in 0 .. 2
           /\ DOMAIN e.subscriptions = 1 .. Len(e.subscriptions)
           /\ \A i \in DOMAIN e.subscriptions : e.subscriptions[i] \in Texts \cup {NoText}
<1>1. e.meta \in UNION {[K -> Texts \cup {NoText}] : K \in SUBSET MetaKeys}
      /\ e.subscriptions \in UNION {[1 .. n -> Texts \cup {NoText}] : n \in 0 .. 2}
      /\ e.name \in Texts \cup {NoText} /\ e.page \in Texts \cup {NoText}
      /\ e.anonymous \in Booleans \cup {NoText}
  BY DEF Event
<1> DEFINE T == Texts \cup {NoText}
<1> HIDE DEF T
<1>2. PICK n \in 0 .. 2 : e.subscriptions \in [1 .. n -> T]
  BY <1>1 DEF T
<1>3. e.subscriptions \in Seq(T) /\ Len(e.subscriptions) = n
  BY <1>2
<1>4. PICK K \in SUBSET MetaKeys : e.meta \in [K -> T]
  BY <1>1 DEF T
<1>5. DOMAIN e.meta \subseteq MetaKeys /\ \A k \in DOMAIN e.meta : e.meta[k] \in T
  BY <1>4
<1> QED BY <1>1, <1>2, <1>3, <1>5 DEF T

\* The segments that tell the kinds of paths apart.
LEMMA PathKinds ==
    ASSUME NEW e \in Event, NEW q \in Pairs(e)
    PROVE  \/ q = <<<<"name">>, e.name>> /\ q[1][1] = "name"
           \/ q = <<<<"page">>, e.page>> /\ q[1][1] = "page"
           \/ q = <<<<"is_anonymous">>, e.anonymous>> /\ q[1][1] = "is_anonymous"
           \/ \E k \in DOMAIN e.meta : q = <<<<"meta">> \o k, e.meta[k]>> /\ q[1][1] = "meta"
           \/ \E i \in DOMAIN e.subscriptions :
                 q = <<<<"subscriptions", i - 1, "id">>, e.subscriptions[i]>>
                 /\ q[1][1] = "subscriptions"
<1>1. \A k \in DOMAIN e.meta : (<<"meta">> \o k)[1] = "meta"
  BY EventFields, MetaPathOf
<1> QED BY <1>1 DEF Pairs

\* An event has one text for a path.
LEMMA OneTextPerPath ==
    ASSUME NEW e \in Event, NEW q \in Pairs(e), NEW r \in Pairs(e), q[1] = r[1]
    PROVE  q[2] = r[2]
<1>1. CASE q[1][1] = "meta"
  <2>1. PICK k \in DOMAIN e.meta : q = <<<<"meta">> \o k, e.meta[k]>>
    BY <1>1, PathKinds
  <2>2. PICK l \in DOMAIN e.meta : r = <<<<"meta">> \o l, e.meta[l]>>
    BY <1>1, PathKinds
  <2>3. k = l
    <3>1. k \in MetaKeys /\ l \in MetaKeys
      BY EventFields
    <3>2. <<"meta">> \o k = <<"meta">> \o l
      BY <2>1, <2>2
    <3>3. Len(k) + 1 = Len(l) + 1 /\ Len(k) \in {1, 2} /\ Len(l) \in {1, 2}
      BY <3>1, <3>2, MetaPathOf
    <3>4. CASE Len(k) = 1 /\ Len(l) = 1
      <4>1. Tail(<<"meta">> \o k) = k
        BY <3>1, <3>4, MetaPathOf
      <4>2. Tail(<<"meta">> \o l) = l
        BY <3>1, <3>4, MetaPathOf
      <4> QED BY <3>2, <4>1, <4>2
    <3>5. CASE Len(k) = 2 /\ Len(l) = 2
      BY <3>1, <3>5, MetaPathOf
    <3> QED BY <3>3, <3>4, <3>5
  <2> QED BY <2>1, <2>2, <2>3
<1>2. CASE q[1][1] = "subscriptions"
  <2>1. PICK i \in DOMAIN e.subscriptions : q = <<<<"subscriptions", i - 1, "id">>, e.subscriptions[i]>>
    BY <1>2, PathKinds
  <2>2. PICK j \in DOMAIN e.subscriptions : r = <<<<"subscriptions", j - 1, "id">>, e.subscriptions[j]>>
    BY <1>2, PathKinds
  <2>3. i = j
    <3>1. q[1][2] = i - 1 /\ r[1][2] = j - 1
      BY <2>1, <2>2
    <3>2. DOMAIN e.subscriptions = 1 .. Len(e.subscriptions)
      BY EventFields
    <3>3. i \in Int /\ j \in Int
      BY <3>2
    <3> QED BY <3>1, <3>3
  <2> QED BY <2>1, <2>2, <2>3
<1>3. CASE q[1][1] = "name"
  BY <1>3, PathKinds
<1>4. CASE q[1][1] = "page"
  BY <1>4, PathKinds
<1>5. CASE q[1][1] = "is_anonymous"
  BY <1>5, PathKinds
<1> QED BY <1>1, <1>2, <1>3, <1>4, <1>5, PathKinds

\* What is in the baggage: the pairs that NewMember accepts, decoded.
LEMMA BaggageOf ==
    ASSUME NEW e
    PROVE  /\ \A p \in Members(ToFlatMap(e)) : \E q \in Pairs(e) :
                 /\ q[2] # NoText /\ IsToken(q[1]) /\ Encodable(q[2])
                 /\ p = <<q[1], Unescape(q[2])>>
           /\ \A q \in Pairs(e) :
                 q[2] # NoText /\ IsToken(q[1]) /\ Encodable(q[2])
                 => <<q[1], Unescape(q[2])>> \in Members(ToFlatMap(e))
<1>1. ToFlatMap(e) = {q \in Pairs(e) : q[2] # NoText}
  BY DEF ToFlatMap, Pairs
<1> QED BY <1>1 DEF Members

\* What is read at the path of a pair is what the text of the pair becomes there.
LEMMA TextOfPair ==
    ASSUME NEW e \in Event, NEW q \in Pairs(e)
    PROVE  Text(Members(ToFlatMap(e)), q[1]) = CarriesAt(q[1], q[2])
<1> DEFINE B == Members(ToFlatMap(e))
           Goes == q[2] # NoText /\ IsToken(q[1]) /\ Encodable(q[2])
<1>1. ASSUME NEW p \in B, p[1] = q[1]
      PROVE  Goes /\ p[2] = Unescape(q[2])
  <2>1. PICK r \in Pairs(e) : /\ r[2] # NoText /\ IsToken(r[1]) /\ Encodable(r[2])
                              /\ p = <<r[1], Unescape(r[2])>>
    BY BaggageOf
  <2>2. p[1] = r[1] /\ p[2] = Unescape(r[2])
    BY <2>1
  <2>3. r[2] = q[2]
    BY <1>1, <2>2, OneTextPerPath
  <2> QED BY <1>1, <2>1, <2>2, <2>3
<1>2. ASSUME Goes
      PROVE  <<q[1], Unescape(q[2])>> \in B /\ <<q[1], Unescape(q[2])>>[1] = q[1]
  BY <1>2, BaggageOf
<1>3. CASE Goes
  <2> HIDE DEF B
  <2>1. \E p \in B : p[1] = q[1]
    BY <1>2, <1>3
  <2>2. PICK p \in B : p[1] = q[1] /\ Text(B, q[1]) = p[2]
    BY <2>1 DEF Text
  <2> QED BY <1>1, <1>3, <2>2 DEF Carries, CarriesAt, B
<1>4. CASE ~ Goes
  <2> HIDE DEF B
  <2>1. ~ \E p \in B : p[1] = q[1]
    BY <1>1, <1>4
  <2>2. Text(B, q[1]) = NoText
    BY <2>1 DEF Text
  <2> QED BY <1>4, <2>2, NoTextIsNone DEF Carries, CarriesAt, B
<1> QED BY <1>3, <1>4

\* The name, the page and the flag after a trip.
LEMMA SentScalars ==
    ASSUME NEW e \in Event
    PROVE  /\ Sent(e).name = Carries(e.name) /\ Sent(e).page = Carries(e.page)
           /\ Sent(e).anonymous = e.anonymous
           /\ Sent(e).meta = FlatMeta(Members(ToFlatMap(e)))
           /\ Sent(e).subscriptions = FlatSubscriptions(Members(ToFlatMap(e)))
<1> DEFINE B == Members(ToFlatMap(e))
<1>1. /\ <<<<"name">>, e.name>> \in Pairs(e) /\ <<<<"page">>, e.page>> \in Pairs(e)
      /\ <<<<"is_anonymous">>, e.anonymous>> \in Pairs(e)
  BY DEF Pairs
<1>0. IsToken(<<"name">>) /\ IsToken(<<"page">>) /\ IsToken(<<"is_anonymous">>)
  <2>1. <<"name">>[1] = "name" /\ <<"page">>[1] = "page" /\ <<"is_anonymous">>[1] = "is_anonymous"
    OBVIOUS
  <2> QED BY <2>1, OtherTokens
<1>2. Text(B, <<"name">>) = Carries(e.name)
  BY <1>0, <1>1, TextOfPair DEF CarriesAt
<1>3. Text(B, <<"page">>) = Carries(e.page)
  BY <1>0, <1>1, TextOfPair DEF CarriesAt
<1>4. Text(B, <<"is_anonymous">>) = Carries(e.anonymous)
  BY <1>0, <1>1, TextOfPair DEF CarriesAt
<1>5. Carries(e.anonymous) = e.anonymous
  BY EventFields, NoTextIsNone
<1> HIDE DEF B
<1> QED BY <1>2, <1>3, <1>4, <1>5 DEF Sent, FromFlatMap, B

\* The map after a trip: the keys that are delivered and whose text is carried.
LEMMA SentMeta ==
    ASSUME NEW e \in Event
    PROVE  /\ DOMAIN Sent(e).meta =
                {k \in DOMAIN e.meta : ~ Undeliverable(k) /\ Carries(e.meta[k]) # NoText}
           /\ \A k \in DOMAIN Sent(e).meta : Sent(e).meta[k] = Carries(e.meta[k])
           /\ Sent(e).meta = [k \in DOMAIN Sent(e).meta |-> Sent(e).meta[k]]
<1> DEFINE B == Members(ToFlatMap(e))
           D == {Tail(p[1]) : p \in {q \in B : q[1][1] = "meta" /\ Len(q[1]) = 2}}
           K == {k \in DOMAIN e.meta : ~ Undeliverable(k) /\ Carries(e.meta[k]) # NoText}
<1>1. \A k \in DOMAIN e.meta : <<<<"meta">> \o k, e.meta[k]>> \in Pairs(e)
  BY DEF Pairs
<1>2. \A k \in DOMAIN e.meta : k \in MetaKeys /\ e.meta[k] \in Texts \cup {NoText}
  BY EventFields
<1>3. \A k \in DOMAIN e.meta : ~ Undeliverable(k) => Text(B, <<"meta">> \o k) = Carries(e.meta[k])
  <2> TAKE k \in DOMAIN e.meta
  <2> HAVE ~ Undeliverable(k)
  <2> DEFINE q == <<<<"meta">> \o k, e.meta[k]>>
  <2>0. IsToken(<<"meta">> \o k)
    BY <1>2, MetaPathOf DEF Undeliverable
  <2>1. q \in Pairs(e) /\ q[1] = <<"meta">> \o k /\ q[2] = e.meta[k]
    BY <1>1
  <2> HIDE DEF q
  <2> QED BY <2>0, <2>1, TextOfPair DEF CarriesAt
<1>4. \A t \in Texts \cup {NoText} : Carries(t) # NoText <=> t # NoText /\ Encodable(t)
  BY CarriedText
<1>5. D = K
  <2>1. ASSUME NEW k \in D PROVE k \in K
    <3>1. PICK p \in B : p[1][1] = "meta" /\ Len(p[1]) = 2 /\ k = Tail(p[1])
      BY <2>1
    <3>2. PICK q \in Pairs(e) : /\ q[2] # NoText /\ IsToken(q[1]) /\ Encodable(q[2])
                                /\ p = <<q[1], Unescape(q[2])>>
      BY BaggageOf
    <3>3. q[1] = p[1]
      BY <3>2
    <3>4. PICK l \in DOMAIN e.meta : q = <<<<"meta">> \o l, e.meta[l]>>
      BY <3>1, <3>3, PathKinds
    <3>5. q[1] = <<"meta">> \o l /\ q[2] = e.meta[l]
      BY <3>4
    <3>6. l \in MetaKeys /\ Len(l) + 1 = 2
      <4>1. l \in MetaKeys
        BY <1>2
      <4>2. Len(<<"meta">> \o l) = 2
        BY <3>1, <3>3, <3>5
      <4> QED BY <4>1, <4>2, MetaPathOf
    <3>7. Len(l) = 1 /\ ~ Undeliverable(l)
      BY <3>2, <3>5, <3>6, MetaPathOf DEF Undeliverable
    <3>8. k = l
      BY <3>1, <3>3, <3>5, <3>6, <3>7, MetaPathOf
    <3> QED BY <1>2, <1>4, <3>2, <3>5, <3>7, <3>8
  <2>2. ASSUME NEW k \in K PROVE k \in D
    <3> DEFINE q == <<<<"meta">> \o k, e.meta[k]>>
               p == <<q[1], Unescape(q[2])>>
    <3>1. /\ k \in MetaKeys /\ Len(k) = 1 /\ k # BlankKey
          /\ e.meta[k] # NoText /\ Encodable(e.meta[k])
      <4>1. k \in MetaKeys /\ ~ Undeliverable(k)
        BY <1>2
      <4> QED BY <1>2, <1>4, <4>1, MetaPathOf DEF Undeliverable
    <3>2. q \in Pairs(e) /\ q[1] = <<"meta">> \o k /\ q[2] = e.meta[k]
      BY <1>1
    <3> HIDE DEF q
    <3>3. p \in B /\ p[1] = q[1]
      <4>1. IsToken(q[1])
        BY <3>1, <3>2, MetaPathOf
      <4> QED BY <3>1, <3>2, <4>1, BaggageOf
    <3> HIDE DEF p, B
    <3>4. p[1][1] = "meta" /\ Len(p[1]) = 2 /\ Tail(p[1]) = k
      <4>1. p[1] = <<"meta">> \o k
        BY <3>2, <3>3
      <4>2. /\ (<<"meta">> \o k)[1] = "meta" /\ Len(<<"meta">> \o k) = 2
            /\ Tail(<<"meta">> \o k) = k
        <5>1. k \in MetaKeys /\ Len(k) = 1
          BY <3>1
        <5> QED BY <5>1, MetaPathOf
      <4> QED BY <4>1, <4>2
    <3> QED BY <3>3, <3>4
  <2> QED BY <2>1, <2>2
<1>6. Sent(e).meta = [k \in D |-> Text(B, <<"meta">> \o k)]
  BY SentScalars DEF FlatMeta
<1> HIDE DEF B, D
<1>7. Sent(e).meta = [k \in K |-> Text(B, <<"meta">> \o k)]
  BY <1>5, <1>6
<1> QED BY <1>3, <1>7

\* The highest of some of the first two indexes.
LEMMA HighestIndex ==
    ASSUME NEW S, S \subseteq {0, 1}, S # {}
    PROVE  Max(S) \in S /\ \A x \in S : x <= Max(S)
<1>1. \E y \in S : \A x \in S : x <= y
  <2>1. CASE 1 \in S
    <3>1. \A x \in S : x <= 1
      OBVIOUS
    <3> QED BY <2>1, <3>1
  <2>2. CASE 1 \notin S
    <3>1. \A x \in S : x = 0
      BY <2>2
    <3>2. 0 \in S
      BY <3>1
    <3> QED BY <3>1, <3>2
  <2> QED BY <2>1, <2>2
<1> QED BY <1>1 DEF Max

\* The slice after a trip: no longer, and each element carried or a zero.
LEMMA SentSubscriptions ==
    ASSUME NEW e \in Event
    PROVE  /\ Sent(e).subscriptions \in Seq(Texts \cup {NoText})
           /\ Len(Sent(e).subscriptions) <= Len(e.subscriptions)
           /\ \A i \in DOMAIN e.subscriptions :
                At(Sent(e).subscriptions, i) = Carries(e.subscriptions[i])
<1> DEFINE B == Members(ToFlatMap(e))
           T == Texts \cup {NoText}
           Indexes == {p[1][2] : p \in {q \in B : q[1][1] = "subscriptions"}}
<1>1. PICK n \in 0 .. 2 : n = Len(e.subscriptions) /\ DOMAIN e.subscriptions = 1 .. n
  <2>1. Len(e.subscriptions) \in 0 .. 2 /\ DOMAIN e.subscriptions = 1 .. Len(e.subscriptions)
    BY EventFields
  <2> QED BY <2>1
<1>2. \A i \in 1 .. n : e.subscriptions[i] \in Texts \cup {NoText}
  BY <1>1, EventFields
<1>3. \A t \in Texts \cup {NoText} :
        Carries(t) \in T /\ (Carries(t) # NoText <=> t # NoText /\ Encodable(t))
  BY CarriedText
<1>0. \A x : IsToken(<<"subscriptions", x, "id">>)
  <2> TAKE x
  <2>1. <<"subscriptions", x, "id">>[1] = "subscriptions"
    OBVIOUS
  <2> QED BY <2>1, OtherTokens
<1>4. PICK c \in [1 .. n -> T] : \A i \in 1 .. n : c[i] = Carries(e.subscriptions[i])
  <2>1. \A i \in 1 .. n : Carries(e.subscriptions[i]) \in T
    BY <1>2, <1>3
  <2>2. [i \in 1 .. n |-> Carries(e.subscriptions[i])] \in [1 .. n -> T]
    BY <2>1
  <2> QED BY <2>2
<1>5. \A i \in 1 .. n :
        <<<<"subscriptions", i - 1, "id">>, e.subscriptions[i]>> \in Pairs(e)
  BY <1>1 DEF Pairs
<1>6. \A i \in 1 .. n : Text(B, <<"subscriptions", i - 1, "id">>) = c[i]
  <2> TAKE i \in 1 .. n
  <2> DEFINE q == <<<<"subscriptions", i - 1, "id">>, e.subscriptions[i]>>
  <2>1. q \in Pairs(e) /\ q[1] = <<"subscriptions", i - 1, "id">> /\ q[2] = e.subscriptions[i]
    BY <1>5
  <2> HIDE DEF q
  <2>2. Text(B, <<"subscriptions", i - 1, "id">>) = Carries(e.subscriptions[i])
    BY <1>0, <2>1, TextOfPair DEF CarriesAt
  <2> QED BY <1>4, <2>2
<1>7. \A i \in 1 .. n : c[i] # NoText => i - 1 \in Indexes
  <2> TAKE i \in 1 .. n
  <2> HAVE c[i] # NoText
  <2> DEFINE q == <<<<"subscriptions", i - 1, "id">>, e.subscriptions[i]>>
             p == <<q[1], Unescape(q[2])>>
  <2>1. /\ q \in Pairs(e) /\ q[2] # NoText /\ Encodable(q[2])
        /\ q[1][1] = "subscriptions" /\ q[1][2] = i - 1 /\ IsToken(q[1])
    BY <1>0, <1>2, <1>3, <1>4, <1>5
  <2> HIDE DEF q
  <2>2. p \in B /\ p[1] = q[1]
    BY <2>1, BaggageOf
  <2> HIDE DEF p, B
  <2> QED BY <2>1, <2>2
<1>8. \A x \in Indexes : x + 1 \in 1 .. n /\ x \in {0, 1}
  <2> TAKE x \in Indexes
  <2>1. PICK p \in B : p[1][1] = "subscriptions" /\ x = p[1][2]
    OBVIOUS
  <2>2. PICK q \in Pairs(e) : p = <<q[1], Unescape(q[2])>>
    BY BaggageOf
  <2>3. q[1] = p[1]
    BY <2>2
  <2>4. PICK i \in DOMAIN e.subscriptions : q = <<<<"subscriptions", i - 1, "id">>, e.subscriptions[i]>>
    BY <2>1, <2>3, PathKinds
  <2>5. x = i - 1
    BY <2>1, <2>3, <2>4
  <2>6. i \in 1 .. n
    BY <1>1
  <2> HIDE DEF Indexes
  <2>7. x \in {0, 1} /\ x + 1 = i
    BY <2>5, <2>6
  <2> QED BY <2>6, <2>7
<1>9. PICK s : s = Sent(e).subscriptions
  OBVIOUS
<1>10. s = IF Indexes = {} THEN << >>
           ELSE [i \in 1 .. Max(Indexes) + 1 |-> Text(B, <<"subscriptions", i - 1, "id">>)]
  BY <1>9, SentScalars DEF FlatSubscriptions
<1> HIDE DEF T
<1> SUFFICES /\ s \in Seq(T) /\ Len(s) <= n
             /\ \A i \in 1 .. n : At(s, i) = c[i]
  BY <1>1, <1>4, <1>9 DEF T
<1>11. CASE Indexes = {}
  <2>1. s = << >> /\ \A i \in 1 .. n : c[i] = NoText
    BY <1>7, <1>10, <1>11
  <2> QED BY <2>1 DEF At
<1>12. CASE Indexes # {}
  <2>1. Max(Indexes) \in Indexes /\ \A x \in Indexes : x <= Max(Indexes)
    <3>1. Indexes \subseteq {0, 1}
      BY <1>8
    <3> QED BY <1>12, <3>1, HighestIndex
  <2>2. PICK m \in 1 .. n : m = Max(Indexes) + 1
    BY <1>8, <2>1
  <2>3. \A x \in Indexes : x + 1 <= m
    <3> HIDE DEF Indexes
    <3>1. Max(Indexes) \in Int /\ \A x \in Indexes : x \in Int
      BY <1>8, <2>1
    <3> QED BY <2>1, <2>2, <3>1
  <2>4. \A i \in 1 .. m : i \in 1 .. n
    OBVIOUS
  <2>5. s = [i \in 1 .. m |-> c[i]]
    <3>1. s = [i \in 1 .. m |-> Text(B, <<"subscriptions", i - 1, "id">>)]
      BY <1>10, <1>12, <2>2
    <3> HIDE DEF B
    <3> QED BY <1>6, <2>4, <3>1
  <2>6. s \in Seq(T) /\ Len(s) = m /\ DOMAIN s = 1 .. m
    <3>1. s \in [1 .. m -> T] /\ m \in Nat
      BY <2>4, <2>5
    <3> QED BY <3>1
  <2>7. \A i \in 1 .. n : At(s, i) = c[i]
    <3> TAKE i \in 1 .. n
    <3>1. CASE i <= m
      BY <2>5, <2>6, <3>1 DEF At
    <3>2. CASE i > m
      <4>1. i - 1 \notin Indexes
        <5>1. (i - 1) + 1 = i /\ i \in Int /\ m \in Int
          OBVIOUS
        <5> QED BY <2>3, <3>2, <5>1
      <4>2. c[i] = NoText
        BY <1>7, <4>1
      <4> QED BY <2>6, <3>2, <4>2 DEF At
    <3> QED BY <3>1, <3>2
  <2> QED BY <2>6, <2>7
<1> QED BY <1>11, <1>12

\* A trip as baggage leaves an event.
LEMMA SentIsEvent ==
    ASSUME NEW e \in Event
    PROVE  Sent(e) \in Event
<1> DEFINE f == Sent(e)
           T == Texts \cup {NoText}
           M == UNION {[K -> T] : K \in SUBSET MetaKeys}
           S == UNION {[1 .. n -> T] : n \in 0 .. 2}
<1>1. /\ e.name \in T /\ e.page \in T /\ e.anonymous \in Booleans \cup {NoText}
      /\ DOMAIN e.meta \subseteq MetaKeys
      /\ \A k \in DOMAIN e.meta : e.meta[k] \in T
      /\ Len(e.subscriptions) \in 0 .. 2
  BY EventFields
<1>2. f.name = Carries(e.name) /\ f.page = Carries(e.page) /\ f.anonymous = e.anonymous
  BY SentScalars
<1>3. /\ DOMAIN f.meta \subseteq DOMAIN e.meta
      /\ \A k \in DOMAIN f.meta : f.meta[k] = Carries(e.meta[k])
      /\ f.meta = [k \in DOMAIN f.meta |-> f.meta[k]]
  BY SentMeta
<1>4. f.subscriptions \in Seq(T) /\ Len(f.subscriptions) <= Len(e.subscriptions)
  BY SentSubscriptions
<1>5. f = [name |-> f.name, page |-> f.page, anonymous |-> f.anonymous,
           meta |-> f.meta, subscriptions |-> f.subscriptions]
  BY DEF Sent, FromFlatMap
<1>6. \A t \in T : Carries(t) \in T
  BY CarriedText
<1>7. Event = [name : T, page : T, anonymous : Booleans \cup {NoText}, meta : M, subscriptions : S]
  BY DEF Event
<1> HIDE DEF f, T
<1>8. f.meta \in M
  <2> DEFINE K == DOMAIN f.meta
  <2>1. K \subseteq MetaKeys /\ \A k \in K : f.meta[k] \in T
    BY <1>1, <1>3, <1>6
  <2>2. f.meta \in [K -> T]
    BY <1>3, <2>1
  <2> QED BY <2>1, <2>2
<1>9. f.subscriptions \in S
  <2> DEFINE n == Len(f.subscriptions)
  <2>1. n \in Nat /\ f.subscriptions \in [1 .. n -> T]
    BY <1>4
  <2>2. PICK m \in 0 .. 2 : m = Len(e.subscriptions)
    BY <1>1
  <2>3. n <= m
    BY <1>4, <2>2
  <2> HIDE DEF n
  <2>4. n \in 0 .. 2
    BY <2>1, <2>3
  <2> QED BY <2>1, <2>4
<1>10. f.name \in T /\ f.page \in T /\ f.anonymous \in Booleans \cup {NoText}
  BY <1>1, <1>2, <1>6
<1> HIDE DEF M, S
<1> QED BY <1>5, <1>7, <1>8, <1>9, <1>10 DEF f

\* A trip more leaves of an event what LeftAfter says.
LEMMA SentIsLeft ==
    ASSUME NEW e \in Event, NEW f \in Event, NEW d \in Trips, LeftAfter(d, f, e)
    PROVE  LeftAfter(OneMore(d), Sent(f), e)
<1> DEFINE g == Sent(f)
           s == OneMore(d)
           T == Texts \cup {NoText}
<1>1. /\ e.name \in T /\ e.page \in T
      /\ \A k \in DOMAIN e.meta : e.meta[k] \in T
      /\ DOMAIN e.subscriptions = 1 .. Len(e.subscriptions) /\ Len(e.subscriptions) \in Int
      /\ \A i \in DOMAIN e.subscriptions : e.subscriptions[i] \in T
  BY EventFields
<1>2. DOMAIN f.subscriptions = 1 .. Len(f.subscriptions) /\ Len(f.subscriptions) \in Int
  BY EventFields
<1>3. g \in Event /\ DOMAIN g.subscriptions = 1 .. Len(g.subscriptions) /\ Len(g.subscriptions) \in Int
  BY SentIsEvent, EventFields
<1>4. g.name = Carries(f.name) /\ g.page = Carries(f.page) /\ g.anonymous = f.anonymous
  BY SentScalars
<1>5. /\ DOMAIN g.meta = {k \in DOMAIN f.meta : ~ Undeliverable(k) /\ Carries(f.meta[k]) # NoText}
      /\ \A k \in DOMAIN g.meta : g.meta[k] = Carries(f.meta[k])
  BY SentMeta
<1>6. /\ Len(g.subscriptions) <= Len(f.subscriptions)
      /\ \A i \in DOMAIN f.subscriptions : At(g.subscriptions, i) = Carries(f.subscriptions[i])
  BY SentSubscriptions
<1>7. /\ f.name = After(d, e.name) /\ f.page = After(d, e.page)
      /\ f.anonymous = e.anonymous
      /\ DOMAIN f.meta \subseteq DOMAIN e.meta
      /\ \A k \in DOMAIN e.meta :
           At(f.meta, k) = IF d > 0 /\ Undeliverable(k) THEN NoText ELSE After(d, e.meta[k])
      /\ Len(f.subscriptions) <= Len(e.subscriptions)
      /\ \A i \in DOMAIN e.subscriptions : At(f.subscriptions, i) = After(d, e.subscriptions[i])
  BY DEF LeftAfter
<1>8. \A t \in T : Carries(After(d, t)) = After(s, t)
  BY CarriedAfter
<1>9. s > 0
  BY AttachableAssumption DEF OneMore, Trips
<1>10. \A x, i : At(x, i) = IF i \in DOMAIN x THEN x[i] ELSE NoText
  BY DEF At
<1> HIDE DEF g, s, T
<1>11. \A k \in DOMAIN e.meta :
         At(g.meta, k) = IF s > 0 /\ Undeliverable(k) THEN NoText ELSE After(s, e.meta[k])
  <2> TAKE k \in DOMAIN e.meta
  <2>1. CASE Undeliverable(k)
    BY <1>5, <1>9, <1>10, <2>1
  <2>2. CASE ~ Undeliverable(k)
    <3>1. At(f.meta, k) = After(d, e.meta[k])
      BY <1>7, <2>2
    <3>2. At(g.meta, k) = Carries(At(f.meta, k))
      BY <1>5, <1>10, <2>2, NoTextIsNone
    <3> QED BY <1>1, <1>8, <2>2, <3>1, <3>2
  <2> QED BY <2>1, <2>2
<1>12. \A i \in DOMAIN e.subscriptions : At(g.subscriptions, i) = After(s, e.subscriptions[i])
  <2> TAKE i \in DOMAIN e.subscriptions
  <2>1. At(g.subscriptions, i) = Carries(At(f.subscriptions, i))
    <3>1. CASE i \in DOMAIN f.subscriptions
      BY <1>6, <1>10, <3>1
    <3>2. CASE i \notin DOMAIN f.subscriptions
      <4>1. i \notin DOMAIN g.subscriptions
        BY <1>1, <1>2, <1>3, <1>6, <3>2
      <4> QED BY <1>10, <3>2, <4>1, NoTextIsNone
    <3> QED BY <3>1, <3>2
  <2> QED BY <1>1, <1>7, <1>8, <2>1
<1>13. g.name = After(s, e.name) /\ g.page = After(s, e.page)
  BY <1>1, <1>4, <1>7, <1>8
<1>14. /\ g.anonymous = e.anonymous /\ DOMAIN g.meta \subseteq DOMAIN e.meta
       /\ Len(g.subscriptions) <= Len(e.subscriptions)
  BY <1>1, <1>2, <1>3, <1>4, <1>5, <1>6, <1>7
<1>15. LeftAfter(s, g, e)
  BY <1>11, <1>12, <1>13, <1>14 DEF LeftAfter
<1> QED BY <1>15 DEF g, s

\* An event that was never baggage is the one attached.
LEMMA LeftOfItself ==
    ASSUME NEW e \in Event
    PROVE  0 \in Trips /\ LeftAfter(0, e, e)
<1>1. /\ e.name \in Texts \cup {NoText} /\ e.page \in Texts \cup {NoText}
      /\ \A k \in DOMAIN e.meta : e.meta[k] \in Texts \cup {NoText}
      /\ \A i \in DOMAIN e.subscriptions : e.subscriptions[i] \in Texts \cup {NoText}
      /\ Len(e.subscriptions) \in 0 .. 2
  BY EventFields
<1>2. 0 \in Trips
  BY AttachableAssumption DEF Trips
<1>3. \A t \in Texts \cup {NoText} : After(0, t) = t
  BY <1>2, CarriedAfter
<1>4. Len(e.subscriptions) <= Len(e.subscriptions)
  BY <1>1
<1> QED BY <1>1, <1>2, <1>3, <1>4 DEF LeftAfter, At

\* The zero event and no event are not what a trip leaves of an event with a name.
LEMMA ZeroAndNone ==
    /\ NoEvent \notin Event /\ NoEvent # ZeroEvent
    /\ ZeroEvent.name = NoText
    /\ Members(ToFlatMap(ZeroEvent)) = {}
    /\ FromFlatMap({}).name = NoText
<1>1. DOMAIN NoEvent = {"none"}
  BY DEF NoEvent
<1>2. "none" \notin DOMAIN ZeroEvent /\ ZeroEvent.name = NoText
  BY DEF ZeroEvent
<1>3. \A e \in Event : "none" \notin DOMAIN e
  BY DEF Event
<1>4. FromFlatMap({}).name = NoText
  <2>1. Text({}, <<"name">>) = NoText
    BY DEF Text
  <2> QED BY <2>1 DEF FromFlatMap
<1>5. \A q \in Pairs(ZeroEvent) : q[2] = NoText
  <2>1. /\ ZeroEvent.name = NoText /\ ZeroEvent.page = NoText /\ ZeroEvent.anonymous = NoText
        /\ DOMAIN ZeroEvent.meta = {} /\ DOMAIN ZeroEvent.subscriptions = {}
    BY DEF ZeroEvent
  <2> QED BY <2>1 DEF Pairs
<1>6. ToFlatMap(ZeroEvent) = {}
  <2>1. ToFlatMap(ZeroEvent) = {q \in Pairs(ZeroEvent) : q[2] # NoText}
    BY DEF ToFlatMap, Pairs
  <2> QED BY <1>5, <2>1
<1>7. Members(ToFlatMap(ZeroEvent)) = {}
  BY <1>6 DEF Members
<1> QED BY <1>1, <1>2, <1>3, <1>4, <1>7
-----------------------------------------------------------------------------
(* One event: whatever is in a context stems from one attached event       *)

\* f is the zero event, or what some number of trips leave of an event of A.
StemsFrom(f, A) ==
    f = ZeroEvent \/ (f \in Event /\ \E e \in A : \E d \in Trips : LeftAfter(d, f, e))

\* Each part of the context c stems from one event of A, the baggage as a whole.
ContextStems(c, A) ==
    /\ DOMAIN c = {"event", "baggage", "temporal"}
    /\ c.event = NoEvent \/ StemsFrom(c.event, A)
    /\ c.temporal = NoEvent \/ StemsFrom(c.temporal, A)
    /\ \/ c.baggage = {}
       \/ \E f \in Event : StemsFrom(f, A) /\ c.baggage = Members(ToFlatMap(f))

OneSource == attached \subseteq Event /\ ContextStems(ctx, attached)

\* What a service reads that is sent no more than a baggage.
FromBaggage(b) == IF FromFlatMap(b).name = NoText THEN NoEvent ELSE FromFlatMap(b)

\* EventFromContext looks at the event first, then at the baggage.
LEMMA ReadsEventFirst ==
    ASSUME NEW c
    PROVE  EventFromContext(c) = IF c.event # NoEvent THEN c.event ELSE FromBaggage(c.baggage)
BY DEF EventFromContext, FromBaggage

\* An event that attaches stems from itself, and what stemmed from fewer events
\* stems from more.
LEMMA StemsFromMore ==
    ASSUME NEW A, NEW e \in Event
    PROVE  /\ StemsFrom(e, A \cup {e})
           /\ \A f : StemsFrom(f, A) => StemsFrom(f, A \cup {e})
<1>1. 0 \in Trips /\ LeftAfter(0, e, e)
  BY LeftOfItself
<1> QED BY <1>1 DEF StemsFrom

\* What is read of the baggage of an event stems from where the event does.
LEMMA SentStems ==
    ASSUME NEW A \in SUBSET Event, NEW f \in Event, StemsFrom(f, A)
    PROVE  \/ FromBaggage(Members(ToFlatMap(f))) = NoEvent
           \/ StemsFrom(FromBaggage(Members(ToFlatMap(f))), A)
<1>1. CASE f = ZeroEvent
  BY <1>1, ZeroAndNone DEF FromBaggage
<1>2. CASE f # ZeroEvent
  <2>1. PICK e \in A, d \in Trips : LeftAfter(d, f, e)
    BY <1>2 DEF StemsFrom
  <2>2. Sent(f) \in Event /\ e \in Event
    BY SentIsEvent
  <2>3. OneMore(d) \in Trips /\ LeftAfter(OneMore(d), Sent(f), e)
    BY <2>1, <2>2, SentIsLeft, EventFields, CarriedAfter
  <2>4. StemsFrom(Sent(f), A)
    BY <2>2, <2>3 DEF StemsFrom
  <2> QED BY <2>4 DEF FromBaggage, Sent
<1> QED BY <1>1, <1>2

\* So does what is read of a context.
LEMMA ReadStems ==
    ASSUME NEW A \in SUBSET Event, NEW c, ContextStems(c, A)
    PROVE  EventFromContext(c) = NoEvent \/ StemsFrom(EventFromContext(c), A)
<1>1. CASE c.event # NoEvent
  BY <1>1, ReadsEventFirst DEF ContextStems
<1>2. CASE c.event = NoEvent /\ c.baggage = {}
  BY <1>2, ReadsEventFirst, ZeroAndNone DEF FromBaggage
<1>3. ASSUME c.event = NoEvent, NEW f \in Event, StemsFrom(f, A), c.baggage = Members(ToFlatMap(f))
      PROVE  EventFromContext(c) = NoEvent \/ StemsFrom(EventFromContext(c), A)
  <2>1. EventFromContext(c) = FromBaggage(Members(ToFlatMap(f)))
    BY <1>3, ReadsEventFirst
  <2> QED BY <1>3, <2>1, SentStems
<1> QED BY <1>1, <1>2, <1>3 DEF ContextStems

\* The baggage of a span is that of the event read, or the one there was.
LEMMA SpanStems ==
    ASSUME NEW A \in SUBSET Event, NEW c, ContextStems(c, A)
    PROVE  ContextStems(ContextOfSpan(c), A)
<1>1. CASE MembersOf(c) = {}
  BY <1>1 DEF ContextOfSpan
<1>2. CASE MembersOf(c) # {}
  <2> DEFINE g == EventFromContext(c)
             d == [c EXCEPT !.baggage = MembersOf(c)]
  <2>1. g # NoEvent /\ MembersOf(c) = Members(ToFlatMap(g))
    BY <1>2 DEF MembersOf
  <2>2. StemsFrom(g, A)
    BY <2>1, ReadStems
  <2>3. g \in Event
    <3>1. g # ZeroEvent
      BY <1>2, <2>1, ZeroAndNone
    <3> QED BY <2>2, <3>1 DEF StemsFrom
  <2>4. /\ DOMAIN d = DOMAIN c /\ d.event = c.event /\ d.temporal = c.temporal
        /\ d.baggage = Members(ToFlatMap(g))
    BY <2>1 DEF ContextStems
  <2>5. ContextOfSpan(c) = d
    BY <1>2 DEF ContextOfSpan
  <2> HIDE DEF d, g
  <2>6. ContextStems(d, A)
    BY <2>2, <2>3, <2>4 DEF ContextStems
  <2> QED BY <2>5, <2>6
<1> QED BY <1>1, <1>2

\* The context of an incoming request and those made from a header.
LEMMA HeaderStems ==
    ASSUME NEW A, NEW h, h = NoEvent \/ StemsFrom(h, A)
    PROVE  /\ ContextStems(Root, A)
           /\ ContextStems(ExtractToWorkflow(Root, h), A)
           /\ ContextStems(Extract(Root, h), A)
<1>1. StemsFrom(Decoded(h), A)
  BY DEF Decoded, StemsFrom
<1>2. ContextStems(Root, A)
  BY DEF ContextStems, Root
<1>3. ContextStems(ExtractToWorkflow(Root, h), A)
  <2>1. ExtractToWorkflow(Root, h) =
          [event |-> NoEvent, baggage |-> {}, temporal |-> Decoded(h)]
    BY DEF ExtractToWorkflow, Root
  <2> QED BY <1>1, <2>1 DEF ContextStems
<1>4. ContextStems(Extract(Root, h), A)
  <2>1. Extract(Root, h) =
          [event |-> Decoded(h), baggage |-> {}, temporal |-> Decoded(h)]
    <3>1. ContextWithEvent(Root, Decoded(h)) =
            [event |-> Decoded(h), baggage |-> {}, temporal |-> NoEvent]
      BY DEF ContextWithEvent, Root
    <3> QED BY <3>1 DEF Extract
  <2> QED BY <1>1, <2>1 DEF ContextStems
<1> QED BY <1>2, <1>3, <1>4

\* Every step keeps the parts of the context to one event each.
LEMMA SourceStep ==
    ASSUME OneSource, [Next]_vars
    PROVE  OneSource'
<1>0. attached \in SUBSET Event /\ ContextStems(ctx, attached)
  BY DEF OneSource
<1>1. ASSUME NEW e \in Attachable, Attach(e) PROVE OneSource'
  <2>1. e \in Event
    BY AttachableAssumption
  <2>2. ctx' = [ctx EXCEPT !.event = e] /\ attached' = attached \cup {e}
    BY <1>1 DEF Attach, ContextWithEvent
  <2>3. /\ DOMAIN ctx' = {"event", "baggage", "temporal"} /\ ctx'.event = e
        /\ ctx'.temporal = ctx.temporal /\ ctx'.baggage = ctx.baggage
    BY <1>0, <2>2 DEF ContextStems
  <2>4. StemsFrom(e, attached') /\ \A f : StemsFrom(f, attached) => StemsFrom(f, attached')
    BY <2>1, <2>2, StemsFromMore
  <2>5. ContextStems(ctx', attached')
    BY <1>0, <2>3, <2>4 DEF ContextStems
  <2> QED BY <1>0, <2>1, <2>2, <2>5 DEF OneSource
<1>2. CASE StartSpan
  <2>1. ContextStems(ContextOfSpan(ctx), attached)
    BY <1>0, SpanStems
  <2>2. ctx' = ContextOfSpan(ctx) /\ attached' = attached
    BY <1>2 DEF StartSpan
  <2> QED BY <1>0, <2>1, <2>2 DEF OneSource
<1>3. CASE CallService
  <2>1. ctx' = [event |-> NoEvent, baggage |-> ctx.baggage, temporal |-> NoEvent]
        /\ attached' = attached
    BY <1>3 DEF CallService, Root
  <2>2. ContextStems(ctx', attached)
    BY <1>0, <2>1 DEF ContextStems
  <2> QED BY <1>0, <2>1, <2>2 DEF OneSource
<1>4. CASE CallHttpClient
  <2>1. ctx' = Root /\ attached' = attached
    BY <1>4 DEF CallHttpClient
  <2>2. ContextStems(Root, attached)
    BY HeaderStems
  <2> QED BY <1>0, <2>1, <2>2 DEF OneSource
<1>5. ASSUME NEW readable \in BOOLEAN, ExecuteWorkflow(readable) PROVE OneSource'
  <2>1. attached' = attached
        /\ ctx' = IF readable THEN ExtractToWorkflow(Root, Inject(ctx)) ELSE Root
    BY <1>5 DEF ExecuteWorkflow
  <2>2. Inject(ctx) = NoEvent \/ StemsFrom(Inject(ctx), attached)
    BY <1>0, ReadStems DEF Inject
  <2>3. ContextStems(ctx', attached)
    BY <2>1, <2>2, HeaderStems
  <2> QED BY <1>0, <2>1, <2>3 DEF OneSource
<1>6. ASSUME NEW readable \in BOOLEAN, ExecuteChild(readable) \/ ExecuteActivity(readable)
      PROVE  OneSource'
  <2>1. /\ attached' = attached
        /\ \/ ctx' = Root
           \/ ctx' = ExtractToWorkflow(Root, InjectFromWorkflow(ctx))
           \/ ctx' = Extract(Root, InjectFromWorkflow(ctx))
    BY <1>6 DEF ExecuteChild, ExecuteActivity
  <2>2. InjectFromWorkflow(ctx) = NoEvent \/ StemsFrom(InjectFromWorkflow(ctx), attached)
    BY <1>0 DEF InjectFromWorkflow, ContextStems
  <2>3. ContextStems(ctx', attached)
    BY <2>1, <2>2, HeaderStems
  <2> QED BY <1>0, <2>1, <2>3 DEF OneSource
<1>7. CASE UNCHANGED vars
  BY <1>0, <1>7 DEF vars, OneSource
<1> QED BY <1>1, <1>2, <1>3, <1>4, <1>5, <1>6, <1>7 DEF Next

\* OneSource holds of every reachable state.
THEOREM SourceInvariant == Spec => []OneSource
<1>1. Init => OneSource
  BY DEF Init, OneSource, ContextStems, Root
<1> QED BY <1>1, SourceStep, PTL DEF Spec

\* What is read anywhere on the chain is what is left of one attached event.
THEOREM EventsAreNotMixed == Spec => []OneEvent
<1>1. OneSource => OneEvent
  <2> SUFFICES ASSUME OneSource, NEW f \in Readable
               PROVE  f = ZeroEvent \/ \E e \in attached : \E d \in Trips : LeftAfter(d, f, e)
    BY DEF OneEvent
  <2>1. EventFromContext(ctx) = NoEvent \/ StemsFrom(EventFromContext(ctx), attached)
    BY ReadStems DEF OneSource
  <2>2. ctx.temporal = NoEvent \/ StemsFrom(ctx.temporal, attached)
    BY DEF OneSource, ContextStems
  <2>3. f # NoEvent /\ (f = ctx.temporal \/ f = EventFromContext(ctx))
    BY DEF Readable, EventFromTemporal
  <2>4. StemsFrom(f, attached)
    BY <2>1, <2>2, <2>3
  <2> QED BY <2>4 DEF StemsFrom
<1> QED BY <1>1, SourceInvariant, PTL

-----------------------------------------------------------------------------
(* The last event: what the baggage that was sent has made of it           *)

\* f is what may be left of e downstream, after some number of trips: nothing if
\* its name is lost by then, else what as many trips leave of it.
Survives(f, e) ==
    \E d \in Trips \ {0} :
        IF f \in {NoEvent, ZeroEvent} THEN After(d, e.name) = NoText
        ELSE f \in Event /\ LeftAfter(d, f, e)

\* What is left of the last event where the chain is, and what the baggage there
\* would leave of it.
LastCarried ==
    /\ road \in {"direct", "baggage"} => last \in Event
    /\ road = "direct" /\ place # "workflow" /\ ~ unsent =>
           ctx.baggage = Members(ToFlatMap(last))
    /\ road = "baggage" =>
           /\ place = "workflow" => Survives(ctx.temporal, last)
           /\ place # "workflow" => Survives(EventFromContext(ctx), last)
           /\ place # "workflow" /\ ~ unsent => Survives(FromBaggage(ctx.baggage), last)

\* What any number of trips leave of an event survives the next.
LEMMA SentSurvives ==
    ASSUME NEW e \in Event, NEW f \in Event, NEW d \in Trips, LeftAfter(d, f, e)
    PROVE  Survives(FromBaggage(Members(ToFlatMap(f))), e)
<1> DEFINE g == Sent(f)
           s == OneMore(d)
<1>1. g \in Event /\ LeftAfter(s, g, e)
  BY SentIsEvent, SentIsLeft
<1>2. s \in Trips \ {0}
  BY EventFields, CarriedAfter
<1>3. g.name = After(s, e.name)
  BY <1>1 DEF LeftAfter
<1>4. FromBaggage(Members(ToFlatMap(f))) = IF g.name = NoText THEN NoEvent ELSE g
  BY DEF FromBaggage, Sent
<1> HIDE DEF g, s
<1>5. CASE g.name = NoText
  BY <1>2, <1>3, <1>4, <1>5 DEF Survives
<1>6. CASE g.name # NoText
  <2>1. g \notin {NoEvent, ZeroEvent}
    BY <1>1, <1>6, ZeroAndNone
  <2> QED BY <1>1, <1>2, <1>4, <1>6, <2>1 DEF Survives
<1> QED BY <1>5, <1>6

\* So an event survives the first trip, and what has survived does again.
LEMMA SurvivesAgain ==
    ASSUME NEW e \in Event
    PROVE  /\ Survives(FromBaggage(Members(ToFlatMap(e))), e)
           /\ \A f : Survives(f, e) /\ f \notin {NoEvent, ZeroEvent}
                     => Survives(FromBaggage(Members(ToFlatMap(f))), e)
<1>1. Survives(FromBaggage(Members(ToFlatMap(e))), e)
  BY LeftOfItself, SentSurvives
<1>2. ASSUME NEW f, Survives(f, e), f \notin {NoEvent, ZeroEvent}
      PROVE  Survives(FromBaggage(Members(ToFlatMap(f))), e)
  <2>1. PICK d \in Trips : f \in Event /\ LeftAfter(d, f, e)
    BY <1>2 DEF Survives
  <2> QED BY <2>1, SentSurvives
<1> QED BY <1>1, <1>2

\* A header keeps what there is, and stores the zero event for nothing.
LEMMA DecodedSurvives ==
    ASSUME NEW e, NEW f, Survives(f, e)
    PROVE  Survives(Decoded(f), e)
BY DEF Survives, Decoded

\* A span changes the baggage to that of the event read, and not the event read.
LEMMA SpanSends ==
    ASSUME NEW c, DOMAIN c = {"event", "baggage", "temporal"}
    PROVE  /\ MembersOf(c) = {} => ContextOfSpan(c) = c
           /\ MembersOf(c) # {} =>
                /\ EventFromContext(c) # NoEvent
                /\ ContextOfSpan(c).baggage = Members(ToFlatMap(EventFromContext(c)))
           /\ ContextOfSpan(c).event = c.event
BY DEF ContextOfSpan, MembersOf

\* Every step keeps what is said of the last event.
LEMMA LastStep ==
    ASSUME Carried, LastCarried, [Next]_vars
    PROVE  LastCarried'
<1>1. ASSUME NEW e \in Attachable, Attach(e) PROVE LastCarried'
  <2>1. last' = e /\ unsent' = TRUE /\ road' = "direct"
    BY <1>1 DEF Attach
  <2>2. e \in Event
    BY AttachableAssumption
  <2> QED BY <2>1, <2>2 DEF LastCarried
<1>2. CASE StartSpan
  <2>0. /\ ctx' = ContextOfSpan(ctx) /\ unsent' = (unsent /\ MembersOf(ctx) = {})
        /\ UNCHANGED <<place, last, road>> /\ place # "workflow"
        /\ DOMAIN ctx = {"event", "baggage", "temporal"}
    BY <1>2 DEF StartSpan, Carried
  <2>1. CASE MembersOf(ctx) = {}
    <3>1. ctx' = ctx /\ (unsent' <=> unsent)
      BY <2>0, <2>1, SpanSends
    <3> QED BY <2>0, <3>1 DEF LastCarried
  <2>2. CASE MembersOf(ctx) # {}
    <3> DEFINE g == EventFromContext(ctx)
    <3>1. /\ g # NoEvent /\ ctx'.baggage = Members(ToFlatMap(g)) /\ ctx'.event = ctx.event
      BY <2>0, <2>2, SpanSends
    <3>2. g # ZeroEvent
      BY <2>2, <3>1, ZeroAndNone DEF MembersOf
    <3>3. CASE road = "direct"
      <4>1. g = last
        BY <2>0, <3>3, ReadsEventFirst DEF Carried
      <4> QED BY <2>0, <3>1, <3>3, <4>1 DEF LastCarried
    <3>4. CASE road = "baggage"
      <4>1. last \in Event /\ Survives(g, last)
        BY <2>0, <3>4 DEF LastCarried
      <4>2. Survives(FromBaggage(ctx'.baggage), last)
        BY <3>1, <3>2, <4>1, SurvivesAgain
      <4>3. Survives(EventFromContext(ctx'), last)
        <5>1. EventFromContext(ctx') =
                IF ctx'.event # NoEvent THEN ctx'.event ELSE FromBaggage(ctx'.baggage)
          BY ReadsEventFirst
        <5>2. g = IF ctx.event # NoEvent THEN ctx.event ELSE FromBaggage(ctx.baggage)
          BY ReadsEventFirst
        <5> QED BY <3>1, <4>1, <4>2, <5>1, <5>2
      <4> QED BY <2>0, <3>4, <4>1, <4>2, <4>3 DEF LastCarried
    <3>5. CASE road \notin {"direct", "baggage"}
      BY <2>0, <3>5 DEF LastCarried
    <3> QED BY <3>3, <3>4, <3>5
  <2> QED BY <2>1, <2>2
<1>3. CASE CallService
  <2>0. /\ ctx' = [event |-> NoEvent, baggage |-> ctx.baggage, temporal |-> NoEvent]
        /\ place' = "service" /\ place # "workflow" /\ last' = last
        /\ road' = IF road = "none" THEN "none" ELSE IF unsent THEN "stale"
                   ELSE IF road = "direct" THEN "baggage" ELSE road
    BY <1>3 DEF CallService, Leave, Root
  <2>1. ASSUME road' = "baggage"
        PROVE  last \in Event /\ Survives(FromBaggage(ctx.baggage), last)
    <3>1. ~ unsent /\ road \in {"direct", "baggage"}
      BY <2>0, <2>1
    <3>2. CASE road = "direct"
      BY <2>0, <3>1, <3>2, SurvivesAgain DEF LastCarried
    <3>3. CASE road = "baggage"
      BY <2>0, <3>1, <3>3 DEF LastCarried
    <3> QED BY <3>1, <3>2, <3>3
  <2>2. EventFromContext(ctx') = FromBaggage(ctx'.baggage) /\ ctx'.baggage = ctx.baggage
    BY <2>0, ReadsEventFirst
  <2>3. road' # "direct"
    BY <2>0
  <2> QED BY <2>0, <2>1, <2>2, <2>3 DEF LastCarried
<1>4. CASE CallHttpClient
  BY <1>4 DEF CallHttpClient, LastCarried
<1>5. ASSUME NEW readable \in BOOLEAN, ExecuteWorkflow(readable) PROVE LastCarried'
  <2>0. /\ place' = "workflow" /\ place # "workflow" /\ last' = last
        /\ road' = RoadAfter(readable)
        /\ ctx' = IF readable THEN ExtractToWorkflow(Root, Inject(ctx)) ELSE Root
    BY <1>5 DEF ExecuteWorkflow, Leave
  <2>1. road' \in {"direct", "baggage"} => readable /\ road' = road
    BY <2>0 DEF RoadAfter
  <2>2. ASSUME road' = "baggage" PROVE Survives(ctx'.temporal, last)
    <3>1. ctx'.temporal = Decoded(EventFromContext(ctx))
      BY <2>0, <2>1, <2>2 DEF ExtractToWorkflow, Root, Inject
    <3>2. Survives(EventFromContext(ctx), last)
      BY <2>0, <2>1, <2>2 DEF LastCarried
    <3> QED BY <3>1, <3>2, DecodedSurvives
  <2> QED BY <2>0, <2>1, <2>2 DEF LastCarried
<1>6. ASSUME NEW readable \in BOOLEAN, ExecuteChild(readable) PROVE LastCarried'
  <2>0. /\ place' = "workflow" /\ place = "workflow" /\ last' = last
        /\ road' = RoadAfter(readable)
        /\ ctx' = IF readable THEN ExtractToWorkflow(Root, InjectFromWorkflow(ctx)) ELSE Root
    BY <1>6 DEF ExecuteChild, Leave
  <2>1. road' \in {"direct", "baggage"} => readable /\ road' = road
    BY <2>0 DEF RoadAfter
  <2>2. ASSUME road' = "baggage" PROVE Survives(ctx'.temporal, last)
    <3>1. ctx'.temporal = Decoded(ctx.temporal)
      BY <2>0, <2>1, <2>2 DEF ExtractToWorkflow, Root, InjectFromWorkflow
    <3>2. Survives(ctx.temporal, last)
      BY <2>0, <2>1, <2>2 DEF LastCarried
    <3> QED BY <3>1, <3>2, DecodedSurvives
  <2> QED BY <2>0, <2>1, <2>2 DEF LastCarried
<1>7. ASSUME NEW readable \in BOOLEAN, ExecuteActivity(readable) PROVE LastCarried'
  <2>0. /\ place' = "activity" /\ place = "workflow" /\ last' = last
        /\ road' = RoadAfter(readable) /\ unsent' = readable
        /\ ctx' = IF readable THEN Extract(Root, InjectFromWorkflow(ctx)) ELSE Root
    BY <1>7 DEF ExecuteActivity, Leave
  <2>1. road' \in {"direct", "baggage"} => readable /\ road' = road
    BY <2>0 DEF RoadAfter
  <2>2. ASSUME road' = "baggage" PROVE Survives(EventFromContext(ctx'), last)
    <3>1. ctx'.event = Decoded(ctx.temporal)
      BY <2>0, <2>1, <2>2 DEF Extract, ContextWithEvent, Root, InjectFromWorkflow
    <3>2. Decoded(ctx.temporal) # NoEvent
      BY ZeroAndNone DEF Decoded
    <3>3. EventFromContext(ctx') = Decoded(ctx.temporal)
      BY <3>1, <3>2, ReadsEventFirst
    <3>4. Survives(ctx.temporal, last)
      BY <2>0, <2>1, <2>2 DEF LastCarried
    <3> QED BY <3>3, <3>4, DecodedSurvives
  <2> QED BY <2>0, <2>1, <2>2 DEF LastCarried
<1>8. CASE UNCHANGED vars
  BY <1>8 DEF vars, LastCarried
<1> QED BY <1>1, <1>2, <1>3, <1>4, <1>5, <1>6, <1>7, <1>8 DEF Next

\* LastCarried holds of every reachable state.
THEOREM LastInvariant == Spec => []LastCarried
<1>1. Init => LastCarried
  BY DEF Init, LastCarried
<1> QED BY <1>1, LastStep, CarriedInductive, PTL DEF Spec

\* An event that was in the baggage when it was sent is the one in effect
\* downstream, after some number of trips, or its name was lost by then.
THEOREM LastOneArrives == Spec => []LastOneDelivered
<1>1. LastCarried => LastOneDelivered
  <2> SUFFICES ASSUME LastCarried, road = "baggage"
               PROVE  \E d \in Trips \ {0} :
                        IF InEffect \in {NoEvent, ZeroEvent} THEN After(d, last.name) = NoText
                        ELSE LeftAfter(d, InEffect, last)
    BY DEF LastOneDelivered
  <2>1. Survives(InEffect, last)
    BY DEF LastCarried, InEffect, EventFromTemporal
  <2> QED BY <2>1 DEF Survives
<1> QED BY <1>1, LastInvariant, PTL

-----------------------------------------------------------------------------
(* The two requests of a call of the Temporal client                       *)

\* The initial states satisfy the inductive invariant.
LEMMA InitIInv == ClientInit => IInv
  BY TemporalClientAssumption
  DEF ClientInit, IInv, ClientTypeOK, Outcomes, Outcome, Requests, Schedules, Statuses,
      CreatedMeansScheduled, RepeatIsNoOp, ValueOfAskedRun, AskedRunNeverAwaited,
      Requesting, MetStays, ReadFollowsChain, ContinuedHasNext

\* The outcomes the calls return are outcomes.
LEMMA OutcomeType ==
  ASSUME NEW kind \in {"none", "created", "alreadyRunning", "error",
                       "notClosed", "value", "closedError"}
  PROVE  Outcome(kind) \in Outcomes
  BY TemporalClientAssumption DEF Outcome, Outcomes

\* A call that returns is over: it waits for nothing.
LEMMA ReturnsEnds ==
  ASSUME ClientTypeOK, NEW c \in Callers, NEW o \in Outcomes, Returns(c, o)
  PROVE  /\ pc' \in [Callers -> {"free", "describeSchedule", "create", "describeRun", "get"}]
         /\ at' \in [Callers -> 0 .. Len(runs)]
         /\ outcome' \in [Callers -> Outcomes]
         /\ pc'[c] = "free" /\ outcome'[c] = o
  BY TemporalClientAssumption DEF ClientTypeOK, Returns

\* What the server stores for a request is a schedule that matches it.
LEMMA StoredMatches ==
  ASSUME NEW r \in Requests
  PROVE  /\ r \in Schedules
         /\ Stored(r) \in Schedules
         /\ Stored(r) # NoSchedule
         /\ Matches(Stored(r), r)
  BY TemporalClientAssumption
  DEF Requests, Schedules, Overlaps, Stored, Normalized, Matches

\* A step of the server: runs are only added, and closed ones do not change.
LEMMA ServerIInv == IInv /\ ServerStep => IInv'
<1> SUFFICES ASSUME IInv, ServerStep PROVE IInv'
  OBVIOUS
<1> USE TemporalClientAssumption DEF IInv, callVars
<1>1. /\ schedule' = schedule /\ UNCHANGED callVars
  BY DEF ServerStep, StartRun, CloseRun, ContinueRun, Expire
<1>2. /\ runs' \in Seq(Statuses)
      /\ Len(runs) <= Len(runs')
      /\ Len(runs') <= MaxRuns
      /\ \A k \in 1 .. Len(runs) : runs[k] # "running" => runs'[k] = runs[k]
      /\ expired' \subseteq 1 .. Len(runs')
  <2> USE DEF ClientTypeOK, Statuses
  <2>1. CASE StartRun
    BY <2>1 DEF StartRun, Latest
  <2>2. CASE CloseRun
    BY <2>2 DEF CloseRun, LatestRunning, Latest
  <2>3. CASE ContinueRun
    BY <2>3 DEF ContinueRun, LatestRunning, Latest
  <2>4. CASE Expire
    BY <2>4 DEF Expire, Latest
  <2> QED
    BY <2>1, <2>2, <2>3, <2>4 DEF ServerStep
<1>3. ClientTypeOK'
  BY <1>1, <1>2 DEF ClientTypeOK
<1>a. /\ Len(runs) \in Nat /\ Len(runs') \in Nat /\ Len(runs) <= Len(runs')
      /\ \A k \in 1 .. Len(runs) : runs[k] # "running" => runs'[k] = runs[k]
  BY <1>2 DEF ClientTypeOK
<1>b. \A c \in Callers :
        /\ at[c] \in 0 .. Len(runs) /\ asked[c] \in 0 .. Len(runs)
        /\ outcome[c].run \in Nat
  BY DEF ClientTypeOK, Outcomes
<1>4. CreatedMeansScheduled' /\ RepeatIsNoOp' /\ Requesting' /\ MetStays'
  BY <1>1 DEF CreatedMeansScheduled, RepeatIsNoOp, Requesting, MetStays
<1>5. ValueOfAskedRun'
  <2> SUFFICES ASSUME NEW c \in Callers,
                      outcome[c].kind = "value", asked[c] # 0
               PROVE  /\ outcome[c].run \in asked[c] .. Len(runs')
                      /\ runs'[outcome[c].run] = "completed"
                      /\ \A k \in asked[c] .. outcome[c].run - 1 : runs'[k] = "continued"
    BY <1>1 DEF ValueOfAskedRun
  <2>1. /\ outcome[c].run \in asked[c] .. Len(runs)
        /\ runs[outcome[c].run] = "completed"
        /\ \A k \in asked[c] .. outcome[c].run - 1 : runs[k] = "continued"
    BY DEF ValueOfAskedRun
  <2>2. \A k \in asked[c] .. outcome[c].run : k \in 1 .. Len(runs)
    BY <1>a, <1>b, <2>1
  <2>3. outcome[c].run \in asked[c] .. Len(runs')
    BY <1>a, <1>b, <2>1
  <2>4. runs'[outcome[c].run] = "completed"
    BY <1>a, <1>b, <2>1, <2>2
  <2>5. \A k \in asked[c] .. outcome[c].run - 1 : runs'[k] = "continued"
    BY <1>a, <1>b, <2>1, <2>2
  <2> QED
    BY <2>3, <2>4, <2>5
<1>6. AskedRunNeverAwaited'
  BY <1>1, <1>a, <1>b DEF AskedRunNeverAwaited
<1>7. ReadFollowsChain'
  BY <1>1, <1>a, <1>b DEF ReadFollowsChain
<1>8. ContinuedHasNext'
  <2> USE DEF ClientTypeOK, ContinuedHasNext
  <2>1. CASE StartRun
    BY <2>1 DEF StartRun, Latest
  <2>2. CASE CloseRun
    BY <2>2 DEF CloseRun, LatestRunning, Latest
  <2>3. CASE ContinueRun
    BY <2>3 DEF ContinueRun, LatestRunning, Latest
  <2>4. CASE Expire
    BY <2>4 DEF Expire
  <2> QED
    BY <2>1, <2>2, <2>3, <2>4 DEF ServerStep
<1> QED
  BY <1>3, <1>4, <1>5, <1>6, <1>7, <1>8

\* A step of createSchedule: a schedule is only ever set where there was none.
LEMMA ScheduleIInv ==
  ASSUME IInv, NEW c \in Callers,
         CreateSchedule(c) \/ DescribeSchedule(c) \/ Create(c)
  PROVE  IInv'
<1> USE TemporalClientAssumption DEF IInv
<1>1. ClientTypeOK'
  <2> USE OutcomeType DEF ClientTypeOK
  <2>1. CASE CreateSchedule(c)
    <3>1. request' \in [Callers -> Requests \cup {NoSchedule}]
      BY <2>1 DEF CreateSchedule
    <3>2. met' \in [Callers -> Schedules \cup {NoSchedule}]
      BY <2>1 DEF CreateSchedule
    <3> QED
      BY <2>1, <3>1, <3>2 DEF CreateSchedule, serverVars
  <2>2. CASE DescribeSchedule(c)
    <3>1. CASE schedule = NoSchedule /\ pc' = [pc EXCEPT ![c] = "create"]
                 /\ UNCHANGED <<outcome, at>>
      BY <2>2, <3>1 DEF DescribeSchedule, serverVars
    <3>2. CASE \E kind \in {"created", "alreadyRunning", "error"} : Returns(c, Outcome(kind))
      BY <2>2, <3>2, ReturnsEnds DEF DescribeSchedule, serverVars
    <3> QED
      BY <2>2, <3>1, <3>2 DEF DescribeSchedule
  <2>3. CASE Create(c)
    <3>1. Stored(request[c]) \in Schedules
      BY <2>3, StoredMatches DEF Create, Requesting
    <3>2. schedule' \in Schedules \cup {NoSchedule}
      BY <2>3, <3>1 DEF Create
    <3>3. \E kind \in {"created", "alreadyRunning", "error"} : Returns(c, Outcome(kind))
      BY <2>3 DEF Create
    <3> QED
      BY <2>3, <3>2, <3>3, ReturnsEnds DEF Create
  <2> QED
    BY <2>1, <2>2, <2>3
<1>2. /\ runs' = runs
      /\ schedule # NoSchedule => schedule' = schedule
      /\ pc'[c] # "get"
      /\ outcome'[c].kind # "value"
      /\ pc'[c] \in {"describeSchedule", "create"} => request'[c] \in Requests
      /\ pc'[c] = "create" => met'[c] = NoSchedule
      /\ pc'[c] # "free" => outcome'[c] = Outcome("none")
      /\ met'[c] # NoSchedule => schedule' = met'[c]
      /\ outcome'[c].kind = "created" =>
           /\ schedule' # NoSchedule
           /\ request'[c] \in Requests
           /\ Matches(schedule', request'[c])
      /\ outcome'[c].kind = "alreadyRunning" /\ met'[c] # NoSchedule =>
           /\ request'[c] \in Requests
           /\ ~ Matches(schedule', request'[c])
  <2>0. /\ DOMAIN pc = Callers /\ DOMAIN request = Callers
        /\ DOMAIN met = Callers /\ DOMAIN outcome = Callers
    BY DEF ClientTypeOK
  <2> USE <2>0 DEF Returns, Outcome, Requesting, MetStays
  <2>1. CASE CreateSchedule(c)
    BY <2>1 DEF CreateSchedule, serverVars
  <2>2. CASE DescribeSchedule(c)
    BY <2>2 DEF DescribeSchedule, serverVars
  <2>3. CASE Create(c)
    <3>1. /\ request[c] \in Requests
          /\ met[c] # NoSchedule => schedule = met[c]
          /\ request' = request /\ met' = met /\ runs' = runs
          /\ pc'[c] = "free"
      BY <2>3 DEF Create
    <3>2. CASE schedule = NoSchedule /\ schedule' = Stored(request[c])
      BY <2>3, <3>1, <3>2, StoredMatches DEF Create
    <3>3. CASE schedule' = schedule
      BY <2>3, <3>1, <3>3, StoredMatches DEF Create
    <3> QED
      BY <2>3, <3>2, <3>3 DEF Create
  <2> QED
    BY <2>1, <2>2, <2>3
<1>3. \A d \in Callers : d # c =>
        /\ pc'[d] = pc[d] /\ at'[d] = at[d] /\ asked'[d] = asked[d]
        /\ outcome'[d] = outcome[d] /\ met'[d] = met[d] /\ request'[d] = request[d]
  BY DEF ClientTypeOK, CreateSchedule, DescribeSchedule, Create, Returns, serverVars
<1>4. CreatedMeansScheduled'
  BY <1>2, <1>3 DEF CreatedMeansScheduled, Matches, Requests
<1>5. RepeatIsNoOp'
  BY <1>2, <1>3 DEF RepeatIsNoOp, MetStays, Matches, Requests
<1>6. Requesting' /\ MetStays'
  BY <1>2, <1>3 DEF Requesting, MetStays
<1>7. ValueOfAskedRun' /\ AskedRunNeverAwaited' /\ ReadFollowsChain'
  <2>1. asked'[c] = asked[c] \/ asked'[c] = 0
    BY DEF ClientTypeOK, CreateSchedule, DescribeSchedule, Create
  <2>2. Len(runs) \in Nat
    BY DEF ClientTypeOK
  <2> QED
    BY <1>2, <1>3, <2>1, <2>2 DEF ValueOfAskedRun, AskedRunNeverAwaited, ReadFollowsChain
<1>8. ContinuedHasNext'
  BY <1>2 DEF ContinuedHasNext
<1> QED
  BY <1>1, <1>4, <1>5, <1>6, <1>7, <1>8

\* A step of closedWorkflowResult: Get starts at a run seen closed, and moves
\* on only from a continued run to the next.
LEMMA ReadIInv ==
  ASSUME IInv, NEW c \in Callers,
         \/ GetResultIfClosed(c) \/ DescribeRun(c)
         \/ Resolve(c) \/ Get(c) \/ GetFails(c)
  PROVE  IInv'
<1> USE TemporalClientAssumption DEF IInv
<1>1. ClientTypeOK'
  <2> USE OutcomeType DEF ClientTypeOK
  <2>1. CASE GetResultIfClosed(c)
    BY <2>1 DEF GetResultIfClosed, serverVars, Latest
  <2>2. CASE DescribeRun(c)
    <3>1. CASE \E kind \in {"notClosed", "error"} : Returns(c, Outcome(kind))
      BY <2>2, <3>1, ReturnsEnds DEF DescribeRun, serverVars
    <3>2. CASE pc' = [pc EXCEPT ![c] = "get"] /\ at' = [at EXCEPT ![c] = asked[c]]
                 /\ UNCHANGED outcome
      BY <2>2, <3>2 DEF DescribeRun, serverVars
    <3> QED
      BY <2>2, <3>1, <3>2 DEF DescribeRun, ReadRun
  <2>3. CASE Resolve(c)
    BY <2>3 DEF Resolve, serverVars, Latest
  <2>4. CASE Get(c)
    <3>1. CASE \E o \in Outcomes : Returns(c, o)
      BY <2>4, <3>1, ReturnsEnds DEF Get, serverVars
    <3>2. CASE /\ at[c] # 0 /\ at[c] <= Len(runs)
               /\ runs[at[c]] = "continued" /\ at' = [at EXCEPT ![c] = at[c] + 1]
               /\ UNCHANGED <<pc, outcome>>
      <4>1. at[c] + 1 \in 0 .. Len(runs)
        BY <3>2 DEF ContinuedHasNext
      <4> QED
        BY <2>4, <3>2, <4>1 DEF Get, serverVars
    <3>3. [kind |-> "value", run |-> at[c]] \in Outcomes
      BY DEF Outcomes
    <3> QED
      BY <2>4, <3>1, <3>2, <3>3 DEF Get
  <2>5. CASE GetFails(c)
    BY <2>5, ReturnsEnds DEF GetFails, serverVars
  <2> QED
    BY <2>1, <2>2, <2>3, <2>4, <2>5
<1>2. /\ runs' = runs /\ schedule' = schedule
      /\ pc'[c] \notin {"describeSchedule", "create"}
      /\ pc'[c] # "free" => outcome'[c] = Outcome("none")
      /\ met'[c] # NoSchedule => met'[c] = met[c]
      /\ outcome'[c].kind \notin {"created", "alreadyRunning"}
      /\ asked'[c] \in 0 .. Len(runs)
      /\ outcome'[c].kind = "value" =>
           /\ pc[c] = "get" /\ at[c] # 0 /\ asked'[c] = asked[c]
           /\ outcome'[c].run = at[c] /\ runs[at[c]] = "completed"
      /\ pc'[c] = "get" =>
           /\ asked'[c] = asked[c]
           /\ \/ /\ at'[c] = asked[c]
                 /\ asked[c] # 0 => /\ asked[c] \in 1 .. Len(runs)
                                    /\ runs[asked[c]] # "running"
              \/ /\ asked[c] = 0 /\ at'[c] = Len(runs)
              \/ /\ pc[c] = "get" /\ at[c] # 0
                 /\ at'[c] = at[c] + 1 /\ runs[at[c]] = "continued"
  <2>0. /\ DOMAIN pc = Callers /\ DOMAIN request = Callers /\ DOMAIN asked = Callers
        /\ DOMAIN met = Callers /\ DOMAIN outcome = Callers /\ DOMAIN at = Callers
    BY DEF ClientTypeOK
  <2>a. asked[c] \in 0 .. Len(runs)
    BY DEF ClientTypeOK
  <2> USE <2>0, <2>a DEF Returns, Outcome, Requesting
  <2>1. CASE GetResultIfClosed(c)
    BY <2>1 DEF GetResultIfClosed, serverVars, Latest, ClientTypeOK
  <2>2. CASE DescribeRun(c)
    <3>1. /\ runs' = runs /\ schedule' = schedule /\ met' = met /\ asked' = asked
          /\ outcome[c] = Outcome("none")
      BY <2>2 DEF DescribeRun, serverVars
    <3>2. CASE \E kind \in {"notClosed", "error"} : Returns(c, Outcome(kind))
      BY <3>1, <3>2
    <3>3. CASE /\ Known(Named(c)) /\ ~ InProgress(Named(c))
               /\ pc' = [pc EXCEPT ![c] = "get"]
               /\ at' = [at EXCEPT ![c] = asked[c]] /\ UNCHANGED outcome
      <4>1. asked[c] # 0 => asked[c] \in 1 .. Len(runs) /\ runs[asked[c]] # "running"
        BY <3>3 DEF Named, Known, InProgress, ClientTypeOK
      <4> QED
        BY <3>1, <3>3, <4>1
    <3> QED
      BY <2>2, <3>2, <3>3 DEF DescribeRun, ReadRun
  <2>3. CASE Resolve(c)
    <3>1. asked[c] = 0
      BY <2>3 DEF Resolve, ReadFollowsChain, ClientTypeOK
    <3> QED
      BY <2>3, <3>1 DEF Resolve, serverVars, Latest
  <2>4. CASE Get(c)
    <3>1. pc[c] = "get" /\ at[c] # 0 /\ outcome[c] = Outcome("none")
      BY <2>4 DEF Get
    <3>2. CASE Returns(c, [kind |-> "value", run |-> at[c]]) /\ runs[at[c]] = "completed"
      BY <2>4, <3>1, <3>2 DEF Get, serverVars
    <3>3. CASE Returns(c, Outcome("closedError"))
      BY <2>4, <3>1, <3>3 DEF Get, serverVars
    <3>4. CASE runs[at[c]] = "continued" /\ at' = [at EXCEPT ![c] = @ + 1]
               /\ UNCHANGED <<pc, outcome>>
      BY <2>4, <3>1, <3>4 DEF Get, serverVars
    <3> QED
      BY <2>4, <3>2, <3>3, <3>4 DEF Get
  <2>5. CASE GetFails(c)
    BY <2>5 DEF GetFails, serverVars
  <2> QED
    BY <2>1, <2>2, <2>3, <2>4, <2>5
<1>3. \A d \in Callers : d # c =>
        /\ pc'[d] = pc[d] /\ at'[d] = at[d] /\ asked'[d] = asked[d]
        /\ outcome'[d] = outcome[d] /\ met'[d] = met[d] /\ request'[d] = request[d]
  BY DEF ClientTypeOK, GetResultIfClosed, DescribeRun, Resolve, Get, GetFails, Returns, serverVars
<1>4. CreatedMeansScheduled' /\ RepeatIsNoOp' /\ Requesting' /\ MetStays'
  BY <1>2, <1>3 DEF CreatedMeansScheduled, RepeatIsNoOp, Requesting, MetStays
<1>5. /\ Len(runs) \in Nat
      /\ \A d \in Callers : at[d] \in 0 .. Len(runs) /\ asked[d] \in 0 .. Len(runs)
  BY DEF ClientTypeOK
<1>6. ValueOfAskedRun'
  BY <1>2, <1>3, <1>5 DEF ValueOfAskedRun, ReadFollowsChain
<1>7. AskedRunNeverAwaited'
  BY <1>2, <1>3, <1>5 DEF AskedRunNeverAwaited, ReadFollowsChain
<1>8. ReadFollowsChain'
  BY <1>2, <1>3, <1>5 DEF ReadFollowsChain, ContinuedHasNext
<1>9. ContinuedHasNext'
  BY <1>2 DEF ContinuedHasNext
<1> QED
  BY <1>1, <1>4, <1>6, <1>7, <1>8, <1>9

\* ClientTypeOK and every safety property of the calls hold in every reachable
\* state, whatever the server does between the steps of a call.
THEOREM Inductive == ClientSpec => []IInv
<1>1. IInv /\ [ClientNext]_clientVars => IInv'
  <2> SUFFICES ASSUME IInv, [ClientNext]_clientVars PROVE IInv'
    OBVIOUS
  <2>1. CASE ServerStep
    BY <2>1, ServerIInv
  <2>2. CASE \E c \in Callers : CallStep(c)
    BY <2>2, ScheduleIInv, ReadIInv DEF CallStep
  <2>3. CASE UNCHANGED clientVars
    BY <2>3 DEF clientVars, serverVars, callVars, IInv, ClientTypeOK, CreatedMeansScheduled,
       RepeatIsNoOp, ValueOfAskedRun, AskedRunNeverAwaited, Requesting, MetStays,
       ReadFollowsChain, ContinuedHasNext
  <2> QED
    BY <2>1, <2>2, <2>3 DEF ClientNext
<1> QED
  BY <1>1, InitIInv, PTL DEF ClientSpec

\* A schedule reported as created is there and is the one asked for
\* (client.go:98-128).
THEOREM ScheduleContract == ClientSpec => []CreatedMeansScheduled
  BY Inductive, PTL DEF IInv

\* A call that finds its own schedule there already is never refused, and
\* neither is one that finds no schedule at all (client.go:116-126).
THEOREM RepeatsAreAccepted == ClientSpec => []RepeatIsNoOp
  BY Inductive, PTL DEF IInv

\* A closed run's value is its own or its continuations', and a Get by runID
\* does not wait for the run it names (client.go:138-161).
THEOREM ReadContract == ClientSpec => [](ValueOfAskedRun /\ AskedRunNeverAwaited)
  BY Inductive, PTL DEF IInv

=============================================================================
