------------------------------- MODULE Events -------------------------------
(***************************************************************************)
(* An event.Event that follows one chain of calls: it is attached to a     *)
(* context, turned into OpenTelemetry baggage when a span starts, sent to  *)
(* another service, handed to a Temporal workflow and to the activities    *)
(* that workflow runs (event/, internal/telemetry/trace/tracer.go,         *)
(* integration/temporal/propagator.go).                                    *)
(*                                                                         *)
(* The chain is at one place at a time, with one context there.  Of the    *)
(* event's fields the model keeps one of each kind the two conversions     *)
(* tell apart: a string that must not be empty (name), any other string    *)
(* (page), the pointer to a bool (anonymous), the map (meta) and the slice *)
(* of structs (subscriptions, one field each).  A Go zero value is NoText. *)
(* A flat map is a set of pairs of a path and a text, a path being the     *)
(* segments between the dots of its key.                                   *)
(***************************************************************************)
EXTENDS Naturals, Sequences, FiniteSets, FiniteSetsExt

CONSTANTS
    Attachable,     \* the events that handlers and activities attach
    MaxEscapes,     \* bound: decodings that a text of an event allows
    MaxHops,        \* bound: calls that leave the place of the chain
    MaxAttached     \* bound: different events attached on the chain

VARIABLES
    place,          \* where the chain is: "service", "workflow", "activity"
    ctx,            \* the context there
    hops,           \* calls made so far
    attached,       \* ghost: every event attached on the chain
    last,           \* ghost: the latest of them
    unsent,         \* ghost: last is not in the baggage of this place
    road            \* ghost: how last came here, see Roads

vars == <<place, ctx, hops, attached, last, unsent, road>>

Places == {"service", "workflow", "activity"}

\* "direct": attached here or carried by Temporal headers; "baggage": by
\* baggage at least once; "stale": it was not in the baggage that was sent;
\* "lost": the call carried nothing, or what it carried was unreadable.
Roads == {"none", "direct", "baggage", "stale", "lost"}

-----------------------------------------------------------------------------
(* Texts and keys.  baggage.NewMember takes a percent-encoded value and a  *)
(* token: it decodes the escapes of the value, so that the baggage holds   *)
(* another text, and refuses a stray percent sign, or a key with a blank.  *)
(* An event read from baggage is put into baggage again by the next span,  *)
(* which decodes it again.  A text is what that makes of it: how often     *)
(* NewMember decodes it, and whether what is left goes on or is refused:   *)
(* "50%25" is decoded once and refused then, "%2525" twice.                *)

Texts == [escapes : 0 .. MaxEscapes, rest : {"plain", "refused"}]

\* Texts that are no text of the application: the zero value, and the booleans.
Literal(rest) == [escapes |-> 0, rest |-> rest]
NoText == Literal("")
Booleans == {Literal("true"), Literal("false")}

Encodable(t) == t.escapes > 0 \/ t.rest # "refused"

Unescape(t) == IF t.escapes = 0 THEN t ELSE [t EXCEPT !.escapes = @ - 1]

(* event.Event *)

BlankKey == <<"blank">>
MetaKeys == {<<"key">>, <<"key", "dotted">>, BlankKey}

IsToken(path) == path # <<"meta">> \o BlankKey

Event == [name : Texts \cup {NoText}, page : Texts \cup {NoText},
          anonymous : Booleans \cup {NoText},
          meta : UNION {[K -> Texts \cup {NoText}] : K \in SUBSET MetaKeys},
          subscriptions : UNION {[1 .. n -> Texts \cup {NoText}] : n \in 0 .. 2}]

ZeroEvent == [name |-> NoText, page |-> NoText, anonymous |-> NoText,
              meta |-> <<>>, subscriptions |-> <<>>]

NoEvent == [none |-> TRUE]

ASSUME AttachableAssumption ==
    /\ MaxEscapes \in Nat
    /\ Attachable \subseteq Event /\ NoEvent \notin Attachable

-----------------------------------------------------------------------------
(* event/flatmap.go *)

\* Mutant: zero values are written too.
ToFlatMapWithZeroes(e) ==
    {<<<<"name">>, e.name>>, <<<<"page">>, e.page>>, <<<<"is_anonymous">>, e.anonymous>>}
    \cup {<<<<"meta">> \o k, e.meta[k]>> : k \in DOMAIN e.meta}

ToFlatMap(e) ==
    {p \in {<<<<"name">>, e.name>>, <<<<"page">>, e.page>>,
            <<<<"is_anonymous">>, e.anonymous>>}
           \cup {<<<<"meta">> \o k, e.meta[k]>> : k \in DOMAIN e.meta}
           \cup {<<<<"subscriptions", i - 1, "id">>, e.subscriptions[i]>> :
                     i \in DOMAIN e.subscriptions} :
        p[2] # NoText}

Text(m, path) ==
    IF \E p \in m : p[1] = path THEN (CHOOSE p \in m : p[1] = path)[2] ELSE NoText

\* A meta key is one segment: a key that holds a dot is skipped.
FlatMeta(m) ==
    [k \in {Tail(p[1]) : p \in {q \in m : q[1][1] = "meta" /\ Len(q[1]) = 2}}
         |-> Text(m, <<"meta">> \o k)]

\* Mutant: the slice is as long as it has elements that are not zero.
FlatSubscriptionsCounted(m) ==
    LET Indexes == {p[1][2] : p \in {q \in m : q[1][1] = "subscriptions"}}
    IN  [i \in 1 .. Cardinality(Indexes) |-> Text(m, <<"subscriptions", i - 1, "id">>)]

\* The slice is as long as its highest index asks, with zeroes in the holes.
FlatSubscriptions(m) ==
    LET Indexes == {p[1][2] : p \in {q \in m : q[1][1] = "subscriptions"}}
    IN  IF Indexes = {} THEN <<>>
        ELSE [i \in 1 .. Max(Indexes) + 1 |-> Text(m, <<"subscriptions", i - 1, "id">>)]

FromFlatMap(m) ==
    [name |-> Text(m, <<"name">>), page |-> Text(m, <<"page">>),
     anonymous |-> Text(m, <<"is_anonymous">>),
     meta |-> FlatMeta(m), subscriptions |-> FlatSubscriptions(m)]

-----------------------------------------------------------------------------
(* event/context.go and integration/temporal/context.go *)

Root == [event |-> NoEvent, baggage |-> {}, temporal |-> NoEvent]

EventFromContext(c) ==
    IF c.event # NoEvent THEN c.event
    ELSE LET e == FromFlatMap(c.baggage)
         IN  IF e.name = NoText THEN NoEvent ELSE e

ContextWithEvent(c, e) == [c EXCEPT !.event = e]

\* EventFromWorkflow and EventFromActivity.
EventFromTemporal(c) == c.temporal

\* What the code at the place of the chain can read from its context.
Readable ==
    ({EventFromTemporal(ctx)} \cup (IF place = "workflow" THEN {} ELSE {EventFromContext(ctx)}))
    \ {NoEvent}

\* What the next call sends on.
InEffect == IF place = "workflow" THEN EventFromTemporal(ctx) ELSE EventFromContext(ctx)

(* internal/telemetry/trace/tracer.go: the event of the context replaces   *)
(* the baggage, unless none of its fields can be a member.                 *)

Members(m) ==
    {<<p[1], Unescape(p[2])>> : p \in {q \in m : IsToken(q[1]) /\ Encodable(q[2])}}

MembersOf(c) ==
    LET e == EventFromContext(c)
    IN  IF e = NoEvent THEN {} ELSE Members(ToFlatMap(e))

\* Mutant: members are added to the baggage there is.
ContextOfSpanMerging(c) ==
    LET New == MembersOf(c)
    IN  [c EXCEPT !.baggage =
            New \cup {p \in @ : \A q \in New : q[1] # p[1]}]

ContextOfSpan(c) ==
    IF MembersOf(c) = {} THEN c ELSE [c EXCEPT !.baggage = MembersOf(c)]

-----------------------------------------------------------------------------
(* integration/temporal/propagator.go.  The payload is the event as JSON,  *)
(* which keeps every field; a missing header is NoEvent.                   *)

Inject(c) == EventFromContext(c)

\* Mutant: the payload is written from the flat map.
InjectFromWorkflowFlat(c) ==
    IF c.temporal = NoEvent THEN NoEvent ELSE FromFlatMap(ToFlatMap(c.temporal))

InjectFromWorkflow(c) == c.temporal

\* Without a header the zero event is stored all the same.
Decoded(header) == IF header = NoEvent THEN ZeroEvent ELSE header

Extract(c, header) ==
    [ContextWithEvent(c, Decoded(header)) EXCEPT !.temporal = Decoded(header)]

ExtractToWorkflow(c, header) == [c EXCEPT !.temporal = Decoded(header)]

-----------------------------------------------------------------------------
Init ==
    /\ place = "service"
    /\ ctx = Root
    /\ hops = 0
    /\ attached = {}
    /\ last = NoEvent
    /\ unsent = FALSE
    /\ road = "none"

Leave(p) == hops < MaxHops /\ hops' = hops + 1 /\ place' = p

\* A handler or an activity attaches an event.
Attach(e) ==
    /\ place # "workflow"
    /\ ctx' = ContextWithEvent(ctx, e)
    /\ attached' = attached \cup {e}
    /\ Cardinality(attached') <= MaxAttached
    /\ last' = e
    /\ unsent' = TRUE
    /\ road' = "direct"
    /\ UNCHANGED <<place, hops>>

\* trace.Start
StartSpan ==
    /\ place # "workflow"
    /\ ctx' = ContextOfSpan(ctx)
    /\ unsent' = (unsent /\ MembersOf(ctx) = {})
    /\ UNCHANGED <<place, hops, attached, last, road>>

\* A request sent by a client that injects the global propagator, received
\* by the handler of a server of this library: baggage is all that crosses.
CallService ==
    /\ place # "workflow"
    /\ Leave("service")
    /\ ctx' = [Root EXCEPT !.baggage = ctx.baggage]
    /\ unsent' = FALSE
    /\ road' = IF road = "none" THEN "none"
               ELSE IF unsent THEN "stale"
               ELSE IF road = "direct" THEN "baggage" ELSE road
    /\ UNCHANGED <<attached, last>>

\* A request sent by integration/httpclient: its transport injects nothing.
CallHttpClient ==
    /\ place # "workflow"
    /\ Leave("service")
    /\ ctx' = Root
    /\ unsent' = FALSE
    /\ road' = IF road = "none" THEN "none" ELSE "lost"
    /\ UNCHANGED <<attached, last>>

\* What a header that cannot be decoded does to the road.
RoadAfter(readable) == IF readable \/ road = "none" THEN road ELSE "lost"

\* Workflow.Execute, and the first task of the run.
ExecuteWorkflow(readable) ==
    /\ place # "workflow"
    /\ Leave("workflow")
    /\ ctx' = IF readable THEN ExtractToWorkflow(Root, Inject(ctx)) ELSE Root
    /\ unsent' = (unsent /\ readable)
    /\ road' = RoadAfter(readable)
    /\ UNCHANGED <<attached, last>>

\* A child workflow, or the next run of a workflow continued as new.
ExecuteChild(readable) ==
    /\ place = "workflow"
    /\ Leave("workflow")
    /\ ctx' = IF readable THEN ExtractToWorkflow(Root, InjectFromWorkflow(ctx)) ELSE Root
    /\ unsent' = (unsent /\ readable)
    /\ road' = RoadAfter(readable)
    /\ UNCHANGED <<attached, last>>

\* Activity.Execute in a workflow, and the activity on its worker.
ExecuteActivity(readable) ==
    /\ place = "workflow"
    /\ Leave("activity")
    /\ ctx' = IF readable THEN Extract(Root, InjectFromWorkflow(ctx)) ELSE Root
    /\ unsent' = readable
    /\ road' = RoadAfter(readable)
    /\ UNCHANGED <<attached, last>>

Next ==
    \/ \E e \in Attachable : Attach(e)
    \/ StartSpan
    \/ CallService
    \/ CallHttpClient
    \/ \E readable \in BOOLEAN :
           ExecuteWorkflow(readable) \/ ExecuteChild(readable) \/ ExecuteActivity(readable)

Spec == Init /\ [][Next]_vars
-----------------------------------------------------------------------------
(* Properties *)

Paths ==
    {<<"name">>, <<"page">>, <<"is_anonymous">>} \cup {<<"meta">> \o k : k \in MetaKeys}
    \cup {<<"subscriptions", i, "id">> : i \in 0 .. 1}

\* Type invariant.  A flat map has one text for a path and never an empty one.
TypeOK ==
    /\ place \in Places
    /\ ctx.event \in Event \cup {NoEvent}
    /\ ctx.temporal \in Event \cup {NoEvent}
    /\ ctx.baggage \subseteq Paths \X (Texts \cup Booleans)
    /\ \A p, q \in ctx.baggage : p[1] = q[1] => p = q
    /\ hops \in 0 .. MaxHops
    /\ attached \subseteq Event
    /\ last \in Event \cup {NoEvent}
    /\ unsent \in BOOLEAN
    /\ road \in Roads

At(s, i) == IF i \in DOMAIN s THEN s[i] ELSE NoText

\* A text after it was put into baggage d times: decoded as often, if its escapes
\* last, and missing once nothing is left but what NewMember refuses.
After(d, t) ==
    IF d <= t.escapes THEN [t EXCEPT !.escapes = @ - d]
    ELSE IF t.rest = "refused" THEN NoText ELSE Literal(t.rest)

\* The keys of the map that no baggage delivers.
Undeliverable(k) == Len(k) > 1 \/ k = BlankKey

\* f is e after d times in baggage, all of its fields alike: only the keys of the
\* map that are not delivered and the zeroes at the end of the slice are missing.
LeftAfter(d, f, e) ==
    /\ f.name = After(d, e.name) /\ f.page = After(d, e.page)
    /\ f.anonymous = e.anonymous
    /\ DOMAIN f.meta \subseteq DOMAIN e.meta
    /\ \A k \in DOMAIN e.meta :
           At(f.meta, k) = IF d > 0 /\ Undeliverable(k) THEN NoText ELSE After(d, e.meta[k])
    /\ Len(f.subscriptions) <= Len(e.subscriptions)
    /\ \A i \in DOMAIN e.subscriptions : At(f.subscriptions, i) = After(d, e.subscriptions[i])

\* How often an event was put into baggage; more changes nothing.
Trips == 0 .. MaxEscapes + 1

\* The fields of two events are never mixed: whatever an event read anywhere
\* on the chain went through, it is one attached event after some number of times
\* in baggage, the same for all of its fields, or the zero event.  A text of it may
\* be another than the one attached, or missing, but only by the escapes that
\* NewMember decodes each time (tracer.go:47); "not anonymous", which is not the
\* same as unknown, never is (flatmap.go:93).
OneEvent ==
    \A f \in Readable :
        f = ZeroEvent \/ \E e \in attached : \E d \in Trips : LeftAfter(d, f, e)

\* Headers of Temporal lose nothing: an event attached in a handler is read
\* unchanged in the workflow, its children and its activities.
TemporalIsExact == road = "direct" => InEffect = last

\* An event that was put into the baggage before it was sent is the one in
\* effect downstream, over the events of the services before, after some number of
\* times in baggage.  It is missing there only when its name is by then
\* (context.go:42), as is that of an event named "50%25" after the second time.
LastOneDelivered ==
    road = "baggage" =>
        \E d \in Trips \ {0} :
            IF InEffect \in {NoEvent, ZeroEvent}
            THEN After(d, last.name) = NoText
            ELSE LeftAfter(d, InEffect, last)

=============================================================================
