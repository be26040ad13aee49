# A TLA+ verification of helix.go

helix.go is a Go library for building services: a `Service` owns one server and
any number of dependencies, and the integrations (REST, GraphQL and MCP servers,
an HTTP client, Temporal, Valkey, PostgreSQL, ClickHouse, object storage) are
attached to it and share its telemetry, its events and its errors. This
directory holds TLA+ models of the parts of it that have state and concurrency,
the configurations with which TLC checks them, and TLAPS proofs of the
properties that matter most. Paths below are relative to the repository.

    tlc -workers 2 -config service.cfg MCService
    tlapm ServiceProofs.tla

## 1. Inventory

Each component with its state, its operations, what makes it hard and what makes
it correct. `PROJECT.json` lists all of them, with the status of each.

**Service lifecycle** (`service/`). State: `svc.state` (Created, Started,
Stopped), the server, the dependencies, the mutex `svc.mu`, the tracer and the
logger. Operations: New, Serve, Attach, Start (spawns the goroutine of the
server, waits for a signal or an error), Stop (drains the server, closes the
dependencies concurrently, shuts the telemetry down, holding `svc.mu`
throughout), Status (takes `svc.mu` for a moment). Hard: the goroutine of the
server races with the signal; requests, among them the readiness probes that
call Status, are in flight while Stop waits for them; Stop has a deadline, may
fail and may be retried; two goroutines may call Start. Correct when nothing is
torn down under a request that the drain should have waited for, the telemetry
goes last, Stopped means released, and Stop and Start return.

**HTTP servers** (`integration/rest`, `graphql`, `mcp`: `integration.go`). State:
the `server` field, the `http.Server` and its listeners. Operations: Start, Stop,
the liveness and readiness handlers. Hard: the field is written and read with no
synchronisation. Called by the Service, calls Service.Status.

**Readiness check** (`service.go:Status`, the `Status` of every integration). A
fan-out of goroutines, one of which (the HTTP client) fans out again, both merging
under a mutex. Correct when the worst status and every failure come out, and when
it comes back whatever the peers do.

**HTTP client** (`integration/httpclient`). State: an atomic cursor shared by the
goroutines; per call the retained 5xx response and its open body. Hard: many
outcomes in many orders, cancellation between two attempts, the cursor wrapping at
2^64. Correct when no body leaks, the documented result is returned, all endpoints
are tried, the load is spread.

**Event propagation** (`event/`, `internal/telemetry/trace/tracer.go`,
`integration/temporal/propagator.go`). State: an event in a context, as baggage,
in Temporal headers. Hard: two encodings, several hops, values that an encoding
refuses or alters, again at every span that starts. Correct when what is read anywhere
is one attached event, as far as the baggage has not altered its texts, and the right one.

**Temporal client** (`integration/temporal/client.go`, `workflow.go`). Two
sequences of requests, Describe then Create and Describe then Get, against a
server that other replicas change in between.

**Valkey client** (`integration/valkey`). One request per call, except Scan. State
is the server's; hard: lost replies, keys that expire, batches, durations below
one second. Correct when a race has one winner, readers are exact and the span of
the call tells its outcome.

**Tracing spans** (`telemetry/trace`, `internal/telemetry/trace`). The status of a
span through two wrappers and the SDK, each with a rule of its own.

**GraphQL error presenter** (`integration/graphql/error_presenter.go`). Called by
the concurrent resolvers of a request; writes the errors and the extensions of the
one response, the latter partly without a lock.

**REST requests and responses** (`integration/rest`). The OpenAPI middleware and
its response writer, the budget of a route, the two response builders, a handler
that does as it likes, net/http underneath. Correct when what is validated of a handler
that sends one header, before all else, is what is sent, streams are left alone, spans
and timers end.

**errorstack**. Entries, codes and validations; the pieces that change state are
modelled inside Rest and Presenter.

**Construction** (`New` and `Connect` of the ten integrations, their `config.go`,
`integration/config.go`). State: the `Config`, the client of the driver, the
entries of the error, whether the Service has the integration. Hard: several
faults at once, in stages; a Service that is started, stopped or given a server
meanwhile; ServeMux patterns that clash and panic. Correct when an integration is
handed out exactly if the Service has it and its configuration is complete, and
an error names everything that is lacking.

**Routing of the servers** (`graphql.go`, `mcp.go`, `oauth.go`, `rest.go`,
`handler.go`, `integration.go:Start`). State: the mux, the middleware around it, the
bearer token around or inside it. Hard: what the three layers make of a method
and a path. Correct when probes and discovery are open, what is gated is gated, and
the rest is 404 or 405.

**Locales** (`internal/locales`). State: the catalog, the languages, the matcher,
under a read-write lock that a response takes twice. Correct when the text is in
the language asked for, whatever is added meanwhile.

**PostgreSQL client** (`integration/postgres`). State: the session of a
transaction, the Tx and the savepoint nested in it. Hard: aborted transactions,
lost replies, deferred Rollbacks. Correct when what is durable is what the caller was
told.

**ClickHouse client** (`integration/clickhouse`). State: a batch and the span that
lives as long as it; the process-wide cache of reflected types. Correct when spans end
and tell the outcome, and a row has each value in its own column.

**Bucket client** (`integration/bucket`). One request to the driver per call.

Without a model of their own: the Temporal worker's activities and signals, the
cloud providers, the logger, the event in its JSON form (section 8).

### How they interact

`Service.Start` calls `server.Start` in a goroutine; `Service.Stop` calls
`server.Stop` and then the `Close` of every dependency; the readiness handler of a
server calls `Service.Status`, which calls the `Status` of the server and of every
dependency. Every client opens spans with `trace.Start`, which moves the event of
the context into the baggage. `ExecuteWorkflow` and the activities carry the event in
headers. Every response of the servers is built from an `errorstack.Error`.
The models follow these lines: `Service` extends `HttpServer`, and refines
`GracefulShutdown`; `Valkey`, `Rest` and `Databases` extend `Spans`; `Readiness` contains
both fan-outs; `Events` contains baggage and headers. `Integrations` composes: `Startup`
builds an integration against a Service that moves, and what is up is used, as a server by
`Requests` and as a client by `Databases`.

## 2. Modules

| module | models | lines of code |
| --- | --- | --- |
| `HttpServer` | Start, Stop and the requests of the three HTTP servers, and the part of `http.Server` they rely on | `integration/rest/integration.go` |
| `Service` | New, Serve, Attach, Start, Stop, Status, signals, borrowed connections | `service/service.go`, `integration/postgres/integration.go` |
| `GracefulShutdown` | abstract: what README.md:220-227 promises of a shutdown | refined by `Service` |
| `Readiness` | `Service.Status` and `httpclient`'s Status | `service/service.go:370-439`, `integration/httpclient/integration.go` |
| `HttpClient` | `Do`, its cursor, loop, retained response and bodies | `integration/httpclient/httpclient.go` |
| `Events` | attach, baggage, headers, the two flat-map conversions | `event/`, `propagator.go`, `tracer.go` |
| `TemporalClient` | `createSchedule`, `closedWorkflowResult` | `integration/temporal/client.go` |
| `Spans` | the status of a span over its three layers | `telemetry/trace/span.go`, `status.go` |
| `Valkey` | every call of the client | `integration/valkey/valkey.go` |
| `Presenter` | `errorPresenter`, `AddErrors`, `forwardTopLevelExtensions` | `integration/graphql/error_presenter.go` |
| `Rest` | middleware, response writer, budget, handler, builders | `integration/rest/` |
| `Routes` | the mux patterns of the servers, ServeMux, the paths kept from the middleware | `graphql.go`, `mcp.go`, `rest.go` |
| `Startup` | sanitize, New and Connect of all integrations, Serve and Attach | `config.go`, `Connect`, `New` of each, `integration/config.go`, `dial.go` |
| `Requests` | middleware, bearer token, probes and fallbacks, the text of an error | `integration.go`, `handler.go`, `response.go`, `oauth.go`, `internal/locales/locales.go` |
| `Databases` | transactions, batches, inserts of structs, single requests, with their spans | `integration/postgres`, `clickhouse`, `bucket` |
| `Integrations` | the composition of the four above, and its properties | |
| `ServiceProofs`, `HttpClientProofs`, `ReadinessProofs`, `ValkeyProofs`, `PresenterProofs`, `RestProofs`, `IntegrationsProofs` | the proofs about the module of the name | |
| `TemporalProofs` | the proofs about `Events` and `TemporalClient` (whose `Init`, `Next` and `Spec` are therefore `ClientInit`, `ClientNext` and `ClientSpec`) | |
| `MC...` | the instances TLC checks: symmetry sets and sets of values | |

The definition-by-definition correspondence is the `map` of `PROJECT.json`.
The conventions are the same in all modules:

- a blocking operation is a place of `pc` and an action whose guard is the condition
  it waits for; a goroutine waiting in `svc.mu.Lock` is one whose next action needs
  `mu = NoCaller`;
- a call that is refused without an effect is a stuttering action;
- code outside the repository (net/http, gqlgen, the Temporal, Valkey and tracing
  servers and libraries) is modelled from how this code uses it, and its
  definitions are marked external in the map;
- a comment `(mutant)` introduces a definition that no action uses: the code with a
  plausible mistake in it, kept to show that a property notices it. `mutants` in
  `PROJECT.json` names for each checked property the one that breaks it;
- `(history)` and `ghost` mark variables that only properties read.

### How state and actions correspond

- **Service.** `state`, `mu`, `server`, `dependencies` are the fields of `Service`.
  `Start` is one action up to the second Unlock, because it holds the mutex; then
  `StartSignalled` or `StartFails` is the select, and `StartReturns` is the
  assignment of the state under the mutex. `Stop`, `StopServer`,
  `StopDrained`/`StopDrainExpires`, `CloseBegins`/`CloseEnds` and `StopReturns` are
  the sections of Stop between two waits; `Expire` is its timer. A pool
  (`Pooled`) is a dependency whose Close waits for its borrowed connections.
- **HttpServer.** A call of Start is a run; `Build` stores the `http.Server` in the
  field, `Listen` reads the field again, `ServeReturns` is the end of
  `ListenAndServe`.
- **Readiness.** A task is a goroutine. `Check` and `Merge` are the two halves of the
  critical section, so that a lost update is possible if the mutex were not taken.
- **HttpClient.** `Draws` is the atomic add, `Tries`/`StopsTrying` the check of the
  context at the head of the loop, and one action for each way an attempt ends.
- **TemporalClient.** One action for each request of a call, and the server's own
  actions (a run starts, closes, continues, expires) between any two of them.
- **Valkey.** Sending and execution of a command are one action, since nothing of a
  call can be told apart before the server has executed it; the return of the call
  is another. `Answers` may lose the reply, `Fails` the request.
- **Events.** The chain of calls is at one place at a time. A flat map is a set of
  pairs of a path and a text. Of the fields of an event one of each kind is kept. A text is how
  often NewMember can decode it and whether it accepts what is left (`Unescape`, `Encodable`), since
  each `StartSpan` decodes what it finds in the baggage again.
- **Presenter.** `Register` and `Written` are the two ends of an assignment to the live
  map, so that an unlocked read can fall between them (`Collide`).
- **Rest.** Every call of the handler on the writer is an action that passes through
  the middleware's writer (`rw`) and net/http's (`wire`).
- **Startup.** A Config is the record of the settings its checks tell apart; an error is
  the set of the settings its entries name. `Sanitizes` is the first stage, the action
  named after the integration the second (TLS, driver, OpenAPI description, mux), and
  `Registers` the critical section of Serve or Attach. `ServiceMoves` is every other
  goroutine.
- **Requests.** Routing reads what no goroutine writes, so it is one action
  (`Arrives`). The text of an error is two, `Matches` and `LooksUp`, one for each lock;
  `AddOrEditLanguage` may come between them.
- **Databases.** A call is one action, since the driver serialises a session; the sets of
  replies (`Statement`, `CommitAll`, `RollbackTo`...) hold every way a statement may end,
  a connection lost before or after the server did it included. `wraps` is
  `transaction.client`. `AsyncInsertStruct` and `LoadsOrStores` are the two halves of a
  call that finds its type not cached. `use` keeps the kinds of use apart.

## 3. The runs

| run | question | size |
| --- | --- | --- |
| `service` | is the shutdown order kept and everything released, is `GracefulShutdown` implemented, do Stop, Start and the probes come to an end | 2 callers, 2 requests (1 probe), 2 dependencies (1 pool), 2 orderly Starts, fair |
| `service_self_deadlock` | violation: `StopEnds` without a shutdown timeout | as above, 1 dependency, 1 Start, timeout 0 |
| `service_panic` | violation: Stop never panics | 1 dependency, 1 Start |
| `httpclient` | no leaked body, the documented result, complete failover, even load | 2 callers, 1 to 4 endpoints, cursor modulo 6 |
| `readiness` | complete, worst-of, and it comes back | 2 plain peers, 1 client with 2 endpoints, fair |
| `temporalclient` | what a call concludes from its first request still holds when it acts | 2 callers, 2 queues, 2 runs |
| `events` | no mixture, exact over Temporal, last one wins | 96 events, texts decoded up to twice, 2 attached, 3 hops |
| `valkey` | one winner, complete scans, each value with its key, kept lifetimes, honest spans | 2 callers, 2 keys |
| `presenter` | every entry once and in its place, extensions of a lone resolver arrive | 2 resolvers, 2 keys, 2 entries |
| `presenter_lost` | violation: every top-level extension arrives | as above |
| `rest` | is what a regular handler sends what is validated, are streams untouched; do spans and timers end, do codes match | 5 handler steps |
| `integrations` | are integrations accepted, refused, routed and used as documented | 8472 configurations, 7 paths, 2 edits of languages, 2 goroutines, 5 struct types |

What they show:

- `service` - `DrainBeforeClose`: no Close begins while the server being
  stopped has a request in flight, unless the deadline passed; a request, or a probe with its
  copy of the dependencies, meets a closed one only then, and that Stop returns an error.
  `BorrowedStaysAlive`: a
  borrowed connection is not gone under its request. `TelemetryLast`: the telemetry
  outlives every dependency, over failed and retried Stops as well.
  `StoppedMeansReleased`: each dependency is closed and given back, the telemetry is down and
  the drained server idle. `ImplementsGracefulShutdown`: each step is a step of the
  documented shutdown or invisible in it. `StoppedIsQuiet`: nothing is accepted or in
  flight after Stopped. `StopEnds`, `ProbesAnswered`, `SignalEndsStart` are the
  liveness properties.
- `httpclient` - `NoBodyLeaked`, `LastFailureSurfaced`, `FailoverIsComplete`,
  `Balanced`. `FailoverIsComplete` excludes the calls whose sums straddle the wrap of the
  cursor when the number of endpoints does not divide 2^64 (`Torn`): such a call may try one
  endpoint twice and miss another. It takes 2^64 calls to get there.
- `readiness` - `EveryFailureTold`, and `StatusComesBack` even with a context without
  deadline and peers that never answer.
- `temporalclient` - `CreatedMeansScheduled`, `RepeatIsNoOp` (a replica that meets its own
  schedule is not refused), `ValueOfAskedRun`.
- `events` - `OneEvent`: an event read anywhere is one that was attached, after some number of
  times in baggage, the same for all its fields; what that number makes of a text is `After`.
  `TemporalIsExact`: headers alter nothing. `LastOneDelivered`: downstream of baggage the last
  event is in effect, unless its name has been lost on the way.
- `valkey` - `OneHolder`, `ScanComplete`, `TtlKept`, `SpanTellsOutcome`. `MGetExact`: every value
  handed out is that of its key, all of one moment; what is left out is the keys without a value
  and those with an empty one.
- `presenter` - `EveryEntryOnce` and `AloneIsForwarded`; `presenter_lost` shows that with a
  common key `AllForwarded` fails.
- `rest` - `ValidatedIsSent` and `StreamsAreLeftAlone`, of the handlers that call WriteHeader at
  most once, first, and with no informational status; `NothingLeftBehind` and `CodesMatchStatus`.
- `integrations` - `ConnectContract`: handed out exactly if the Service has it and nothing
  required is lacking; an error names all that is; New panics for the routes the property
  lists and for no others. `RoutedAsDocumented`: who answers each method and path under each
  composition of middleware and token. `MessageInLanguage`: the language of an error's text.
  `CommittedStays`: committed, rolled back and durable agree. `SpansTellOutcome`: each span that
  is over tells the outcome, the one of a batch over several calls. `RowMatchesStruct`: each value
  in its own column.

## 4. Bounds, and why they are enough

- **Service**: two application goroutines are the least that can race, and every race
  found or excluded is between two; a third only repeats one. Of two requests one is a
  probe, so that both kinds are in flight together. Of the two
  dependencies one is a pool, and each may be attached twice. The server is started
  twice at most, and the Starts are `Orderly`: the second one comes after the first has failed,
  and a Stop does not find the server of the first in the field. Two Starts are the least that
  have a retry in them. Without `Orderly` Stopped is not final (section 6) and no shutdown is
  documented, so the refinement and `StoppedIsQuiet` are asked of orderly Starts, by the run and
  by the proof; the other safety properties are proved for any number of Starts in any order. A
  Service that is started once is always orderly (`OneStartIsOrderly`). `ShutdownTimeout` only
  matters as zero or not. Request slots are reused, so the number of requests over time is
  unbounded.
- **HttpClient**: `CursorModulus = 6` stands for 2^64. One, two and three endpoints divide it,
  as powers of two divide 2^64; four do not, as three do not divide 2^64, so that the wrap is
  met both ways. The proof covers every modulus. `lead` is a saturating counter (`MaxLead`): an
  imbalance of two is all `Balanced` asks about.
- **Readiness**: two endpoints inside one client beside two plain peers give every
  nesting; one call at a time, since calls share nothing.
- **TemporalClient**: `MaxRuns` bounds the runs, and two are enough for a continuation and
  for a run replaced by a later one. The schedule may hold anything at first.
- **Events**: `MaxHops` bounds the calls, `MaxAttached` the different events on the chain. The
  96 events have each field absent, ordinary, and in the form one of the conversions treats
  apart. `MaxEscapes` bounds how often a text can be decoded: with 2 there are texts that
  NewMember refuses at once, after one and after two decodings. Three hops reach service-service-workflow-activity and service-workflow-child-activity.
- **Valkey**: the durations are 0, half a second and a second and a half in milliseconds, on
  both sides of the truncation to seconds; a key holds a number, an empty string or nothing. Other
  values (`Texts`) are treated like a number by everything but Increment, so the run has none; the
  proofs have any.
- **Presenter**: `MaxEntries` bounds the entries of an error: none, one, and one beyond the
  first, which are the cases of the code. Two keys are needed for one to be lost because of the
  other.
- **Rest**: `MaxSteps` bounds what a handler does. Five steps are a response built with a status,
  validations and metadata, written, and one call before or after. A status stands for each class
  the code distinguishes: informational, without body, with and without a code of its own.

- **Integrations**: every combination of the settings that a check looks at is an initial state,
  with the Service in every state. `Followed` bounds which of those that come up are used: one
  per integration and OAuth mode, since the other settings change nothing later. Five methods
  and seven paths contain each path a server registers, a path nobody does, and the root. Two
  edits of the catalog (`MaxEdits`) add a language and change it, or change both, around one
  lookup. A transaction has one nested in it, each writing one row before, inside and after: what
  is told can already differ from what is durable. Two goroutines insert values of five types: two
  columns, a column behind skipped fields, no column, an untagged field, an embedded one.

TLC explores these spaces completely. Where the cfg names a SYMMETRY, the properties are
invariants or action properties that do not tell the permuted values apart; runs with liveness use
none. `events.cfg` switches the deadlock check off because a chain that has made all its calls
ends, `service_self_deadlock.cfg` because the program ends there.

## 5. Fairness

- *Goroutines are scheduled* (weak fairness of the steps of Start, Stop, the server's goroutine
  and those of Status) and *timers fire* (weak fairness of `Expire`, disabled when the timeout
  is zero).
- *sync.Mutex does not starve a waiter*: strong fairness of the steps that wait for `svc.mu` or
  for the mutex of a fan-out while others come and go. Go's mutex hands itself to a waiter that
  has waited a millisecond (its starvation mode).
- *Handlers return* (`HandlersReturn`): the code of the application is assumed to end. The
  drain's own deadline does not need it, but a pool's Close does: it waits for borrowed
  connections past the shutdown timeout.
- *Probes give up with their context*: a client that is passed a context with a deadline returns
  by then. `Readiness` gives a silent peer exactly that much.
- Nothing is assumed of the callers: nobody has to call Start or Stop, no request has to arrive,
  no signal has to be sent.

A Service of which Stop is called while the process panics is out of the picture of liveness:
`crashed` ends every obligation.

## 6. Findings

Three runs end with a counterexample on purpose: what the repository's own words say is not
what the code does.

1. `service_self_deadlock`. Stop holds `svc.mu` from its first statement
   (`service/service.go:317`) while it waits for the requests in flight; a readiness probe among
   them waits for `svc.mu` in Status (`:386`), before Status has given itself the deadline it
   wants "to prevent indefinite hangs" (`:393`). With a timeout the drain always runs into it;
   without one neither returns.
2. `service_panic`. The goroutine of Start assigns the server field
   (`integration/rest/integration.go:61`); a signal that comes first lets Start return and Stop
   dereference nil (`:94`).
3. `presenter_lost`. `forwardTopLevelExtensions` reads the map of extensions with no lock and
   stops at the first panic of `RegisterExtension`: of two resolvers with a common key the later
   one loses its other keys too, which "are skipped" only when "already registered"
   (`integration/graphql/error_presenter.go:32-35`).

Met while modelling, and stated here without a run of their own:

- Dependencies are closed under running requests when the drain times out
  (`service/service.go:343`), against "no dependency connection is torn down while the server is
  still processing requests" (README.md:226); `DrainBeforeClose` names that exception. The Close
  of a pool outlasts `WithShutdownTimeout`, "the maximum duration" (`service/option.go:24`,
  `integration/postgres/integration.go:26`).
- Two Starts: the later one to return sets the state back to Started after a Stop
  (`service/service.go:303`). What holds then is what `ServiceProofs` proves for any number of
  Starts: the order of the shutdown and what Stop released.
- A Start that is tried again after one that failed, and a signal and a Stop that come before the
  goroutine of the second has built its server: the field still holds the `http.Server` of the
  failed Start (`integration/rest/integration.go:61`), so Stop shuts that one down
  (`:94`) and sets the state to Stopped, and then the second server listens and answers
  (`service/service.go:345`). After a first Start the same order of events is the panic above.
- The read of a closed workflow goes on with its continuation and may wait for it
  (`integration/temporal/client.go:154-160`).
- `EventFromWorkflow` and `EventFromActivity` find the zero event when no header came
  (`integration/temporal/propagator.go:133`, `:170`), against `integration/temporal/context.go:59`;
  `EventFromActivity` also keeps the former event after `ContextWithEvent`.
- Each span that starts gives the texts of the event to NewMember (`internal/telemetry/trace/tracer.go:41-50`),
  which decodes percent escapes, and behind the first hop the event it starts from is what was
  decoded before. A text with "%2525" is altered twice; one with "50%25" becomes "50%" and is
  refused, hence lost, by the second span, and with it the event if that was its name. Keys of
  `Meta` with a blank or a dot are not delivered by baggage at all.
- The HTTP client's transport injects no headers, so an event does not cross a call made with it.
- MGet "returns key/value pairs for all keys passed" (`integration/valkey/valkey.go:318`), but the
  client library makes an empty string of a missing value and MGet skips those (`:344`), so that a
  key that holds an empty string is left out like one that does not exist. `MGetExact` says which
  are left out.
- A replica that finds no schedule and creates after another replica did, with the same options, is
  told that it is already running (`integration/temporal/client.go:125`), against "has identical
  properties, the error is silently ignored" (`:100`). `RepeatIsNoOp` is about the call
  that met the schedule when it looked (`met # NoSchedule`).
- A SetNX whose reply is lost has no winner; a time to live below a second makes Set and SetNX fail (`EX 0`); Get records no error on its span unless asked.
- The writer of the OpenAPI middleware keeps the last status it is given
  (`integration/rest/openapi.go:90`), net/http sends the first that is not informational. So a
  response of a handler that calls WriteHeader twice, or after it wrote, or with 103, is validated with a status
  that the client did not get; `ValidatedIsSent` and `StreamsAreLeftAlone` exempt these handlers.
- A `ResponseSuccess` without SetStatus writes the status 0, on which net/http panics unless a header
  was sent before; one whose metadata does not marshal sends 500 with a body of success. An invalid request is recorded and
  handled all the same, against "a 4xx error is returned" (`integration/rest/config.go:78`).
- A client that is open when its Connect fails is not closed: when the Service refuses it
  (`integration/postgres/postgres.go:111`, and alike in clickhouse, valkey, bucket and temporal),
  or when the TLS material was bad, which is gathered as an entry before the driver is asked for a
  client all the same. A server with bad TLS material is accepted by New and fails in Start.
- A batch of the ClickHouse client that cannot be prepared, or is never sent, leaves its span open
  (`integration/clickhouse/clickhouse.go:110-125`).
- A GraphQL path of "/", or an explorer at "/", at "/health" or at "/ready", registers patterns
  that clash and makes ServeMux panic in New (`integration/graphql/graphql.go:85-94`); the MCP
  server guards the case of "/" (`integration/mcp/mcp.go:90-97`), but panics for a path that is one
  of the probes, or the discovery document when OAuth is enabled.
- With the transport of an MCP server mounted at "/", the paths Start keeps from the middleware are
  kept from it for every method (`integration/mcp/integration.go:42-50`), so that a composed
  middleware does not see a POST to them.
- A client that prefers French with a region is answered in English even if French is there: the
  matcher returns the tag with the region in an extension, for which the catalog has no entry
  (`internal/locales/locales.go:99`, `:117`), although the package comment of AddOrEditLanguage has
  the matcher "resolve the new language"; the tests ask for the bare language only.
- `Exists` of a bucket drops the error and tells a bucket that cannot be reached as a key that does
  not exist (`integration/bucket/bucket.go:95`).

## 7. Proofs

TLC checks the instances above; TLAPS checks the following for every value of the constants, under
the named assumptions of the modules (`ServiceAssumption`, `StartsAssumption`, and so on), which
only say that the sentinels are not callers, that probes are requests and that bounds are natural
numbers. The assumption of a module is evaluated by TLC in every run of it.

**`ServiceProofs`**, any number of goroutines, requests, dependencies, attachments and starts:
`TypeCorrect`, `DrainedBeforeClosed`, `BorrowersAreSafe`, `TelemetryIsLast`, `StoppedIsReleased`,
`LockIsExclusive`. None of the properties is inductive. `IInv` adds to them what a step of Stop
needs to know of the steps before it:

- `StopHoldsLock` - whoever is inside Stop holds the mutex, hence there is one;
- `StopOnlyStarted` - the Service is Started while somebody is, and once the telemetry is down
  Attach is over (else a dependency could be attached after its Close);
- `BorrowsTracked` - connections are borrowed from attached pools;
- `DrainDone` - the server being drained accepts nothing any more, and stays drained during the
  Close calls unless the deadline passed *and* the error was collected. This is what connects
  "no error" at the end of Stop with "nothing in flight";
- `CloseProgress` - a Close that began has closed its dependency, one that returned has its
  connections back.

`InvStep` has one step for each action; `Frame` disposes of the actions that change none of the
variables `IInv` reads. `StopsFromStarted` is proved beside it: nothing is closed before Started, and
a dependency that is closed while the telemetry is up was closed by a Stop that still runs. It is what
connects a closed dependency with the deadline of the Stop that closed it in `DrainBeforeClose`.

**`HttpClientProofs`**, any number of goroutines and endpoints and any modulus: `TypeCorrect`,
`NoLeak`, `ResultContract`, `FailoverCoversEveryEndpoint`. `IInv` is a conjunction over the calls
(`CallInv`): while a call goes on, every attempt has failed, `lastResp` is the last 5xx response and
all after it were transport errors (`Retained`); a call that is back without an answer made `count`
attempts. Since a call only reads the cursor it drew, a step of another goroutine disturbs nothing
(`Frame`). That the attempts cover all endpoints is arithmetic (`Quotient`, `Residue`,
`RoundCoversEndpoints`): `count` consecutive numbers have all residues modulo `count`, also when
they wrap, if `count` divides the modulus.

**`ServiceProofs`, orderly Starts**, again any number of everything: `StoppedServiceIsQuiet`, the
action property `LifecycleGoesForward` (from Created to Started to Stopped, and never back), and
`ShutdownIsGraceful`, the refinement of `GracefulShutdown`. They are about `OrderlySpec`: the steps
of `Spec` without those of the two orders of events above, under which they are false (section 6),
so that the hypothesis is part of what they say. `OneStartIsOrderly` shows that nothing is left out
when the Service is started once. `OrderlyInv` adds to `IInv` that one goroutine at most waits for a
run, of a Service that is still Created (`OneStarter`), and that every server and every request
there is belongs to the last run, whose `http.Server` the field holds from Build on
(`LastRun`): hence the server a Stop drains is the only one. A retry of Start finds
nothing of the run before (`StartAfterFailure`). The refinement has one lemma for each step of the
abstract shutdown; every other action changes nothing that the mapping reads (`MappedStutters`,
`CallerStutters`). `NothingIsAcceptedLate` is a consequence of it: only an arrival of the abstract
shutdown adds a request, and there is none once the drain has begun.

**`ServiceProofs`, how far the findings reach**, any number of Starts in any order.
`PanicsOnlyUnbuilt`: the panic of finding 2 needs a Service that was started and stopped before
the goroutine of any Start had built a server. `StopWaitsOnlyForProbes`: a Stop that has no step to
take (`CanStop`, the guards of `StopSteps`) waits for a handler that can return, or is in the
deadlock of finding 1, draining before its deadline with readiness probes only. So there is no
other deadlock of Stop. `NothingClosedBeforeStarted`: however many Starts fail, the
dependencies stay open for the next.

**`HttpClientProofs`, the load**: `LoadIsBalanced`, any number of goroutines and endpoints. The
endpoints before the cursor modulo `count` are one first choice ahead of those after it
(`RoundRobin`); a draw moves the border by one (`DrawsInTurn`), also over the wrap, since `count`
divides the modulus (`NextResidue`).

**`ReadinessProofs`**, any number of dependencies and endpoints: `TypeCorrect` and
`FailuresAreTold`. The usual argument for a monitor, for the two nested fan-outs at once: the
mutex has the goroutine in `check` for owner (`LockOK`), so what that goroutine has read is still
what is merged when it writes (`SnapshotOK`); hence what is merged is, at every moment, what the
goroutines that are done have found (`WorstOK`, `EntriesOK`), each entry once; and Status returns
when all are done (`OrderOK`). `StatusIsNeverStuck`: a call that has not returned has a step to
take (`CanGoOn`, the guards of its steps), since every call has a deadline and a fan-out spawns its
goroutines at once (`WaitOK`). `EveryStepAdvances`, an action property: each step takes a goroutine
further (`Rank`) and none back, or is the deadline or the return, so that a call has at most four
steps for each goroutine and two more.

**`TemporalProofs`, the events**, any set of events and any length of the chain.
`TemporalCarriesExactly`, from `Carried`: as long as the road of the last event is direct, it is the
one in the context or in the header of its place. `EventsAreNotMixed` and `LastOneArrives` are about
baggage, for texts with any number of escapes: `Sent` is a trip through the two conversions of
`flatmap.go`, and `SentIsLeft` says that it takes what is left of an event after some trips to what is
left after one more, all fields alike (`OneMore`, which stops where nothing is left to decode;
`CarriedAfter` for one text). So no number of trips can mix two events (`OneSource`) or replace the last one
by an earlier one (`LastCarried`).

**`TemporalProofs`, the client**, any number of callers, queues and runs: `ScheduleContract`,
`RepeatsAreAccepted` and `ReadContract` (which includes that Get is never asked to wait for the run
that was named). `IInv` adds `Requesting` (what a call of createSchedule carries), `MetStays` (a
schedule that was there is still the same), `ReadFollowsChain` and `ContinuedHasNext` (a Get left
the run it was asked for along continuations, and there is always one to follow).

**`ValkeyProofs`**, any number of goroutines and keys, any values: `TypeCorrect`, `SpansTellTheOutcome`,
`OneCallerWins`, `ScansAreComplete`, `MGetsAreExact` and the action property `TtlsAreKept`.
`CallsOK` is what a call under way, or over, says of itself. `RaceInv`: the keys that the
callers were told they hold, *or are about to be told*, exist and are disjoint; the second half
is what makes it inductive, since the server decides a race before anybody hears of it. `ScanInv`:
a key that was there all along is in what was found or in what the cursor has still to visit.

**`PresenterProofs`**, any number of resolvers, keys and entries: `TypeCorrect`,
`EntriesAreReportedOnce` and `LoneExtensionsArrive`. `EntriesInv`: the errors of the response are the
entries that the place of each resolver says it has told (`Told`), each once and at its path.
`ExtensionsInv`: in the range over its extensions, a resolver has each key still to come or
registered by somebody, unless another resolver has one of its keys (`RangeOK`); that a map which
was empty at the unlocked read cannot hold a key of the application is what saves a lone
resolver from the panic. From the same invariants: `FirstRegistrationWins`, the action property that
a registered key is never overwritten, and `RequestIsNeverStuck`, which is the absence of deadlock
that TLC checks in the run, for any number of resolvers.

**`RestProofs`**, handlers of any length: `TypeCorrect`, `NothingIsLeftBehind`,
`CodesAreOfTheStatus`, `WhatIsValidatedIsSent`, `StreamsAreNotValidated`. `WriterOK` relates the
writer of the middleware to what net/http has sent, under it: nothing is buffered before the first
byte, and from then on the status, and all of the body or none of it, by the Content-Type that was
sent. `PhaseOK`, `SpansOK` and `CodesOK` are the invariants of the other parts.

**`IntegrationsProofs`**, for any sequence of calls, any number of goroutines and edits of the catalog,
whichever configurations are used (`Followed`); the configurations, paths, languages and replies
are the sets of the modules: `ConnectIsAllOrNothing` (`StartupInv`: past sanitize nothing is lacking, past the second
stage no patterns clash; the lemmas on patterns compute when ServeMux panics),
`RoutesAreAsDocumented` (`RouteInv`: of the patterns that match a path, the one that decides),
`TransactionsAreTold` (`TxInv`: what each Tx was told is what the server has written for it, but
for the rows whose reply was lost), `SpansAreTrue` (`SpanInv`: the two latches of the span of a batch),
`MessagesAreInLanguage` (`MessageInv`: what the matcher resolved is looked up in a catalog that only
grew), `RowsMatchStructs` (`InsertInv`: an insert that is past the cache carries the fields the loop
keeps, whoever stored the type, and a row is sent with them).

What the loop over the fields of a struct keeps (`Kept`, a recursive function over the positions) is
the one induction over data of the project. The library's induction theorems take an operator as
parameter, which the installed provers do not instantiate; `Induction` states the principle about
a set instead, and gets it from the pigeonhole principle: the numbers up to `m` that the set lacks,
each less one, would be among themselves and never be `m`. `LoopIsDefined` and `KeptUnfolds` then give the function its
equations, and `KeptInOrder` says of structs of any length that the loop keeps the tagged fields,
each once and in the order of the struct, so that as many columns are sent as there are tags.

Attempts at these proofs changed the models where they were not what they meant: two CASE
expressions with overlapping guards, one in `Requests` (`Reachable`) and one in `Events`
(`CallService`), of which TLC had taken the first branch, and two assumptions that `Rest` and
`Presenter` had left unsaid (a verdict is not the sentinel, a map of extensions is finite).

Only model-checked:

- liveness: `StopEnds`, `ProbesAnswered`, `SignalEndsStart`, `StatusComesBack`. They rest on
  fairness, hence on ENABLED, which the prover does not treat. `StopWaitsOnlyForProbes` is the part
  of `StopEnds` that is a safety property; `StatusIsNeverStuck` and `EveryStepAdvances` are those of
  `StatusComesBack`, which leave to fairness only that the goroutines and the timer do go on.

## 8. Not modelled, and why

- Temporal activities and signals, and the registration of a worker: each method hands its
  arguments to the SDK with a span around it. The headers and events they carry are in `Events`;
  the construction of the worker is in `Startup`.
- Cloud providers: environment variables turned into attributes. Logging: formatting and export.
- The persisted-query cache of the GraphQL server: one Get and one Set of the Valkey client.
- Reading the rows of a query, and the pool behind `BeginTx` (its borrowed connections are in
  `Service`).
- The rewriting of PEM texts, the URLs of the drivers of a bucket, the tuned HTTP transport and the
  wording of entries.
- Keys of `Meta` with brackets, which `flatMapKeyToBaggageKey` rewrites
  (`internal/telemetry/trace/tracer.go:135-140`): the one key of baggage that is not the flat map's.
- Inside the models: wording, attributes, header lists, JSON forms and the content of bodies;
  `EventFromJSON`; the entries of Valkey streams and the messages of its channels; a custom
  `Status` function given to an HTTP client, which is the application's code. A cancelled context
  of `service.Start` is left out because the servers ignore it (`integration/server.go:22`).

## 9. Plan

1. The worker side of Temporal: waiting for a signal, the defaults of the activity options.
2. Several transactions over the pool of `Service`, with its limit.
