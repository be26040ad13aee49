------------------------------ MODULE Startup ------------------------------
(***************************************************************************)
(* From the configuration of an integration to its place in the Service:   *)
(* the New and Connect functions of all integrations, each of which        *)
(* sanitizes its Config, opens a client or builds a router, and hands the  *)
(* result to service.Serve or service.Attach, while other goroutines       *)
(* register a server, start the Service or stop it.                        *)
(*                                                                         *)
(* A configuration is reduced to what its checks tell apart.  An entry of  *)
(* a validation error is the name of the setting its path ends with.  The  *)
(* settings that no check looks at (route) are chosen when they are used.  *)
(***************************************************************************)
EXTENDS Routes

VARIABLES
  kind,       \* which integration
  config,     \* its Config
  route,      \* what of its Config only the routing reads
  step,       \* how far its New or Connect is
  client,     \* the client of the driver: "none" or "open"
  entries,    \* the entries of the error returned, none while there is no error
  registered, \* the Service has the integration
  svc         \* the Service: its state, and whether it has a server

startupVars == <<kind, config, route, step, client, entries, registered, svc>>

Servers == {"rest", "graphql", "mcp", "worker"}
Clients == {"postgres", "clickhouse", "valkey", "bucket", "httpclient", "temporal"}

NoRoute == [path |-> "none", graphiql |-> "off", middleware |-> "none"]
Routings(k) ==
  [path : {"/api", "/"} \cup (IF k = "rest" THEN {} ELSE {"/health", WellKnown}),
   graphiql : IF k = "graphql" THEN {"off", "/graphiql", "/api", "/", "/ready"} ELSE {"off"},
   middleware : {"none", "custom"} \cup (IF k = "mcp" THEN {"bearer"} ELSE {})]

-----------------------------------------------------------------------------
(* The configurations *)

Given == {"unset", "set"}
Durations == {"unset", "positive", "negative"}

\* "half" has one of certificate and key; "badpair" and "badroot" are no PEM.
TLSConfigs == {"off", "plain", "pair", "half", "badpair", "badroot"}

\* The environment variables a driver of the bucket reads.
Environment(driver) ==
  CASE driver = "aws" -> {"aws_access_key_id", "aws_secret_access_key", "aws_region"}
    [] driver = "azure" -> {"azure_storage_account", "azure_storage_key", "azure_storage_sas_token"}
    [] driver = "google" -> {"google_application_credentials"}
    [] OTHER -> {}

PostgresConfigs ==
  [address : {"good", "bad"}, database : Given, user : Given, password : Given, tls : TLSConfigs]

BucketConfigs ==
  UNION {[driver : {d}, env : SUBSET Environment(d), bucket : Given,
          subfolder : {"unset", "slash", "noslash"}]
         : d \in {"unset", "aws", "azure", "google", "local"}}

HttpClientConfigs == [name : Given, endpoints : {"unset", "valid", "invalid"}, tls : TLSConfigs]

RestConfigs ==
  [request_timeout : Durations, read_header_timeout : Durations, idle_timeout : Durations,
   description : {"off", "unset", "readable", "unreadable"}, tls : TLSConfigs]

GraphqlConfigs == [schema : Given, valkey : {"off", "unset", "set"}, tls : TLSConfigs]

\* oauth: off, enabled with the transport wrapped, or left to the application.
McpConfigs ==
  [name : Given, version : Given, register : Given, oauth : {"off", "gate", "compose"},
   resource_id : Given, authorization_servers : Given, validate_token : Given, tls : TLSConfigs]

Configs(k) ==
  CASE k = "postgres" -> PostgresConfigs
    [] k \in {"clickhouse", "valkey", "temporal"} -> [tls : TLSConfigs]
    [] k = "worker" -> [task_queue : Given, tls : TLSConfigs]
    [] k = "bucket" -> BucketConfigs
    [] k = "httpclient" -> HttpClientConfigs
    [] k = "rest" -> RestConfigs
    [] k = "graphql" -> GraphqlConfigs
    [] OTHER -> McpConfigs

Unset(c, settings) == {s \in settings : c[s] = "unset"}

-----------------------------------------------------------------------------
(* sanitize *)

\* ConfigTLS.Sanitize; the PEM texts are rewritten, which the states above absorb.
SanitizeTLS(c) == IF c.tls = "half" THEN {"tls"} ELSE {}

\* ConfigTLS.ToStandardTLS: a pair that does not parse ends it before the roots.
ToStandardTLS(c) ==
  CASE c.tls = "badpair" -> {"tls"}
    [] c.tls = "badroot" -> {"root_ca_pems"}
    [] OTHER -> {}

SanitizePostgres(c) == Unset(c, {"database", "user", "password"}) \cup SanitizeTLS(c)
SanitizeClickHouse(c) == SanitizeTLS(c)
SanitizeValkey(c) == SanitizeTLS(c)
SanitizeTemporalClient(c) == SanitizeTLS(c)
SanitizeTemporalWorker(c) == Unset(c, {"task_queue"}) \cup SanitizeTemporalClient(c)

SanitizeHttpClient(c) ==
  Unset(c, {"name", "endpoints"})
    \cup (IF c.endpoints = "invalid" THEN {"endpoints"} ELSE {}) \cup SanitizeTLS(c)

ValidateAws(c) == Environment("aws") \ c.env
ValidateAzure(c) ==
  ({"azure_storage_account"} \ c.env)
    \cup (IF c.env \cap {"azure_storage_key", "azure_storage_sas_token"} = {} THEN {"env"} ELSE {})
ValidateGoogle(c) == Environment("google") \ c.env

SanitizeBucket(c) ==
  Unset(c, {"driver", "bucket"})
    \cup (CASE c.driver = "aws" -> ValidateAws(c)
            [] c.driver = "azure" -> ValidateAzure(c)
            [] c.driver = "google" -> ValidateGoogle(c)
            [] OTHER -> {})
    \cup (IF c.subfolder = "noslash" THEN {"subfolder"} ELSE {})

SanitizeRest(c) ==
  {s \in {"request_timeout", "read_header_timeout", "idle_timeout"} : c[s] = "negative"}
    \cup Unset(c, {"description"}) \cup SanitizeTLS(c)

SanitizeGraphql(c) == Unset(c, {"schema", "valkey"}) \cup SanitizeTLS(c)

SanitizeMcp(c) ==
  Unset(c, {"name", "version", "register"})
    \cup (IF c.oauth = "off" THEN {} ELSE Unset(c, {"resource_id", "authorization_servers"}))
    \cup (IF c.oauth = "gate" THEN Unset(c, {"validate_token"}) ELSE {})
    \cup SanitizeTLS(c)

Sanitize(k, c) ==
  CASE k = "postgres" -> SanitizePostgres(c)
    [] k = "clickhouse" -> SanitizeClickHouse(c)
    [] k = "valkey" -> SanitizeValkey(c)
    [] k = "temporal" -> SanitizeTemporalClient(c)
    [] k = "worker" -> SanitizeTemporalWorker(c)
    [] k = "httpclient" -> SanitizeHttpClient(c)
    [] k = "bucket" -> SanitizeBucket(c)
    [] k = "rest" -> SanitizeRest(c)
    [] k = "graphql" -> SanitizeGraphql(c)
    [] OTHER -> SanitizeMcp(c)

-----------------------------------------------------------------------------
(* New and Connect *)

\* The Service may be in any state when an integration is built.
StartupInit ==
  /\ kind \in Servers \cup Clients
  /\ config \in Configs(kind)
  /\ route = NoRoute
  /\ step = "sanitize"
  /\ client = "none"
  /\ entries = {}
  /\ registered = FALSE
  /\ svc \in {s \in [state : {"created", "started", "stopped"}, server : BOOLEAN] :
                s.state # "created" => s.server}

Goes(next) == step' = next /\ UNCHANGED <<kind, config, entries, registered, svc>>
Refuses(found) ==
  /\ step' = "refused"
  /\ entries' = found
  /\ UNCHANGED <<kind, config, route, registered, svc>>

Sanitizes ==
  /\ step = "sanitize"
  /\ LET found == Sanitize(kind, config)
     IN IF found = {} THEN Goes("open") /\ UNCHANGED route ELSE Refuses(found)
  /\ UNCHANGED client

\* The clients that dial: the entries of TLS and of the driver are gathered, and
\* the driver is asked for a client whether or not there are TLS entries.
Dials(others) ==
  \E dialled \in BOOLEAN :
    LET found == ToStandardTLS(config) \cup others \cup (IF dialled THEN {} ELSE {"config"})
    IN /\ client' = IF dialled THEN "open" ELSE "none"
       /\ IF found = {} THEN Goes("register") /\ UNCHANGED route ELSE Refuses(found)

\* pgxpool.ParseConfig may refuse the address put together from the settings.
ConnectsPostgres ==
  /\ step = "open" /\ kind = "postgres"
  /\ IF config.address = "bad" THEN Refuses({"address"}) /\ UNCHANGED client ELSE Dials({})

ConnectsClickHouse == step = "open" /\ kind = "clickhouse" /\ Dials({})
ConnectsValkey == step = "open" /\ kind = "valkey" /\ Dials({})

\* dialClient: the tracer may fail as well.
DialClient == \E untraced \in {{}, {"config"}} : Dials(untraced)

ConnectsTemporal == step = "open" /\ kind = "temporal" /\ DialClient
BuildsWorker == step = "open" /\ kind = "worker" /\ DialClient

ConnectsBucket ==
  /\ step = "open" /\ kind = "bucket"
  /\ \/ client' = "open" /\ Goes("register") /\ UNCHANGED route
     \/ client' = "none" /\ Refuses({"config"})

\* The HTTP client probes no endpoint, and has no client to close.
ConnectsHttpClient ==
  /\ step = "open" /\ kind = "httpclient"
  /\ LET found == ToStandardTLS(config)
     IN IF found = {} THEN Goes("register") /\ UNCHANGED route ELSE Refuses(found)
  /\ UNCHANGED client

\* The description is loaded, from a file or a URL, and made a router.
BuildRouterOpenAPI(c) == IF c.description = "unreadable" THEN {"description"} ELSE {}

BuildsRest ==
  /\ step = "open" /\ kind = "rest"
  /\ LET found == BuildRouterOpenAPI(config)
     IN IF found = {} THEN Goes("register") /\ route' \in Routings(kind) ELSE Refuses(found)
  /\ UNCHANGED client

\* One of the patterns may panic.
BuildsMux(mux) == Goes(IF Panics(mux) THEN "panicked" ELSE "register") /\ UNCHANGED client

BuildsGraphql ==
  /\ step = "open" /\ kind = "graphql"
  /\ route' \in Routings(kind)
  /\ BuildsMux(GraphqlMux(route'))

\* A bearer middleware is one the application composes itself.
BuildsMcp ==
  /\ step = "open" /\ kind = "mcp"
  /\ route' \in {r \in Routings(kind) : r.middleware = "bearer" => config.oauth = "compose"}
  /\ BuildsMux(McpMux(route', config.oauth))

\* (mutant) The client is handed out although the Service refused it.
RegistersOrNot ==
  /\ step = "register"
  /\ step' = "up"
  /\ registered' = (svc.state = "created" /\ (kind \in Servers => ~svc.server))
  /\ svc' = [svc EXCEPT !.server = @ \/ kind \in Servers]
  /\ UNCHANGED <<kind, config, route, entries, client>>

\* service.Serve and service.Attach, each in one critical section.
Registers ==
  /\ step = "register"
  /\ IF svc.state = "created" /\ (kind \in Servers => ~svc.server)
     THEN /\ step' = "up"
          /\ registered' = TRUE
          /\ svc' = [svc EXCEPT !.server = @ \/ kind \in Servers]
          /\ UNCHANGED <<kind, config, route, entries>>
     ELSE Refuses({"service"})
  /\ UNCHANGED client

\* Other goroutines register a server, start the Service, or stop it.
ServiceMoves ==
  /\ step \in {"sanitize", "open", "register"}
  /\ \/ svc.state = "created" /\ ~svc.server /\ svc' = [svc EXCEPT !.server = TRUE]
     \/ svc.state = "created" /\ svc.server /\ svc' = [svc EXCEPT !.state = "started"]
     \/ svc.state = "started" /\ svc' = [svc EXCEPT !.state = "stopped"]
  /\ UNCHANGED <<kind, config, route, step, client, entries, registered>>

StartupNext ==
  \/ Sanitizes
  \/ ConnectsPostgres \/ ConnectsClickHouse \/ ConnectsValkey \/ ConnectsTemporal
  \/ ConnectsBucket \/ ConnectsHttpClient
  \/ BuildsWorker \/ BuildsRest \/ BuildsGraphql \/ BuildsMcp
  \/ Registers \/ ServiceMoves

=============================================================================
