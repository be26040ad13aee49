---------------------------- MODULE Integrations ----------------------------
(***************************************************************************)
(* An integration from its configuration to its use: Startup, then the     *)
(* requests to a server that is up or the calls of a client that is up.    *)
(*                                                                         *)
(* The properties say what the documentation of the configurations, of the *)
(* routes, of the locales and of the clients promises, in terms of their   *)
(* own: the settings a documentation calls required, the handler a request *)
(* should reach, the language a client asked for, what a caller was told.  *)
(***************************************************************************)
EXTENDS Requests, Databases

\* Bound: the configurations of the integrations that are followed into use.
CONSTANT Followed(_, _)

vars == <<startupVars, requestVars, databaseVars>>

Init == StartupInit /\ RequestsInit /\ DatabasesInit

\* A refusal and a panic are final, and nobody need use what is up.
Final == step \in {"refused", "panicked", "up"}

Next ==
  \/ StartupNext /\ UNCHANGED <<requestVars, databaseVars>>
  \/ Followed(kind, config) /\ RequestsNext /\ UNCHANGED databaseVars
  \/ Followed(kind, config) /\ DatabasesNext /\ UNCHANGED requestVars
  \/ Final /\ UNCHANGED vars

Spec == Init /\ [][Next]_vars

-----------------------------------------------------------------------------
(* Construction *)

\* The settings a configuration may not do without, as their comments have it;
\* those of an OAuth server and of the drivers are required when they are used.
Required(k, c) ==
  CASE k = "postgres" -> {"database", "user", "password"}
    [] k = "worker" -> {"task_queue"}
    [] k = "bucket" -> {"driver", "bucket"} \cup (IF c.driver = "azure" THEN {"azure_storage_account"} ELSE Environment(c.driver))
    [] k = "httpclient" -> {"name", "endpoints"}
    [] k = "graphql" -> {"schema"} \cup (IF c.valkey = "off" THEN {} ELSE {"valkey"})
    [] k = "mcp" -> {"name", "version", "register"}
         \cup (IF c.oauth = "off" THEN {} ELSE {"resource_id", "authorization_servers"})
         \cup (IF c.oauth = "gate" THEN {"validate_token"} ELSE {})
    [] OTHER -> {}

Has(k, c, setting) ==
  IF k = "bucket" /\ setting \notin {"driver", "bucket"} THEN setting \in c.env ELSE c[setting] # "unset"

Lacks(k, c) == {setting \in Required(k, c) : ~Has(k, c, setting)}

\* A client cannot be had of TLS material that is not one; a server can, and
\* only finds out when it starts.
BadTLS(k, c) ==
  /\ k # "bucket"
  /\ c.tls \in {"half"} \cup (IF k \in HttpServers THEN {} ELSE {"badpair", "badroot"})

\* The patterns that are registered twice: the GraphQL server at the root, its
\* explorer at a probe or at the root, the MCP server at a probe or at the
\* document of its OAuth server.
Doubled ==
  \/ kind = "graphql" /\ (route.path = "/" \/ route.graphiql \in Probes \cup {"/"})
  \/ kind = "mcp" /\ route.path \in Probes \cup (IF config.oauth = "off" THEN {} ELSE {WellKnown})

\* A caller has a client or a server exactly if the Service has it, and neither
\* lacks a required setting nor has faulty TLS material; an error names every
\* setting that is lacking, also when there are other faults; construction
\* panics for the routes listed above and for no others.
ConnectContract ==
  /\ registered <=> step = "up"
  /\ step = "up" =>
       /\ Lacks(kind, config) = {} /\ ~BadTLS(kind, config)
       /\ kind \in Clients \ {"httpclient"} => client = "open"
  /\ step = "refused" => entries # {} /\ Lacks(kind, config) \subseteq entries
  /\ step = "panicked" <=> (step \in {"register", "up", "panicked"} /\ Doubled)

-----------------------------------------------------------------------------
(* Requests *)

\* Who answers a request, from the documentation of the servers.  The probes
\* and the document of the OAuth server are reached without middleware and
\* without token; nobody reaches the transport of an MCP server that is gated
\* without a valid token, nor one the application composes, except at the paths
\* Start keeps from every middleware, which a transport mounted at the root
\* serves for the methods the probes do not; a path that is served answers
\* another method with 405, and one that is not with 404.
RoutedAsDocumented ==
  phase = "routed" =>
    LET own == IF kind = "rest" THEN "application" ELSE IF kind = "graphql" THEN "graphql" ELSE "transport"
        public == request.method = "GET" /\ (request.path \in Probes \/ (OAuth # "off" /\ request.path = WellKnown))
        served == {route.path} \cup (IF kind = "rest" THEN Probes ELSE {})
    IN /\ public => reached \in {"liveness", "readiness", "metadata"}
       /\ reached = "liveness" => request.path = "/health"
       /\ reached = "readiness" => request.path = "/ready"
       /\ reached = "transport" /\ ~request.token =>
            OAuth # "gate" /\ (route.middleware = "bearer" => Bypass(kind, OAuth, request.path))
       /\ reached \in {"unauthorized", "denied"} => ~public
       /\ reached = own => request.path = route.path \/ route.path = "/"
       /\ route.path # "/" =>
            /\ reached = "method not allowed" => request.path \in served
            /\ reached = "not found" => request.path \notin served

\* The text of an error is in the language that the client asked for, the cookie
\* before the header, if the service has had that text ever since it resolved the
\* language, whatever else is added meanwhile; otherwise it is in English; there
\* is none only for a status that English has no text for.
MessageInLanguage ==
  phase = "answered" =>
    LET wanted == IF Supports(known, asked.cookie) THEN asked.cookie ELSE asked.header
    IN /\ wanted \in Languages /\ <<wanted, status>> \in steady => message = wanted
       /\ message \in Languages \ {"en"} => message = wanted
       /\ message = "none" => <<"en", status>> \notin steady

-----------------------------------------------------------------------------
(* Calls *)

\* What the caller was told of a transaction is what became of it: nothing is
\* durable before Commit was called; a transaction told committed made durable
\* every row that was told written, by it or by the one nested in it, and none
\* that was told rolled back; one told rolled back made nothing durable; and no
\* call that comes after, such as the deferred Rollback, changes any of it.
\* Rows whose nested Commit or Rollback returned an error may be either way.
CommittedStays ==
  LET rows == believed["outer"] \cup believed["nested"]
  IN /\ told \in {"none", "open", "rolled back"} => server.durable = {}
     /\ told = "committed" => rows \ doubtful \subseteq server.durable
     /\ server.durable \subseteq rows

\* A span that is over tells whether its call returned an error; the one of a
\* batch is over once it was sent, and tells whether the batch could not be
\* begun or a value not be appended.
SpansTellOutcome ==
  /\ last.span.ended
  /\ last.span.status = (IF last.error THEN "error" ELSE "ok")
  /\ batch.parent.ended <=> batch.state = "sent"
  /\ batch.failed <=> batch.parent.status = "error"

\* The row of a struct has each exported field that is not opted out, in the
\* column of its own tag, whichever goroutine reflected the type first; a type
\* with a field that could not be sent that way is never sent, and told so.
RowMatchesStruct ==
  \A g \in Goroutines :
    LET type == insert[g].type
        sent == {i \in DOMAIN type : type[i].kind = "tagged"}
    IN /\ insert[g].row # << >> =>
            /\ Reflects(type)
            /\ ToSet(insert[g].row) = {<<type[i].name, type[i].name>> : i \in sent}
            /\ Len(insert[g].row) = Cardinality(sent)
       /\ ~Reflects(type) => insert[g].error

=============================================================================
