------------------------------- MODULE Routes -------------------------------
(***************************************************************************)
(* Which handler of a server a request reaches: the patterns the GraphQL   *)
(* and the MCP server register with http.ServeMux, the routes of the REST  *)
(* server, and what lies around them: the middleware of the application    *)
(* and, on the transport of the MCP server, the bearer token.              *)
(*                                                                         *)
(* Paths are the names below; "/" is the one that ends with a slash, and   *)
(* thus the only pattern that matches more than itself.                    *)
(***************************************************************************)
EXTENDS Naturals, Sequences, SequencesExt

Probes == {"/health", "/ready"}
WellKnown == "/.well-known/oauth-protected-resource"
Paths == Probes \cup {WellKnown, "/", "/api", "/graphiql", "/elsewhere"}
Methods == {"GET", "POST", "PUT", "OPTIONS", "DELETE"}

-----------------------------------------------------------------------------
(* http.ServeMux *)

On(method, path, handler) == [method |-> method, path |-> path, handler |-> handler]

Takes(pattern, method, path) ==
  /\ pattern.method \in {"ANY", method}
  /\ pattern.path \in {"/", path}

\* Pattern p takes every request q takes; neither order nor length matter.
Covers(p, q) == p.method \in {"ANY", q.method} /\ p.path \in {"/", q.path}

\* Some request is taken by both, and neither is the more specific one.
Clash(p, q) ==
  /\ \E method \in Methods, path \in Paths : Takes(p, method, path) /\ Takes(q, method, path)
  /\ Covers(p, q) <=> Covers(q, p)

\* Registering a pattern panics if it clashes with one that is there.
Panics(mux) == \E i \in DOMAIN mux : \E j \in 1 .. i - 1 : Clash(mux[i], mux[j])

\* The most specific pattern decides.
Lookup(mux, method, path) ==
  (CHOOSE p \in ToSet(mux) :
     /\ Takes(p, method, path)
     /\ \A q \in ToSet(mux) : Takes(q, method, path) => Covers(q, p)).handler

-----------------------------------------------------------------------------
(* The three servers.  route is the part of the configuration that only the *)
(* routing reads: path, after its default, graphiql, "off" or its path, and *)
(* middleware; oauth is "off", "gate" (the transport is wrapped) or         *)
(* "compose" (the application wraps it in its middleware).                  *)

\* graphql.New
GraphqlMux(route) ==
  << On("GET", "/health", "liveness"), On("GET", "/ready", "readiness"),
     On("POST", route.path, "graphql"), On("OPTIONS", route.path, "graphql"),
     On("ANY", route.path, "method not allowed") >>
  \o (IF route.graphiql = "off" THEN << >> ELSE << On("GET", route.graphiql, "graphiql") >>)
  \o << On("ANY", "/", "not found") >>

\* mcp.buildMux
McpMux(route, oauth) ==
  << On("GET", "/health", "liveness"), On("GET", "/ready", "readiness"),
     On("GET", route.path, "transport"), On("POST", route.path, "transport"),
     On("DELETE", route.path, "transport") >>
  \o (IF route.path = "/" THEN << >> ELSE << On("ANY", route.path, "method not allowed") >>)
  \o (IF oauth = "off" THEN << >> ELSE << On("GET", WellKnown, "metadata") >>)
  \o << On("ANY", "/", "not found") >>

\* rest.buildRouter, with one route of the application, POST at route.path: the
\* router knows which paths it has for another method.
RestHandler(route, method, path) ==
  CASE method = "GET" /\ path = "/health" -> "liveness"
    [] method = "GET" /\ path = "/ready" -> "readiness"
    [] method = "POST" /\ path = route.path -> "application"
    [] OTHER -> IF path \in Probes \cup {route.path} THEN "method not allowed" ELSE "not found"

Handler(kind, route, oauth, method, path) ==
  CASE kind = "rest" -> RestHandler(route, method, path)
    [] kind = "graphql" -> Lookup(GraphqlMux(route), method, path)
    [] OTHER -> Lookup(McpMux(route, oauth), method, path)

\* (mutant) The document of the OAuth server is not kept from the middleware.
BypassProbes(kind, oauth, path) == path \in Probes

\* The requests that Start keeps from the middleware.
Bypass(kind, oauth, path) ==
  path \in Probes \/ (kind = "mcp" /\ oauth # "off" /\ path = WellKnown)

=============================================================================
