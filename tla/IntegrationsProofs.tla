------------------------- MODULE IntegrationsProofs -------------------------
(***************************************************************************)
(* What Integrations promises, for every configuration and however the     *)
(* steps interleave:                                                       *)
(*  - an integration is up exactly if the Service has it and nothing is    *)
(*    lacking, and construction panics for the patterns that are doubled,  *)
(*  - a request reaches the handler that its path is documented to have,   *)
(*  - the caller of a transaction was told what became of it,              *)
(*  - the span of a call tells how it went,                                *)
(*  - an error is told in the language asked for, whatever is added to the *)
(*    catalog meanwhile,                                                   *)
(*  - a row has the fields of its struct that are not opted out, whoever   *)
(*    reflected the type first.                                            *)
(***************************************************************************)
EXTENDS Integrations, FiniteSetTheorems, SequenceTheorems, TLAPS

-----------------------------------------------------------------------------
(* Construction *)

\* Lemma.  sanitize finds every required setting that is lacking.
LEMMA LacksAreFound ==
  ASSUME NEW k \in Servers \cup Clients, NEW c \in Configs(k)
  PROVE  Lacks(k, c) \subseteq Sanitize(k, c)
<1> SUFFICES ASSUME NEW setting \in Required(k, c), ~Has(k, c, setting)
             PROVE  setting \in Sanitize(k, c)
  BY DEF Lacks
<1>1. CASE k = "postgres"
  BY <1>1 DEF Required, Has, Sanitize, SanitizePostgres, Unset
<1>2. CASE k = "worker"
  BY <1>2 DEF Required, Has, Sanitize, SanitizeTemporalWorker, Unset
<1>3. CASE k = "httpclient"
  BY <1>3 DEF Required, Has, Sanitize, SanitizeHttpClient, Unset
<1>4. CASE k = "graphql"
  BY <1>4 DEF Required, Has, Sanitize, SanitizeGraphql, Unset
<1>5. CASE k = "mcp"
  BY <1>5 DEF Required, Has, Sanitize, SanitizeMcp, Unset
<1>6. CASE k = "bucket"
  <2>1. c \in BucketConfigs
    BY <1>6 DEF Configs
  <2>2. CASE setting \in {"driver", "bucket"}
    BY <1>6, <2>2 DEF Has, Sanitize, SanitizeBucket, Unset
  <2>3. CASE setting \notin {"driver", "bucket"}
    <3>1. setting \notin c.env
      BY <1>6, <2>3 DEF Has
    <3>2. setting \in (IF c.driver = "azure" THEN {"azure_storage_account"} ELSE Environment(c.driver))
      BY <1>6, <2>3 DEF Required
    <3> QED
      BY <1>6, <3>1, <3>2
      DEF Sanitize, SanitizeBucket, Environment, ValidateAws, ValidateAzure, ValidateGoogle
  <2> QED
    BY <2>2, <2>3
<1>7. CASE k \in {"clickhouse", "valkey", "temporal", "rest"}
  BY <1>7 DEF Required
<1> QED
  BY <1>1, <1>2, <1>3, <1>4, <1>5, <1>6, <1>7 DEF Servers, Clients

\* Lemma.  sanitize finds half a pair, and what cannot be parsed is found when
\* the client is built.
LEMMA BadTLSIsFound ==
  ASSUME NEW k \in Servers \cup Clients, NEW c \in Configs(k), BadTLS(k, c)
  PROVE  \/ Sanitize(k, c) # {}
         \/ ToStandardTLS(c) # {} /\ k \notin HttpServers \cup {"bucket"}
<1>1. CASE c.tls = "half"
  <2>1. "tls" \in SanitizeTLS(c)
    BY <1>1 DEF SanitizeTLS
  <2> QED
    BY <2>1 DEF BadTLS, Sanitize, SanitizePostgres, SanitizeClickHouse, SanitizeValkey,
       SanitizeTemporalClient, SanitizeTemporalWorker, SanitizeHttpClient, SanitizeRest,
       SanitizeGraphql, SanitizeMcp, Servers, Clients
<1>2. CASE c.tls \in {"badpair", "badroot"} /\ k \notin HttpServers
  BY <1>2 DEF BadTLS, ToStandardTLS
<1> QED
  BY <1>1, <1>2 DEF BadTLS

IsPattern(p) == p.method \in Methods \cup {"ANY"} /\ p.path \in Paths

\* Lemma.  When two patterns clash.
LEMMA ClashOfPatterns ==
  ASSUME NEW a, IsPattern(a), NEW b, IsPattern(b)
  PROVE  Clash(a, b) <=>
           \/ a.method = b.method /\ a.path = b.path
           \/ a.method = "ANY" /\ b.method # "ANY" /\ a.path # "/" /\ b.path = "/"
           \/ b.method = "ANY" /\ a.method # "ANY" /\ b.path # "/" /\ a.path = "/"
<1> DEFINE overlap == /\ a.method = b.method \/ a.method = "ANY" \/ b.method = "ANY"
                      /\ a.path = b.path \/ a.path = "/" \/ b.path = "/"
<1>1. (\E method \in Methods, path \in Paths : Takes(a, method, path) /\ Takes(b, method, path))
        <=> overlap
  <2>1. ASSUME NEW method \in Methods, NEW path \in Paths, Takes(a, method, path), Takes(b, method, path)
        PROVE  overlap
    BY <2>1 DEF Takes
  <2>2. ASSUME overlap
        PROVE  \E method \in Methods, path \in Paths : Takes(a, method, path) /\ Takes(b, method, path)
    <3> DEFINE method == IF a.method # "ANY" THEN a.method ELSE IF b.method # "ANY" THEN b.method ELSE "GET"
               path == IF a.path = "/" THEN b.path ELSE a.path
    <3>1. method \in Methods /\ path \in Paths
      BY DEF Methods, IsPattern
    <3>2. Takes(a, method, path) /\ Takes(b, method, path)
      BY <2>2 DEF Takes
    <3> QED
      BY <3>1, <3>2
  <2> QED
    BY <2>1, <2>2
<1> QED
  BY <1>1 DEF Clash, Covers

\* Lemma.  Patterns registered after others clash with those, or with each other.
LEMMA PanicsOfConcat ==
  ASSUME NEW S, NEW s \in Seq(S), NEW t \in Seq(S)
  PROVE  Panics(s \o t) <=>
           Panics(s) \/ Panics(t) \/ \E p \in ToSet(s), q \in ToSet(t) : Clash(q, p)
<1> DEFINE m == Len(s)  n == Len(t)  u == s \o t
<1>1. /\ m \in Nat /\ n \in Nat /\ DOMAIN s = 1 .. m /\ DOMAIN t = 1 .. n
      /\ DOMAIN u = 1 .. m + n
      /\ \A i \in 1 .. m : u[i] = s[i]
      /\ \A i \in 1 .. n : u[m + i] = t[i]
  BY ConcatProperties
<1> HIDE DEF m, n, u
<1>2. ASSUME Panics(u)
      PROVE  Panics(s) \/ Panics(t) \/ \E p \in ToSet(s), q \in ToSet(t) : Clash(q, p)
  <2>1. PICK i \in 1 .. m + n : \E j \in 1 .. i - 1 : Clash(u[i], u[j])
    BY <1>1, <1>2 DEF Panics
  <2>2. PICK j \in 1 .. i - 1 : Clash(u[i], u[j])
    BY <2>1
  <2>3. CASE i <= m
    BY <1>1, <2>1, <2>2, <2>3 DEF Panics
  <2>4. CASE i > m /\ j <= m
    <3>1. u[i] = t[i - m] /\ i - m \in 1 .. n /\ u[j] = s[j] /\ j \in 1 .. m
      BY <1>1, <2>1, <2>2, <2>4
    <3> QED
      BY <1>1, <2>2, <3>1 DEF ToSet
  <2>5. CASE i > m /\ j > m
    <3>1. u[i] = t[i - m] /\ i - m \in 1 .. n /\ u[j] = t[j - m] /\ j - m \in 1 .. (i - m) - 1
      BY <1>1, <2>1, <2>2, <2>5
    <3> QED
      BY <1>1, <2>2, <3>1 DEF Panics
  <2> QED
    BY <1>1, <2>1, <2>2, <2>3, <2>4, <2>5
<1>3. ASSUME Panics(s) PROVE Panics(u)
  BY <1>1, <1>3 DEF Panics
<1>4. ASSUME Panics(t) PROVE Panics(u)
  <2>1. PICK i \in 1 .. n : \E j \in 1 .. i - 1 : Clash(t[i], t[j])
    BY <1>1, <1>4 DEF Panics
  <2>2. PICK j \in 1 .. i - 1 : Clash(t[i], t[j])
    BY <2>1
  <2>3. /\ m + i \in 1 .. m + n /\ m + j \in 1 .. (m + i) - 1
        /\ u[m + i] = t[i] /\ u[m + j] = t[j]
    BY <1>1, <2>1, <2>2
  <2> QED
    BY <1>1, <2>2, <2>3 DEF Panics
<1>5. ASSUME NEW p \in ToSet(s), NEW q \in ToSet(t), Clash(q, p)
      PROVE  Panics(u)
  <2>1. PICK j \in 1 .. m : p = s[j]
    BY <1>1 DEF ToSet
  <2>2. PICK i \in 1 .. n : q = t[i]
    BY <1>1 DEF ToSet
  <2>3. /\ m + i \in 1 .. m + n /\ j \in 1 .. (m + i) - 1
        /\ u[m + i] = q /\ u[j] = p
    BY <1>1, <2>1, <2>2
  <2> QED
    BY <1>1, <1>5, <2>3 DEF Panics
<1>6. Panics(u) <=> Panics(s) \/ Panics(t) \/ \E p \in ToSet(s), q \in ToSet(t) : Clash(q, p)
  BY <1>2, <1>3, <1>4, <1>5
<1> QED
  BY <1>6 DEF u

\* Lemma.  The patterns of two lists.
LEMMA ToSetOfConcat ==
  ASSUME NEW S, NEW s \in Seq(S), NEW t \in Seq(S)
  PROVE  s \o t \in Seq(S) /\ ToSet(s \o t) = ToSet(s) \cup ToSet(t)
<1> DEFINE m == Len(s)  n == Len(t)  u == s \o t
<1>1. /\ m \in Nat /\ n \in Nat /\ DOMAIN s = 1 .. m /\ DOMAIN t = 1 .. n
      /\ DOMAIN u = 1 .. m + n /\ u \in Seq(S)
      /\ \A i \in 1 .. m : u[i] = s[i]
      /\ \A i \in 1 .. n : u[m + i] = t[i]
  BY ConcatProperties
<1> HIDE DEF m, n, u
<1>2. ASSUME NEW p \in ToSet(u) PROVE p \in ToSet(s) \cup ToSet(t)
  <2>1. PICK i \in 1 .. m + n : p = u[i]
    BY <1>1 DEF ToSet
  <2>2. CASE i <= m
    BY <1>1, <2>1, <2>2 DEF ToSet
  <2>3. CASE i > m
    <3>1. i - m \in 1 .. n /\ p = t[i - m]
      BY <1>1, <2>1, <2>3
    <3> QED
      BY <1>1, <3>1 DEF ToSet
  <2> QED
    BY <1>1, <2>1, <2>2, <2>3
<1>3. ASSUME NEW p \in ToSet(s) PROVE p \in ToSet(u)
  BY <1>1 DEF ToSet
<1>4. ASSUME NEW p \in ToSet(t) PROVE p \in ToSet(u)
  <2>1. PICK i \in 1 .. n : p = t[i]
    BY <1>1 DEF ToSet
  <2>2. m + i \in 1 .. m + n
    BY <1>1
  <2> QED
    BY <1>1, <2>1, <2>2 DEF ToSet
<1>5. u \in Seq(S) /\ ToSet(u) = ToSet(s) \cup ToSet(t)
  BY <1>1, <1>2, <1>3, <1>4
<1> QED
  BY <1>5 DEF u

\* Lemma.  Nothing clashes in a list of one pattern.
LEMMA ShortLists ==
  ASSUME NEW a
  PROVE  /\ ~Panics(<< >>) /\ ToSet(<< >>) = {}
         /\ ~Panics(<<a>>) /\ ToSet(<<a>>) = {a}
  BY DEF Panics, ToSet

\* Lemma.  The list that both servers begin theirs with.
LEMMA ListOfFive ==
  ASSUME NEW a, NEW b, NEW c, NEW d, NEW e
  PROVE  /\ ToSet(<<a, b, c, d, e>>) = {a, b, c, d, e}
         /\ Panics(<<a, b, c, d, e>>) <=>
              \/ Clash(b, a) \/ Clash(c, a) \/ Clash(c, b) \/ Clash(d, a) \/ Clash(d, b)
              \/ Clash(d, c) \/ Clash(e, a) \/ Clash(e, b) \/ Clash(e, c) \/ Clash(e, d)
<1> DEFINE s == <<a, b, c, d, e>>
<1>1. DOMAIN s = 1 .. 5 /\ s[1] = a /\ s[2] = b /\ s[3] = c /\ s[4] = d /\ s[5] = e
  OBVIOUS
<1>2. ToSet(s) = {a, b, c, d, e}
  BY DEF ToSet
<1> HIDE DEF s
<1>3. Panics(s) <=>
              \/ Clash(s[2], s[1]) \/ Clash(s[3], s[1]) \/ Clash(s[3], s[2]) \/ Clash(s[4], s[1]) \/ Clash(s[4], s[2])
              \/ Clash(s[4], s[3]) \/ Clash(s[5], s[1]) \/ Clash(s[5], s[2]) \/ Clash(s[5], s[3]) \/ Clash(s[5], s[4])
  BY <1>1 DEF Panics
<1> QED
  BY <1>1, <1>2, <1>3 DEF s

\* Lemma.  The patterns of the GraphQL server, and the routes that make its
\* construction panic.
LEMMA GraphqlPatterns ==
  ASSUME NEW r \in Routings("graphql")
  PROVE  /\ ToSet(GraphqlMux(r)) =
              { On("GET", "/health", "liveness"), On("GET", "/ready", "readiness"),
                On("POST", r.path, "graphql"), On("OPTIONS", r.path, "graphql"),
                On("ANY", r.path, "method not allowed"), On("ANY", "/", "not found") }
              \cup (IF r.graphiql = "off" THEN {} ELSE {On("GET", r.graphiql, "graphiql")})
         /\ Panics(GraphqlMux(r)) <=> r.path = "/" \/ r.graphiql \in Probes \cup {"/"}
<1> DEFINE a == On("GET", "/health", "liveness")
           b == On("GET", "/ready", "readiness")
           c == On("POST", r.path, "graphql")
           d == On("OPTIONS", r.path, "graphql")
           e == On("ANY", r.path, "method not allowed")
           g == On("GET", r.graphiql, "graphiql")
           z == On("ANY", "/", "not found")
           rest == <<z>>
           S == {a, b, c, d, e, g, z}
           explorer == IF r.graphiql = "off" THEN << >> ELSE <<g>>
           five == <<a, b, c, d, e>>
           front == five \o explorer
<1>1. /\ r.path \in {"/api", "/", "/health", WellKnown}
      /\ r.graphiql \in {"off", "/graphiql", "/api", "/", "/ready"}
  BY DEF Routings
<1>2. /\ IsPattern(a) /\ a.method = "GET" /\ a.path = "/health"
      /\ IsPattern(b) /\ b.method = "GET" /\ b.path = "/ready"
      /\ IsPattern(c) /\ c.method = "POST" /\ c.path = r.path
      /\ IsPattern(d) /\ d.method = "OPTIONS" /\ d.path = r.path
      /\ IsPattern(e) /\ e.method = "ANY" /\ e.path = r.path
      /\ IsPattern(z) /\ z.method = "ANY" /\ z.path = "/"
      /\ r.graphiql # "off" => IsPattern(g) /\ g.method = "GET" /\ g.path = r.graphiql
  BY <1>1 DEF On, IsPattern, Paths, Methods, Probes, WellKnown
<1>3. /\ five \in Seq(S) /\ explorer \in Seq(S) /\ rest \in Seq(S)
      /\ GraphqlMux(r) = front \o rest
  <2>1. five \in Seq(S) /\ rest \in Seq(S) /\ explorer \in Seq(S)
    <3> HIDE DEF a, b, c, d, e, g, z
    <3> QED
      OBVIOUS
  <2> QED
    BY <2>1 DEF GraphqlMux
<1>4. ToSet(explorer) = (IF r.graphiql = "off" THEN {} ELSE {g}) /\ ~Panics(explorer)
  BY ShortLists
<1>5. ToSet(five) = {a, b, c, d, e} /\ ~Panics(five)
  <2> HIDE DEF a, b, c, d, e
  <2>1. ~Clash(b, a) /\ ~Clash(c, a) /\ ~Clash(c, b) /\ ~Clash(d, a) /\ ~Clash(d, b)
    BY <1>2, ClashOfPatterns
  <2>2. ~Clash(d, c) /\ ~Clash(e, a) /\ ~Clash(e, b)
    BY <1>2, ClashOfPatterns
  <2>3. IsPattern(e) /\ e.method = "ANY"
    BY <1>2
  <2>4. ASSUME NEW p, IsPattern(p), p.method # "ANY", p.path = e.path
        PROVE  ~Clash(e, p)
    BY <2>3, <2>4, ClashOfPatterns
  <2> QED
    BY <1>2, <2>1, <2>2, <2>4, ListOfFive
<1>6. /\ front \in Seq(S)
      /\ ToSet(front) = {a, b, c, d, e} \cup ToSet(explorer)
      /\ Panics(front) <=> \E p \in {a, b, c, d, e}, q \in ToSet(explorer) : Clash(q, p)
  <2> HIDE DEF a, b, c, d, e, explorer, five, S
  <2>1. front \in Seq(S) /\ ToSet(front) = ToSet(five) \cup ToSet(explorer)
    BY <1>3, ToSetOfConcat
  <2>2. Panics(front) <=> \E p \in ToSet(five), q \in ToSet(explorer) : Clash(q, p)
    BY <1>3, <1>4, <1>5, PanicsOfConcat
  <2> QED
    BY <1>5, <2>1, <2>2
<1>7. /\ ToSet(GraphqlMux(r)) = {a, b, c, d, e, z} \cup ToSet(explorer)
      /\ Panics(GraphqlMux(r)) <=>
           Panics(front) \/ \E p \in {a, b, c, d, e} \cup ToSet(explorer) : Clash(z, p)
  <2>1. ~Panics(rest) /\ ToSet(rest) = {z}
    BY ShortLists
  <2> HIDE DEF a, b, c, d, e, z, explorer, front, rest, S
  <2>2. ToSet(GraphqlMux(r)) = ToSet(front) \cup {z}
    BY <1>3, <1>6, <2>1, ToSetOfConcat
  <2>3. Panics(front \o rest) <=>
          Panics(front) \/ Panics(rest) \/ \E p \in ToSet(front), q \in ToSet(rest) : Clash(q, p)
    BY <1>3, <1>6, PanicsOfConcat
  <2> QED
    BY <1>3, <1>6, <2>1, <2>2, <2>3
<1>8. /\ ~Clash(z, a) /\ ~Clash(z, b) /\ ~Clash(z, c) /\ ~Clash(z, d)
      /\ Clash(z, e) <=> r.path = "/"
  <2> HIDE DEF a, b, c, d, e, z
  <2> QED
    BY <1>2, ClashOfPatterns
<1>9. CASE r.graphiql = "off"
  <2>1. explorer = << >> /\ ToSet(explorer) = {}
    BY <1>4, <1>9
  <2> HIDE DEF a, b, c, d, e, z, explorer, front
  <2>2. Panics(GraphqlMux(r)) <=> r.path = "/"
    BY <1>6, <1>7, <1>8, <2>1
  <2>3. ToSet(GraphqlMux(r)) = {a, b, c, d, e, z}
    BY <1>7, <2>1
  <2> QED
    BY <1>9, <2>2, <2>3 DEF a, b, c, d, e, z, Probes
<1>10. CASE r.graphiql # "off"
  <2>1. ToSet(explorer) = {g}
    BY <1>4, <1>10
  <2> HIDE DEF a, b, c, d, e, g, z, explorer, front
  <2>2. /\ ~Clash(g, c) /\ ~Clash(g, d) /\ ~Clash(z, g)
        /\ Clash(g, a) <=> r.graphiql = "/health"
        /\ Clash(g, b) <=> r.graphiql = "/ready"
        /\ Clash(g, e) <=> r.graphiql = "/" /\ r.path # "/"
    BY <1>2, <1>10, ClashOfPatterns
  <2>3. Panics(GraphqlMux(r)) <=> r.path = "/" \/ r.graphiql \in Probes \cup {"/"}
    BY <1>6, <1>7, <1>8, <2>1, <2>2 DEF Probes
  <2>4. ToSet(GraphqlMux(r)) = {a, b, c, d, e, z, g}
    BY <1>7, <2>1
  <2> QED
    BY <1>10, <2>3, <2>4 DEF a, b, c, d, e, g, z
<1> QED
  BY <1>9, <1>10

\* Lemma.  The patterns of the MCP server, and the routes that make its
\* construction panic.
LEMMA McpPatterns ==
  ASSUME NEW r \in Routings("mcp"), NEW oauth \in {"off", "gate", "compose"}
  PROVE  /\ ToSet(McpMux(r, oauth)) =
              { On("GET", "/health", "liveness"), On("GET", "/ready", "readiness"),
                On("GET", r.path, "transport"), On("POST", r.path, "transport"),
                On("DELETE", r.path, "transport"), On("ANY", "/", "not found") }
              \cup (IF r.path = "/" THEN {} ELSE {On("ANY", r.path, "method not allowed")})
              \cup (IF oauth = "off" THEN {} ELSE {On("GET", WellKnown, "metadata")})
         /\ Panics(McpMux(r, oauth)) <=>
              r.path \in Probes \cup (IF oauth = "off" THEN {} ELSE {WellKnown})
<1> DEFINE a == On("GET", "/health", "liveness")
           b == On("GET", "/ready", "readiness")
           c == On("GET", r.path, "transport")
           d == On("POST", r.path, "transport")
           e == On("DELETE", r.path, "transport")
           m == On("ANY", r.path, "method not allowed")
           w == On("GET", WellKnown, "metadata")
           z == On("ANY", "/", "not found")
           S == {a, b, c, d, e, m, w, z}
           five == <<a, b, c, d, e>>
           others == IF r.path = "/" THEN << >> ELSE <<m>>
           document == IF oauth = "off" THEN << >> ELSE <<w>>
           six == five \o others
           seven == six \o document
           rest == <<z>>
           Others == IF r.path = "/" THEN {} ELSE {m}
           Document == IF oauth = "off" THEN {} ELSE {w}
<1>1. r.path \in {"/api", "/", "/health", WellKnown}
  BY DEF Routings
<1>2. /\ IsPattern(a) /\ a.method = "GET" /\ a.path = "/health"
      /\ IsPattern(b) /\ b.method = "GET" /\ b.path = "/ready"
      /\ IsPattern(c) /\ c.method = "GET" /\ c.path = r.path
      /\ IsPattern(d) /\ d.method = "POST" /\ d.path = r.path
      /\ IsPattern(e) /\ e.method = "DELETE" /\ e.path = r.path
      /\ IsPattern(m) /\ m.method = "ANY" /\ m.path = r.path
      /\ IsPattern(w) /\ w.method = "GET" /\ w.path = WellKnown
      /\ IsPattern(z) /\ z.method = "ANY" /\ z.path = "/"
  BY <1>1 DEF On, IsPattern, Paths, Methods, Probes, WellKnown
<1>3. /\ five \in Seq(S) /\ others \in Seq(S) /\ document \in Seq(S) /\ rest \in Seq(S)
      /\ McpMux(r, oauth) = seven \o rest
  <2>1. five \in Seq(S) /\ others \in Seq(S) /\ document \in Seq(S) /\ rest \in Seq(S)
    <3> HIDE DEF a, b, c, d, e, m, w, z
    <3> QED
      OBVIOUS
  <2> QED
    BY <2>1 DEF McpMux
<1>4. /\ ToSet(others) = Others /\ ~Panics(others)
      /\ ToSet(document) = Document /\ ~Panics(document)
      /\ ToSet(rest) = {z} /\ ~Panics(rest)
  BY ShortLists
<1>5. /\ ToSet(five) = {a, b, c, d, e}
      /\ Panics(five) <=> r.path \in Probes
  <2> HIDE DEF a, b, c, d, e
  <2>1. ~Clash(b, a) /\ ~Clash(d, a) /\ ~Clash(d, b) /\ ~Clash(d, c)
    BY <1>2, ClashOfPatterns
  <2>2. ~Clash(e, a) /\ ~Clash(e, b) /\ ~Clash(e, c) /\ ~Clash(e, d)
    BY <1>2, ClashOfPatterns
  <2>3. IsPattern(c) /\ c.method = "GET" /\ c.path = r.path
    BY <1>2
  <2>4. ASSUME NEW p, IsPattern(p), p.method = "GET"
        PROVE  Clash(c, p) <=> r.path = p.path
    BY <2>3, <2>4, ClashOfPatterns
  <2> QED
    BY <1>2, <2>1, <2>2, <2>3, <2>4, ListOfFive DEF Probes
<1>6. /\ six \in Seq(S) /\ ToSet(six) = {a, b, c, d, e} \cup Others
      /\ Panics(six) <=> r.path \in Probes
  <2> HIDE DEF a, b, c, d, e, m, five, others, S
  <2>1. six \in Seq(S) /\ ToSet(six) = ToSet(five) \cup ToSet(others)
    BY <1>3, ToSetOfConcat
  <2>2. Panics(six) <=>
          Panics(five) \/ Panics(others) \/ \E p \in ToSet(five), q \in ToSet(others) : Clash(q, p)
    BY <1>3, PanicsOfConcat
  <2>3. /\ ~Clash(m, a) \/ r.path = "/"
        /\ ~Clash(m, b) \/ r.path = "/"
        /\ ~Clash(m, c) /\ ~Clash(m, d) /\ ~Clash(m, e)
    <3>1. IsPattern(m) /\ m.method = "ANY"
      BY <1>2
    <3>2. ASSUME NEW p, IsPattern(p), p.method # "ANY", p.path # "/" \/ p.path = m.path
          PROVE  ~Clash(m, p)
      BY <3>1, <3>2, ClashOfPatterns
    <3> QED
      BY <1>2, <3>2
  <2> QED
    BY <1>4, <1>5, <2>1, <2>2, <2>3
<1>7. /\ seven \in Seq(S) /\ ToSet(seven) = {a, b, c, d, e} \cup Others \cup Document
      /\ Panics(seven) <=> r.path \in Probes \cup (IF oauth = "off" THEN {} ELSE {WellKnown})
  <2> HIDE DEF a, b, c, d, e, m, w, document, six, S
  <2>1. seven \in Seq(S) /\ ToSet(seven) = ToSet(six) \cup ToSet(document)
    BY <1>3, <1>6, ToSetOfConcat
  <2>2. Panics(seven) <=>
          Panics(six) \/ Panics(document) \/ \E p \in ToSet(six), q \in ToSet(document) : Clash(q, p)
    BY <1>3, <1>6, PanicsOfConcat
  <2>3. /\ ~Clash(w, a) /\ ~Clash(w, b) /\ ~Clash(w, d) /\ ~Clash(w, e)
        /\ Clash(w, c) <=> r.path = WellKnown
        /\ ~Clash(w, m) \/ r.path = "/"
    <3>1. IsPattern(w) /\ w.method = "GET" /\ w.path = WellKnown /\ WellKnown \notin Probes \cup {"/"}
      BY <1>2 DEF WellKnown, Probes
    <3>2. ASSUME NEW p, IsPattern(p)
          PROVE  Clash(w, p) <=> p.method = "GET" /\ p.path = WellKnown
      BY <3>1, <3>2, ClashOfPatterns
    <3> QED
      BY <1>2, <3>1, <3>2 DEF Probes
  <2> QED
    BY <1>4, <1>6, <2>1, <2>2, <2>3
<1>8. /\ ToSet(McpMux(r, oauth)) = {a, b, c, d, e, z} \cup Others \cup Document
      /\ Panics(McpMux(r, oauth)) <=>
           r.path \in Probes \cup (IF oauth = "off" THEN {} ELSE {WellKnown})
  <2> HIDE DEF a, b, c, d, e, m, w, z, seven, rest, S
  <2>1. ToSet(McpMux(r, oauth)) = ToSet(seven) \cup ToSet(rest)
    BY <1>3, <1>7, ToSetOfConcat
  <2>2. Panics(seven \o rest) <=>
          Panics(seven) \/ Panics(rest) \/ \E p \in ToSet(seven), q \in ToSet(rest) : Clash(q, p)
    BY <1>3, <1>7, PanicsOfConcat
  <2>3. /\ ~Clash(z, a) /\ ~Clash(z, b) /\ ~Clash(z, c) /\ ~Clash(z, d) /\ ~Clash(z, e)
        /\ ~Clash(z, w) /\ (~Clash(z, m) \/ r.path = "/")
    <3>1. IsPattern(z) /\ z.method = "ANY" /\ z.path = "/"
      BY <1>2
    <3>2. ASSUME NEW p, IsPattern(p), p.method # "ANY" \/ p.path # "/"
          PROVE  ~Clash(z, p)
      BY <3>1, <3>2, ClashOfPatterns
    <3> QED
      BY <1>2, <3>2
  <2> QED
    BY <1>3, <1>4, <1>7, <2>1, <2>2, <2>3
<1> QED
  BY <1>8 DEF a, b, c, d, e, m, w, z

\* What is known of an integration on its way: nothing is lacking once it is
\* past sanitize, its TLS material was parsed if it dials, its patterns do not
\* clash once they are registered; only what is up is used.
StartupInv ==
  /\ kind \in Servers \cup Clients /\ config \in Configs(kind)
  /\ step \in {"sanitize", "open", "register", "up", "refused", "panicked"}
  /\ registered \in BOOLEAN /\ registered <=> step = "up"
  /\ step \in {"open", "register", "up"} => Sanitize(kind, config) = {}
  /\ step \in {"register", "up"} =>
       /\ kind \notin HttpServers \cup {"bucket"} => ToStandardTLS(config) = {}
       /\ kind \in Clients \ {"httpclient"} => client = "open"
       /\ ~Doubled
  /\ step = "panicked" => Doubled
  /\ step = "refused" => entries # {} /\ Lacks(kind, config) \subseteq entries
  /\ phase # "idle" => step = "up"

\* Lemma.  A refusal names something, and past sanitize nothing is lacking.
LEMMA RefusalStartupInv ==
  ASSUME StartupInv, NEW found, found # {}, Refuses(found), phase' = phase, step # "up",
         step = "sanitize" => found = Sanitize(kind, config),
         step \in {"sanitize", "open", "register"}
  PROVE  StartupInv'
<1>1. /\ step' = "refused" /\ entries' = found /\ kind' = kind /\ config' = config
      /\ registered' = registered
  BY DEF Refuses
<1>2. Lacks(kind, config) \subseteq Sanitize(kind, config)
  BY LacksAreFound DEF StartupInv
<1>3. Lacks(kind, config)' = Lacks(kind, config)
  BY <1>1
<1>4. Lacks(kind, config) \subseteq found
  BY <1>2 DEF StartupInv
<1> QED
  BY <1>1, <1>3, <1>4 DEF StartupInv

\* Lemma.  A client that dials is up only with TLS material that was parsed.
LEMMA DialsStartupInv ==
  ASSUME StartupInv, NEW others, Dials(others), phase' = phase, step = "open",
         kind \notin {"graphql", "mcp"}
  PROVE  StartupInv'
<1>1. PICK dialled \in BOOLEAN :
        LET found == ToStandardTLS(config) \cup others \cup (IF dialled THEN {} ELSE {"config"})
        IN /\ client' = IF dialled THEN "open" ELSE "none"
           /\ IF found = {} THEN Goes("register") /\ UNCHANGED route ELSE Refuses(found)
  BY DEF Dials
<1> DEFINE found == ToStandardTLS(config) \cup others \cup (IF dialled THEN {} ELSE {"config"})
<1>2. CASE found = {}
  <2>1. Goes("register") /\ dialled /\ client' = "open" /\ ToStandardTLS(config) = {} /\ UNCHANGED route
    BY <1>1, <1>2
  <2>2. ~Doubled'
    BY <2>1 DEF Doubled, Goes
  <2> QED
    BY <2>1, <2>2 DEF Goes, StartupInv
<1>3. CASE found # {}
  BY <1>1, <1>3, RefusalStartupInv
<1> QED
  BY <1>2, <1>3

\* Lemma.  The server without patterns of its own, and the clients that do
\* not dial.
LEMMA BuildsStartupInv ==
  ASSUME StartupInv, ConnectsBucket \/ ConnectsHttpClient \/ BuildsRest, phase' = phase
  PROVE  StartupInv'
<1>1. CASE ConnectsBucket
  <2>1. CASE Refuses({"config"})
    BY <1>1, <2>1, RefusalStartupInv DEF ConnectsBucket
  <2>2. CASE client' = "open" /\ Goes("register") /\ UNCHANGED route
    BY <1>1, <2>2 DEF ConnectsBucket, Goes, StartupInv, Doubled
  <2> QED
    BY <1>1, <2>1, <2>2 DEF ConnectsBucket
<1>2. CASE ConnectsHttpClient
  <2>1. CASE ToStandardTLS(config) = {}
    BY <1>2, <2>1 DEF ConnectsHttpClient, Goes, StartupInv, Doubled
  <2>2. CASE ToStandardTLS(config) # {}
    BY <1>2, <2>2, RefusalStartupInv DEF ConnectsHttpClient
  <2> QED
    BY <2>1, <2>2
<1>3. CASE BuildsRest
  <2>1. CASE BuildRouterOpenAPI(config) = {}
    BY <1>3, <2>1 DEF BuildsRest, Goes, StartupInv, Doubled, HttpServers, Clients
  <2>2. CASE BuildRouterOpenAPI(config) # {}
    BY <1>3, <2>2, RefusalStartupInv DEF BuildsRest
  <2> QED
    BY <2>1, <2>2
<1> QED
  BY <1>1, <1>2, <1>3

\* Lemma.  The servers that register patterns.
LEMMA MuxStartupInv ==
  ASSUME StartupInv, BuildsGraphql \/ BuildsMcp, phase' = phase
  PROVE  StartupInv'
<1>1. CASE BuildsGraphql
  <2>1. route' \in Routings("graphql") /\ kind = "graphql" /\ BuildsMux(GraphqlMux(route')) /\ step = "open"
    BY <1>1 DEF BuildsGraphql
  <2>2. Panics(GraphqlMux(route')) <=> route'.path = "/" \/ route'.graphiql \in Probes \cup {"/"}
    BY <2>1, GraphqlPatterns
  <2>3. kind' = kind /\ config' = config
    BY <2>1 DEF BuildsMux, Goes
  <2>4. Doubled' <=> Panics(GraphqlMux(route'))
    BY <2>1, <2>2, <2>3 DEF Doubled
  <2> QED
    BY <2>1, <2>3, <2>4 DEF BuildsMux, Goes, StartupInv, HttpServers, Clients
<1>2. CASE BuildsMcp
  <2>1. /\ route' \in Routings("mcp") /\ kind = "mcp" /\ BuildsMux(McpMux(route', config.oauth))
        /\ step = "open"
    BY <1>2 DEF BuildsMcp
  <2>2. config.oauth \in {"off", "gate", "compose"}
    BY <2>1 DEF StartupInv, Configs, McpConfigs
  <2>3. Panics(McpMux(route', config.oauth)) <=>
          route'.path \in Probes \cup (IF config.oauth = "off" THEN {} ELSE {WellKnown})
    BY <2>1, <2>2, McpPatterns
  <2>4. kind' = kind /\ config' = config
    BY <2>1 DEF BuildsMux, Goes
  <2>5. Doubled' <=> Panics(McpMux(route', config.oauth))
    BY <2>1, <2>3, <2>4 DEF Doubled
  <2> QED
    BY <2>1, <2>4, <2>5 DEF BuildsMux, Goes, StartupInv, HttpServers, Clients
<1> QED
  BY <1>1, <1>2

\* Lemma.  New and Connect, with the other goroutines.
LEMMA StartupNextInv ==
  ASSUME StartupInv, StartupNext, phase' = phase
  PROVE  StartupInv'
<1>1. CASE Sanitizes
  <2>1. CASE Sanitize(kind, config) = {}
    BY <1>1, <2>1 DEF Sanitizes, Goes, StartupInv
  <2>2. CASE Sanitize(kind, config) # {}
    BY <1>1, <2>2, RefusalStartupInv DEF Sanitizes
  <2> QED
    BY <2>1, <2>2
<1>2. CASE ConnectsPostgres
  <2>1. CASE config.address = "bad"
    BY <1>2, <2>1, RefusalStartupInv DEF ConnectsPostgres
  <2>2. CASE config.address # "bad"
    BY <1>2, <2>2, DialsStartupInv DEF ConnectsPostgres
  <2> QED
    BY <2>1, <2>2
<1>3. CASE ConnectsClickHouse \/ ConnectsValkey
  BY <1>3, DialsStartupInv DEF ConnectsClickHouse, ConnectsValkey
<1>4. CASE ConnectsTemporal \/ BuildsWorker
  BY <1>4, DialsStartupInv DEF ConnectsTemporal, BuildsWorker, DialClient
<1>5. CASE Registers
  <2>1. CASE svc.state = "created" /\ (kind \in Servers => ~svc.server)
    BY <1>5, <2>1 DEF Registers, StartupInv, Doubled
  <2>2. CASE ~(svc.state = "created" /\ (kind \in Servers => ~svc.server))
    BY <1>5, <2>2, RefusalStartupInv DEF Registers
  <2> QED
    BY <2>1, <2>2
<1>6. CASE ServiceMoves
  BY <1>6 DEF ServiceMoves, StartupInv, Doubled
<1> QED
  BY <1>1, <1>2, <1>3, <1>4, <1>5, <1>6, BuildsStartupInv, MuxStartupInv DEF StartupNext

\* Lemma.  What is up stays as it is, but for the routing, which is forgotten
\* after a request.
LEMMA UseStartupInv ==
  ASSUME StartupInv,
         \/ RequestsNext
         \/ UNCHANGED <<kind, config, route, step, client, entries, registered, svc, phase>>
  PROVE  StartupInv'
<1>1. ASSUME UNCHANGED <<kind, config, step, client, entries, registered>>,
             route' = route \/ (route' = NoRoute /\ step = "up"),
             phase' # "idle" => step = "up"
      PROVE  StartupInv'
  BY <1>1 DEF StartupInv, Doubled, NoRoute, Probes, WellKnown
<1>2. ASSUME NEW r \in RequestRecords, Arrives(r) PROVE StartupInv'
  BY <1>1, <1>2 DEF Arrives, startupVars
<1>3. CASE Succeeds
  BY <1>1, <1>3 DEF Succeeds, startupVars
<1>4. ASSUME NEW p \in Preferences, Matches(p) PROVE StartupInv'
  BY <1>1, <1>4 DEF Matches, StartupInv
<1>5. CASE LooksUp
  BY <1>1, <1>5 DEF LooksUp, startupVars, StartupInv
<1>6. ASSUME NEW lang, NEW texts, NEW blanks, AddOrEditLanguage(lang, texts, blanks) PROVE StartupInv'
  BY <1>1, <1>6 DEF AddOrEditLanguage, startupVars, StartupInv
<1>7. CASE UNCHANGED <<kind, config, route, step, client, entries, registered, svc, phase>>
  BY <1>1, <1>7 DEF StartupInv
<1> QED
  BY <1>2, <1>3, <1>4, <1>5, <1>6, <1>7 DEF RequestsNext

\* Lemma.  The calls of a client leave it where it is.
LEMMA CallsKeepStartup ==
  ASSUME DatabasesNext
  PROVE  UNCHANGED startupVars
<1>1. ASSUME NEW k, NEW purpose, For(k, purpose) PROVE UNCHANGED startupVars
  BY <1>1 DEF For
<1> QED
  BY <1>1 DEF DatabasesNext, BeginTx, Begin, Commit, Rollback, TxExec, TxPrepare, TxQuery, TxQueryRow,
     Asks, TxCall, NewBatchInsert, AppendStruct, Send, LoadsOrStores, AsyncInsertStruct,
     Exec, Query, QueryRow, Select, Read, Write, Delete, Exists, OneRequest

\* StartupInv holds in every reachable state.
THEOREM StartupInvariant == Spec => []StartupInv
<1>1. Init => StartupInv
  BY DEF Init, StartupInit, RequestsInit, StartupInv
<1>2. StartupInv /\ [Next]_vars => StartupInv'
  <2> SUFFICES ASSUME StartupInv, [Next]_vars PROVE StartupInv'
    OBVIOUS
  <2>1. CASE StartupNext /\ UNCHANGED requestVars
    BY <2>1, StartupNextInv DEF requestVars
  <2>2. CASE RequestsNext
    BY <2>2, UseStartupInv
  <2>3. CASE UNCHANGED <<startupVars, requestVars>>
    BY <2>3, UseStartupInv DEF startupVars, requestVars
  <2> QED
    BY <2>1, <2>2, <2>3, CallsKeepStartup DEF Next, vars
<1> QED
  BY <1>1, <1>2, PTL DEF Spec

\* A caller has a client or a server exactly if the Service has it and nothing
\* required is lacking; an error names everything that is; construction panics
\* for the routes that register a pattern twice and for no others.
THEOREM ConnectIsAllOrNothing == Spec => []ConnectContract
<1>1. StartupInv => ConnectContract
  <2> SUFFICES ASSUME StartupInv PROVE ConnectContract
    OBVIOUS
  <2>1. ASSUME step = "up" PROVE Lacks(kind, config) = {} /\ ~BadTLS(kind, config)
    BY <2>1, LacksAreFound, BadTLSIsFound DEF StartupInv
  <2> QED
    BY <2>1 DEF StartupInv, ConnectContract
<1> QED
  BY <1>1, StartupInvariant, PTL

-----------------------------------------------------------------------------
(* The handler a request reaches *)

\* p is taken, and by no pattern that is more specific.
Decides(p, mux, method, path) ==
  /\ p \in ToSet(mux) /\ Takes(p, method, path)
  /\ \A q \in ToSet(mux) : Takes(q, method, path) => Covers(q, p)

\* Lemma.  With a pattern that takes everything, and none that takes one method
\* of everything beside one that takes every method of a path, some pattern
\* decides.
LEMMA SomePatternDecides ==
  ASSUME NEW mux, \A p \in ToSet(mux) : IsPattern(p),
         \E p \in ToSet(mux) : p.method = "ANY" /\ p.path = "/",
         \A p, q \in ToSet(mux) :
           p.method = "ANY" /\ p.path # "/" /\ q.path = "/" => q.method = "ANY",
         NEW method \in Methods, NEW path \in Paths
  PROVE  \E p \in ToSet(mux) :
           Decides(p, mux, method, path) /\ Lookup(mux, method, path) = p.handler
<1>1. \E p \in ToSet(mux) : Decides(p, mux, method, path)
  <2>1. method # "ANY"
    BY DEF Methods
  <2>2. ASSUME NEW p \in ToSet(mux), p.method = method, p.path = path
        PROVE  Decides(p, mux, method, path)
    BY <2>2 DEF Decides, Takes, Covers
  <2>3. ASSUME NEW p \in ToSet(mux), p.method = "ANY", p.path = path,
               ~ \E q \in ToSet(mux) : q.method = method /\ q.path = path
        PROVE  Decides(p, mux, method, path)
    <3>1. ASSUME NEW q \in ToSet(mux), Takes(q, method, path)
          PROVE  Covers(q, p)
      <4>1. q.path = path => q.method = "ANY"
        BY <2>3, <3>1 DEF Takes
      <4>2. q.path # path => q.path = "/" /\ path # "/"
        BY <3>1 DEF Takes
      <4>3. q.method = "ANY"
        BY <2>3, <4>1, <4>2
      <4> QED
        BY <2>3, <3>1, <4>3 DEF Takes, Covers
    <3> QED
      BY <2>3, <3>1 DEF Decides, Takes
  <2>4. ASSUME NEW p \in ToSet(mux), p.method = method, p.path = "/",
               ~ \E q \in ToSet(mux) : q.method \in {"ANY", method} /\ q.path = path
        PROVE  Decides(p, mux, method, path)
    BY <2>4 DEF Decides, Takes, Covers
  <2>5. ASSUME NEW p \in ToSet(mux), p.method = "ANY", p.path = "/",
               ~ \E q \in ToSet(mux) : q.method = method /\ q.path = "/",
               ~ \E q \in ToSet(mux) : q.method \in {"ANY", method} /\ q.path = path
        PROVE  Decides(p, mux, method, path)
    BY <2>5 DEF Decides, Takes, Covers
  <2> QED
    BY <2>2, <2>3, <2>4, <2>5
<1>2. Lookup(mux, method, path) = (CHOOSE p \in ToSet(mux) : Decides(p, mux, method, path)).handler
  BY DEF Lookup, Decides
<1> QED
  BY <1>1, <1>2

\* What the documentation of the servers asks of a handler: the probes answer
\* themselves, the document of its OAuth server too, its own handler answer no
\* other path, and a path that is served never missed.
HandlerOK(k, r, oauth, method, path) ==
  LET handler == Handler(k, r, oauth, method, path)
      own == IF k = "rest" THEN "application" ELSE IF k = "graphql" THEN "graphql" ELSE "transport"
      served == {r.path} \cup (IF k = "rest" THEN Probes ELSE {})
  IN /\ method = "GET" /\ path \in Probes => handler \in {"liveness", "readiness"}
     /\ k = "mcp" /\ oauth # "off" /\ method = "GET" /\ path = WellKnown => handler = "metadata"
     /\ handler = "liveness" => path = "/health"
     /\ handler = "readiness" => path = "/ready"
     /\ handler \in {"liveness", "readiness", "metadata", "graphiql", "method not allowed",
                     "not found", own}
     /\ handler = own => path = r.path \/ r.path = "/"
     /\ r.path # "/" => /\ handler = "method not allowed" => path \in served
                        /\ handler = "not found" => path \notin served

\* Lemma.  The router of the REST server does.
LEMMA RestHandlerOK ==
  ASSUME NEW r \in Routings("rest"), NEW oauth, NEW method \in Methods, NEW path \in Paths
  PROVE  HandlerOK("rest", r, oauth, method, path)
  BY DEF HandlerOK, Handler, RestHandler, Probes, Routings

\* Lemma.  The mux of a GraphQL server that did not panic does.
LEMMA GraphqlHandlerOK ==
  ASSUME NEW r \in Routings("graphql"), NEW oauth, NEW method \in Methods, NEW path \in Paths,
         r.path # "/", r.graphiql \notin Probes \cup {"/"}
  PROVE  HandlerOK("graphql", r, oauth, method, path)
<1> DEFINE mux == GraphqlMux(r)
           a == On("GET", "/health", "liveness")
           b == On("GET", "/ready", "readiness")
           c == On("POST", r.path, "graphql")
           d == On("OPTIONS", r.path, "graphql")
           e == On("ANY", r.path, "method not allowed")
           g == On("GET", r.graphiql, "graphiql")
           z == On("ANY", "/", "not found")
<1>1. /\ r.path \in {"/api", "/health", WellKnown}
      /\ r.graphiql \in {"off", "/graphiql", "/api"}
  BY DEF Routings, Probes
<1>2. ToSet(mux) = {a, b, c, d, e, z} \cup (IF r.graphiql = "off" THEN {} ELSE {g})
  BY GraphqlPatterns
<1>3. /\ a.method = "GET" /\ a.path = "/health" /\ a.handler = "liveness"
      /\ b.method = "GET" /\ b.path = "/ready" /\ b.handler = "readiness"
      /\ c.method = "POST" /\ c.path = r.path /\ c.handler = "graphql"
      /\ d.method = "OPTIONS" /\ d.path = r.path /\ d.handler = "graphql"
      /\ e.method = "ANY" /\ e.path = r.path /\ e.handler = "method not allowed"
      /\ g.method = "GET" /\ g.path = r.graphiql /\ g.handler = "graphiql"
      /\ z.method = "ANY" /\ z.path = "/" /\ z.handler = "not found"
  BY DEF On
<1> HIDE DEF mux, a, b, c, d, e, g, z
<1>4. \A p \in ToSet(mux) :
        \/ p.method = "GET" /\ p.path = "/health" /\ p.handler = "liveness"
        \/ p.method = "GET" /\ p.path = "/ready" /\ p.handler = "readiness"
        \/ p.method \in {"POST", "OPTIONS"} /\ p.path = r.path /\ p.handler = "graphql"
        \/ p.method = "ANY" /\ p.path = r.path /\ p.handler = "method not allowed"
        \/ p.method = "ANY" /\ p.path = "/" /\ p.handler = "not found"
        \/ p.method = "GET" /\ p.path = r.graphiql /\ p.path # "off" /\ p.handler = "graphiql"
  BY <1>2, <1>3
<1>5. /\ \E p \in ToSet(mux) : p.method = "GET" /\ p.path = "/health"
      /\ \E p \in ToSet(mux) : p.method = "GET" /\ p.path = "/ready"
      /\ \E p \in ToSet(mux) : p.method = "ANY" /\ p.path = r.path
      /\ \E p \in ToSet(mux) : p.method = "ANY" /\ p.path = "/"
  BY <1>2, <1>3
<1>6. \A p \in ToSet(mux) : IsPattern(p)
  BY <1>1, <1>4 DEF IsPattern, Methods, Paths, Probes, WellKnown
<1>7. PICK p \in ToSet(mux) : Decides(p, mux, method, path) /\ Lookup(mux, method, path) = p.handler
  <2>1. \A p, q \in ToSet(mux) :
           p.method = "ANY" /\ p.path # "/" /\ q.path = "/" => q.method = "ANY"
    BY <1>1, <1>4 DEF WellKnown
  <2> QED
    BY <1>5, <1>6, <2>1, SomePatternDecides
<1>8. Handler("graphql", r, oauth, method, path) = p.handler
  BY <1>7 DEF Handler, mux
<1>9. ASSUME method = "GET", path \in Probes PROVE p.method = "GET" /\ p.path = path
  BY <1>5, <1>7, <1>9 DEF Decides, Takes, Covers, Probes
<1>10. path = r.path => p.path = r.path
  BY <1>1, <1>5, <1>7 DEF Decides, Takes, Covers
<1> QED
  BY <1>1, <1>4, <1>7, <1>8, <1>9, <1>10 DEF HandlerOK, Decides, Takes, Probes, WellKnown

\* Lemma.  The mux of an MCP server that did not panic does.
LEMMA McpHandlerOK ==
  ASSUME NEW r \in Routings("mcp"), NEW oauth \in {"off", "gate", "compose"},
         NEW method \in Methods, NEW path \in Paths,
         r.path \notin Probes, oauth = "off" \/ r.path # WellKnown
  PROVE  HandlerOK("mcp", r, oauth, method, path)
<1> DEFINE mux == McpMux(r, oauth)
           a == On("GET", "/health", "liveness")
           b == On("GET", "/ready", "readiness")
           c == On("GET", r.path, "transport")
           d == On("POST", r.path, "transport")
           e == On("DELETE", r.path, "transport")
           m == On("ANY", r.path, "method not allowed")
           w == On("GET", WellKnown, "metadata")
           z == On("ANY", "/", "not found")
<1>1. r.path \in {"/api", "/", WellKnown}
  BY DEF Routings, Probes
<1>2. ToSet(mux) = {a, b, c, d, e, z} \cup (IF r.path = "/" THEN {} ELSE {m})
                                      \cup (IF oauth = "off" THEN {} ELSE {w})
  BY McpPatterns
<1>3. /\ a.method = "GET" /\ a.path = "/health" /\ a.handler = "liveness"
      /\ b.method = "GET" /\ b.path = "/ready" /\ b.handler = "readiness"
      /\ c.method = "GET" /\ c.path = r.path /\ c.handler = "transport"
      /\ d.method = "POST" /\ d.path = r.path /\ d.handler = "transport"
      /\ e.method = "DELETE" /\ e.path = r.path /\ e.handler = "transport"
      /\ m.method = "ANY" /\ m.path = r.path /\ m.handler = "method not allowed"
      /\ w.method = "GET" /\ w.path = WellKnown /\ w.handler = "metadata"
      /\ z.method = "ANY" /\ z.path = "/" /\ z.handler = "not found"
  BY DEF On
<1> HIDE DEF mux, a, b, c, d, e, m, w, z
<1>4. \A p \in ToSet(mux) :
        \/ p.method = "GET" /\ p.path = "/health" /\ p.handler = "liveness"
        \/ p.method = "GET" /\ p.path = "/ready" /\ p.handler = "readiness"
        \/ p.method \in {"GET", "POST", "DELETE"} /\ p.path = r.path /\ p.handler = "transport"
        \/ p.method = "ANY" /\ p.path = r.path /\ p.path # "/" /\ p.handler = "method not allowed"
        \/ p.method = "GET" /\ p.path = WellKnown /\ oauth # "off" /\ p.handler = "metadata"
        \/ p.method = "ANY" /\ p.path = "/" /\ p.handler = "not found"
  BY <1>2, <1>3
<1>5. /\ \E p \in ToSet(mux) : p.method = "GET" /\ p.path = "/health"
      /\ \E p \in ToSet(mux) : p.method = "GET" /\ p.path = "/ready"
      /\ r.path # "/" => \E p \in ToSet(mux) : p.method = "ANY" /\ p.path = r.path
      /\ oauth # "off" => \E p \in ToSet(mux) : p.method = "GET" /\ p.path = WellKnown
      /\ \E p \in ToSet(mux) : p.method = "ANY" /\ p.path = "/"
  BY <1>2, <1>3
<1>6. \A p \in ToSet(mux) : IsPattern(p)
  BY <1>1, <1>4 DEF IsPattern, Methods, Paths, Probes, WellKnown
<1>7. PICK p \in ToSet(mux) : Decides(p, mux, method, path) /\ Lookup(mux, method, path) = p.handler
  <2>1. \A p, q \in ToSet(mux) :
           p.method = "ANY" /\ p.path # "/" /\ q.path = "/" => q.method = "ANY"
    BY <1>1, <1>4 DEF WellKnown
  <2> QED
    BY <1>5, <1>6, <2>1, SomePatternDecides
<1>8. Handler("mcp", r, oauth, method, path) = p.handler
  BY <1>7 DEF Handler, mux
<1>9. ASSUME method = "GET", path \in Probes \/ (oauth # "off" /\ path = WellKnown)
      PROVE  p.method = "GET" /\ p.path = path
  BY <1>5, <1>7, <1>9 DEF Decides, Takes, Covers, Probes, WellKnown
<1>10. path = r.path /\ r.path # "/" => p.path = r.path
  BY <1>1, <1>5, <1>7 DEF Decides, Takes, Covers
<1> QED
  BY <1>1, <1>4, <1>7, <1>8, <1>9, <1>10 DEF HandlerOK, Decides, Takes, Probes, WellKnown

\* The routing of a server is one that may be configured until it is forgotten,
\* and a request is answered by who its path and its token lead to.
RouteInv ==
  /\ kind \in HttpServers /\ step \in {"register", "up"} /\ phase \in {"idle", "routed"} =>
       route \in Routings(kind)
  /\ phase = "routed" =>
       kind \in HttpServers /\ request \in RequestRecords /\ reached \in Reachable(request)

\* Lemma.  The steps that build a server or a client.
LEMMA StartupRouteInv ==
  ASSUME StartupInv, RouteInv, StartupNext, UNCHANGED requestVars
  PROVE  RouteInv'
<1>1. step # "up"
  BY DEF StartupNext, Sanitizes, ConnectsPostgres, ConnectsClickHouse, ConnectsValkey, ConnectsTemporal,
     ConnectsBucket, ConnectsHttpClient, BuildsWorker, BuildsRest, BuildsGraphql, BuildsMcp,
     Registers, ServiceMoves
<1>2. phase = "idle" /\ phase' = "idle"
  BY <1>1 DEF StartupInv, requestVars
<1>3. ASSUME step' \in {"register", "up"}, kind' \in HttpServers
      PROVE  route' \in Routings(kind')
  <2>1. CASE BuildsRest \/ BuildsGraphql \/ BuildsMcp
    BY <1>3, <2>1 DEF BuildsRest, BuildsGraphql, BuildsMcp, BuildsMux, Goes, Refuses
  <2>2. CASE Sanitizes
    BY <1>3, <2>2 DEF Sanitizes, Goes, Refuses
  <2>3. CASE Registers
    BY <1>2, <1>3, <2>3 DEF Registers, Refuses, RouteInv
  <2>4. CASE ServiceMoves
    BY <1>2, <1>3, <2>4 DEF ServiceMoves, RouteInv
  <2>5. CASE \/ ConnectsPostgres \/ ConnectsClickHouse \/ ConnectsValkey \/ ConnectsTemporal
             \/ ConnectsBucket \/ ConnectsHttpClient \/ BuildsWorker
    <3>1. kind \notin HttpServers
      BY <2>5 DEF ConnectsPostgres, ConnectsClickHouse, ConnectsValkey, ConnectsTemporal,
         ConnectsBucket, ConnectsHttpClient, BuildsWorker, HttpServers
    <3>2. kind' = kind
      BY <2>5 DEF ConnectsPostgres, ConnectsClickHouse, ConnectsValkey, ConnectsTemporal,
         ConnectsBucket, ConnectsHttpClient, BuildsWorker, DialClient, Dials, Goes, Refuses
    <3> QED
      BY <1>3, <3>1, <3>2
  <2> QED
    BY <2>1, <2>2, <2>3, <2>4, <2>5 DEF StartupNext
<1> QED
  BY <1>2, <1>3 DEF RouteInv

\* RouteInv holds in every reachable state.
THEOREM RouteInvariant == Spec => []RouteInv
<1>1. Init => RouteInv
  BY DEF Init, StartupInit, RequestsInit, RouteInv
<1>2. StartupInv /\ RouteInv /\ [Next]_vars => RouteInv'
  <2> SUFFICES ASSUME StartupInv, RouteInv, [Next]_vars PROVE RouteInv'
    OBVIOUS
  <2>1. ASSUME NEW r \in RequestRecords, Arrives(r) PROVE RouteInv'
    <3>1. /\ phase = "idle" /\ phase' = "routed" /\ step = "up" /\ kind \in HttpServers
          /\ request' = r /\ reached' \in Reachable(r) /\ UNCHANGED startupVars
      BY <2>1 DEF Arrives
    <3>2. Reachable(r)' = Reachable(r)
      BY <3>1 DEF startupVars, Reachable, OAuth
    <3> QED
      BY <3>1, <3>2 DEF RouteInv, startupVars
  <2>2. CASE Succeeds
    BY <2>2 DEF Succeeds, RouteInv, startupVars
  <2>3. ASSUME phase' \notin {"idle", "routed"} PROVE RouteInv'
    BY <2>3 DEF RouteInv
  <2>4. CASE UNCHANGED <<startupVars, requestVars>>
    BY <2>4 DEF startupVars, requestVars, RouteInv, Reachable, OAuth
  <2>5. CASE RequestsNext
    <3>1. ASSUME NEW p \in Preferences, Matches(p) PROVE RouteInv'
      BY <2>3, <3>1 DEF Matches
    <3>2. CASE LooksUp
      BY <2>3, <3>2 DEF LooksUp
    <3>3. ASSUME NEW lang, NEW texts, NEW blanks, AddOrEditLanguage(lang, texts, blanks) PROVE RouteInv'
      BY <2>3, <3>3 DEF AddOrEditLanguage
    <3> QED
      BY <2>1, <2>2, <2>5, <3>1, <3>2, <3>3 DEF RequestsNext
  <2> QED
    BY <2>4, <2>5, StartupRouteInv, CallsKeepStartup DEF Next, vars
<1> QED
  BY <1>1, <1>2, StartupInvariant, PTL DEF Spec

\* A request reaches the handler its path is documented to lead to: the probes
\* whatever the middleware and the token, the transport of a gated MCP server
\* only with a token, whatever the routing that is configured (graphql.go,
\* mcp.go, rest.go).
THEOREM RoutesAreAsDocumented == Spec => []RoutedAsDocumented
<1>1. StartupInv /\ RouteInv => RoutedAsDocumented
  <2> SUFFICES ASSUME StartupInv, RouteInv, phase = "routed" PROVE RoutedAsDocumented
    BY DEF RoutedAsDocumented
  <2> DEFINE handler == Handler(kind, route, OAuth, request.method, request.path)
             inner == IF handler = "transport" /\ OAuth = "gate" THEN Bearer(request, handler) ELSE handler
             bypass == Bypass(kind, OAuth, request.path)
  <2>1. /\ kind \in HttpServers /\ step = "up" /\ route \in Routings(kind) /\ ~Doubled
        /\ request.method \in Methods /\ request.path \in Paths /\ request.token \in BOOLEAN
        /\ reached \in Reachable(request)
    BY DEF StartupInv, RouteInv, RequestRecords
  <2>2. OAuth = "off" \/ kind = "mcp"
    BY DEF OAuth
  <2>3. HandlerOK(kind, route, OAuth, request.method, request.path)
    <3>1. CASE kind = "rest"
      BY <2>1, <3>1, RestHandlerOK
    <3>2. CASE kind = "graphql"
      BY <2>1, <3>2, GraphqlHandlerOK DEF Doubled
    <3>3. CASE kind = "mcp"
      <4>1. OAuth \in {"off", "gate", "compose"} /\ OAuth = config.oauth
        BY <3>3 DEF OAuth, StartupInv, Configs, McpConfigs
      <4> QED
        BY <2>1, <3>3, <4>1, McpHandlerOK DEF Doubled
    <3> QED
      BY <2>1, <3>1, <3>2, <3>3 DEF HttpServers
  <2>4. \/ reached = inner /\ (route.middleware = "bearer" => bypass)
        \/ ~bypass /\ route.middleware = "bearer" /\ reached = Bearer(request, inner)
        \/ ~bypass /\ reached = "denied"
    <3>1. CASE bypass \/ route.middleware = "none"
      BY <2>1, <3>1 DEF Reachable
    <3>2. CASE ~bypass /\ route.middleware = "bearer"
      BY <2>1, <3>2 DEF Reachable
    <3>3. CASE ~bypass /\ route.middleware \notin {"none", "bearer"}
      BY <2>1, <3>3 DEF Reachable
    <3> QED
      BY <3>1, <3>2, <3>3
  <2>5. /\ inner # handler => handler = "transport" /\ OAuth = "gate" /\ inner = "unauthorized"
        /\ OAuth = "gate" /\ ~request.token => inner # "transport"
        /\ Bearer(request, inner) = (IF request.token THEN inner ELSE "unauthorized")
    BY DEF Bearer
  <2> DEFINE own == IF kind = "rest" THEN "application" ELSE IF kind = "graphql" THEN "graphql" ELSE "transport"
             public == request.method = "GET" /\ (request.path \in Probes \/ (OAuth # "off" /\ request.path = WellKnown))
             served == {route.path} \cup (IF kind = "rest" THEN Probes ELSE {})
  <2>6. public => bypass /\ handler \in {"liveness", "readiness", "metadata"}
    BY <2>2, <2>3 DEF Bypass, HandlerOK
  <2>7. /\ handler = "liveness" => request.path = "/health"
        /\ handler = "readiness" => request.path = "/ready"
        /\ handler \notin {"none", "unauthorized", "denied"}
        /\ handler = "transport" => kind = "mcp"
        /\ handler = own => request.path = route.path \/ route.path = "/"
        /\ route.path # "/" =>
             /\ handler = "method not allowed" => request.path \in served
             /\ handler = "not found" => request.path \notin served
    BY <2>1, <2>3 DEF HandlerOK, HttpServers
  <2> HIDE DEF handler, inner, bypass
  <2>8. public => reached \in {"liveness", "readiness", "metadata"}
    BY <2>4, <2>5, <2>6
  <2>9. reached \notin {"unauthorized", "denied"} => reached = handler
    BY <2>4, <2>5
  <2>10. reached = "transport" /\ ~request.token =>
           OAuth # "gate" /\ (route.middleware = "bearer" => bypass)
    BY <2>4, <2>5
  <2> QED
    BY <2>7, <2>8, <2>9, <2>10 DEF RoutedAsDocumented, bypass
<1> QED
  BY <1>1, StartupInvariant, RouteInvariant, PTL

-----------------------------------------------------------------------------
(* Transactions *)

\* The data of a session, and which fields it has.
Session == [state : {"idle", "open", "aborted", "lost"}, written : SUBSET Handles,
            mark : SUBSET Handles, durable : SUBSET Handles]

Rows == believed["outer"] \cup believed["nested"]

SessionOK ==
  /\ server \in Session
  /\ wraps \in [Handles -> {"none", "transaction", "savepoint"}]
  /\ believed \in [Handles -> SUBSET Handles]
  /\ \A h \in Handles : believed[h] \subseteq {h}
  /\ wraps["outer"] \in {"none", "transaction"}
  /\ wraps["nested"] \in {"none", "savepoint"}
  /\ told \in {"none", "open", "committed", "rolled back", "unknown"}

\* There is a Tx once the caller was told so, and the one of the driver takes
\* statements until the caller was told what became of it.
ToldOfTx ==
  /\ wraps["outer"] = "none" <=> told = "none"
  /\ wraps["outer"] = "none" => wraps["nested"] = "none" /\ server.written = {}
  /\ wraps["nested"] = "none" => believed["nested"] = {}
  /\ told = "none" => Rows = {} /\ closed = {}
  /\ wraps["nested"] = "none" => "savepoint" \notin closed
  /\ "transaction" \in closed <=> told \notin {"none", "open"}

\* Until then the rows written are those the caller was told of, but for the
\* doubtful ones, and the savepoint marks the ones of the outer Tx.
WrittenIsTold ==
  told \in {"none", "open"} =>
    /\ Rows \ doubtful \subseteq server.written /\ server.written \subseteq Rows
    /\ wraps["nested"] = "savepoint" /\ "savepoint" \notin closed =>
         /\ believed["outer"] \ doubtful \subseteq server.mark
         /\ server.mark \subseteq believed["outer"]

TxInv == SessionOK /\ ToldOfTx /\ WrittenIsTold /\ CommittedStays


\* Two sessions with the same rows.
SameRows(s, t) == t.written = s.written /\ t.mark = s.mark /\ t.durable = s.durable

\* Lemma.  A session that breaks, commits or rolls back is one again.
LEMMA SessionUpdates ==
  ASSUME NEW s \in Session
  PROVE  /\ Lost(s) \in Session /\ SameRows(s, Lost(s))
         /\ Committed(s) \in Session /\ Committed(s).durable = s.written
         /\ RolledBack(s) \in Session /\ RolledBack(s).durable = s.durable
         /\ [s EXCEPT !.state = "aborted"] \in Session
         /\ SameRows(s, [s EXCEPT !.state = "aborted"])
<1>1. Lost(s) \in Session /\ SameRows(s, Lost(s))
  BY DEF Lost, Session, SameRows
<1>2. Committed(s) \in Session /\ Committed(s).durable = s.written
  BY DEF Committed, Session
<1>3. RolledBack(s) \in Session /\ RolledBack(s).durable = s.durable
  BY DEF RolledBack, Session
<1>4. /\ [s EXCEPT !.state = "aborted"] \in Session
      /\ SameRows(s, [s EXCEPT !.state = "aborted"])
  BY DEF Session, SameRows
<1> QED
  BY <1>1, <1>2, <1>3, <1>4

\* Lemma.  A connection that breaks takes no row with it.
LEMMA BrokenKeepsRows ==
  ASSUME NEW s \in Session, NEW reply \in Broken(s)
  PROVE  reply[2] = TRUE /\ reply[1] \in Session /\ SameRows(s, reply[1])
<1>1. CASE reply = <<s, TRUE>>
  BY <1>1 DEF SameRows
<1>2. CASE reply = <<Lost(s), TRUE>>
  BY <1>2, SessionUpdates
<1> QED
  BY <1>1, <1>2, Zenon DEF Broken

\* Lemma.  A statement is done, or it is refused and changes no row.
LEMMA StatementReplies ==
  ASSUME NEW s \in Session, NEW done \in Session, NEW reply \in Statement(s, done)
  PROVE  /\ reply[1] \in Session /\ reply[2] \in BOOLEAN
         /\ ~reply[2] => reply[1] = done
         /\ reply[2] => SameRows(s, reply[1])
<1>1. CASE reply \in Broken(s)
  BY <1>1, BrokenKeepsRows
<1>2. CASE reply = <<done, FALSE>>
  BY <1>2
<1>3. CASE reply = <<[s EXCEPT !.state = "aborted"], TRUE>>
  BY <1>3, SessionUpdates
<1> QED
  BY <1>1, <1>2, <1>3, Zenon DEF Statement

\* Lemma.  ROLLBACK TO SAVEPOINT leaves the rows of the mark.
LEMMA RollbackToReplies ==
  ASSUME NEW s \in Session, NEW reply \in RollbackTo(s)
  PROVE  /\ reply[1] \in Session /\ reply[2] \in BOOLEAN
         /\ ~reply[2] => /\ reply[1].written = s.mark /\ reply[1].mark = s.mark
                         /\ reply[1].durable = s.durable
         /\ reply[2] => SameRows(s, reply[1])
<1> DEFINE back == [s EXCEPT !.state = "open", !.written = s.mark]
<1>1. CASE reply \in Broken(s)
  BY <1>1, BrokenKeepsRows
<1>2. CASE reply = <<back, FALSE>>
  <2>1. /\ back \in Session /\ back.written = s.mark /\ back.mark = s.mark
        /\ back.durable = s.durable
    BY DEF Session
  <2> QED
    BY <1>2, <2>1
<1> QED
  BY <1>1, <1>2, Zenon DEF RollbackTo

\* Lemma.  COMMIT makes durable what was written, or nothing.
LEMMA CommitReplies ==
  ASSUME NEW s \in Session, NEW reply \in CommitAll(s)
  PROVE  /\ reply[1] \in Session /\ reply[2] \in BOOLEAN
         /\ ~reply[2] => reply[1].durable = s.written
         /\ reply[1].durable \in {s.durable, s.written}
<1>1. CASE reply = <<Lost(s), TRUE>>
  BY <1>1, SessionUpdates DEF SameRows
<1>2. CASE reply = <<RolledBack(s), TRUE>>
  BY <1>2, SessionUpdates
<1>3. CASE reply = <<Committed(s), FALSE>>
  BY <1>3, SessionUpdates
<1>4. CASE reply = <<Lost(Committed(s)), TRUE>>
  <2>1. Lost(Committed(s)) \in Session /\ SameRows(Committed(s), Lost(Committed(s)))
    BY SessionUpdates
  <2> QED
    BY <1>4, <2>1, SessionUpdates DEF SameRows
<1> QED
  BY <1>1, <1>2, <1>3, <1>4, Zenon DEF CommitAll

\* Lemma.  ROLLBACK makes nothing durable.
LEMMA RollbackReplies ==
  ASSUME NEW s \in Session, NEW reply \in RollbackAll(s)
  PROVE  /\ reply[1] \in Session /\ reply[2] \in BOOLEAN
         /\ reply[1].durable = s.durable
<1>1. CASE reply = <<Lost(s), TRUE>>
  BY <1>1, SessionUpdates DEF SameRows
<1>2. CASE reply = <<RolledBack(s), FALSE>>
  BY <1>2, SessionUpdates
<1> QED
  BY <1>1, <1>2, Zenon DEF RollbackAll

\* Lemma.  A transaction that is over sends nothing.
LEMMA ThroughReplies ==
  ASSUME NEW tx, NEW replies, NEW reply \in Through(tx, replies)
  PROVE  \/ Open(tx) /\ reply \in replies
         \/ ~Open(tx) /\ reply[1] = server /\ reply[2] = TRUE
<1>1. CASE Open(tx)
  BY <1>1 DEF Through
<1>2. CASE ~Open(tx)
  <2>1. reply = <<server, TRUE>>
    BY <1>2 DEF Through
  <2> QED
    BY <1>2, <2>1
<1> QED
  BY <1>1, <1>2

\* Lemma.  A call that changes no row and ends no Tx keeps the invariant.
LEMMA TxInvKept ==
  ASSUME TxInv, server' \in Session, SameRows(server, server'),
         UNCHANGED <<wraps, closed, believed, doubtful, told>>
  PROVE  TxInv'
  BY DEF TxInv, SessionOK, ToldOfTx, WrittenIsTold, CommittedStays, Rows, SameRows

\* Lemma.  The statements that only read.
LEMMA AsksTxInv ==
  ASSUME TxInv, NEW h \in Handles, NEW tells, Asks(h, tells)
  PROVE  TxInv'
<1>1. PICK reply \in Through(wraps[h], Statement(server, server)) : server' = reply[1]
  BY DEF Asks
<1>2. server \in Session
  BY DEF TxInv, SessionOK
<1>3. server' \in Session /\ SameRows(server, server')
  <2>1. CASE reply \in Statement(server, server)
    BY <1>1, <1>2, <2>1, StatementReplies DEF SameRows
  <2>2. CASE reply[1] = server
    BY <1>1, <1>2, <2>2 DEF SameRows
  <2> QED
    BY <2>1, <2>2, ThroughReplies
<1> QED
  BY <1>3, TxInvKept DEF Asks, TxUnchanged

\* Lemma.  BeginTx opens the outer Tx, or the caller has none.
LEMMA BeginTxTxInv ==
  ASSUME TxInv, BeginTx
  PROVE  TxInv'
<1>1. CASE UNCHANGED <<server, wraps, told>>
  BY <1>1, TxInvKept DEF BeginTx, SameRows, TxInv, SessionOK
<1>2. CASE /\ server' = [server EXCEPT !.state = "open"]
           /\ wraps' = [wraps EXCEPT !["outer"] = "transaction"]
           /\ told' = "open"
  <2>1. server' \in Session /\ SameRows(server, server')
    BY <1>2 DEF TxInv, SessionOK, Session, SameRows
  <2>2. /\ wraps' \in [Handles -> {"none", "transaction", "savepoint"}]
        /\ wraps'["outer"] = "transaction" /\ wraps'["nested"] = wraps["nested"]
    BY <1>2 DEF TxInv, SessionOK, Handles
  <2>3. UNCHANGED <<closed, believed, doubtful>> /\ told = "none"
    BY DEF BeginTx
  <2> QED
    BY <1>2, <2>1, <2>2, <2>3
    DEF TxInv, SessionOK, ToldOfTx, WrittenIsTold, CommittedStays, Rows, SameRows
<1> QED
  BY <1>1, <1>2 DEF BeginTx

\* Lemma.  SAVEPOINT marks the rows that the outer Tx was told of.
LEMMA BeginTxInv ==
  ASSUME TxInv, Begin
  PROVE  TxInv'
<1> DEFINE done == [server EXCEPT !.mark = server.written]
<1>1. PICK reply \in Through("transaction", Statement(server, done)) :
        /\ server' = reply[1]
        /\ wraps' = IF reply[2] THEN wraps
                    ELSE [wraps EXCEPT !["nested"] = Subtransaction(wraps["outer"])]
  BY DEF Begin
<1>2. server \in Session /\ UNCHANGED <<closed, believed, doubtful, told>>
  BY DEF TxInv, SessionOK, Begin
<1>3. /\ done \in Session /\ done.written = server.written /\ done.mark = server.written
      /\ done.durable = server.durable
  BY <1>2 DEF Session
<1>4. CASE reply[2]
  <2>1. server' \in Session /\ SameRows(server, server')
    <3>1. CASE reply \in Statement(server, done)
      BY <1>1, <1>2, <1>3, <1>4, <3>1, StatementReplies
    <3>2. CASE reply[1] = server
      BY <1>1, <1>2, <3>2 DEF SameRows
    <3> QED
      BY <3>1, <3>2, ThroughReplies
  <2> QED
    BY <1>1, <1>2, <1>4, <2>1, TxInvKept
<1>5. CASE ~reply[2]
  <2>1. Open("transaction") /\ server' = done
    <3>1. reply \in Statement(server, done) /\ Open("transaction")
      BY <1>5, ThroughReplies
    <3> QED
      BY <1>1, <1>2, <1>3, <1>5, <3>1, StatementReplies
  <2>2. /\ wraps' \in [Handles -> {"none", "transaction", "savepoint"}]
        /\ wraps'["outer"] = wraps["outer"] /\ wraps'["nested"] = "savepoint"
    BY <1>1, <1>5 DEF TxInv, SessionOK, Handles, Subtransaction
  <2>3. wraps["outer"] # "none" /\ wraps["nested"] = "none"
    BY DEF Begin
  <2>4. told = "open"
    BY <2>1, <2>3 DEF Open, TxInv, SessionOK, ToldOfTx
  <2> HIDE DEF done
  <2> QED
    BY <1>2, <1>3, <2>1, <2>2, <2>3, <2>4
    DEF TxInv, SessionOK, ToldOfTx, WrittenIsTold, CommittedStays, Rows
<1> QED
  BY <1>4, <1>5

\* Lemma.  A row is told written once the server has written it.
LEMMA TxExecTxInv ==
  ASSUME TxInv, NEW h \in Handles, TxExec(h)
  PROVE  TxInv'
<1> DEFINE done == [server EXCEPT !.written = @ \cup {h}]
<1>1. PICK reply \in Through(wraps[h], Statement(server, done)) :
        /\ server' = reply[1]
        /\ believed' = IF reply[2] THEN believed ELSE [believed EXCEPT ![h] = {h}]
  BY DEF TxExec
<1>2. server \in Session /\ UNCHANGED <<wraps, closed, doubtful, told>>
  BY DEF TxInv, SessionOK, TxExec
<1>3. /\ done \in Session /\ done.written = server.written \cup {h}
      /\ done.mark = server.mark /\ done.durable = server.durable
  BY <1>2 DEF Session
<1>4. CASE reply[2]
  <2>1. server' \in Session /\ SameRows(server, server')
    <3>1. CASE reply \in Statement(server, done)
      BY <1>1, <1>2, <1>3, <1>4, <3>1, StatementReplies
    <3>2. CASE reply[1] = server
      BY <1>1, <1>2, <3>2 DEF SameRows
    <3> QED
      BY <3>1, <3>2, ThroughReplies
  <2> QED
    BY <1>1, <1>2, <1>4, <2>1, TxInvKept
<1>5. CASE ~reply[2]
  <2>1. Open(wraps[h]) /\ server' = done
    <3>1. reply \in Statement(server, done) /\ Open(wraps[h])
      BY <1>5, ThroughReplies
    <3> QED
      BY <1>1, <1>2, <1>3, <1>5, <3>1, StatementReplies
  <2>2. told = "open"
    BY <2>1 DEF Open, TxExec, Innermost, TxInv, SessionOK, ToldOfTx, Handles
  <2>3. /\ believed' \in [Handles -> SUBSET Handles]
        /\ believed'[h] = {h} /\ \A k \in Handles \ {h} : believed'[k] = believed[k]
    BY <1>1, <1>5 DEF TxInv, SessionOK
  <2>4. /\ server' \in Session /\ server'.written = server.written \cup {h}
        /\ server'.mark = server.mark /\ server'.durable = server.durable
    BY <1>3, <2>1
  <2> HIDE DEF done
  <2>5. wraps["outer"] # "none" /\ wraps[h] # "none"
    BY <2>2 DEF TxExec, Innermost, TxInv, ToldOfTx
  <2>6. SessionOK' /\ ToldOfTx'
    BY <1>2, <2>2, <2>3, <2>4, <2>5 DEF TxInv, SessionOK, ToldOfTx, Rows, Handles
  <2>7. Rows' = Rows \cup {h}
    <3>1. CASE h = "outer"
      BY <2>3, <3>1 DEF Rows, Handles, TxInv, SessionOK
    <3>2. CASE h = "nested"
      BY <2>3, <3>2 DEF Rows, Handles, TxInv, SessionOK
    <3> QED
      BY <3>1, <3>2 DEF Handles
  <2>8. WrittenIsTold'
    BY <1>2, <2>2, <2>3, <2>4, <2>7 DEF TxExec, Innermost, TxInv, SessionOK, WrittenIsTold, Handles
  <2>9. CommittedStays'
    BY <1>2, <2>2, <2>4 DEF TxInv, CommittedStays
  <2> QED
    BY <2>6, <2>8, <2>9 DEF TxInv
<1> QED
  BY <1>4, <1>5

\* Lemma.  A nested Tx that ends leaves the outer one as it was told.
LEMMA NestedEnds ==
  ASSUME TxInv, NEW reply, NEW outcome, Ends("nested", reply, outcome),
         reply[1] \in Session,
         \/ SameRows(server, reply[1]) /\ believed' = believed
         \/ /\ "savepoint" \notin closed /\ "transaction" \notin closed
            /\ reply[1].written = server.mark /\ reply[1].durable = server.durable
            /\ believed' = [believed EXCEPT !["nested"] = {}]
  PROVE  TxInv'
<1>1. /\ wraps["nested"] = "savepoint" /\ wraps' = wraps /\ told' = told
      /\ closed' = closed \cup {"savepoint"} /\ server' = reply[1]
      /\ doubtful \subseteq doubtful'
  BY DEF Ends, TxInv, SessionOK
<1>2. told # "none" /\ wraps["outer"] = "transaction"
  BY <1>1 DEF TxInv, SessionOK, ToldOfTx
<1>3. CASE SameRows(server, reply[1]) /\ believed' = believed
  BY <1>1, <1>2, <1>3
  DEF TxInv, SessionOK, ToldOfTx, WrittenIsTold, CommittedStays, Rows, SameRows
<1>4. CASE /\ "savepoint" \notin closed /\ "transaction" \notin closed
           /\ reply[1].written = server.mark /\ reply[1].durable = server.durable
           /\ believed' = [believed EXCEPT !["nested"] = {}]
  <2>1. told = "open"
    BY <1>2, <1>4 DEF TxInv, ToldOfTx
  <2>2. /\ believed' \in [Handles -> SUBSET Handles]
        /\ believed'["nested"] = {} /\ believed'["outer"] = believed["outer"]
    BY <1>4 DEF TxInv, SessionOK, Handles
  <2> QED
    BY <1>1, <1>2, <1>4, <2>1, <2>2
    DEF TxInv, SessionOK, ToldOfTx, WrittenIsTold, CommittedStays, Rows
<1> QED
  BY <1>3, <1>4

\* Lemma.  Commit of either Tx.
LEMMA CommitTxInv ==
  ASSUME TxInv, NEW h \in Handles, Commit(h)
  PROVE  TxInv'
<1>1. PICK reply \in Through(wraps[h], IF wraps[h] = "savepoint" THEN Release(server) ELSE CommitAll(server)) :
        Ends(h, reply, "committed")
  BY DEF Commit
<1>2. server \in Session /\ believed' = believed /\ SameRows(server, server)
  BY DEF TxInv, SessionOK, Commit, SameRows
<1>3. CASE h = "nested"
  <2>1. wraps[h] = "savepoint"
    BY <1>1, <1>3 DEF Ends, TxInv, SessionOK
  <2>2. reply[1] \in Session /\ SameRows(server, reply[1])
    <3>1. CASE reply \in Statement(server, server)
      BY <1>2, <3>1, StatementReplies
    <3>2. CASE reply[1] = server
      BY <1>2, <3>2
    <3> QED
      BY <2>1, <3>1, <3>2, ThroughReplies DEF Release
  <2> QED
    BY <1>1, <1>2, <1>3, <2>2, NestedEnds
<1>4. CASE h = "outer"
  <2>1. /\ wraps[h] = "transaction" /\ server' = reply[1] /\ wraps' = wraps
        /\ closed' = closed \cup {"transaction"} /\ doubtful \subseteq doubtful'
    BY <1>1, <1>4 DEF Ends, TxInv, SessionOK
  <2>2. CASE Open("transaction") /\ reply \in CommitAll(server)
    <3>1. told = "open"
      BY <2>1, <2>2, <1>4 DEF Open, TxInv, SessionOK, ToldOfTx
    <3>2. told' = IF reply[2] THEN "unknown" ELSE "committed"
      BY <1>1, <1>4, <3>1 DEF Ends
    <3> QED
      BY <1>2, <1>4, <2>1, <2>2, <3>1, <3>2, CommitReplies
      DEF TxInv, SessionOK, ToldOfTx, WrittenIsTold, CommittedStays, Rows
  <2>3. CASE ~Open("transaction") /\ server' = server
    <3>1. told \notin {"none", "open"}
      BY <2>3 DEF Open, TxInv, ToldOfTx
    <3>2. told' = told
      BY <1>1, <1>4, <3>1 DEF Ends
    <3> QED
      BY <1>2, <2>1, <2>3, <3>1, <3>2
      DEF TxInv, SessionOK, ToldOfTx, WrittenIsTold, CommittedStays, Rows
  <2> QED
    BY <2>1, <2>2, <2>3, ThroughReplies
<1> QED
  BY <1>3, <1>4 DEF Handles

\* Lemma.  Rollback of either Tx, also the deferred one.
LEMMA RollbackTxInv ==
  ASSUME TxInv, NEW h \in Handles, Rollback(h)
  PROVE  TxInv'
<1>1. PICK reply \in Through(wraps[h], IF wraps[h] = "savepoint" THEN RollbackTo(server) ELSE RollbackAll(server)) :
        /\ Ends(h, reply, "rolled back")
        /\ believed' = IF reply[2] THEN believed ELSE [believed EXCEPT ![h] = {}]
  BY DEF Rollback
<1>2. server \in Session /\ SameRows(server, server)
  BY DEF TxInv, SessionOK, SameRows
<1>3. CASE h = "nested"
  <2>1. wraps[h] = "savepoint"
    BY <1>1, <1>3 DEF Ends, TxInv, SessionOK
  <2>2. CASE Open("savepoint") /\ reply \in RollbackTo(server)
    BY <1>1, <1>2, <1>3, <2>2, RollbackToReplies, NestedEnds DEF Open
  <2>3. CASE reply[1] = server /\ reply[2] = TRUE
    BY <1>1, <1>2, <1>3, <2>3, NestedEnds
  <2> QED
    BY <2>1, <2>2, <2>3, ThroughReplies
<1>4. CASE h = "outer"
  <2>1. /\ wraps[h] = "transaction" /\ server' = reply[1] /\ wraps' = wraps
        /\ closed' = closed \cup {"transaction"} /\ doubtful \subseteq doubtful'
    BY <1>1, <1>4 DEF Ends, TxInv, SessionOK
  <2>2. CASE Open("transaction") /\ reply \in RollbackAll(server)
    <3>1. told = "open"
      BY <2>1, <2>2, <1>4 DEF Open, TxInv, SessionOK, ToldOfTx
    <3>2. told' = IF reply[2] THEN "unknown" ELSE "rolled back"
      BY <1>1, <1>4, <3>1 DEF Ends
    <3>3. /\ believed' \in [Handles -> SUBSET Handles]
          /\ believed'["nested"] = believed["nested"]
          /\ \A k \in Handles : believed'[k] \subseteq {k}
      BY <1>1, <1>4 DEF TxInv, SessionOK, Handles
    <3>4. server' \in Session /\ server'.durable = {}
      BY <1>2, <2>1, <2>2, <3>1, RollbackReplies DEF TxInv, CommittedStays
    <3> QED
      BY <2>1, <3>1, <3>2, <3>3, <3>4
      DEF TxInv, SessionOK, ToldOfTx, WrittenIsTold, CommittedStays, Rows
  <2>3. CASE ~Open("transaction") /\ server' = server /\ reply[2] = TRUE
    <3>1. told \notin {"none", "open"}
      BY <2>3 DEF Open, TxInv, ToldOfTx
    <3>2. told' = told /\ believed' = believed
      BY <1>1, <1>4, <2>3, <3>1 DEF Ends
    <3> QED
      BY <1>2, <2>1, <2>3, <3>1, <3>2
      DEF TxInv, SessionOK, ToldOfTx, WrittenIsTold, CommittedStays, Rows
  <2> QED
    BY <2>1, <2>2, <2>3, ThroughReplies
<1> QED
  BY <1>3, <1>4 DEF Handles

\* Lemma.  The calls of the other clients leave the transaction alone.
LEMMA TxInvFrame ==
  ASSUME TxInv, UNCHANGED postgresVars
  PROVE  TxInv'
  BY DEF TxInv, SessionOK, ToldOfTx, WrittenIsTold, CommittedStays, Rows, postgresVars

\* TxInv holds in every reachable state.
THEOREM TransactionInvariant == Spec => []TxInv
<1>1. Init => TxInv
  BY DEF Init, DatabasesInit, TxInv, SessionOK, ToldOfTx, WrittenIsTold, CommittedStays,
     Rows, NoSession, Session, Handles
<1>2. TxInv /\ [Next]_vars => TxInv'
  <2> SUFFICES ASSUME TxInv, [Next]_vars PROVE TxInv'
    OBVIOUS
  <2>1. CASE DatabasesNext
    <3>1. CASE BeginTx \/ Begin
      BY <3>1, BeginTxTxInv, BeginTxInv
    <3>2. ASSUME NEW h \in Handles,
                 Commit(h) \/ Rollback(h) \/ TxExec(h) \/ TxPrepare(h) \/ TxQuery(h) \/ TxQueryRow(h)
          PROVE  TxInv'
      BY <3>2, CommitTxInv, RollbackTxInv, TxExecTxInv, AsksTxInv
      DEF TxPrepare, TxQuery, TxQueryRow
    <3>3. CASE NewBatchInsert \/ AppendStruct \/ Send
      BY <3>3, TxInvFrame DEF NewBatchInsert, AppendStruct, Send
    <3>4. ASSUME NEW g \in Goroutines, LoadsOrStores(g)
          PROVE  TxInv'
      BY <3>4, TxInvFrame DEF LoadsOrStores
    <3>5. ASSUME NEW g \in Goroutines, NEW t \in StructTypes, NEW shape, AsyncInsertStruct(g, t, shape)
          PROVE  TxInv'
      BY <3>5, TxInvFrame DEF AsyncInsertStruct
    <3>6. CASE Exec \/ Query \/ QueryRow \/ Select \/ Read \/ Write \/ Delete \/ Exists
      BY <3>6, TxInvFrame
      DEF Exec, Query, QueryRow, Select, Read, Write, Delete, Exists, OneRequest
    <3> QED
      BY <2>1, <3>1, <3>2, <3>3, <3>4, <3>5, <3>6 DEF DatabasesNext
  <2>2. CASE UNCHANGED postgresVars
    BY <2>2, TxInvFrame
  <2> QED
    BY <2>1, <2>2 DEF Next, vars, databaseVars
<1> QED
  BY <1>1, <1>2, PTL DEF Spec

\* Nothing a caller was told of a transaction is taken back: what it was told
\* committed is durable and nothing else, whatever the server refuses, whenever
\* the connection breaks and whatever is called after it (transaction.go).
THEOREM TransactionsAreTold == Spec => []CommittedStays
  BY TransactionInvariant, PTL DEF TxInv

-----------------------------------------------------------------------------
(* Spans *)

\* The span of a call that is over, and the parent span of a batch: both latches
\* are set by the first error, and decide the status when the span ends.
SpanInv ==
  /\ last \in {Traced(TRUE), Traced(FALSE)}
  /\ batch \in [state : {"none", "open", "sent", "dropped"}, failed : BOOLEAN, parent : SpanRecords]
  /\ batch.parent.ended <=> batch.state = "sent"
  /\ ~batch.parent.ended =>
       /\ batch.parent.outer = batch.failed /\ batch.parent.inner = batch.failed
       /\ batch.parent.status = (IF batch.failed THEN "error" ELSE "unset")
  /\ batch.parent.ended => batch.parent.status = (IF batch.failed THEN "error" ELSE "ok")

\* Lemma.  A span that started and ended has the status of its error.
LEMMA TracedOutcome ==
  ASSUME NEW error \in BOOLEAN
  PROVE  /\ Traced(error).error = error
         /\ Traced(error).span.ended = TRUE
         /\ Traced(error).span.status = (IF error THEN "error" ELSE "ok")
  BY DEF Traced, End, RecordError, StatusEnd, StatusSetStatus, SdkSetStatus, Started

\* Lemma.  RecordError sets both latches, and the status unless the span is over.
LEMMA RecordErrorEffect ==
  ASSUME NEW s \in SpanRecords, s.status # "ok" \/ s.ended
  PROVE  /\ RecordError(s) \in SpanRecords
         /\ RecordError(s).ended = s.ended
         /\ RecordError(s).inner = TRUE /\ RecordError(s).outer = TRUE
         /\ RecordError(s).status = (IF s.ended THEN s.status ELSE "error")
  BY DEF RecordError, StatusSetStatus, SdkSetStatus, SpanRecords

\* Lemma.  End settles the status by the latches, unless the span is over.
LEMMA EndEffect ==
  ASSUME NEW s \in SpanRecords, s.ended \/ (s.inner = s.outer /\ s.status # "ok")
  PROVE  /\ End(s) \in SpanRecords
         /\ End(s).ended = TRUE
         /\ End(s).status = (IF s.ended \/ s.outer THEN s.status ELSE "ok")
  BY DEF End, StatusEnd, StatusSetStatus, SdkSetStatus, SpanRecords

\* Lemma.  Whether a statement of a transaction returned an error.
LEMMA TxReplyTells ==
  ASSUME server \in Session, NEW tx, NEW done \in Session, NEW replies,
         replies \in {Statement(server, done), RollbackTo(server), CommitAll(server), RollbackAll(server)},
         NEW reply \in Through(tx, replies)
  PROVE  reply[2] \in BOOLEAN
<1>1. CASE reply \in Statement(server, done)
  BY <1>1, StatementReplies
<1>2. CASE reply \in RollbackTo(server)
  BY <1>2, RollbackToReplies
<1>3. CASE reply \in CommitAll(server) \/ reply \in RollbackAll(server)
  BY <1>3, CommitReplies, RollbackReplies
<1>4. CASE reply[2] = TRUE
  BY <1>4
<1> QED
  BY <1>1, <1>2, <1>3, <1>4, ThroughReplies

\* Lemma.  Every call of a transaction leaves the span of its own outcome.
LEMMA TxCallsTell ==
  ASSUME TxInv,
         \/ BeginTx \/ Begin
         \/ \E h \in Handles : \/ Commit(h) \/ Rollback(h) \/ TxExec(h)
                              \/ TxPrepare(h) \/ TxQuery(h) \/ TxQueryRow(h)
  PROVE  \E error \in BOOLEAN : last' = Traced(error)
<1>1. server \in Session
  BY DEF TxInv, SessionOK
<1>2. CASE BeginTx
  BY <1>2 DEF BeginTx
<1>3. CASE Begin
  <2> DEFINE done == [server EXCEPT !.mark = server.written]
  <2>1. done \in Session
    BY <1>1 DEF Session
  <2>2. PICK reply \in Through("transaction", Statement(server, done)) : last' = Traced(reply[2])
    BY <1>3 DEF Begin
  <2> QED
    BY <1>1, <2>1, <2>2, TxReplyTells
<1>4. ASSUME NEW h \in Handles, Commit(h)
      PROVE  \E error \in BOOLEAN : last' = Traced(error)
  <2> DEFINE replies == IF wraps[h] = "savepoint" THEN Release(server) ELSE CommitAll(server)
  <2>1. PICK reply \in Through(wraps[h], replies) : last' = Traced(reply[2])
    BY <1>4 DEF Commit, Ends
  <2>2. replies \in {Statement(server, server), CommitAll(server)}
    BY DEF Release
  <2> QED
    BY <1>1, <2>1, <2>2, TxReplyTells
<1>5. ASSUME NEW h \in Handles, Rollback(h)
      PROVE  \E error \in BOOLEAN : last' = Traced(error)
  <2> DEFINE replies == IF wraps[h] = "savepoint" THEN RollbackTo(server) ELSE RollbackAll(server)
  <2>1. PICK reply \in Through(wraps[h], replies) : last' = Traced(reply[2])
    BY <1>5 DEF Rollback, Ends
  <2>2. replies \in {RollbackTo(server), RollbackAll(server)}
    OBVIOUS
  <2> QED
    BY <1>1, <2>1, <2>2, TxReplyTells
<1>6. ASSUME NEW h \in Handles, TxExec(h)
      PROVE  \E error \in BOOLEAN : last' = Traced(error)
  <2> DEFINE done == [server EXCEPT !.written = @ \cup {h}]
  <2>1. done \in Session
    BY <1>1 DEF Session
  <2>2. PICK reply \in Through(wraps[h], Statement(server, done)) : last' = Traced(reply[2])
    BY <1>6 DEF TxExec
  <2> QED
    BY <1>1, <2>1, <2>2, TxReplyTells
<1>7. ASSUME NEW h \in Handles, NEW tells \in BOOLEAN, Asks(h, tells)
      PROVE  \E error \in BOOLEAN : last' = Traced(error)
  <2>1. PICK reply \in Through(wraps[h], Statement(server, server)) : last' = Traced(reply[2] /\ tells)
    BY <1>7 DEF Asks
  <2>2. (reply[2] /\ tells) \in BOOLEAN
    OBVIOUS
  <2> QED
    BY <2>1, <2>2
<1> QED
  BY <1>2, <1>3, <1>4, <1>5, <1>6, <1>7 DEF TxPrepare, TxQuery, TxQueryRow

\* Lemma.  A batch is over once it was sent, and tells of what failed before.
LEMMA BatchSpanInv ==
  ASSUME SpanInv, NewBatchInsert \/ AppendStruct \/ Send
  PROVE  SpanInv'
<1>1. CASE NewBatchInsert
  <2>1. last' = last
    BY <1>1 DEF NewBatchInsert
  <2>2. CASE batch' = [state |-> "dropped", failed |-> TRUE, parent |-> RecordError(Started)]
    <3>1. Started \in SpanRecords /\ Started.status = "unset" /\ Started.ended = FALSE
      BY DEF Started, SpanRecords
    <3> QED
      BY <2>1, <2>2, <3>1, RecordErrorEffect DEF SpanInv
  <2>3. CASE batch' = [NoBatch EXCEPT !.state = "open"]
    BY <2>1, <2>3 DEF SpanInv, NoBatch, Started, SpanRecords
  <2> QED
    BY <1>1, <2>2, <2>3 DEF NewBatchInsert
<1>2. CASE AppendStruct
  <2>1. PICK error \in BOOLEAN :
          /\ batch.state = "sent" => error
          /\ batch' = [batch EXCEPT !.parent = IF error THEN RecordError(@) ELSE @,
                                   !.failed = @ \/ (error /\ batch.state = "open")]
    BY <1>2 DEF AppendStruct
  <2>2. last' = last /\ batch.state \in {"open", "sent"}
    BY <1>2 DEF AppendStruct
  <2>3. batch.parent \in SpanRecords /\ (batch.parent.status # "ok" \/ batch.parent.ended)
    BY DEF SpanInv
  <2> QED
    BY <2>1, <2>2, <2>3, RecordErrorEffect DEF SpanInv
<1>3. CASE Send
  <2>1. PICK error \in BOOLEAN :
          /\ batch' = [batch EXCEPT !.state = "sent", !.parent = End(@)]
          /\ last' = Traced(error)
    BY <1>3 DEF Send, AfterSend
  <2>2. batch.state \in {"open", "sent"}
    BY <1>3 DEF Send
  <2>3. /\ batch.parent \in SpanRecords
        /\ \/ batch.parent.ended
           \/ batch.parent.inner = batch.parent.outer /\ batch.parent.status # "ok"
    BY DEF SpanInv
  <2> QED
    BY <2>1, <2>2, <2>3, EndEffect DEF SpanInv
<1> QED
  BY <1>1, <1>2, <1>3

\* Lemma.  AsyncInsertStruct and what follows it leave the span of the outcome.
LEMMA InsertsTell ==
  ASSUME NEW g, NEW t, NEW info, Inserts(g, t, info)
  PROVE  \E error \in BOOLEAN : last' = Traced(error)
  BY DEF Inserts, Returns

\* SpanInv holds in every reachable state.
THEOREM SpanInvariant == Spec => []SpanInv
<1>1. Init => SpanInv
  <2> SUFFICES ASSUME Init PROVE SpanInv
    OBVIOUS
  <2>1. last = Traced(FALSE) /\ batch = [state |-> "none", failed |-> FALSE, parent |-> Started]
    BY DEF Init, DatabasesInit, NoBatch
  <2>2. /\ Started \in SpanRecords /\ Started.status = "unset" /\ Started.ended = FALSE
        /\ Started.inner = FALSE /\ Started.outer = FALSE
    BY DEF Started, SpanRecords
  <2> QED
    BY <2>1, <2>2 DEF SpanInv
<1>2. TxInv /\ SpanInv /\ [Next]_vars => SpanInv'
  <2> SUFFICES ASSUME TxInv, SpanInv, [Next]_vars PROVE SpanInv'
    OBVIOUS
  <2>1. ASSUME batch' = batch, \/ last' = last
                              \/ \E error \in BOOLEAN : last' = Traced(error)
        PROVE  SpanInv'
    BY <2>1 DEF SpanInv
  <2>2. CASE DatabasesNext
    <3>1. CASE \/ BeginTx \/ Begin
               \/ \E h \in Handles : \/ Commit(h) \/ Rollback(h) \/ TxExec(h)
                                    \/ TxPrepare(h) \/ TxQuery(h) \/ TxQueryRow(h)
      <4>1. TxCall
        BY <3>1 DEF BeginTx, Begin, Commit, Rollback, TxExec, TxPrepare, TxQuery, TxQueryRow, Asks
      <4> QED
        BY <2>1, <3>1, <4>1, TxCallsTell DEF TxCall
    <3>2. CASE NewBatchInsert \/ AppendStruct \/ Send
      BY <3>2, BatchSpanInv
    <3>3. ASSUME NEW g \in Goroutines, LoadsOrStores(g)
          PROVE  SpanInv'
      BY <2>1, <3>3, InsertsTell DEF LoadsOrStores
    <3>4. ASSUME NEW g \in Goroutines, NEW t \in StructTypes, NEW shape, AsyncInsertStruct(g, t, shape)
          PROVE  SpanInv'
      BY <2>1, <3>4, InsertsTell DEF AsyncInsertStruct, Returns
    <3>5. ASSUME NEW k, NEW tells \in BOOLEAN, OneRequest(k, tells)
          PROVE  SpanInv'
      <4>1. PICK error \in BOOLEAN : last' = Traced(error /\ tells)
        BY <3>5 DEF OneRequest
      <4>2. (error /\ tells) \in BOOLEAN
        OBVIOUS
      <4>3. batch' = batch
        BY <3>5 DEF OneRequest
      <4> QED
        BY <2>1, <4>1, <4>2, <4>3
    <3> QED
      BY <2>2, <3>1, <3>2, <3>3, <3>4, <3>5
      DEF DatabasesNext, Exec, Query, QueryRow, Select, Read, Write, Delete, Exists
  <2>3. CASE UNCHANGED databaseVars
    BY <2>1, <2>3 DEF databaseVars
  <2> QED
    BY <2>2, <2>3 DEF Next, vars
<1> QED
  BY <1>1, <1>2, TransactionInvariant, PTL DEF Spec

\* The span of a call that is over, and that of a batch that was sent, has the
\* status of what the caller was told (telemetry/trace/span.go).
THEOREM SpansAreTrue == Spec => []SpansTellOutcome
<1>1. SpanInv => SpansTellOutcome
  <2> SUFFICES ASSUME SpanInv PROVE SpansTellOutcome
    OBVIOUS
  <2>1. last.span.ended /\ last.span.status = (IF last.error THEN "error" ELSE "ok")
    BY TracedOutcome DEF SpanInv
  <2> QED
    BY <2>1 DEF SpanInv, SpansTellOutcome
<1> QED
  BY <1>1, SpanInvariant, PTL

-----------------------------------------------------------------------------
(* The text of an error *)

\* The texts given are those in the catalog, and a language that has one is known.
CatalogOK ==
  /\ catalog \in [Languages -> SUBSET Statuses]
  /\ given \subseteq Languages \X Statuses
  /\ \A l \in Languages, s \in Statuses : <<l, s>> \in given <=> s \in catalog[l]
  /\ \A l \in Languages : catalog[l] # {} => l \in known
  /\ "en" \in known /\ known \subseteq Languages
  /\ steady \subseteq given

\* The tag was resolved among the languages known then; a text that was there
\* then and still is, is in one of them.
ResolvedThen ==
  phase \in {"matched", "answered"} =>
    \E then \in SUBSET known :
      /\ "en" \in then
      /\ \A l \in Languages, s \in Statuses : <<l, s>> \in steady => l \in then
      /\ tag = PreferredLanguage(then, asked)

\* What was found under the second lock.
LookedUp ==
  phase = "answered" =>
    /\ tag \in Languages /\ <<tag, status>> \in steady => message = tag
    /\ message \in Languages \ {"en"} => message = tag
    /\ message = "none" => <<"en", status>> \notin steady

MessageInv == asked \in Preferences /\ CatalogOK /\ ResolvedThen /\ LookedUp

\* Lemma.  Steps that touch neither the catalog nor a request that waits for its
\* text.
LEMMA MessageInvFrame ==
  ASSUME MessageInv, UNCHANGED messageVars,
         \/ phase' \notin {"matched", "answered"}
         \/ phase' = phase /\ status' = status
  PROVE  MessageInv'
  BY DEF MessageInv, CatalogOK, ResolvedThen, LookedUp, messageVars

\* Lemma.  The first critical section.
LEMMA MatchesMessageInv ==
  ASSUME MessageInv, NEW p \in Preferences, Matches(p)
  PROVE  MessageInv'
<1>1. phase' = "matched" /\ asked' = p /\ tag' = PreferredLanguage(known, p) /\ steady' = given
  BY DEF Matches
<1>2. UNCHANGED <<catalog, known, given>>
  BY DEF Matches
<1>3. CatalogOK'
  BY <1>1, <1>2 DEF MessageInv, CatalogOK
<1>4. ResolvedThen'
  <2>1. \A l \in Languages, s \in Statuses : <<l, s>> \in given => l \in known
    BY DEF MessageInv, CatalogOK
  <2> QED
    BY <1>1, <1>2, <2>1 DEF MessageInv, CatalogOK, ResolvedThen
<1> QED
  BY <1>1, <1>3, <1>4 DEF MessageInv, LookedUp

\* Lemma.  The second critical section.
LEMMA LooksUpMessageInv ==
  ASSUME MessageInv, LooksUp
  PROVE  MessageInv'
<1>1. phase = "matched" /\ phase' = "answered"
  BY DEF LooksUp
<1>2. UNCHANGED <<status, catalog, known, asked, tag, given, steady>>
  BY DEF LooksUp
<1>3. LookedUp'
  <2>1. \A l \in Languages : <<l, status>> \in steady => status \in catalog[l]
    BY DEF MessageInv, CatalogOK
  <2>2. CASE tag \in Languages /\ status \in catalog[tag]
    <3>1. message' = tag
      BY <2>2 DEF LooksUp
    <3> QED
      BY <1>2, <2>2, <3>1 DEF LookedUp, Languages
  <2>3. CASE ~(tag \in Languages /\ status \in catalog[tag])
    <3>1. message' = IF status \in catalog["en"] THEN "en" ELSE "none"
      BY <2>3 DEF LooksUp
    <3> QED
      BY <1>2, <2>1, <2>3, <3>1 DEF LookedUp, Languages
  <2> QED
    BY <2>2, <2>3
<1> QED
  BY <1>1, <1>2, <1>3 DEF MessageInv, CatalogOK, ResolvedThen

\* Lemma.  A language is added or edited between the two, or after them.
LEMMA EditMessageInv ==
  ASSUME MessageInv, NEW lang \in Languages, NEW texts \in SUBSET Statuses,
         NEW blanks \in SUBSET Statuses, AddOrEditLanguage(lang, texts, blanks)
  PROVE  MessageInv'
<1>1. /\ catalog' = [catalog EXCEPT ![lang] = (@ \ blanks) \cup texts]
      /\ known' = known \cup {lang}
      /\ given' = (given \ ({lang} \X blanks)) \cup ({lang} \X texts)
      /\ steady' = steady \cap given'
      /\ UNCHANGED <<phase, status, asked, tag, message>>
  BY DEF AddOrEditLanguage, Merge
<1>2. CatalogOK'
  BY <1>1 DEF MessageInv, CatalogOK
<1>3. ResolvedThen'
  BY <1>1 DEF MessageInv, ResolvedThen
<1>4. LookedUp'
  BY <1>1 DEF MessageInv, LookedUp
<1> QED
  BY <1>1, <1>2, <1>3, <1>4 DEF MessageInv

\* MessageInv holds in every reachable state.
THEOREM MessageInvariant == Spec => []MessageInv
<1>1. Init => MessageInv
  BY DEF Init, RequestsInit, MessageInv, CatalogOK, ResolvedThen, LookedUp,
     NoPreference, Preferences, Languages, Statuses, Defaults
<1>2. MessageInv /\ [Next]_vars => MessageInv'
  <2> SUFFICES ASSUME MessageInv, [Next]_vars PROVE MessageInv'
    OBVIOUS
  <2>1. CASE RequestsNext
    <3>1. ASSUME NEW r \in RequestRecords, Arrives(r) PROVE MessageInv'
      BY <3>1, MessageInvFrame DEF Arrives
    <3>2. CASE Succeeds
      BY <3>2, MessageInvFrame DEF Succeeds
    <3>3. ASSUME NEW lang \in Languages, NEW s \in Statuses,
                 AddOrEditLanguage(lang, {s}, {}) \/ AddOrEditLanguage(lang, {}, {s})
          PROVE  MessageInv'
      BY <3>3, EditMessageInv
    <3> QED
      BY <2>1, <3>1, <3>2, <3>3, MatchesMessageInv, LooksUpMessageInv DEF RequestsNext
  <2>2. CASE UNCHANGED requestVars
    BY <2>2, MessageInvFrame DEF requestVars
  <2> QED
    BY <2>1, <2>2 DEF Next, vars
<1> QED
  BY <1>1, <1>2, PTL DEF Spec

\* The text of an error is in the language asked for whenever that language had
\* it from the first lock to the second, and in no other than English otherwise,
\* whatever is added in between (locales.go).
THEOREM MessagesAreInLanguage == Spec => []MessageInLanguage
<1>1. MessageInv => MessageInLanguage
  <2> SUFFICES ASSUME MessageInv, phase = "answered" PROVE MessageInLanguage
    BY DEF MessageInLanguage
  <2> DEFINE wanted == IF Supports(known, asked.cookie) THEN asked.cookie ELSE asked.header
  <2>1. PICK then \in SUBSET known :
          /\ "en" \in then
          /\ \A l \in Languages, s \in Statuses : <<l, s>> \in steady => l \in then
          /\ tag = PreferredLanguage(then, asked)
    BY DEF MessageInv, ResolvedThen
  <2>2. steady \subseteq Languages \X Statuses
    BY DEF MessageInv, CatalogOK
  <2>3. ASSUME wanted \in Languages, <<wanted, status>> \in steady
        PROVE  message = wanted
    <3>1. wanted \in then
      BY <2>1, <2>2, <2>3
    <3>2. tag = wanted
      BY <2>1, <2>3, <3>1 DEF PreferredLanguage, Supports, MessageInv, CatalogOK, Languages
    <3> QED
      BY <2>3, <3>2 DEF MessageInv, LookedUp
  <2>4. ASSUME message \in Languages \ {"en"}
        PROVE  message = wanted
    <3>1. tag = "fr" /\ message = "fr"
      BY <2>4 DEF MessageInv, LookedUp, Languages
    <3> QED
      BY <2>1, <3>1
      DEF PreferredLanguage, Supports, MessageInv, CatalogOK, Preferences, Languages
  <2>5. message = "none" => <<"en", status>> \notin steady
    BY DEF MessageInv, LookedUp
  <2> QED
    BY <2>3, <2>4, <2>5 DEF MessageInLanguage
<1> QED
  BY <1>1, MessageInvariant, PTL

-----------------------------------------------------------------------------
(* The fields of a struct *)

\* Lemma.  Induction on the natural numbers up to n.
LEMMA Induction ==
  ASSUME NEW n \in Nat, NEW S, 0 \in S, \A i \in 0..n-1 : i \in S => i + 1 \in S
  PROVE  0..n \subseteq S
<1> SUFFICES ASSUME NEW m \in 0..n, m \notin S PROVE FALSE
  OBVIOUS
<1> DEFINE U == {i \in 0..m : i \notin S}
           f == [i \in U |-> i - 1]
<1>1. IsFiniteSet(0..m)
  BY FS_Interval
<1>2. U \in SUBSET (0..m) /\ m \in U
  OBVIOUS
<1>3. IsFiniteSet(U)
  BY <1>1, <1>2, FS_Subset
<1>4. IsFiniteSet(U \ {m}) /\ Cardinality(U \ {m}) < Cardinality(U)
  <2>1. IsFiniteSet(U \ {m}) /\ Cardinality(U \ {m}) = Cardinality(U) - 1
    BY <1>2, <1>3, FS_RemoveElement
  <2>2. Cardinality(U) \in Nat
    BY <1>3, FS_CardinalityType
  <2> QED
    BY <2>1, <2>2
<1>5. f \in [U -> U \ {m}]
  OBVIOUS
<1> HIDE DEF f
<1>6. PICK i, j \in U : i # j /\ f[i] = f[j]
  BY <1>3, <1>4, <1>5, FS_PigeonHole
<1> QED
  BY <1>6 DEF f

\* The body of the loop over the fields, from what it gave so far.
Loop(t, f, i) ==
  IF i = 0 THEN << >>
  ELSE IF t[i].kind = "tagged" THEN Append(f[i - 1], i) ELSE f[i - 1]

\* Lemma.  There is a function that the loop defines, however many the fields.
LEMMA LoopIsDefined ==
  ASSUME NEW n \in Nat, NEW t
  PROVE  \E f : f = [i \in 0..n |-> Loop(t, f, i)]
<1> DEFINE Below(m, f) == f = [i \in 0..m |-> Loop(t, f, i)]
           S == {m \in 0..n : \E f : Below(m, f)}
<1>1. 0 \in S
  <2> DEFINE f == [i \in 0..0 |-> << >>]
  <2>1. Below(0, f)
    BY DEF Loop
  <2> QED
    BY <2>1
<1>2. ASSUME NEW m \in 0..n-1, m \in S PROVE m + 1 \in S
  <2>1. PICK f : Below(m, f)
    BY <1>2
  <2> DEFINE g == [i \in 0..m+1 |-> IF i <= m THEN f[i] ELSE Loop(t, f, i)]
  <2>2. \A i \in 0..m : g[i] = f[i]
    OBVIOUS
  <2>3. \A i \in 0..m : f[i] = Loop(t, f, i)
    BY <2>1
  <2>4. \A i \in 0..m+1 : Loop(t, g, i) = Loop(t, f, i)
    BY <2>2 DEF Loop
  <2>5. \A i \in 0..m+1 : g[i] = Loop(t, g, i)
    BY <2>2, <2>3, <2>4
  <2>6. g = [i \in 0..m+1 |-> g[i]]
    OBVIOUS
  <2>7. Below(m + 1, g)
    BY <2>5, <2>6
  <2>8. m + 1 \in 0..n
    OBVIOUS
  <2> HIDE DEF g, Below
  <2> QED
    BY <2>7, <2>8
<1>3. 0..n \subseteq S
  BY <1>1, <1>2, Induction
<1> QED
  BY <1>3

\* Lemma.  Kept is what that function gives after the last field.
LEMMA KeptUnfolds ==
  ASSUME NEW t, Len(t) \in Nat
  PROVE  \E f : f = [i \in 0..Len(t) |-> Loop(t, f, i)] /\ Kept(t) = f[Len(t)]
<1> DEFINE F == CHOOSE f : f = [i \in 0..Len(t) |-> Loop(t, f, i)]
<1>1. Kept(t) = F[Len(t)]
  BY Zenon DEF Kept, Loop
<1>2. F = [i \in 0..Len(t) |-> Loop(t, F, i)]
  BY LoopIsDefined
<1> HIDE DEF F
<1> QED
  BY <1>1, <1>2

\* The tagged fields among the first n, and a list of them in their order.
Tagged(t, n) == {i \in 1..n : t[i].kind = "tagged"}

IsKept(t, n, k) ==
  /\ k \in Seq(1..n)
  /\ Len(k) = Cardinality(Tagged(t, n))
  /\ {k[j] : j \in 1..Len(k)} = Tagged(t, n)
  /\ \A i, j \in 1..Len(k) : i < j => k[i] < k[j]

\* Lemma.  They can be counted.
LEMMA TaggedFinite ==
  ASSUME NEW t, NEW n \in Nat
  PROVE  IsFiniteSet(Tagged(t, n)) /\ Cardinality(Tagged(t, n)) \in Nat
<1>1. IsFiniteSet(1..n)
  BY FS_Interval
<1>2. Tagged(t, n) \in SUBSET (1..n)
  BY DEF Tagged
<1> QED
  BY <1>1, <1>2, FS_Subset, FS_CardinalityType

\* Lemma.  One more field.
LEMMA KeptStep ==
  ASSUME NEW t, NEW n \in Nat, NEW f, IsKept(t, n, f[n])
  PROVE  IsKept(t, n + 1, Loop(t, f, n + 1))
<1> DEFINE k == f[n]
           l == Loop(t, f, n + 1)
<1>1. l = IF t[n + 1].kind = "tagged" THEN Append(k, n + 1) ELSE k
  BY DEF Loop
<1>2. k \in Seq(1..n+1) /\ k \in Seq(1..n)
  <2>1. 1..n \subseteq 1..n+1
    OBVIOUS
  <2> QED
    BY <2>1, SeqMonotonic DEF IsKept
<1>3. Len(k) \in Nat /\ \A j \in 1..Len(k) : k[j] \in 1..n
  BY <1>2, LenProperties, ElementOfSeq
<1> HIDE DEF k, l
<1>5. CASE t[n + 1].kind = "tagged"
  <2>1. Tagged(t, n + 1) = Tagged(t, n) \cup {n + 1} /\ n + 1 \notin Tagged(t, n)
    BY <1>5 DEF Tagged
  <2>2. Cardinality(Tagged(t, n + 1)) = Cardinality(Tagged(t, n)) + 1
    BY <2>1, TaggedFinite, FS_AddElement
  <2>3. /\ l \in Seq(1..n+1) /\ Len(l) = Len(k) + 1
        /\ \A i \in 1..Len(k) : l[i] = k[i]
        /\ l[Len(k) + 1] = n + 1
    <3>1. l = Append(k, n + 1) /\ n + 1 \in 1..n+1
      BY <1>1, <1>5
    <3> QED
      BY <1>2, <3>1, AppendProperties
  <2>4. Len(l) = Cardinality(Tagged(t, n + 1))
    BY <2>2, <2>3 DEF IsKept, k
  <2>5. {l[j] : j \in 1..Len(l)} = Tagged(t, n + 1)
    <3>1. {k[j] : j \in 1..Len(k)} = Tagged(t, n)
      BY DEF IsKept, k
    <3>2. 1..Len(l) = 1..Len(k) \cup {Len(k) + 1}
      BY <1>3, <2>3
    <3>3. {l[j] : j \in 1..Len(l)} = {k[j] : j \in 1..Len(k)} \cup {n + 1}
      BY <2>3, <3>2
    <3> QED
      BY <2>1, <3>1, <3>3
  <2>6. \A i, j \in 1..Len(l) : i < j => l[i] < l[j]
    <3>1. \A i, j \in 1..Len(k) : i < j => k[i] < k[j]
      BY DEF IsKept, k
    <3> SUFFICES ASSUME NEW i \in 1..Len(l), NEW j \in 1..Len(l), i < j
                 PROVE  l[i] < l[j]
      OBVIOUS
    <3>2. i \in 1..Len(k) /\ l[i] = k[i] /\ k[i] \in 1..n
      BY <1>3, <2>3
    <3>3. CASE j \in 1..Len(k)
      BY <2>3, <3>1, <3>2, <3>3
    <3>4. CASE j = Len(k) + 1
      BY <2>3, <3>2, <3>4
    <3> QED
      BY <1>3, <2>3, <3>3, <3>4
  <2> QED
    BY <2>3, <2>4, <2>5, <2>6 DEF IsKept, l
<1>6. CASE t[n + 1].kind # "tagged"
  <2>1. Tagged(t, n + 1) = Tagged(t, n)
    BY <1>6 DEF Tagged
  <2>2. l = k
    BY <1>1, <1>6
  <2> QED
    BY <1>2, <2>1, <2>2 DEF IsKept, k, l
<1> QED
  BY <1>5, <1>6

\* The loop keeps the tagged fields of a struct, each once and in their order
\* (reflectStructInfo, utils.go).
THEOREM KeptInOrder ==
  ASSUME NEW t, Len(t) \in Nat
  PROVE  IsKept(t, Len(t), Kept(t))
<1>1. PICK f : f = [i \in 0..Len(t) |-> Loop(t, f, i)] /\ Kept(t) = f[Len(t)]
  BY KeptUnfolds
<1>2. \A i \in 0..Len(t) : f[i] = Loop(t, f, i)
  BY <1>1
<1> DEFINE S == {i \in 0..Len(t) : IsKept(t, i, f[i])}
<1>3. 0 \in S
  <2>1. f[0] = << >>
    BY <1>2 DEF Loop
  <2>2. << >> \in Seq(1..0) /\ Len(<< >>) = 0
    BY EmptySeq
  <2>3. Tagged(t, 0) = {}
    BY DEF Tagged
  <2>4. Cardinality({}) = 0
    BY FS_EmptySet
  <2>5. {f[0][j] : j \in 1..0} = {} /\ \A i, j \in 1..0 : FALSE
    OBVIOUS
  <2>6. Len(f[0]) = 0 /\ f[0] \in Seq(1..0)
    BY <2>1, <2>2
  <2> HIDE DEF S
  <2>7. IsKept(t, 0, f[0])
    BY <2>3, <2>4, <2>5, <2>6 DEF IsKept
  <2> QED
    BY <2>7 DEF S
<1>4. ASSUME NEW i \in 0..Len(t)-1, i \in S PROVE i + 1 \in S
  <2>1. i + 1 \in 0..Len(t) /\ i \in Nat
    OBVIOUS
  <2> QED
    BY <1>2, <1>4, <2>1, KeptStep
<1>5. 0..Len(t) \subseteq S
  <2> HIDE DEF S
  <2> QED
    BY <1>3, <1>4, Induction
<1> QED
  BY <1>1, <1>5

\* The row of a type that is sent, field by field.
RowOf(t) == [j \in DOMAIN Kept(t) |-> <<t[Kept(t)[j]].name, t[Kept(t)[j]].name>>]

\* What is cached of a type, and what a goroutine holds of one, is what
\* reflectStructInfo makes of it, and it is there of no type that is refused.
InsertInv ==
  /\ insert = [g \in Goroutines |-> insert[g]]
  /\ \A entry \in cache :
       /\ entry[1] \in StructTypes /\ Reflects(entry[1])
       /\ entry[2] = ReflectStructInfo(entry[1])
  /\ \A g \in Goroutines :
       /\ insert[g].type \in StructTypes \cup {<< >>}
       /\ insert[g].pc = "reflected" =>
            /\ insert[g].type \in StructTypes /\ Reflects(insert[g].type)
            /\ insert[g].info = ReflectStructInfo(insert[g].type)
       /\ insert[g].row # << >> =>
            /\ insert[g].type \in StructTypes /\ Reflects(insert[g].type)
            /\ insert[g].row = RowOf(insert[g].type)
       /\ ~Reflects(insert[g].type) => insert[g].error

\* Lemma.  A call that returns leaves what is told of the others alone.
LEMMA ReturnsInsertInv ==
  ASSUME InsertInv, NEW g \in Goroutines, NEW t \in StructTypes, NEW row, NEW error \in BOOLEAN,
         Returns(g, t, row, error), cache' = cache \/ (Reflects(t) /\ cache' = cache \cup {<<t, ReflectStructInfo(t)>>}),
         row # << >> => Reflects(t) /\ row = RowOf(t),
         ~Reflects(t) => error
  PROVE  InsertInv'
<1>1. insert' = [insert EXCEPT ![g] = [NoInsert EXCEPT !.type = t, !.row = row, !.error = error]]
  BY DEF Returns
<1>2. /\ insert'[g].pc = "idle" /\ insert'[g].type = t
      /\ insert'[g].row = row /\ insert'[g].error = error
      /\ \A h \in Goroutines \ {g} : insert'[h] = insert[h]
      /\ insert' = [h \in Goroutines |-> insert'[h]]
  BY <1>1 DEF InsertInv, NoInsert
<1>3. \A entry \in cache' :
        /\ entry[1] \in StructTypes /\ Reflects(entry[1])
        /\ entry[2] = ReflectStructInfo(entry[1])
  BY DEF InsertInv
<1>4. ASSUME NEW h \in Goroutines
      PROVE  /\ insert'[h].type \in StructTypes \cup {<< >>}
             /\ insert'[h].pc = "reflected" =>
                  /\ insert'[h].type \in StructTypes /\ Reflects(insert'[h].type)
                  /\ insert'[h].info = ReflectStructInfo(insert'[h].type)
             /\ insert'[h].row # << >> =>
                  /\ insert'[h].type \in StructTypes /\ Reflects(insert'[h].type)
                  /\ insert'[h].row = RowOf(insert'[h].type)
             /\ ~Reflects(insert'[h].type) => insert'[h].error
  <2>1. CASE h = g
    BY <1>2, <2>1
  <2>2. CASE h # g
    BY <1>2, <2>2 DEF InsertInv
  <2> QED
    BY <2>1, <2>2
<1> QED
  BY <1>2, <1>3, <1>4 DEF InsertInv

\* Lemma.  What is inserted from the columns of a type is its row.
LEMMA InsertsInsertInv ==
  ASSUME InsertInv, NEW g \in Goroutines, NEW t \in StructTypes, Reflects(t),
         Inserts(g, t, ReflectStructInfo(t)),
         cache' = cache \/ cache' = cache \cup {<<t, ReflectStructInfo(t)>>}
  PROVE  InsertInv'
<1> DEFINE info == ReflectStructInfo(t)
<1>1. info.columns = [j \in DOMAIN Kept(t) |-> t[Kept(t)[j]].name] /\ info.indexes = Kept(t)
  BY DEF ReflectStructInfo
<1>2. [j \in DOMAIN info.columns |-> <<info.columns[j], t[info.indexes[j]].name>>] = RowOf(t)
  BY <1>1 DEF RowOf
<1>3. \E row, error : Returns(g, t, row, error) /\ error \in BOOLEAN /\ (row # << >> => row = RowOf(t))
  <2>1. CASE info.columns = << >>
    <3>1. Returns(g, t, << >>, TRUE)
      BY <2>1 DEF Inserts
    <3> QED
      BY <3>1
  <2>2. CASE info.columns # << >>
    <3>1. PICK error \in BOOLEAN :
            Returns(g, t, [j \in DOMAIN info.columns |-> <<info.columns[j], t[info.indexes[j]].name>>], error)
      BY <2>2 DEF Inserts
    <3>2. Returns(g, t, RowOf(t), error)
      BY <1>2, <3>1
    <3> QED
      BY <3>2
  <2> QED
    BY <2>1, <2>2
<1> QED
  BY <1>3, ReturnsInsertInv

\* Lemma.  The part of a call up to LoadOrStore.
LEMMA AsyncInsertInv ==
  ASSUME InsertInv, NEW g \in Goroutines, NEW t \in StructTypes, NEW shape,
         AsyncInsertStruct(g, t, shape)
  PROVE  InsertInv'
<1>1. cache' = cache
  BY DEF AsyncInsertStruct
<1>2. CASE Returns(g, t, << >>, TRUE)
  BY <1>1, <1>2, ReturnsInsertInv
<1>3. CASE /\ Reflects(t)
           /\ insert' = [insert EXCEPT ![g] = [NoInsert EXCEPT !.pc = "reflected", !.type = t,
                                                               !.info = ReflectStructInfo(t)]]
  <2>1. /\ insert'[g].pc = "reflected" /\ insert'[g].type = t
        /\ insert'[g].info = ReflectStructInfo(t) /\ insert'[g].row = << >>
        /\ \A h \in Goroutines \ {g} : insert'[h] = insert[h]
        /\ insert' = [h \in Goroutines |-> insert'[h]]
    BY <1>3 DEF InsertInv, NoInsert
  <2>2. ASSUME NEW h \in Goroutines
        PROVE  /\ insert'[h].type \in StructTypes \cup {<< >>}
               /\ insert'[h].pc = "reflected" =>
                    /\ insert'[h].type \in StructTypes /\ Reflects(insert'[h].type)
                    /\ insert'[h].info = ReflectStructInfo(insert'[h].type)
               /\ insert'[h].row # << >> =>
                    /\ insert'[h].type \in StructTypes /\ Reflects(insert'[h].type)
                    /\ insert'[h].row = RowOf(insert'[h].type)
               /\ ~Reflects(insert'[h].type) => insert'[h].error
    <3>1. CASE h = g
      BY <1>3, <2>1, <3>1
    <3>2. CASE h # g
      BY <2>1, <3>2 DEF InsertInv
    <3> QED
      BY <3>1, <3>2
  <2> QED
    BY <1>1, <2>1, <2>2 DEF InsertInv
<1>4. CASE \E info \in Cached(t) : Inserts(g, t, info)
  <2>1. PICK info \in Cached(t) : Inserts(g, t, info)
    BY <1>4
  <2>2. <<t, info>> \in cache
    BY DEF Cached
  <2>3. Reflects(t) /\ info = ReflectStructInfo(t)
    BY <2>2 DEF InsertInv
  <2> QED
    BY <1>1, <2>1, <2>3, InsertsInsertInv
<1> QED
  BY <1>2, <1>3, <1>4 DEF AsyncInsertStruct

\* Lemma.  LoadOrStore, and the rest of the call.
LEMMA LoadsOrStoresInv ==
  ASSUME InsertInv, NEW g \in Goroutines, LoadsOrStores(g)
  PROVE  InsertInv'
<1> DEFINE t == insert[g].type
           actual == IF Cached(t) = {} THEN insert[g].info ELSE CHOOSE info \in Cached(t) : TRUE
<1>1. t \in StructTypes /\ Reflects(t) /\ insert[g].info = ReflectStructInfo(t)
  BY DEF LoadsOrStores, InsertInv
<1>2. actual = ReflectStructInfo(t)
  <2>1. CASE Cached(t) = {}
    BY <1>1, <2>1
  <2>2. CASE Cached(t) # {}
    <3>1. actual \in Cached(t)
      BY <2>2
    <3>2. <<t, actual>> \in cache
      BY <3>1 DEF Cached
    <3> QED
      BY <3>2 DEF InsertInv
  <2> QED
    BY <2>1, <2>2
<1>3. cache' = cache \cup {<<t, actual>>} /\ Inserts(g, t, actual)
  BY DEF LoadsOrStores
<1> HIDE DEF actual, t
<1> QED
  BY <1>1, <1>2, <1>3, InsertsInsertInv

\* Lemma.  Whatever leaves the inserts and the cache alone keeps InsertInv.
LEMMA InsertInvFrame ==
  ASSUME InsertInv, UNCHANGED insertVars
  PROVE  InsertInv'
  BY DEF InsertInv, insertVars

\* InsertInv holds in every reachable state.
THEOREM InsertInvariant == Spec => []InsertInv
<1>1. Init => InsertInv
  <2> SUFFICES ASSUME Init PROVE InsertInv
    OBVIOUS
  <2>1. cache = {} /\ insert = [g \in Goroutines |-> NoInsert]
    BY DEF Init, DatabasesInit
  <2>2. \A g \in Goroutines : insert[g].type = << >> /\ insert[g].pc = "idle" /\ insert[g].row = << >>
    BY <2>1 DEF NoInsert
  <2>3. Reflects(<< >>)
    BY DEF Reflects
  <2> QED
    BY <2>1, <2>2, <2>3 DEF InsertInv
<1>2. InsertInv /\ [Next]_vars => InsertInv'
  <2> SUFFICES ASSUME InsertInv, [Next]_vars PROVE InsertInv'
    OBVIOUS
  <2>1. CASE DatabasesNext
    <3>1. ASSUME NEW g \in Goroutines, LoadsOrStores(g)
          PROVE  InsertInv'
      BY <3>1, LoadsOrStoresInv
    <3>2. ASSUME NEW g \in Goroutines, NEW t \in StructTypes, NEW shape, AsyncInsertStruct(g, t, shape)
          PROVE  InsertInv'
      BY <3>2, AsyncInsertInv
    <3>3. CASE BeginTx \/ Begin \/ NewBatchInsert \/ AppendStruct \/ Send
      BY <3>3, InsertInvFrame DEF BeginTx, Begin, TxCall, NewBatchInsert, AppendStruct, Send
    <3>4. ASSUME NEW h \in Handles,
                 \/ Commit(h) \/ Rollback(h) \/ TxExec(h) \/ TxPrepare(h) \/ TxQuery(h) \/ TxQueryRow(h)
          PROVE  InsertInv'
      BY <3>4, InsertInvFrame
      DEF Commit, Rollback, TxExec, TxPrepare, TxQuery, TxQueryRow, Asks, TxCall
    <3>5. ASSUME NEW k, NEW tells, OneRequest(k, tells)
          PROVE  InsertInv'
      BY <3>5, InsertInvFrame DEF OneRequest
    <3> QED
      BY <2>1, <3>1, <3>2, <3>3, <3>4, <3>5
      DEF DatabasesNext, Exec, Query, QueryRow, Select, Read, Write, Delete, Exists
  <2>2. CASE UNCHANGED databaseVars
    BY <2>2, InsertInvFrame DEF databaseVars
  <2> QED
    BY <2>1, <2>2 DEF Next, vars
<1> QED
  BY <1>1, <1>2, PTL DEF Spec

\* A row has each field that is not opted out, in the column of its own tag, and
\* nothing else, whichever goroutine reflected the type first; a type that cannot
\* be sent that way is told so (AsyncInsertStruct, utils.go).
THEOREM RowsMatchStructs == Spec => []RowMatchesStruct
<1>1. InsertInv => RowMatchesStruct
  <2> SUFFICES ASSUME InsertInv, NEW g \in Goroutines
               PROVE  LET type == insert[g].type
                          sent == {i \in DOMAIN type : type[i].kind = "tagged"}
                      IN /\ insert[g].row # << >> =>
                              /\ Reflects(type)
                              /\ ToSet(insert[g].row) = {<<type[i].name, type[i].name>> : i \in sent}
                              /\ Len(insert[g].row) = Cardinality(sent)
                         /\ ~Reflects(type) => insert[g].error
    BY DEF RowMatchesStruct
  <2> DEFINE type == insert[g].type
             sent == {i \in DOMAIN type : type[i].kind = "tagged"}
             row == insert[g].row
             k == Kept(type)
  <2>1. ~Reflects(type) => insert[g].error
    BY DEF InsertInv
  <2>2. ASSUME row # << >>
        PROVE  /\ Reflects(type)
               /\ ToSet(row) = {<<type[i].name, type[i].name>> : i \in sent}
               /\ Len(row) = Cardinality(sent)
    <3>1. type \in StructTypes /\ Reflects(type) /\ row = RowOf(type)
      BY <2>2 DEF InsertInv
    <3>2. Len(type) \in Nat /\ DOMAIN type = 1..Len(type)
      BY <3>1, DatabasesAssumption, LenProperties
    <3>3. sent = Tagged(type, Len(type))
      BY <3>2 DEF Tagged
    <3> HIDE DEF type, row, sent
    <3>4. IsKept(type, Len(type), k)
      BY <3>2, KeptInOrder
    <3>5. Len(k) \in Nat /\ DOMAIN k = 1..Len(k)
      BY <3>4, LenProperties DEF IsKept
    <3> HIDE DEF k
    <3>6. row = [j \in 1..Len(k) |-> <<type[k[j]].name, type[k[j]].name>>]
      BY <3>1, <3>5 DEF RowOf, k
    <3>7. Len(row) = Len(k)
      BY <3>5, <3>6
    <3>8. ToSet(row) = {<<type[k[j]].name, type[k[j]].name>> : j \in 1..Len(k)}
      BY <3>5, <3>6 DEF ToSet
    <3>9. {k[j] : j \in 1..Len(k)} = sent
      BY <3>3, <3>4 DEF IsKept
    <3>10. ToSet(row) = {<<type[i].name, type[i].name>> : i \in sent}
      BY <3>8, <3>9
    <3> QED
      BY <3>1, <3>3, <3>4, <3>7, <3>10 DEF IsKept
  <2> QED
    BY <2>1, <2>2
<1> QED
  BY <1>1, InsertInvariant, PTL

=============================================================================
