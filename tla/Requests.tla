------------------------------ MODULE Requests ------------------------------
(***************************************************************************)
(* A request to a server that is up: whether the middleware or the bearer  *)
(* token lets it through, the handler it reaches, the status that handler  *)
(* writes, and, for an error, the text of internal/locales: the language   *)
(* is resolved under one lock and the text looked up under another, while  *)
(* the service may add or edit a language.                                 *)
(***************************************************************************)
EXTENDS Startup

CONSTANTS
  MaxEdits  \* bound: calls of AddOrEditLanguage

ASSUME RequestsAssumption == MaxEdits \in Nat

VARIABLES
  phase,   \* "idle", "routed", "matched" (between the two locks), "answered"
  request, \* what of the request the routing reads
  reached, \* the handler, or who answered in its place
  status,  \* what the handler writes, 0 for a handler that is not helix's
  catalog, \* locales.catalog: per language the statuses that have a text
  known,   \* locales.languages, the matcher built of them
  asked,   \* the "lang" cookie and the Accept-Language header
  tag,     \* GetPreferredLanguage: the tag resolved
  message, \* Message: the language of the text returned, "none" for no text
  given,   \* (history) the texts the service gave, less those it emptied
  steady,  \* (history) the ones of given there ever since the language was resolved
  edits    \* bound: calls of AddOrEditLanguage so far

messageVars == <<catalog, known, asked, tag, message, given, steady, edits>>
requestVars == <<phase, request, reached, status, messageVars>>

HttpServers == {"rest", "graphql", "mcp"}

-----------------------------------------------------------------------------
(* From the client to a handler *)

\* token: there is one, and ValidateToken accepts it.
RequestRecords == [method : Methods, path : Paths, token : BOOLEAN]
NoRequest == [method |-> "GET", path |-> "/", token |-> FALSE]

OAuth == IF kind = "mcp" THEN config.oauth ELSE "off"

\* BearerMiddleware.
Bearer(r, next) == IF r.token THEN next ELSE "unauthorized"

\* Start: what the client's request may come to.
Reachable(r) ==
  LET handler == Handler(kind, route, OAuth, r.method, r.path)
      inner == IF handler = "transport" /\ OAuth = "gate" THEN Bearer(r, handler) ELSE handler
  IN IF Bypass(kind, OAuth, r.path) \/ route.middleware = "none" THEN {inner}
     ELSE IF route.middleware = "bearer" THEN {Bearer(r, inner)}
     ELSE {inner, "denied"}

\* The statuses a handler of helix writes.  Readiness is asked of the function
\* of the Config, which answers what it likes, or of Service.Status.
Writes(handler) ==
  CASE handler = "liveness" -> {200}
    [] handler = "readiness" -> {200, 418, 503}
    [] handler = "not found" -> {404}
    [] handler = "method not allowed" -> {405}
    [] OTHER -> {0}

Arrives(r) ==
  /\ kind \in HttpServers /\ step = "up" /\ phase = "idle"
  /\ phase' = "routed"
  /\ request' = r
  /\ reached' \in Reachable(r)
  /\ status' \in Writes(reached')
  /\ UNCHANGED <<startupVars, messageVars>>

\* writeSuccess, or a handler that is not helix's.
Succeeds ==
  /\ phase = "routed" /\ status < 300
  /\ phase' = "idle"
  /\ request' = NoRequest /\ reached' = "none" /\ status' = 0
  /\ UNCHANGED <<startupVars, messageVars>>

-----------------------------------------------------------------------------
(* The text of an error *)

Languages == {"en", "fr"}
Statuses == {404, 405, 418, 503}
Defaults == {404, 405, 503}

\* "fr region" is a tag of French with a region, such as fr-CA.
Preferences == [cookie : {"none", "fr", "fr region", "other"}, header : {"none", "en", "fr"}]
NoPreference == [cookie |-> "none", header |-> "none"]

Texts(c) == {pair \in Languages \X Statuses : pair[2] \in c[pair[1]]}

\* The matcher: a tag with a region is matched by its language and keeps the
\* region, as an extension, in the tag returned.
Supports(languages, preference) ==
  preference \in languages \/ (preference = "fr region" /\ "fr" \in languages)

\* GetPreferredLanguage.
PreferredLanguage(languages, p) ==
  CASE Supports(languages, p.cookie) -> p.cookie
    [] ~Supports(languages, p.cookie) /\ Supports(languages, p.header) -> p.header
    [] OTHER -> "en"

\* writeError, up to the unlock of the matcher.  After an answer, the next
\* request is followed from the error it reaches.
Matches(p) ==
  /\ \/ phase = "routed" /\ status >= 300 /\ status' = status
     \/ phase = "answered" /\ status' \in Statuses
  /\ phase' = "matched"
  /\ asked' = p
  /\ tag' = PreferredLanguage(known, p)
  /\ message' = "none"
  /\ steady' = given
  /\ request' = NoRequest /\ reached' = "none" /\ route' = NoRoute
  /\ UNCHANGED <<kind, config, step, client, entries, registered, svc>>
  /\ UNCHANGED <<catalog, known, given, edits>>

\* Message, from its own lock on.
LooksUp ==
  /\ phase = "matched"
  /\ phase' = "answered"
  /\ message' = CASE tag \in Languages /\ status \in catalog[tag] -> tag
                  [] (tag \in Languages => status \notin catalog[tag]) /\ status \in catalog["en"] -> "en"
                  [] OTHER -> "none"
  /\ UNCHANGED <<startupVars, request, reached, status, catalog, known, asked, tag>>
  /\ UNCHANGED <<given, steady, edits>>

\* (mutant) The catalog of a language is replaced.
MergeAnew(lang, texts, blanks) == [catalog EXCEPT ![lang] = texts]

\* maps.Copy: an empty text is one that lookups take for none.
Merge(lang, texts, blanks) == [catalog EXCEPT ![lang] = (@ \ blanks) \cup texts]

AddOrEditLanguage(lang, texts, blanks) ==
  /\ phase \in {"matched", "answered"} /\ edits < MaxEdits
  /\ catalog' = Merge(lang, texts, blanks)
  /\ known' = known \cup {lang}
  /\ edits' = edits + 1
  /\ given' = (given \ ({lang} \X blanks)) \cup ({lang} \X texts)
  /\ steady' = steady \cap given'
  /\ UNCHANGED <<startupVars, phase, request, reached, status, asked, tag, message>>

-----------------------------------------------------------------------------

RequestsInit ==
  /\ phase = "idle" /\ request = NoRequest /\ reached = "none" /\ status = 0
  /\ catalog = [l \in Languages |-> IF l = "en" THEN Defaults ELSE {}]
  /\ known = {"en"}
  /\ asked = NoPreference /\ tag = "en" /\ message = "none"
  /\ given = {"en"} \X Defaults /\ steady = {}
  /\ edits = 0

RequestsNext ==
  \/ \E r \in RequestRecords : Arrives(r)
  \/ Succeeds
  \/ \E p \in Preferences : Matches(p)
  \/ LooksUp
  \/ \E lang \in Languages, s \in Statuses :
       AddOrEditLanguage(lang, {s}, {}) \/ AddOrEditLanguage(lang, {}, {s})

=============================================================================
