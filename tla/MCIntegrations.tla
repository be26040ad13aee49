--------------------------- MODULE MCIntegrations ---------------------------
EXTENDS Integrations

Field(name, k) == [name |-> name, kind |-> k]
MCStructTypes ==
  { << Field("a", "tagged"), Field("b", "tagged") >>,
    << Field("a", "skipped"), Field("b", "unexported"), Field("c", "tagged") >>,
    << Field("a", "unexported"), Field("b", "skipped") >>,
    << Field("a", "tagged"), Field("b", "untagged") >>,
    << Field("a", "embedded"), Field("b", "tagged") >> }

\* Settings that do not change how an integration is used are given.
MCFollowed(k, c) ==
  /\ k # "bucket" => c.tls = "off"
  /\ k = "mcp" => "unset" \notin {c.resource_id, c.authorization_servers, c.validate_token}
  /\ k = "bucket" => c.driver = "local" /\ c.subfolder = "slash"
  /\ k = "rest" => c.description = "off" /\ "unset" \in {c.request_timeout} /\ c.idle_timeout = "unset"
  /\ k = "graphql" => c.valkey = "off"
=============================================================================
