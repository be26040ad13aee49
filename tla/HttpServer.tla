----------------------------- MODULE HttpServer -----------------------------
(***************************************************************************)
(* The HTTP server integrations (integration/rest, integration/graphql and *)
(* integration/mcp share the same Start and Stop) together with the part   *)
(* of net/http.Server they rely on.                                        *)
(*                                                                         *)
(* Every call of Start is a run.  A run builds an http.Server, stores it   *)
(* in the server field of the integration, then reads that field again to  *)
(* listen.  Stop reads the field once more and calls Shutdown on whatever  *)
(* it holds.  An http.Server is named by the run that built it.            *)
(***************************************************************************)
EXTENDS Integers

CONSTANTS
  MaxStarts,  \* how many times Start may be called
  Requests    \* request slots of the clients, reused once answered

ASSUME StartsAssumption == MaxStarts \in Nat

VARIABLES
  handle,  \* the server field: the http.Server stored last, 0 for nil
  phase,   \* where each run of Start is
  object,  \* the http.Server each run listens with, 0 when none
  down,    \* the http.Servers Shutdown was called on
  req,     \* what each request is doing
  via      \* the http.Server that accepted each request

httpVars == <<handle, phase, object, down, req, via>>

Runs == 1 .. MaxStarts
RunPhase == {"absent", "launched", "built", "serving", "closed", "failed"}
RequestState == {"idle", "active", "checking"}

HttpTypeOK ==
  /\ handle \in 0 .. MaxStarts
  /\ phase \in [Runs -> RunPhase]
  /\ object \in [Runs -> 0 .. MaxStarts]
  /\ down \subseteq Runs
  /\ req \in [Requests -> RequestState]
  /\ via \in [Requests -> 0 .. MaxStarts]

HttpInit ==
  /\ handle = 0
  /\ phase = [n \in Runs |-> "absent"]
  /\ object = [n \in Runs |-> 0]
  /\ down = {}
  /\ req = [r \in Requests |-> "idle"]
  /\ via = [r \in Requests |-> 0]

\* (mutant) Shutdown leaves the listeners open.
AcceptingAfterShutdown(n) == phase[n] = "serving"

\* A run whose listener accepts connections: Shutdown closes the listeners of
\* its http.Server at once, before the run itself has returned.
Accepting(n) == phase[n] = "serving" /\ object[n] \notin down

InFlight(h) == {r \in Requests : req[r] # "idle" /\ via[r] = h}

Launch(n) ==
  /\ phase[n] = "absent"
  /\ phase' = [phase EXCEPT ![n] = "launched"]
  /\ UNCHANGED <<handle, object, down, req, via>>

\* The middleware chain is assembled and the http.Server stored in the field.
Build(n) ==
  /\ phase[n] = "launched"
  /\ phase' = [phase EXCEPT ![n] = "built"]
  /\ handle' = n
  /\ UNCHANGED <<object, down, req, via>>

\* ListenAndServe on the server the field holds by then: refused at once when
\* it was already shut down, an error when the TLS material or the address
\* cannot be used (always when another run listens on the address).
Listen(n) ==
  /\ phase[n] = "built"
  /\ \/ /\ handle \in down
        /\ phase' = [phase EXCEPT ![n] = "closed"]
        /\ UNCHANGED object
     \/ /\ handle \notin down
        /\ \A m \in Runs : ~Accepting(m)
        /\ phase' = [phase EXCEPT ![n] = "serving"]
        /\ object' = [object EXCEPT ![n] = handle]
     \/ /\ handle \notin down
        /\ phase' = [phase EXCEPT ![n] = "failed"]
        /\ UNCHANGED object
  /\ UNCHANGED <<handle, down, req, via>>

\* Serve returns: http.ErrServerClosed after a Shutdown, which Start reports
\* as nil, or the error of a broken listener.
ServeReturns(n) ==
  /\ phase[n] = "serving"
  /\ phase' = [phase EXCEPT ![n] = IF object[n] \in down THEN "closed" ELSE "failed"]
  /\ UNCHANGED <<handle, object, down, req, via>>

\* The first half of Stop: Shutdown marks the server and closes its listeners.
\* The second half, waiting for InFlight to be empty, is the caller's, who also
\* answers for the server field not being nil.
Shutdown ==
  /\ down' = down \cup {handle}
  /\ UNCHANGED <<handle, phase, object, req, via>>

Arrive(r, n) ==
  /\ req[r] = "idle"
  /\ Accepting(n)
  /\ req' = [req EXCEPT ![r] = "active"]
  /\ via' = [via EXCEPT ![r] = object[n]]
  /\ UNCHANGED <<handle, phase, object, down>>

Answer(r) ==
  /\ req[r] # "idle"
  /\ req' = [req EXCEPT ![r] = "idle"]
  /\ via' = [via EXCEPT ![r] = 0]
  /\ UNCHANGED <<handle, phase, object, down>>
=============================================================================
