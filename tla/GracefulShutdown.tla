-------------------------- MODULE GracefulShutdown --------------------------
(***************************************************************************)
(* What a Service promises of its shutdown, with no lock, no goroutine and *)
(* no signal: the "Shutdown order" of README.md (218-228), with the escape *)
(* the code gives it when the shutdown timeout passes.                     *)
(*                                                                         *)
(* Requests are accepted while the service is up and never once the drain  *)
(* has begun; the dependencies are closed after the drain, which ends when *)
(* nothing is in flight or when it is overdue; a stopped service has no    *)
(* request in flight and no dependency open.  A shutdown that collected an *)
(* error fails, and may be tried again from the drain on.                  *)
(***************************************************************************)
CONSTANTS Requests, Deps

VARIABLES
  stage,     \* "up", "draining", "closing", "stopped" or "failed"
  inflight,  \* the requests being processed
  open,      \* the dependencies attached and not closed
  overdue    \* the deadline of this shutdown has passed

absVars == <<stage, inflight, open, overdue>>

AbsInit ==
  /\ stage = "up"
  /\ inflight = {}
  /\ open = {}
  /\ overdue = FALSE

Attaches(d) ==
  /\ stage = "up"
  /\ open' = open \cup {d}
  /\ UNCHANGED <<stage, inflight, overdue>>

Accepts(r) ==
  /\ stage = "up"
  /\ inflight' = inflight \cup {r}
  /\ UNCHANGED <<stage, open, overdue>>

Answers(r) ==
  /\ inflight' = inflight \ {r}
  /\ UNCHANGED <<stage, open, overdue>>

\* Also the retry of a shutdown that failed.
Drains ==
  /\ stage \in {"up", "failed"}
  /\ stage' = "draining"
  /\ overdue' \in BOOLEAN
  /\ UNCHANGED <<inflight, open>>

Overruns ==
  /\ stage \in {"draining", "closing"}
  /\ overdue' = TRUE
  /\ UNCHANGED <<stage, inflight, open>>

TearsDown ==
  /\ stage = "draining"
  /\ inflight = {} \/ overdue
  /\ stage' = "closing"
  /\ UNCHANGED <<inflight, open, overdue>>

Closes(d) ==
  /\ stage = "closing"
  /\ open' = open \ {d}
  /\ UNCHANGED <<stage, inflight, overdue>>

Ends ==
  /\ stage = "closing"
  /\ open = {}
  /\ \/ inflight = {} /\ stage' = "stopped"
     \/ stage' = "failed"
  /\ overdue' = FALSE
  /\ UNCHANGED <<inflight, open>>

AbsNext ==
  \/ \E d \in Deps : Attaches(d) \/ Closes(d)
  \/ \E r \in Requests : Accepts(r) \/ Answers(r)
  \/ Drains \/ Overruns \/ TearsDown \/ Ends

AbsSpec == AbsInit /\ [][AbsNext]_absVars
=============================================================================
