----------------------------- MODULE Readiness -----------------------------
(***************************************************************************)
(* One call of Service.Status (service/service.go), the readiness check    *)
(* behind GET /ready.  It probes the server and every dependency in a      *)
(* goroutine of its own; an HTTP client among them probes each of its      *)
(* endpoints the same way (integration/httpclient/integration.go).  Both   *)
(* levels merge the answers under a mutex and wait for all of them.        *)
(*                                                                         *)
(* A task is one of these goroutines and a group is one such fan-out.  The *)
(* critical section of check is two steps, so that what the mutex protects *)
(* (a maximum and a slice, read then written) can be seen.                 *)
(***************************************************************************)
EXTENDS Integers, Sequences, FiniteSets

CONSTANTS
  Plain,      \* the server and the dependencies probed by one request
  Client,     \* the HTTP client, a dependency as well
  Endpoints,  \* the endpoints of the HTTP client
  Nobody      \* an unlocked mutex

ASSUME ReadinessAssumption ==
  /\ Client \notin Plain \cup Endpoints
  /\ Plain \cap Endpoints = {}
  /\ IsFiniteSet(Plain) /\ IsFiniteSet(Endpoints)
  /\ Nobody \notin Plain \cup Endpoints \cup {Client}

VARIABLES
  pc,       \* the call of Status: "idle", "waiting" in wg.Wait or "returned"
  silent,   \* the peers that do not answer before the context is done
  bounded,  \* whether the context has a deadline
  expired,  \* whether that deadline has passed
  task,     \* where each goroutine is
  failed,   \* the tasks whose probe returned an error
  lock,     \* who holds the mutex of each group
  worst,    \* the highest status each group has merged
  entries,  \* the error entries each group has merged
  local     \* what a goroutine has read of its group, inside check

vars == <<pc, silent, bounded, expired, task, failed, lock, worst, entries, local>>

Members == Plain \cup {Client}
Tasks == Members \cup Endpoints
Probed == Plain \cup Endpoints
Groups == {"service", "client"}
group(t) == IF t \in Endpoints THEN "client" ELSE "service"
TasksOf(g) == IF g = "client" THEN Endpoints ELSE Members
Healthy == 200
Unavailable == 503
Larger(a, b) == IF a > b THEN a ELSE b

TypeOK ==
  /\ pc \in {"idle", "waiting", "returned"}
  /\ silent \subseteq Probed
  /\ bounded \in BOOLEAN /\ expired \in BOOLEAN
  /\ task \in [Tasks -> {"absent", "running", "answered", "checking", "done"}]
  /\ failed \subseteq Tasks
  /\ lock \in [Groups -> Tasks \cup {Nobody}]
  /\ worst \in [Groups -> {Healthy, Unavailable}]
  /\ entries \in [Groups -> Seq(Tasks)]
  /\ local \in [Tasks -> [worst : {Healthy, Unavailable}, entries : Seq(Tasks)]]

Blank == [worst |-> Healthy, entries |-> << >>]

Init ==
  /\ pc = "idle"
  /\ silent \in SUBSET Probed
  /\ bounded \in BOOLEAN
  /\ expired = FALSE
  /\ task = [t \in Tasks |-> "absent"]
  /\ failed = {}
  /\ lock = [g \in Groups |-> Nobody]
  /\ worst = [g \in Groups |-> Healthy]
  /\ entries = [g \in Groups |-> << >>]
  /\ local = [t \in Tasks |-> Blank]

\* (mutant) A context without a deadline is passed on as it is.
StatusUnbounded ==
  /\ pc = "idle"
  /\ pc' = "waiting"
  /\ task' = [t \in Tasks |-> IF t \in Members THEN "running" ELSE "absent"]
  /\ UNCHANGED <<silent, bounded, expired, failed, lock, worst, entries, local>>

\* Status copies the dependencies, gives the context a deadline when it has
\* none (statusTimeout) and spawns a goroutine per integration.
Status ==
  /\ pc = "idle"
  /\ pc' = "waiting"
  /\ bounded' = TRUE
  /\ task' = [t \in Tasks |-> IF t \in Members THEN "running" ELSE "absent"]
  /\ UNCHANGED <<silent, expired, failed, lock, worst, entries, local>>

Expire ==
  /\ pc = "waiting" /\ bounded /\ ~expired
  /\ expired' = TRUE
  /\ UNCHANGED <<pc, silent, bounded, task, failed, lock, worst, entries, local>>

\* The Status of the HTTP client spawns a goroutine per endpoint.
FanOut ==
  /\ task[Client] = "running"
  /\ \A e \in Endpoints : task[e] = "absent"
  /\ task' = [t \in Tasks |-> IF t \in Endpoints THEN "running" ELSE task[t]]
  /\ UNCHANGED <<pc, silent, bounded, expired, failed, lock, worst, entries, local>>

\* A ping or a GET answers, well or badly, or is given up with the context.
Answers(t) ==
  /\ t \in Probed
  /\ task[t] = "running"
  /\ \/ t \notin silent /\ UNCHANGED failed
     \/ failed' = failed \cup {t} /\ (t \in silent => expired)
  /\ task' = [task EXCEPT ![t] = "answered"]
  /\ UNCHANGED <<pc, silent, bounded, expired, lock, worst, entries, local>>

\* wg.Wait of a fan-out.
AllDone(g) == \A t \in TasksOf(g) : task[t] = "done"

\* The Status of the HTTP client returns: an error whose entries are its own
\* headline and those of the endpoints, when there is any.
ClientAnswers ==
  /\ task[Client] = "running"
  /\ AllDone("client")
  /\ task' = [task EXCEPT ![Client] = "answered"]
  /\ failed' = IF entries["client"] # << >> THEN failed \cup {Client} ELSE failed
  /\ UNCHANGED <<pc, silent, bounded, expired, lock, worst, entries, local>>

\* (mutant) An error counts as an internal one.
StatusOfInternal(t) ==
  IF t = Client THEN worst["client"]
  ELSE IF t \in failed THEN 500 ELSE Healthy

\* What check is called with: the status and the entries of the error.
StatusOf(t) ==
  IF t = Client THEN worst["client"]
  ELSE IF t \in failed THEN Unavailable ELSE Healthy

EntriesOf(t) ==
  IF t \notin failed THEN << >>
  ELSE IF t = Client THEN <<Client>> \o entries["client"] ELSE <<t>>

\* (mutant) check is entered without the mutex.
CheckUnlocked(t) ==
  LET g == group(t) IN
  /\ task[t] = "answered"
  /\ lock' = [lock EXCEPT ![g] = t]
  /\ local' = [local EXCEPT ![t] = [worst |-> worst[g], entries |-> entries[g]]]
  /\ task' = [task EXCEPT ![t] = "checking"]
  /\ UNCHANGED <<pc, silent, bounded, expired, failed, worst, entries>>

\* check locks the mutex of its group and reads what is merged so far,
Check(t) ==
  LET g == group(t) IN
  /\ task[t] = "answered"
  /\ lock[g] = Nobody
  /\ lock' = [lock EXCEPT ![g] = t]
  /\ local' = [local EXCEPT ![t] = [worst |-> worst[g], entries |-> entries[g]]]
  /\ task' = [task EXCEPT ![t] = "checking"]
  /\ UNCHANGED <<pc, silent, bounded, expired, failed, worst, entries>>

\* then writes the higher status and the longer slice, and unlocks it.
Merge(t) ==
  LET g == group(t) IN
  /\ task[t] = "checking"
  /\ worst' = [worst EXCEPT ![g] = Larger(local[t].worst, StatusOf(t))]
  /\ entries' = [entries EXCEPT ![g] = local[t].entries \o EntriesOf(t)]
  /\ lock' = [lock EXCEPT ![g] = Nobody]
  /\ local' = [local EXCEPT ![t] = Blank]
  /\ task' = [task EXCEPT ![t] = "done"]
  /\ UNCHANGED <<pc, silent, bounded, expired, failed>>

StatusReturns ==
  /\ pc = "waiting"
  /\ AllDone("service")
  /\ pc' = "returned"
  /\ UNCHANGED <<silent, bounded, expired, task, failed, lock, worst, entries, local>>

\* The next call: its context may have a deadline, its peers may be silent.
NextCall ==
  /\ pc = "returned"
  /\ pc' = "idle"
  /\ silent' \in SUBSET Probed
  /\ bounded' \in BOOLEAN
  /\ expired' = FALSE
  /\ task' = [t \in Tasks |-> "absent"]
  /\ failed' = {}
  /\ worst' = [g \in Groups |-> Healthy]
  /\ entries' = [g \in Groups |-> << >>]
  /\ UNCHANGED <<lock, local>>

TaskSteps(t) == Answers(t) \/ Check(t) \/ Merge(t)

Next ==
  \/ Status \/ Expire \/ FanOut \/ ClientAnswers \/ StatusReturns \/ NextCall
  \/ \E t \in Tasks : TaskSteps(t)

Spec == Init /\ [][Next]_vars

\* Goroutines are scheduled, the timer fires, sync.Mutex is not kept from a
\* waiter for ever, and clients give up when their context is done.
FairSpec ==
  /\ Spec
  /\ WF_vars(Expire) /\ WF_vars(FanOut) /\ WF_vars(ClientAnswers) /\ WF_vars(StatusReturns)
  /\ \A t \in Tasks : WF_vars(Answers(t)) /\ SF_vars(Check(t)) /\ WF_vars(Merge(t))

-----------------------------------------------------------------------------
(* Safety                                                                  *)

Count(s, x) == Cardinality({i \in DOMAIN s : s[i] = x})

\* What Status returns tells of every failure, however the goroutines of the two
\* fan-outs interleave: its status is 503 exactly when some peer failed, each
\* failing peer is named once, no healthy one is, and a failing client is named
\* beside the endpoints that made it fail.
EveryFailureTold ==
  pc = "returned" =>
    /\ worst["service"] = IF failed = {} THEN Healthy ELSE Unavailable
    /\ \A t \in Tasks : Count(entries["service"], t) = IF t \in failed THEN 1 ELSE 0

-----------------------------------------------------------------------------
(* Liveness                                                                *)

\* Status comes back even when a peer never answers and the caller's context
\* has no deadline of its own.
StatusComesBack == pc = "waiting" ~> pc = "returned"
=============================================================================
