------------------------------ MODULE Service ------------------------------
(***************************************************************************)
(* The life of a Service (service/service.go) around one HTTP server and   *)
(* the dependencies attached to it.  The goroutines of the application     *)
(* call Serve, Attach, Start and Stop in any order; Start spawns the       *)
(* goroutine that runs the server; requests arrive, borrow connections,    *)
(* and some of them are readiness probes, whose handler calls              *)
(* Service.Status; signals arrive at any time.                             *)
(*                                                                         *)
(* A call that requireState or a validation refuses changes nothing: it is *)
(* the stuttering action Refused.  A goroutine waiting in svc.mu.Lock is   *)
(* one whose next action is guarded by mu = NoCaller.                      *)
(***************************************************************************)
EXTENDS HttpServer, Sequences

CONSTANTS
  Callers,         \* goroutines of the application
  NoCaller,        \* nobody holds svc.mu
  Probes,          \* the requests for /ready
  Deps,            \* dependency integrations
  Pooled,          \* those whose Close waits for borrowed connections
  MaxAttached,     \* how many dependencies may be attached
  ShutdownTimeout  \* in seconds, 0 when WithShutdownTimeout disabled it

ASSUME ServiceAssumption ==
  /\ NoCaller \notin Callers
  /\ Probes \subseteq Requests
  /\ Pooled \subseteq Deps
  /\ MaxAttached \in Nat
  /\ ShutdownTimeout \in Nat

VARIABLES
  state,         \* svc.state
  mu,            \* who holds svc.mu across its steps
  server,        \* whether svc.server is set
  dependencies,  \* svc.dependencies
  starts,        \* the runs of the server spawned so far
  pc,            \* where each goroutine of the application is
  run,           \* the run its Start is waiting for
  notified,      \* the runs whose done channel signal.Notify registered
  done,          \* the runs whose done channel holds a signal
  stopping,      \* the http.Server the current Stop is draining
  task,          \* the Close calls of the current Stop, by attachment
  errs,          \* whether the current Stop has collected an error
  expired,       \* whether its context is past its deadline
  conn,          \* "open" or "closed", for each dependency
  holds,         \* the connections each request has borrowed
  telemetry,     \* "up" until the tracer and the logger are shut down
  crashed        \* the process panicked

lifecycleVars == <<state, mu, server, dependencies, starts, pc, run>>
signalVars == <<notified, done>>
stopVars == <<stopping, task, errs, expired, telemetry, crashed>>
depVars == <<conn, holds>>
vars == <<httpVars, lifecycleVars, signalVars, stopVars, depVars>>

Attachments == 1 .. MaxAttached
Attached == {dependencies[i] : i \in DOMAIN dependencies}
CallerState == {"idle", "starting", "signalled", "stopping", "draining", "closing"}
InStop == {"stopping", "draining", "closing"}

TypeOK ==
  /\ HttpTypeOK
  /\ state \in {"Created", "Started", "Stopped"}
  /\ mu \in Callers \cup {NoCaller}
  /\ server \in BOOLEAN
  /\ dependencies \in Seq(Deps)
  /\ starts \in 0 .. MaxStarts
  /\ pc \in [Callers -> CallerState]
  /\ run \in [Callers -> 0 .. MaxStarts]
  /\ notified \subseteq Runs
  /\ done \subseteq Runs
  /\ stopping \in 0 .. MaxStarts
  /\ task \in [Attachments -> {"pending", "running", "done"}]
  /\ errs \in BOOLEAN
  /\ expired \in BOOLEAN
  /\ conn \in [Deps -> {"open", "closed"}]
  /\ holds \in [Requests -> SUBSET Deps]
  /\ telemetry \in {"up", "down"}
  /\ crashed \in BOOLEAN

\* What New returns.
Init ==
  /\ HttpInit
  /\ state = "Created"
  /\ mu = NoCaller
  /\ server = FALSE
  /\ dependencies = <<>>
  /\ starts = 0
  /\ pc = [p \in Callers |-> "idle"]
  /\ run = [p \in Callers |-> 0]
  /\ notified = {}
  /\ done = {}
  /\ stopping = 0
  /\ task = [i \in Attachments |-> "pending"]
  /\ errs = FALSE
  /\ expired = FALSE
  /\ conn = [d \in Deps |-> "open"]
  /\ holds = [r \in Requests |-> {}]
  /\ telemetry = "up"
  /\ crashed = FALSE

-----------------------------------------------------------------------------
(* Registration and Start.                                                 *)

requireState(expected) == state = expected

Goto(p, l) == pc' = [pc EXCEPT ![p] = l]

\* A goroutine that may take svc.mu.
Locks(p) == pc[p] = "idle" /\ mu = NoCaller

Serve(p) ==
  /\ Locks(p)
  /\ requireState("Created")
  /\ ~server
  /\ server' = TRUE
  /\ UNCHANGED <<httpVars, state, mu, dependencies, starts, pc, run,
                 signalVars, stopVars, depVars>>

\* A dependency may be attached more than once.
Attach(p, d) ==
  /\ Locks(p)
  /\ requireState("Created")
  /\ Len(dependencies) < MaxAttached
  /\ dependencies' = Append(dependencies, d)
  /\ UNCHANGED <<httpVars, state, mu, server, starts, pc, run,
                 signalVars, stopVars, depVars>>

\* From Lock to the second Unlock: the signals are registered and the goroutine
\* that runs the server is spawned.  The state stays Created.
Start(p) ==
  /\ Locks(p)
  /\ requireState("Created")
  /\ server
  /\ starts < MaxStarts
  /\ starts' = starts + 1
  /\ run' = [run EXCEPT ![p] = starts + 1]
  /\ Launch(starts + 1)
  /\ notified' = notified \cup {starts + 1}
  /\ Goto(p, "starting")
  /\ UNCHANGED <<state, mu, server, dependencies, done, stopVars, depVars>>

\* (mutant) The signal is consumed but Start keeps waiting.
StartSwallowsSignal(p) ==
  /\ pc[p] = "starting"
  /\ run[p] \in done
  /\ done' = done \ {run[p]}
  /\ notified' = notified \ {run[p]}
  /\ UNCHANGED <<httpVars, lifecycleVars, stopVars, depVars>>

\* The select takes the signal.
StartSignalled(p) ==
  /\ pc[p] = "starting"
  /\ run[p] \in done
  /\ done' = done \ {run[p]}
  /\ notified' = notified \ {run[p]}
  /\ Goto(p, "signalled")
  /\ UNCHANGED <<httpVars, state, mu, server, dependencies, starts, run,
                 stopVars, depVars>>

\* Only then is the state set, whatever it has become in the meantime.
StartReturns(p) ==
  /\ pc[p] = "signalled"
  /\ mu = NoCaller
  /\ state' = "Started"
  /\ run' = [run EXCEPT ![p] = 0]
  /\ Goto(p, "idle")
  /\ UNCHANGED <<httpVars, mu, server, dependencies, starts,
                 signalVars, stopVars, depVars>>

\* The select takes the error of the server instead.  The state stays Created
\* and the done channel stays registered.
StartFails(p) ==
  /\ pc[p] = "starting"
  /\ phase[run[p]] = "failed"
  /\ run' = [run EXCEPT ![p] = 0]
  /\ Goto(p, "idle")
  /\ UNCHANGED <<httpVars, state, mu, server, dependencies, starts,
                 signalVars, stopVars, depVars>>

\* A signal is delivered to every registered channel; each has room for one.
Signal ==
  /\ notified # {}
  /\ done' = done \cup notified
  /\ UNCHANGED <<httpVars, lifecycleVars, notified, stopVars, depVars>>

-----------------------------------------------------------------------------
(* Stop holds svc.mu from its first statement to its return.               *)

\* (mutant) The dependencies are closed without stopping the server first.
StopSkipsServer(p) ==
  /\ Locks(p)
  /\ requireState("Started")
  /\ mu' = p
  /\ Goto(p, "closing")
  /\ UNCHANGED <<httpVars, state, server, dependencies, starts, run,
                 signalVars, stopVars, depVars>>

Stop(p) ==
  /\ Locks(p)
  /\ requireState("Started")
  /\ mu' = p
  /\ Goto(p, "stopping")
  /\ UNCHANGED <<httpVars, state, server, dependencies, starts, run,
                 signalVars, stopVars, depVars>>

\* (mutant) The nil server field is shut down as if it were a server.
StopServerNil(p) ==
  /\ pc[p] = "stopping"
  /\ Shutdown
  /\ stopping' = handle
  /\ Goto(p, "draining")
  /\ UNCHANGED <<state, mu, server, dependencies, starts, run, signalVars,
                 task, errs, expired, telemetry, crashed, depVars>>

\* server.Stop is called: Shutdown on what the server field holds.  A nil field
\* is dereferenced and the process panics.
StopServer(p) ==
  /\ pc[p] = "stopping"
  /\ \/ /\ handle # 0
        /\ Shutdown
        /\ stopping' = handle
        /\ Goto(p, "draining")
        /\ UNCHANGED crashed
     \/ /\ handle = 0
        /\ crashed' = TRUE
        /\ UNCHANGED <<httpVars, stopping, pc>>
  /\ UNCHANGED <<state, mu, server, dependencies, starts, run, signalVars,
                 task, errs, expired, telemetry, depVars>>

\* (mutant) Close instead of Shutdown: nothing is waited for.
StopDrainsNothing(p) ==
  /\ pc[p] = "draining"
  /\ errs' \in BOOLEAN
  /\ Goto(p, "closing")
  /\ UNCHANGED <<httpVars, state, mu, server, dependencies, starts, run,
                 signalVars, stopping, task, expired, telemetry, crashed, depVars>>

\* Shutdown returns once nothing is in flight; closing a listener may have failed.
StopDrained(p) ==
  /\ pc[p] = "draining"
  /\ InFlight(stopping) = {}
  /\ errs' \in BOOLEAN
  /\ Goto(p, "closing")
  /\ UNCHANGED <<httpVars, state, mu, server, dependencies, starts, run,
                 signalVars, stopping, task, expired, telemetry, crashed, depVars>>

\* (mutant) The error of an expired drain is dropped.
StopDrainErrorDropped(p) ==
  /\ pc[p] = "draining"
  /\ expired
  /\ Goto(p, "closing")
  /\ UNCHANGED <<httpVars, state, mu, server, dependencies, starts, run,
                 signalVars, stopping, task, errs, expired, telemetry, crashed, depVars>>

\* (mutant) Shutdown is given a context that never expires.
StopDrainIgnoresDeadline(p) ==
  /\ pc[p] = "draining"
  /\ expired
  /\ UNCHANGED vars

\* Or with the error of its context.
StopDrainExpires(p) ==
  /\ pc[p] = "draining"
  /\ expired
  /\ errs' = TRUE
  /\ Goto(p, "closing")
  /\ UNCHANGED <<httpVars, state, mu, server, dependencies, starts, run,
                 signalVars, stopping, task, expired, telemetry, crashed, depVars>>

\* (mutant) The timeout is not applied.
ExpireNever ==
  /\ mu # NoCaller
  /\ ~expired
  /\ UNCHANGED vars

\* The timer of context.WithTimeout.
Expire ==
  /\ ShutdownTimeout > 0
  /\ mu # NoCaller
  /\ ~expired
  /\ expired' = TRUE
  /\ UNCHANGED <<httpVars, lifecycleVars, signalVars, stopping, task, errs,
                 telemetry, crashed, depVars>>

\* The Close calls run concurrently, one goroutine for each attachment.
CloseBegins(p, i) ==
  /\ pc[p] = "closing"
  /\ i \in DOMAIN dependencies
  /\ task[i] = "pending"
  /\ task' = [task EXCEPT ![i] = "running"]
  /\ conn' = [conn EXCEPT ![dependencies[i]] = "closed"]
  /\ UNCHANGED <<httpVars, lifecycleVars, signalVars, stopping, errs, expired,
                 telemetry, crashed, holds>>

\* (mutant) The pool is torn down under its borrowers.
CloseEndsAtOnce(p, i) ==
  /\ pc[p] = "closing"
  /\ i \in DOMAIN dependencies
  /\ task[i] = "running"
  /\ task' = [task EXCEPT ![i] = "done"]
  /\ errs' \in {errs, TRUE}
  /\ UNCHANGED <<httpVars, lifecycleVars, signalVars, stopping, expired,
                 telemetry, crashed, depVars>>

\* A pool waits for its connections and ignores the context.
CloseEnds(p, i) ==
  /\ pc[p] = "closing"
  /\ i \in DOMAIN dependencies
  /\ task[i] = "running"
  /\ dependencies[i] \in Pooled => \A r \in Requests : dependencies[i] \notin holds[r]
  /\ task' = [task EXCEPT ![i] = "done"]
  /\ errs' \in {errs, TRUE}
  /\ UNCHANGED <<httpVars, lifecycleVars, signalVars, stopping, expired,
                 telemetry, crashed, depVars>>

\* (mutant) Without wg.Wait.
StopReturnsEarly(p) ==
  /\ pc[p] = "closing"
  /\ telemetry' = "down"
  /\ \/ ~errs /\ state' = "Stopped"
     \/ UNCHANGED state
  /\ mu' = NoCaller
  /\ errs' = FALSE
  /\ expired' = FALSE
  /\ task' = [i \in Attachments |-> "pending"]
  /\ Goto(p, "idle")
  /\ UNCHANGED <<httpVars, server, dependencies, starts, run, signalVars,
                 stopping, crashed, depVars>>

\* wg.Wait has returned: the telemetry is shut down and Stop returns, leaving
\* the state as it is when anything failed.  Its local variables die with it.
StopReturns(p) ==
  /\ pc[p] = "closing"
  /\ \A i \in DOMAIN dependencies : task[i] = "done"
  /\ telemetry' = "down"
  /\ \/ ~errs /\ state' = "Stopped"
     \/ UNCHANGED state
  /\ mu' = NoCaller
  /\ errs' = FALSE
  /\ expired' = FALSE
  /\ task' = [i \in Attachments |-> "pending"]
  /\ Goto(p, "idle")
  /\ UNCHANGED <<httpVars, server, dependencies, starts, run, signalVars,
                 stopping, crashed, depVars>>

Refused(p) == Locks(p) /\ UNCHANGED vars

-----------------------------------------------------------------------------
(* The server goroutine and the requests.                                  *)

serviceVars == <<lifecycleVars, signalVars, stopVars, depVars>>

ServerSteps(n) ==
  /\ Build(n) \/ Listen(n) \/ ServeReturns(n)
  /\ UNCHANGED serviceVars

Request(r) == (\E n \in Runs : Arrive(r, n)) /\ UNCHANGED serviceVars

\* The handler of an ordinary request uses a dependency.
Borrow(r, d) ==
  /\ req[r] = "active"
  /\ r \notin Probes
  /\ d \in Attached \cap Pooled
  /\ conn[d] = "open"
  /\ holds' = [holds EXCEPT ![r] = @ \cup {d}]
  /\ UNCHANGED <<httpVars, lifecycleVars, signalVars, stopVars, conn>>

Respond(r) ==
  /\ r \notin Probes
  /\ Answer(r)
  /\ holds' = [holds EXCEPT ![r] = {}]
  /\ UNCHANGED <<lifecycleVars, signalVars, stopVars, conn>>

\* handlerReadiness calls Status: it takes svc.mu to copy the server and the
\* dependencies, and only then gives a context without deadline one of its own.
StatusLocks(r) ==
  /\ r \in Probes
  /\ req[r] = "active"
  /\ mu = NoCaller
  /\ req' = [req EXCEPT ![r] = "checking"]
  /\ UNCHANGED <<handle, phase, object, down, via, serviceVars>>

StatusReturns(r) ==
  /\ r \in Probes
  /\ req[r] = "checking"
  /\ Answer(r)
  /\ UNCHANGED serviceVars

-----------------------------------------------------------------------------

StopSteps(p) ==
  \/ StopServer(p)
  \/ StopDrained(p)
  \/ StopDrainExpires(p)
  \/ \E i \in Attachments : CloseBegins(p, i) \/ CloseEnds(p, i)
  \/ StopReturns(p)

CallerSteps(p) ==
  \/ Serve(p)
  \/ \E d \in Deps : Attach(p, d)
  \/ Start(p)
  \/ StartSignalled(p)
  \/ StartReturns(p)
  \/ StartFails(p)
  \/ Stop(p)
  \/ StopSteps(p)
  \/ Refused(p)

RequestSteps(r) ==
  \/ Request(r)
  \/ \E d \in Deps : Borrow(r, d)
  \/ Respond(r)
  \/ StatusLocks(r)
  \/ StatusReturns(r)

\* A panic ends the process.
Next ==
  \/ /\ ~crashed
     /\ \/ \E p \in Callers : CallerSteps(p)
        \/ \E n \in Runs : ServerSteps(n)
        \/ \E r \in Requests : RequestSteps(r)
        \/ Signal
        \/ Expire
  \/ crashed /\ UNCHANGED vars

Spec == Init /\ [][Next]_vars

(***************************************************************************)
(* Fairness: goroutines are scheduled, timers fire, sync.Mutex in its      *)
(* starvation mode serves every waiter (strong fairness of the two steps   *)
(* that wait for it while others come and go), and the statuses a probe    *)
(* asks for answer within the deadline Status gives them.                  *)
(***************************************************************************)
Scheduling ==
  /\ \A n \in Runs : WF_vars(~crashed /\ ServerSteps(n) /\ phase[n] \in {"launched", "built"})
  /\ \A n \in Runs : WF_vars(~crashed /\ ServerSteps(n) /\ object[n] \in down)
  /\ \A p \in Callers :
       /\ WF_vars(~crashed /\ (StartSignalled(p) \/ StartFails(p)))
       /\ SF_vars(~crashed /\ StartReturns(p))
       /\ WF_vars(~crashed /\ StopSteps(p))
  /\ WF_vars(~crashed /\ Expire)
  /\ \A r \in Probes :
       /\ SF_vars(~crashed /\ StatusLocks(r))
       /\ WF_vars(~crashed /\ StatusReturns(r))

\* The handlers of the application return.
HandlersReturn == \A r \in Requests \ Probes : WF_vars(~crashed /\ Respond(r))

ScheduledSpec == Spec /\ Scheduling
FairSpec == ScheduledSpec /\ HandlersReturn

(***************************************************************************)
(* A Service that is started once, or again only after a Start that has    *)
(* failed: that is as far as the documented shutdown holds, since nothing  *)
(* in Start keeps two servers apart.                                       *)
(***************************************************************************)

\* Every run there was has failed before it listened, and its Start is over.
NoneAlive ==
  /\ \A n \in Runs : phase[n] \in {"absent", "failed"} /\ object[n] = 0
  /\ \A p \in Callers : pc[p] \notin {"starting", "signalled"}

\* Start is not called while a server may be alive, and the server a Stop shuts
\* down is not one of an earlier Start.
Orderly ==
  /\ starts' # starts => NoneAlive
  /\ down' # down => handle \in {0, starts}

OrderlyNext == Next /\ Orderly
OrderlySpec == Init /\ [][OrderlyNext]_vars
FairOrderlySpec == OrderlySpec /\ Scheduling /\ HandlersReturn

-----------------------------------------------------------------------------
(* Safety.                                                                 *)

\* The dependencies are torn down only after the server being stopped has no
\* request in flight, unless the deadline of this Stop has passed: no request
\* that races with Shutdown, and no connection accepted late, is left behind.
\* (Stop calls server.Stop before it spawns the Close calls.)  A request meets a
\* closed dependency, also by the copy of them that Status has made for a probe,
\* only if a drain ran into its deadline, and that Stop tells so.
DrainBeforeClose ==
  /\ \A p \in Callers : pc[p] = "closing" /\ ~expired => InFlight(stopping) = {}
  /\ InFlight(stopping) # {} /\ (\E d \in Attached : conn[d] = "closed") =>
       state = "Started" /\ (telemetry = "down" \/ (expired /\ errs))

\* A connection a request has borrowed from a pool is never gone under it: as
\* long as it is held, the pool is open or one of its Close calls still waits.
BorrowedStaysAlive ==
  \A r \in Requests : \A d \in holds[r] :
    conn[d] = "open" \/ \E p \in Callers : pc[p] = "closing"

\* The tracer and the logger go last: once they are down every dependency that
\* was ever attached is closed, also when that Stop has failed and another one
\* is retrying, and no late Attach has slipped in a dependency nobody closes.
TelemetryLast ==
  telemetry = "down" => \A d \in Attached : conn[d] = "closed"

\* A Service that reports Stopped has released everything: each dependency is
\* closed, no request holds a connection of any of them, the telemetry is
\* flushed, and the http.Server that Stop drained no longer serves anything.
StoppedMeansReleased ==
  state = "Stopped" =>
    /\ \A d \in Attached : conn[d] = "closed" /\ \A r \in Requests : d \notin holds[r]
    /\ telemetry = "down"
    /\ stopping \in down /\ InFlight(stopping) = {}

\* svc.mu: at most one goroutine is inside Stop, and it is the one the lock
\* belongs to, so nobody registers, starts or reads the status meanwhile.
StopHoldsLock ==
  \A p \in Callers : pc[p] \in InStop <=> mu = p

\* When Starts are orderly, a stopped Service is silent: no run accepts a
\* connection and no request at all is in flight.
StoppedIsQuiet ==
  state = "Stopped" =>
    /\ \A n \in Runs : ~Accepting(n)
    /\ \A r \in Requests : req[r] = "idle"

-----------------------------------------------------------------------------
(* The invariants above are not inductive: they also need to know where    *)
(* the requests and the Close calls of the Stop in progress stand.         *)

Closing == \E p \in Callers : pc[p] = "closing"

\* Nobody is in Stop unless the Service is Started; the telemetry goes down
\* with it, so Attach is over by then.
StopOnlyStarted ==
  /\ mu # NoCaller => state = "Started"
  /\ telemetry = "down" => state # "Created"

\* What is borrowed belongs to a pool that is attached.
BorrowsTracked == \A r \in Requests : holds[r] \subseteq Attached \cap Pooled

\* The server being drained accepts nothing any more, and as long as Stop has
\* collected no error, or its deadline is ahead, it has been drained.
DrainDone ==
  \A p \in Callers :
    /\ pc[p] \in {"draining", "closing"} => stopping \in down
    /\ pc[p] = "closing" /\ (~errs \/ ~expired) => InFlight(stopping) = {}

\* A Close call that has begun has closed its dependency, and one that has
\* returned left no connection of it borrowed.
CloseProgress ==
  /\ ~Closing => \A i \in Attachments : task[i] = "pending"
  /\ \A i \in DOMAIN dependencies :
       /\ i \in Attachments
       /\ task[i] # "pending" => conn[dependencies[i]] = "closed"
       /\ task[i] = "done" => \A r \in Requests : dependencies[i] \notin holds[r]

IInv ==
  /\ TypeOK
  /\ StopHoldsLock
  /\ StopOnlyStarted
  /\ BorrowsTracked
  /\ DrainDone
  /\ CloseProgress
  /\ BorrowedStaysAlive
  /\ TelemetryLast
  /\ StoppedMeansReleased

\* Nothing is shut down or closed before the Service is started; a dependency
\* is first closed by a Stop that still runs, and the telemetry only goes down
\* after a Shutdown.
StopsFromStarted ==
  /\ state = "Created" => down = {} /\ \A d \in Deps : conn[d] = "open"
  /\ telemetry = "up" /\ (\E d \in Deps : conn[d] = "closed") => Closing
  /\ telemetry = "down" => stopping \in down

-----------------------------------------------------------------------------
(* What a Service whose Starts are orderly keeps to in addition:           *)
(* StoppedIsQuiet and the refinement below need to know that nobody returns *)
(* from Start after Stop, and that the server being drained is the only one. *)

\* Only one goroutine waits for the run, in a Service that is still Created.
OneStarter ==
  \A p \in Callers : pc[p] \in {"starting", "signalled"} =>
    /\ state = "Created" /\ starts # 0
    /\ \A q \in Callers : pc[q] \in {"starting", "signalled"} => q = p

\* Every request and every server there is belongs to the last run.
LastRun ==
  /\ \A n \in Runs : n # starts => phase[n] \in {"absent", "failed"} /\ object[n] = 0
  /\ starts # 0 /\ phase[starts] # "launched" => handle = starts
  /\ \A n \in Runs : object[n] \in {0, starts} /\ (phase[n] = "serving" => object[n] # 0)
  /\ \A r \in Requests : req[r] # "idle" => via[r] # 0
  /\ \A r \in Requests : via[r] # 0 => via[r] = starts /\ object[starts] # 0
  /\ down \subseteq {starts}
  /\ starts = 0 => handle = 0

OrderlyInv == OneStarter /\ LastRun

-----------------------------------------------------------------------------
(* Refinement: a Service whose Starts are orderly implements               *)
(* GracefulShutdown.  A Stop that has not yet called Shutdown has not begun *)
(* to drain.                                                               *)

stage ==
  IF state = "Stopped" THEN "stopped"
  ELSE IF \E p \in Callers : pc[p] = "draining" THEN "draining"
  ELSE IF \E p \in Callers : pc[p] = "closing" THEN "closing"
  ELSE IF telemetry = "down" THEN "failed"
  ELSE "up"

Graceful == INSTANCE GracefulShutdown WITH
  inflight <- {r \in Requests : req[r] # "idle"},
  open <- {d \in Attached : conn[d] = "open"},
  overdue <- expired /\ \E p \in Callers : pc[p] \in {"draining", "closing"}

\* Every step of the code is a step of the documented shutdown or changes
\* nothing of it: no request slips in between the drain and the Close calls,
\* none is left when the Service says Stopped, and a retried Stop drains again.
ImplementsGracefulShutdown == Graceful!AbsSpec

-----------------------------------------------------------------------------
(* Liveness.                                                               *)

\* A Stop that has begun returns, whatever the requests, the probes waiting for
\* its lock and the other goroutines do.
StopEnds == \A p \in Callers : pc[p] \in InStop ~> (pc[p] = "idle" \/ crashed)

\* A readiness probe is answered, also when it arrives while Stop holds svc.mu.
ProbesAnswered == \A r \in Probes : req[r] = "active" ~> (req[r] = "idle" \/ crashed)

\* A signal makes Start return, although the goroutine that took it has to wait
\* for svc.mu before it can record the new state.
SignalEndsStart ==
  \A p \in Callers : (pc[p] = "starting" /\ run[p] \in done) ~> (pc[p] = "idle" \/ crashed)

-----------------------------------------------------------------------------
(* What the documentation promises and the code does not keep.             *)

\* service/service.go:312 - Stop gracefully stops the server.  It dereferences
\* the nil server field when the signal outruns the goroutine of the server.
StopNeverPanics == ~crashed

=============================================================================
