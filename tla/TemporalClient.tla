--------------------------- MODULE TemporalClient ---------------------------
(***************************************************************************)
(* The two calls of integration/temporal/client.go that look at the server *)
(* before they act: createSchedule, which describes a schedule and then    *)
(* creates it, and closedWorkflowResult, which describes a workflow run    *)
(* and then reads its result.  The server and every other client of it may *)
(* move between the two steps of a call, and any request may fail.         *)
(*                                                                         *)
(* One schedule and the runs of one workflow Id are kept.  The server and  *)
(* its SDK are external: what is modelled of them is what the code relies  *)
(* on.  A schedule is kept once created (nobody deletes it), a closed run  *)
(* never reopens, and reading a run that was continued as new follows the  *)
(* continuation.  Cron expressions are left out, as schedulesMatch does.   *)
(***************************************************************************)
EXTENDS Naturals, Sequences

CONSTANTS
  Callers,  \* goroutines using the client
  Queues,   \* task queues
  NoSchedule,
  MaxRuns   \* bound on the runs of the workflow

ASSUME TemporalClientAssumption ==
  /\ MaxRuns \in Nat
  /\ NoSchedule \notin [workflow : {"own", "foreign"}, queue : Queues,
                        overlap : {"unspecified", "skip", "other"}]

VARIABLES
  schedule,  \* the schedule on the server, or NoSchedule
  runs,      \* the status of each run of the workflow, the oldest first
  expired,   \* the runs whose history is gone
  pc,        \* the request each caller is about to make
  request,   \* the schedule its call asks for, NoSchedule in a read
  met,       \* the schedule that was there when its call began
  asked,     \* the run it asks for, 0 for the empty runID
  at,        \* the run its Get reads, 0 until it is resolved
  outcome    \* what its call returned

serverVars == <<schedule, runs, expired>>
callVars == <<pc, request, met, asked, at, outcome>>
clientVars == <<serverVars, callVars>>

Overlaps == {"unspecified", "skip", "other"}
Schedules == [workflow : {"own", "foreign"}, queue : Queues, overlap : Overlaps]

\* CreateSchedule names the schedule after the workflow it starts.
Requests == {s \in Schedules : s.workflow = "own"}

Statuses == {"running", "completed", "failed", "continued"}
Outcomes == [kind : {"none", "created", "alreadyRunning", "error",
                     "notClosed", "value", "closedError"},
             run : 0 .. MaxRuns]
Outcome(kind) == [kind |-> kind, run |-> 0]

ClientTypeOK ==
  /\ schedule \in Schedules \cup {NoSchedule}
  /\ runs \in Seq(Statuses) /\ Len(runs) <= MaxRuns
  /\ expired \subseteq 1 .. Len(runs)
  /\ pc \in [Callers -> {"free", "describeSchedule", "create", "describeRun", "get"}]
  /\ request \in [Callers -> Requests \cup {NoSchedule}]
  /\ met \in [Callers -> Schedules \cup {NoSchedule}]
  /\ asked \in [Callers -> 0 .. Len(runs)]
  /\ at \in [Callers -> 0 .. Len(runs)]
  /\ outcome \in [Callers -> Outcomes]

\* The schedule may be there already, with any content, and so may be runs.
ClientInit ==
  /\ schedule \in Schedules \cup {NoSchedule}
  /\ runs = << >>
  /\ expired = {}
  /\ pc = [c \in Callers |-> "free"]
  /\ request = [c \in Callers |-> NoSchedule]
  /\ met = [c \in Callers |-> NoSchedule]
  /\ asked = [c \in Callers |-> 0]
  /\ at = [c \in Callers |-> 0]
  /\ outcome = [c \in Callers |-> Outcome("none")]

Returns(c, o) ==
  /\ outcome' = [outcome EXCEPT ![c] = o]
  /\ pc' = [pc EXCEPT ![c] = "free"]
  /\ at' = [at EXCEPT ![c] = 0]

-----------------------------------------------------------------------------
(* createSchedule *)

\* The server stores an unspecified overlap policy as "skip".
Normalized(overlap) == IF overlap = "unspecified" THEN "skip" ELSE overlap

Stored(requested) ==
  [workflow |-> requested.workflow, queue |-> requested.queue,
   overlap |-> Normalized(requested.overlap)]

\* (mutants) The task queue is not compared; the overlap policies are
\* compared as they were written.
MatchesAnyQueue(existing, requested) ==
  /\ Normalized(existing.overlap) = Normalized(requested.overlap)
  /\ existing.workflow = requested.workflow

MatchesVerbatim(existing, requested) == existing = requested

\* schedulesMatch.
Matches(existing, requested) ==
  /\ Normalized(existing.overlap) = Normalized(requested.overlap)
  /\ existing.workflow = requested.workflow
  /\ existing.queue = requested.queue

CreateSchedule(c) ==
  /\ pc[c] = "free"
  /\ \E r \in Requests : request' = [request EXCEPT ![c] = r]
  /\ met' = [met EXCEPT ![c] = schedule]
  /\ asked' = [asked EXCEPT ![c] = 0]
  /\ outcome' = [outcome EXCEPT ![c] = Outcome("none")]
  /\ pc' = [pc EXCEPT ![c] = "describeSchedule"]
  /\ UNCHANGED <<serverVars, at>>

DescribeSchedule(c) ==
  /\ pc[c] = "describeSchedule"
  /\ \/ /\ schedule # NoSchedule
        /\ Matches(schedule, request[c])
        /\ Returns(c, Outcome("created"))
     \/ /\ schedule # NoSchedule
        /\ ~ Matches(schedule, request[c])
        /\ Returns(c, Outcome("alreadyRunning"))
     \/ /\ schedule = NoSchedule
        /\ pc' = [pc EXCEPT ![c] = "create"]
        /\ UNCHANGED <<outcome, at>>
     \/ Returns(c, Outcome("error"))
  /\ UNCHANGED <<serverVars, request, met, asked>>

\* ScheduleClient.Create: the server refuses a schedule that exists by now.
\* The request may fail before it is applied, or its reply may be lost.
Create(c) ==
  /\ pc[c] = "create"
  /\ \/ /\ schedule = NoSchedule
        /\ schedule' = Stored(request[c])
        /\ \/ Returns(c, Outcome("created"))
           \/ Returns(c, Outcome("error"))
     \/ /\ schedule # NoSchedule
        /\ Returns(c, Outcome("alreadyRunning"))
        /\ UNCHANGED schedule
     \/ /\ Returns(c, Outcome("error"))
        /\ UNCHANGED schedule
  /\ UNCHANGED <<runs, expired, request, met, asked>>

-----------------------------------------------------------------------------
(* closedWorkflowResult *)

Latest == Len(runs)
Named(c) == IF asked[c] = 0 THEN Latest ELSE asked[c]
Known(k) == k # 0 /\ k \notin expired

\* A run that is to be left alone: Get would wait for it.
InProgress(k) == runs[k] = "running"

\* (mutants) The result is read from the latest run, whatever run was asked
\* for; from the run after it.
ReadLatest(c) == Len(runs)
ReadNext(c) == asked[c] + 1

\* The runID handed to GetWorkflow.
ReadRun(c) == asked[c]

GetResultIfClosed(c) ==
  /\ pc[c] = "free"
  /\ \E k \in 0 .. Latest : asked' = [asked EXCEPT ![c] = k]
  /\ request' = [request EXCEPT ![c] = NoSchedule]
  /\ met' = [met EXCEPT ![c] = NoSchedule]
  /\ outcome' = [outcome EXCEPT ![c] = Outcome("none")]
  /\ pc' = [pc EXCEPT ![c] = "describeRun"]
  /\ UNCHANGED <<serverVars, at>>

DescribeRun(c) ==
  /\ pc[c] = "describeRun"
  /\ \/ /\ Known(Named(c)) => InProgress(Named(c))
        /\ Returns(c, Outcome("notClosed"))
     \/ /\ Known(Named(c))
        /\ ~ InProgress(Named(c))
        /\ pc' = [pc EXCEPT ![c] = "get"]
        /\ at' = [at EXCEPT ![c] = ReadRun(c)]
        /\ UNCHANGED outcome
     \/ Returns(c, Outcome("error"))
  /\ UNCHANGED <<serverVars, request, met, asked>>

\* WorkflowRun.Get without a runID starts from the run that is the latest now.
Resolve(c) ==
  /\ pc[c] = "get" /\ at[c] = 0
  /\ at' = [at EXCEPT ![c] = Latest]
  /\ UNCHANGED <<serverVars, pc, request, met, asked, outcome>>

\* Get waits for the run to close, and goes on with its continuation.
Get(c) ==
  /\ pc[c] = "get" /\ at[c] # 0
  /\ \/ /\ at[c] \notin expired /\ runs[at[c]] = "completed"
        /\ Returns(c, [kind |-> "value", run |-> at[c]])
     \/ /\ at[c] \in expired \/ runs[at[c]] = "failed"
        /\ Returns(c, Outcome("closedError"))
     \/ /\ at[c] \notin expired /\ runs[at[c]] = "continued"
        /\ at' = [at EXCEPT ![c] = @ + 1]
        /\ UNCHANGED <<pc, outcome>>
  /\ UNCHANGED <<serverVars, request, met, asked>>

\* The context of the call ends, or the connection fails, during Get.
GetFails(c) ==
  /\ pc[c] = "get"
  /\ Returns(c, Outcome("closedError"))
  /\ UNCHANGED <<serverVars, request, met, asked>>

-----------------------------------------------------------------------------
(* The server *)

LatestRunning == Latest # 0 /\ runs[Latest] = "running"

StartRun ==
  /\ ~ LatestRunning
  /\ Latest < MaxRuns
  /\ runs' = Append(runs, "running")
  /\ UNCHANGED <<schedule, expired, callVars>>

CloseRun ==
  /\ LatestRunning
  /\ \E s \in {"completed", "failed"} : runs' = [runs EXCEPT ![Latest] = s]
  /\ UNCHANGED <<schedule, expired, callVars>>

ContinueRun ==
  /\ LatestRunning
  /\ Latest < MaxRuns
  /\ runs' = Append([runs EXCEPT ![Latest] = "continued"], "running")
  /\ UNCHANGED <<schedule, expired, callVars>>

\* The retention period of a closed run ends.
Expire ==
  /\ \E k \in 1 .. Latest \ expired :
       /\ runs[k] # "running"
       /\ expired' = expired \cup {k}
  /\ UNCHANGED <<schedule, runs, callVars>>

-----------------------------------------------------------------------------
CallStep(c) ==
  \/ CreateSchedule(c) \/ DescribeSchedule(c) \/ Create(c)
  \/ GetResultIfClosed(c) \/ DescribeRun(c) \/ Resolve(c) \/ Get(c) \/ GetFails(c)

ServerStep == StartRun \/ CloseRun \/ ContinueRun \/ Expire

ClientNext == ServerStep \/ \E c \in Callers : CallStep(c)

ClientSpec == ClientInit /\ [][ClientNext]_clientVars

-----------------------------------------------------------------------------
(* Properties *)

\* createSchedule returns nil only when the server holds a schedule that
\* starts this workflow on this queue under this overlap policy, whoever
\* created it (CreateSchedule, workflow.go:52-57).
CreatedMeansScheduled ==
  \A c \in Callers :
    outcome[c].kind = "created" =>
      /\ schedule # NoSchedule
      /\ schedule.workflow = "own"
      /\ schedule.queue = request[c].queue
      /\ Normalized(schedule.overlap) = Normalized(request[c].overlap)

\* A replica that boots after the schedule was created with its options, or
\* retries a call whose reply was lost, is never told that the schedule is
\* already running: "already running" about a schedule the call found there
\* means that the options differ (client.go:98-102).  Of two first calls that
\* overlap, one may be told so of the schedule the other has just created.
RepeatIsNoOp ==
  \A c \in Callers :
    outcome[c].kind = "alreadyRunning" /\ met[c] # NoSchedule =>
      \/ schedule.workflow # "own"
      \/ schedule.queue # request[c].queue
      \/ Normalized(schedule.overlap) # Normalized(request[c].overlap)

\* The value handed out for a given runID is the result of that run, or of
\* the run its continuations lead to: never that of a later, unrelated run.
ValueOfAskedRun ==
  \A c \in Callers :
    outcome[c].kind = "value" /\ asked[c] # 0 =>
      /\ outcome[c].run \in asked[c] .. Len(runs)
      /\ runs[outcome[c].run] = "completed"
      /\ \A k \in asked[c] .. outcome[c].run - 1 : runs[k] = "continued"

\* A caller never waits in Get for the very run it asked for by Id: the
\* Describe before it saw that run closed, and a closed run stays closed.
AskedRunNeverAwaited ==
  \A c \in Callers :
    pc[c] = "get" /\ asked[c] # 0 /\ at[c] = asked[c] => runs[at[c]] # "running"

-----------------------------------------------------------------------------
(* The inductive invariant *)

\* A call of createSchedule carries the schedule it asks for, only creates
\* where it found none, and has no outcome before it returns.
Requesting ==
  \A c \in Callers :
    /\ pc[c] \in {"describeSchedule", "create"} => request[c] \in Requests
    /\ pc[c] = "create" => met[c] = NoSchedule
    /\ pc[c] # "free" => outcome[c] = Outcome("none")

\* The schedule a call found when it began is still there.
MetStays == \A c \in Callers : met[c] # NoSchedule => schedule = met[c]

\* A Get that has left the run asked for got there along continuations.
ReadFollowsChain ==
  \A c \in Callers :
    pc[c] = "get" =>
      /\ asked[c] <= at[c]
      /\ asked[c] # 0 => \A k \in asked[c] .. at[c] - 1 : runs[k] = "continued"

\* A continued run is never the last one: its continuation came with it.
ContinuedHasNext ==
  \A k \in 1 .. Len(runs) : runs[k] = "continued" => k < Len(runs)

IInv ==
  /\ ClientTypeOK
  /\ CreatedMeansScheduled /\ RepeatIsNoOp /\ ValueOfAskedRun /\ AskedRunNeverAwaited
  /\ Requesting /\ MetStays /\ ReadFollowsChain /\ ContinuedHasNext

=============================================================================
