-------------------------- MODULE ReadinessProofs --------------------------
(***************************************************************************)
(* What the readiness check promises, for any number of dependencies and   *)
(* endpoints and any interleaving of the two fan-outs.                     *)
(*                                                                         *)
(* The argument is that of a monitor.  While a goroutine is in check it    *)
(* holds the mutex of its group, so what it has read there is still true   *)
(* when it writes; hence the status and the entries merged so far are, at  *)
(* any time, those of the tasks that are done, each once.  The client is   *)
(* merged after all of its endpoints, so that its entries are complete.    *)
(***************************************************************************)
EXTENDS Readiness, FiniteSetTheorems, TLAPS

Passed == {"answered", "checking", "done"}

\* The tasks of each group whose failure has been merged.
ClientTold == {e \in Endpoints : task[e] = "done" /\ e \in failed}
ServiceTold == {m \in Members : task[m] = "done" /\ m \in failed}

\* Those that the entries of the service name: a failing client brings its
\* endpoints.
ServiceNamed ==
  ServiceTold \cup {e \in Endpoints : e \in failed /\ Client \in ServiceTold}

\* s names the members of S, each once.
Lists(s, S) ==
  /\ \A i \in DOMAIN s : s[i] \in S
  /\ \A x \in S : \E i \in DOMAIN s : s[i] = x
  /\ \A i, j \in DOMAIN s : s[i] = s[j] => i = j

\* The mutex is held by the goroutine that is in check, and by no other.
LockOK ==
  /\ \A t \in Tasks : task[t] = "checking" => lock[group(t)] = t
  /\ \A g \in Groups : lock[g] # Nobody => task[lock[g]] = "checking" /\ group(lock[g]) = g

\* What it has read is what is merged so far.
SnapshotOK ==
  \A t \in Tasks : task[t] = "checking" =>
    local[t] = [worst |-> worst[group(t)], entries |-> entries[group(t)]]

\* Who may have failed, and what has come before what.
OrderOK ==
  /\ \A t \in failed : task[t] \in Passed
  /\ pc = "idle" => \A t \in Tasks : task[t] = "absent"
  /\ pc = "returned" => AllDone("service")
  /\ task[Client] \in Passed =>
       AllDone("client") /\ (Client \in failed <=> \E e \in Endpoints : e \in failed)

\* The merged statuses are those of the tasks that are done.
WorstOK ==
  /\ worst["client"] = IF ClientTold = {} THEN Healthy ELSE Unavailable
  /\ worst["service"] = IF ServiceTold = {} THEN Healthy ELSE Unavailable

\* The merged entries as well.
EntriesOK ==
  /\ Lists(entries["client"], ClientTold)
  /\ Lists(entries["service"], ServiceNamed)

Inv == TypeOK /\ LockOK /\ SnapshotOK /\ OrderOK /\ WorstOK /\ EntriesOK

-----------------------------------------------------------------------------
(* Lists                                                                   *)

\* The empty slice names nobody.
LEMMA ListsNobody == Lists(<< >>, {})
BY DEF Lists

\* A slice that names somebody is not empty, and one that names nobody is.
LEMMA ListsEmpty ==
  ASSUME NEW T, NEW s \in Seq(T), NEW S, Lists(s, S)
  PROVE  s = << >> <=> S = {}
BY DEF Lists

\* append: two slices that name different people name all of them together.
LEMMA ListsAppend ==
  ASSUME NEW T, NEW s \in Seq(T), NEW u \in Seq(T), NEW S, NEW U,
         Lists(s, S), Lists(u, U), S \cap U = {}
  PROVE  Lists(s \o u, S \cup U)
<1> DEFINE w == s \o u
<1>1. /\ w \in Seq(T) /\ Len(w) = Len(s) + Len(u)
      /\ \A i \in 1 .. Len(s) : w[i] = s[i]
      /\ \A i \in 1 .. Len(u) : w[Len(s) + i] = u[i]
  OBVIOUS
<1>2. /\ DOMAIN s = 1 .. Len(s) /\ DOMAIN u = 1 .. Len(u)
      /\ DOMAIN w = 1 .. Len(s) + Len(u) /\ Len(s) \in Nat /\ Len(u) \in Nat
  BY <1>1
<1> HIDE DEF w
<1>3. \A i \in DOMAIN w :
        \/ i \in DOMAIN s /\ w[i] = s[i]
        \/ i > Len(s) /\ i - Len(s) \in DOMAIN u /\ w[i] = u[i - Len(s)]
  <2> TAKE i \in DOMAIN w
  <2>1. CASE i <= Len(s)
    BY <2>1, <1>1, <1>2
  <2>2. CASE i > Len(s)
    <3>1. i - Len(s) \in 1 .. Len(u) /\ Len(s) + (i - Len(s)) = i
      BY <2>2, <1>2
    <3> QED BY <3>1, <2>2, <1>1, <1>2
  <2> QED BY <2>1, <2>2, <1>2
<1>4. \A i \in DOMAIN w : w[i] \in S \cup U
  BY <1>3 DEF Lists
<1>5. \A x \in S \cup U : \E i \in DOMAIN w : w[i] = x
  <2> TAKE x \in S \cup U
  <2>1. CASE x \in S
    <3>1. PICK i \in DOMAIN s : s[i] = x
      BY <2>1 DEF Lists
    <3> QED BY <3>1, <1>1, <1>2
  <2>2. CASE x \in U
    <3>1. PICK i \in DOMAIN u : u[i] = x
      BY <2>2 DEF Lists
    <3>2. Len(s) + i \in DOMAIN w /\ w[Len(s) + i] = x
      BY <3>1, <1>1, <1>2
    <3> QED BY <3>2
  <2> QED BY <2>1, <2>2
<1>6. \A i, j \in DOMAIN w : w[i] = w[j] => i = j
  <2> SUFFICES ASSUME NEW i \in DOMAIN w, NEW j \in DOMAIN w, w[i] = w[j] PROVE i = j
    OBVIOUS
  <2>1. CASE i \in DOMAIN s /\ w[i] = s[i] /\ j \in DOMAIN s /\ w[j] = s[j]
    BY <2>1 DEF Lists
  <2>2. CASE i - Len(s) \in DOMAIN u /\ w[i] = u[i - Len(s)]
             /\ j - Len(s) \in DOMAIN u /\ w[j] = u[j - Len(s)]
    <3>1. i - Len(s) = j - Len(s)
      BY <2>2 DEF Lists
    <3> QED BY <3>1, <1>2
  <2>3. CASE i \in DOMAIN s /\ w[i] = s[i]
             /\ j - Len(s) \in DOMAIN u /\ w[j] = u[j - Len(s)]
    BY <2>3 DEF Lists
  <2>4. CASE j \in DOMAIN s /\ w[j] = s[j]
             /\ i - Len(s) \in DOMAIN u /\ w[i] = u[i - Len(s)]
    BY <2>4 DEF Lists
  <2> QED BY <2>1, <2>2, <2>3, <2>4, <1>3
<1> QED BY <1>4, <1>5, <1>6 DEF Lists, w

\* What a slice names is counted once, anything else not at all.
LEMMA ListsCount ==
  ASSUME NEW T, NEW s \in Seq(T), NEW S, Lists(s, S), NEW x
  PROVE  Count(s, x) = IF x \in S THEN 1 ELSE 0
<1>1. CASE x \in S
  <2>1. PICK i \in DOMAIN s : s[i] = x
    BY <1>1 DEF Lists
  <2>2. {j \in DOMAIN s : s[j] = x} = {i}
    BY <2>1 DEF Lists
  <2>3. Cardinality({i}) = 1
    BY FS_Singleton
  <2> QED BY <1>1, <2>2, <2>3 DEF Count
<1>2. CASE x \notin S
  <2>1. {j \in DOMAIN s : s[j] = x} = {}
    BY <1>2 DEF Lists
  <2> QED BY <1>2, <2>1, FS_EmptySet DEF Count
<1> QED BY <1>1, <1>2

-----------------------------------------------------------------------------
(* The steps                                                               *)

\* Sets of tasks: the client is no endpoint, and no endpoint a dependency.
LEMMA TaskSets ==
  /\ Client \in Members /\ Client \in Tasks /\ Client \notin Endpoints
  /\ Members \subseteq Tasks /\ Endpoints \subseteq Tasks
  /\ Members \cap Endpoints = {}
  /\ \A t \in Tasks : group(t) \in Groups /\ t \in TasksOf(group(t)) /\ t # Nobody
  /\ TasksOf("client") = Endpoints /\ TasksOf("service") = Members
  /\ \A t \in Endpoints : group(t) = "client"
  /\ \A t \in Members : group(t) = "service"
  /\ Tasks = Members \cup Endpoints /\ Groups = {"service", "client"}
BY ReadinessAssumption DEF Members, Tasks, TasksOf, group, Groups

\* The arguments of check have their types.
LEMMA CheckTypes ==
  ASSUME TypeOK, NEW t \in Tasks
  PROVE  StatusOf(t) \in {Healthy, Unavailable} /\ EntriesOf(t) \in Seq(Tasks)
<1>1. worst["client"] \in {Healthy, Unavailable} /\ entries["client"] \in Seq(Tasks)
  BY TaskSets DEF TypeOK
<1>2. StatusOf(t) \in {Healthy, Unavailable}
  BY <1>1 DEF StatusOf
<1>3. <<Client>> \o entries["client"] \in Seq(Tasks)
  BY <1>1, TaskSets
<1>4. EntriesOf(t) \in Seq(Tasks)
  BY <1>1, <1>3 DEF EntriesOf
<1> QED BY <1>2, <1>4

\* Every variable keeps its type.
LEMMA TypeStep ==
  ASSUME TypeOK, [Next]_vars
  PROVE  TypeOK'
<1> USE TaskSets
<1>1. CASE Status
  BY <1>1 DEF Status, TypeOK
<1>2. CASE Expire
  BY <1>2 DEF Expire, TypeOK
<1>3. CASE FanOut
  BY <1>3 DEF FanOut, TypeOK
<1>4. CASE ClientAnswers
  BY <1>4 DEF ClientAnswers, TypeOK
<1>5. CASE StatusReturns
  BY <1>5 DEF StatusReturns, TypeOK
<1>6. CASE NextCall
  <2>1. /\ entries' \in [Groups -> Seq(Tasks)] /\ worst' \in [Groups -> {Healthy, Unavailable}]
        /\ task' \in [Tasks -> {"absent", "running", "answered", "checking", "done"}]
    BY <1>6 DEF NextCall
  <2> QED BY <1>6, <2>1 DEF NextCall, TypeOK
<1>7. ASSUME NEW t \in Tasks, Answers(t) PROVE TypeOK'
  BY <1>7 DEF Answers, TypeOK
<1>8. ASSUME NEW t \in Tasks, Check(t) PROVE TypeOK'
  <2>1. worst[group(t)] \in {Healthy, Unavailable} /\ entries[group(t)] \in Seq(Tasks)
    BY DEF TypeOK
  <2> QED BY <1>8, <2>1 DEF Check, TypeOK
<1>9. ASSUME NEW t \in Tasks, Merge(t) PROVE TypeOK'
  <2> DEFINE high == Larger(local[t].worst, StatusOf(t))
             longer == local[t].entries \o EntriesOf(t)
  <2>1. local[t].worst \in {Healthy, Unavailable} /\ local[t].entries \in Seq(Tasks)
    BY DEF TypeOK
  <2>2. high \in {Healthy, Unavailable} /\ longer \in Seq(Tasks)
    BY <2>1, CheckTypes DEF Larger
  <2>3. Blank \in [worst : {Healthy, Unavailable}, entries : Seq(Tasks)]
    BY DEF Blank
  <2>4. /\ worst' = [worst EXCEPT ![group(t)] = high]
        /\ entries' = [entries EXCEPT ![group(t)] = longer]
        /\ lock' = [lock EXCEPT ![group(t)] = Nobody]
        /\ local' = [local EXCEPT ![t] = Blank]
        /\ task' = [task EXCEPT ![t] = "done"]
        /\ UNCHANGED <<pc, silent, bounded, expired, failed>>
    BY <1>9 DEF Merge
  <2> HIDE DEF high, longer
  <2> QED BY <2>2, <2>3, <2>4 DEF TypeOK
<1>10. CASE UNCHANGED vars
  BY <1>10 DEF vars, TypeOK
<1> QED BY <1>1, <1>2, <1>3, <1>4, <1>5, <1>6, <1>7, <1>8, <1>9, <1>10
        DEF Next, TaskSteps

\* When Status has returned, every goroutine of the two fan-outs is done.
LEMMA ReturnedIsDone ==
  ASSUME OrderOK, pc = "returned"
  PROVE  \A t \in Tasks : task[t] = "done"
BY TaskSets DEF OrderOK, AllDone, Passed

\* Merge writes what the invariant says of the snapshot.
LEMMA MergeFacts ==
  ASSUME Inv, NEW t \in Tasks, Merge(t)
  PROVE  /\ task[t] = "checking" /\ task' = [task EXCEPT ![t] = "done"]
         /\ worst' = [worst EXCEPT ![group(t)] = Larger(worst[group(t)], StatusOf(t))]
         /\ entries' = [entries EXCEPT ![group(t)] = entries[group(t)] \o EntriesOf(t)]
         /\ UNCHANGED <<pc, failed>>
<1>1. local[t] = [worst |-> worst[group(t)], entries |-> entries[group(t)]]
  BY DEF Inv, SnapshotOK, Merge
<1> QED BY <1>1 DEF Merge

\* The mutex excludes: Check waits for it, and only Merge gives it back.
LEMMA LockStep ==
  ASSUME Inv, [Next]_vars
  PROVE  LockOK'
<1> USE TaskSets
<1>0. TypeOK /\ LockOK /\ OrderOK
  BY DEF Inv
<1>1. CASE Status
  BY <1>0, <1>1 DEF Status, TypeOK, LockOK, OrderOK
<1>2. CASE Expire \/ StatusReturns \/ UNCHANGED vars
  BY <1>0, <1>2 DEF Expire, StatusReturns, vars, LockOK
<1>3. CASE FanOut
  BY <1>0, <1>3 DEF FanOut, TypeOK, LockOK
<1>4. CASE ClientAnswers
  BY <1>0, <1>4 DEF ClientAnswers, TypeOK, LockOK
<1>6. CASE NextCall
  <2>1. \A t \in Tasks : task[t] = "done"
    BY <1>0, <1>6, ReturnedIsDone DEF NextCall
  <2>2. \A g \in Groups : lock[g] = Nobody
    BY <1>0, <2>1 DEF LockOK, TypeOK
  <2>3. lock' = lock /\ \A t \in Tasks : task'[t] = "absent"
    BY <1>6 DEF NextCall
  <2> QED BY <2>2, <2>3 DEF LockOK
<1>7. ASSUME NEW t \in Tasks, Answers(t) PROVE LockOK'
  BY <1>0, <1>7 DEF Answers, TypeOK, LockOK
<1>8. ASSUME NEW t \in Tasks, Check(t) PROVE LockOK'
  BY <1>0, <1>8 DEF Check, TypeOK, LockOK
<1>9. ASSUME NEW t \in Tasks, Merge(t) PROVE LockOK'
  BY <1>0, <1>9 DEF Merge, TypeOK, LockOK
<1> QED BY <1>1, <1>2, <1>3, <1>4, <1>6, <1>7, <1>8, <1>9 DEF Next, TaskSteps

\* What a goroutine has read stays true: nobody else writes in its group.
LEMMA SnapshotStep ==
  ASSUME Inv, [Next]_vars
  PROVE  SnapshotOK'
<1> USE TaskSets
<1>0. TypeOK /\ LockOK /\ SnapshotOK /\ OrderOK
  BY DEF Inv
<1>1. CASE Status
  BY <1>0, <1>1 DEF Status, TypeOK, SnapshotOK, OrderOK
<1>2. CASE Expire \/ StatusReturns \/ UNCHANGED vars
  BY <1>0, <1>2 DEF Expire, StatusReturns, vars, SnapshotOK
<1>3. CASE FanOut
  BY <1>0, <1>3 DEF FanOut, TypeOK, SnapshotOK
<1>4. CASE ClientAnswers
  BY <1>0, <1>4 DEF ClientAnswers, TypeOK, SnapshotOK
<1>6. CASE NextCall
  BY <1>6 DEF NextCall, SnapshotOK
<1>7. ASSUME NEW t \in Tasks, Answers(t) PROVE SnapshotOK'
  BY <1>0, <1>7 DEF Answers, TypeOK, SnapshotOK
<1>8. ASSUME NEW t \in Tasks, Check(t) PROVE SnapshotOK'
  <2>1. /\ local' = [local EXCEPT ![t] = [worst |-> worst[group(t)], entries |-> entries[group(t)]]]
        /\ task' = [task EXCEPT ![t] = "checking"] /\ UNCHANGED <<worst, entries>>
    BY <1>8 DEF Check
  <2> QED BY <1>0, <2>1 DEF TypeOK, SnapshotOK
<1>9. ASSUME NEW t \in Tasks, Merge(t) PROVE SnapshotOK'
  <2> SUFFICES ASSUME NEW u \in Tasks, task'[u] = "checking"
               PROVE  local'[u] = [worst |-> worst'[group(u)], entries |-> entries'[group(u)]]
    BY DEF SnapshotOK
  <2>1. u # t /\ task[u] = "checking" /\ task[t] = "checking"
    BY <1>0, <1>9 DEF Merge, TypeOK
  <2>2. group(u) # group(t)
    BY <1>0, <2>1 DEF LockOK
  <2>3. /\ local'[u] = local[u] /\ worst'[group(u)] = worst[group(u)]
        /\ entries'[group(u)] = entries[group(u)]
    BY <1>0, <1>9, <2>1, <2>2 DEF Merge, TypeOK
  <2> QED BY <1>0, <2>1, <2>3 DEF SnapshotOK
<1> QED BY <1>1, <1>2, <1>3, <1>4, <1>6, <1>7, <1>8, <1>9 DEF Next, TaskSteps

\* The order of the two fan-outs: the client answers when its endpoints are done,
\* and fails when one of them has.
LEMMA OrderStep ==
  ASSUME Inv, [Next]_vars
  PROVE  OrderOK'
<1> USE TaskSets
<1>0. TypeOK /\ OrderOK
  BY DEF Inv
<1>1. CASE Status
  <2>1. failed = {}
    BY <1>0, <1>1 DEF Status, OrderOK, Passed, TypeOK
  <2> QED BY <1>0, <1>1, <2>1 DEF Status, TypeOK, OrderOK, Passed, AllDone
<1>2. CASE Expire \/ StatusReturns \/ UNCHANGED vars
  BY <1>0, <1>2 DEF Expire, StatusReturns, vars, OrderOK, AllDone
<1>3. CASE FanOut
  <2>1. \A e \in Endpoints : e \notin failed
    BY <1>0, <1>3 DEF FanOut, OrderOK, Passed
  <2> QED BY <1>0, <1>3, <2>1 DEF FanOut, TypeOK, OrderOK, Passed, AllDone
<1>4. CASE ClientAnswers
  <2>1. /\ task[Client] = "running" /\ AllDone("client")
        /\ task' = [task EXCEPT ![Client] = "answered"] /\ UNCHANGED pc
        /\ failed' = IF entries["client"] # << >> THEN failed \cup {Client} ELSE failed
    BY <1>4 DEF ClientAnswers
  <2>2. entries["client"] # << >> <=> \E e \in Endpoints : e \in failed
    <3>1. entries["client"] = << >> <=> ClientTold = {}
      BY <1>0, ListsEmpty DEF Inv, EntriesOK, TypeOK
    <3> QED BY <3>1, <2>1 DEF ClientTold, AllDone
  <2>3. Client \notin failed
    BY <1>0, <2>1 DEF OrderOK, Passed
  <2>4. AllDone("client")'
    BY <1>0, <2>1 DEF AllDone, TypeOK
  <2>5. Client \in failed' <=> \E e \in Endpoints : e \in failed'
    BY <2>1, <2>2, <2>3
  <2>6. \A t \in failed' : task'[t] \in Passed
    BY <1>0, <2>1 DEF OrderOK, Passed, TypeOK
  <2>7. pc' # "idle" /\ pc' # "returned"
    BY <1>0, <2>1 DEF OrderOK, AllDone
  <2> QED BY <2>4, <2>5, <2>6, <2>7 DEF OrderOK
<1>6. CASE NextCall
  BY <1>6 DEF NextCall, OrderOK, Passed
<1>7. ASSUME NEW t \in Tasks, Answers(t) PROVE OrderOK'
  <2>1. t \in Tasks /\ t # Client /\ task[t] = "running"
    BY <1>7, ReadinessAssumption DEF Answers, Probed
  <2>2. task' = [task EXCEPT ![t] = "answered"] /\ UNCHANGED pc
    BY <1>7 DEF Answers
  <2>3. failed' = failed \/ failed' = failed \cup {t}
    BY <1>7 DEF Answers
  <2>4. pc # "idle" /\ pc # "returned"
    BY <1>0, <2>1, ReturnedIsDone DEF OrderOK
  <2>5. task[Client] \in Passed => t \notin Endpoints
    BY <1>0, <2>1 DEF OrderOK, AllDone
  <2>6. \A u \in failed' : task'[u] \in Passed
    BY <1>0, <2>1, <2>2, <2>3 DEF OrderOK, Passed, TypeOK
  <2>7. task'[Client] \in Passed =>
          AllDone("client")' /\ (Client \in failed' <=> \E e \in Endpoints : e \in failed')
    BY <1>0, <2>1, <2>2, <2>3, <2>5 DEF OrderOK, AllDone, TypeOK
  <2> QED BY <2>2, <2>4, <2>6, <2>7 DEF OrderOK
<1>8. ASSUME NEW t \in Tasks, Check(t) PROVE OrderOK'
  <2>1. task[t] = "answered" /\ task' = [task EXCEPT ![t] = "checking"] /\ UNCHANGED <<pc, failed>>
    BY <1>8 DEF Check
  <2>2. pc # "idle" /\ pc # "returned"
    BY <1>0, <2>1, ReturnedIsDone DEF OrderOK
  <2>3. \A u \in Tasks : task[u] = "done" => task'[u] = "done"
    BY <1>0, <2>1 DEF TypeOK
  <2>4. \A u \in Tasks : task'[u] \in Passed <=> task[u] \in Passed
    BY <1>0, <2>1 DEF TypeOK, Passed
  <2> QED BY <1>0, <2>1, <2>2, <2>3, <2>4 DEF OrderOK, AllDone, TypeOK
<1>9. ASSUME NEW t \in Tasks, Merge(t) PROVE OrderOK'
  <2>1. task[t] = "checking" /\ task' = [task EXCEPT ![t] = "done"] /\ UNCHANGED <<pc, failed>>
    BY <1>9 DEF Merge
  <2>2. pc # "idle" /\ pc # "returned"
    BY <1>0, <2>1, ReturnedIsDone DEF OrderOK
  <2>3. \A u \in Tasks : task[u] = "done" => task'[u] = "done"
    BY <1>0, <2>1 DEF TypeOK
  <2>4. \A u \in Tasks : task'[u] \in Passed <=> task[u] \in Passed
    BY <1>0, <2>1 DEF TypeOK, Passed
  <2> QED BY <1>0, <2>1, <2>2, <2>3, <2>4 DEF OrderOK, AllDone, TypeOK
<1> QED BY <1>1, <1>2, <1>3, <1>4, <1>6, <1>7, <1>8, <1>9 DEF Next, TaskSteps

\* A step that merges nothing and starts no new call changes neither what is
\* merged nor what should be.
LEMMA NothingMerged ==
  ASSUME Inv, [Next]_vars, ~ NextCall, \A t \in Tasks : ~ Merge(t)
  PROVE  /\ worst' = worst /\ entries' = entries
         /\ ClientTold' = ClientTold /\ ServiceTold' = ServiceTold
         /\ ServiceNamed' = ServiceNamed
<1> USE TaskSets
<1>0. TypeOK /\ OrderOK
  BY DEF Inv
<1> DEFINE Same == /\ worst' = worst /\ entries' = entries
                   /\ ClientTold' = ClientTold /\ ServiceTold' = ServiceTold
                   /\ ServiceNamed' = ServiceNamed
<1>1. CASE Status
  <2>1. failed = {} /\ failed' = {} /\ UNCHANGED <<worst, entries>>
    BY <1>0, <1>1 DEF Status, OrderOK, Passed, TypeOK
  <2> QED BY <2>1 DEF ClientTold, ServiceTold, ServiceNamed
<1>2. CASE Expire \/ StatusReturns \/ UNCHANGED vars
  BY <1>2 DEF Expire, StatusReturns, vars, ClientTold, ServiceTold, ServiceNamed
<1>3. ASSUME UNCHANGED <<failed, worst, entries>>,
             \A t \in Tasks : task'[t] = "done" <=> task[t] = "done"
      PROVE  Same
  BY <1>3 DEF ClientTold, ServiceTold, ServiceNamed
<1>4. CASE FanOut
  BY <1>0, <1>3, <1>4 DEF FanOut, TypeOK
<1>5. CASE ClientAnswers
  <2>1. UNCHANGED <<worst, entries>> /\ task' = [task EXCEPT ![Client] = "answered"]
        /\ task[Client] = "running" /\ \A t \in Tasks \ {Client} : t \in failed' <=> t \in failed
    BY <1>5 DEF ClientAnswers
  <2>2. \A t \in Tasks : task'[t] = "done" <=> task[t] = "done"
    BY <1>0, <2>1 DEF TypeOK
  <2> QED BY <2>1, <2>2 DEF ClientTold, ServiceTold, ServiceNamed
<1>6. ASSUME NEW t \in Tasks, Answers(t) PROVE Same
  <2>1. /\ task[t] = "running" /\ task' = [task EXCEPT ![t] = "answered"]
        /\ \A u \in Tasks \ {t} : u \in failed' <=> u \in failed
        /\ UNCHANGED <<worst, entries>>
    BY <1>6 DEF Answers
  <2>2. \A u \in Tasks : task'[u] = "done" <=> task[u] = "done"
    BY <1>0, <2>1 DEF TypeOK
  <2>3. ClientTold' = ClientTold /\ ServiceTold' = ServiceTold
    BY <2>1, <2>2 DEF ClientTold, ServiceTold
  <2>4. Client \in ServiceTold => t \notin Endpoints
    BY <1>0, <2>1 DEF OrderOK, AllDone, Passed, ServiceTold
  <2> QED BY <2>1, <2>3, <2>4 DEF ServiceNamed
<1>7. ASSUME NEW t \in Tasks, Check(t) PROVE Same
  BY <1>0, <1>3, <1>7 DEF Check, TypeOK
<1> QED BY <1>1, <1>2, <1>4, <1>5, <1>6, <1>7 DEF Next, TaskSteps

\* The next call starts from nothing.
LEMMA NothingYet ==
  ASSUME NextCall
  PROVE  /\ worst' = [g \in Groups |-> Healthy] /\ entries' = [g \in Groups |-> << >>]
         /\ ClientTold' = {} /\ ServiceTold' = {} /\ ServiceNamed' = {}
BY DEF NextCall, ClientTold, ServiceTold, ServiceNamed

\* What a merge adds to the tasks whose failure is told.
LEMMA MergeTells ==
  ASSUME Inv, NEW t \in Tasks, Merge(t)
  PROVE  /\ t \in Endpoints =>
              /\ ClientTold' = ClientTold \cup (IF t \in failed THEN {t} ELSE {})
              /\ ServiceTold' = ServiceTold /\ ServiceNamed' = ServiceNamed
         /\ t \in Members =>
              /\ ServiceTold' = ServiceTold \cup (IF t \in failed THEN {t} ELSE {})
              /\ ClientTold' = ClientTold
              /\ t # Client =>
                   ServiceNamed' = ServiceNamed \cup (IF t \in failed THEN {t} ELSE {})
              /\ t = Client =>
                   ServiceNamed' =
                     ServiceNamed \cup (IF t \in failed THEN {Client} \cup ClientTold ELSE {})
<1> USE TaskSets
<1>0. TypeOK /\ OrderOK
  BY DEF Inv
<1>1. task[t] = "checking" /\ task' = [task EXCEPT ![t] = "done"] /\ failed' = failed
  BY MergeFacts
<1>2. \A u \in Tasks : task'[u] = "done" <=> task[u] = "done" \/ u = t
  BY <1>0, <1>1 DEF TypeOK
<1>3. ASSUME t \in Endpoints
      PROVE  /\ ClientTold' = ClientTold \cup (IF t \in failed THEN {t} ELSE {})
             /\ ServiceTold' = ServiceTold /\ ServiceNamed' = ServiceNamed
  <2>1. ServiceTold' = ServiceTold
    BY <1>1, <1>2, <1>3 DEF ServiceTold
  <2>2. ClientTold' = ClientTold \cup (IF t \in failed THEN {t} ELSE {})
    BY <1>1, <1>2, <1>3 DEF ClientTold
  <2> QED BY <1>1, <2>1, <2>2 DEF ServiceNamed
<1>4. ASSUME t \in Members
      PROVE  /\ ServiceTold' = ServiceTold \cup (IF t \in failed THEN {t} ELSE {})
             /\ ClientTold' = ClientTold
  BY <1>1, <1>2, <1>4 DEF ServiceTold, ClientTold
<1>5. ASSUME t \in Members, t # Client
      PROVE  ServiceNamed' = ServiceNamed \cup (IF t \in failed THEN {t} ELSE {})
  BY <1>1, <1>4, <1>5 DEF ServiceNamed
<1>6. ASSUME t = Client
      PROVE  ServiceNamed' =
               ServiceNamed \cup (IF t \in failed THEN {Client} \cup ClientTold ELSE {})
  <2>1. ClientTold = {e \in Endpoints : e \in failed}
    BY <1>0, <1>1, <1>6 DEF OrderOK, Passed, AllDone, ClientTold
  <2>2. Client \notin ServiceTold
    BY <1>1, <1>6 DEF ServiceTold
  <2>3. ServiceTold' = ServiceTold \cup (IF t \in failed THEN {Client} ELSE {})
    BY <1>4, <1>6
  <2> QED BY <1>1, <1>6, <2>1, <2>2, <2>3 DEF ServiceNamed
<1> QED BY <1>3, <1>4, <1>5, <1>6

\* The merged status is 503 when a task that is done has failed, else 200.
LEMMA WorstStep ==
  ASSUME Inv, [Next]_vars
  PROVE  WorstOK'
<1> USE TaskSets
<1>0. TypeOK /\ OrderOK /\ WorstOK
  BY DEF Inv
<1>1. CASE NextCall
  BY <1>1, NothingYet DEF WorstOK
<1>2. ASSUME NEW t \in Tasks, Merge(t) PROVE WorstOK'
  <2>1. worst' = [worst EXCEPT ![group(t)] = Larger(worst[group(t)], StatusOf(t))]
        /\ task[t] = "checking"
    BY <1>2, MergeFacts
  <2>2. StatusOf(t) = IF t \in failed THEN Unavailable ELSE Healthy
    <3>1. CASE t = Client
      <4>1. worst["client"] = IF Client \in failed THEN Unavailable ELSE Healthy
        BY <1>0, <2>1, <3>1 DEF OrderOK, Passed, AllDone, WorstOK, ClientTold
      <4> QED BY <3>1, <4>1 DEF StatusOf
    <3>2. CASE t # Client
      BY <3>2 DEF StatusOf
    <3> QED BY <3>1, <3>2
  <2>3. \A w \in {Healthy, Unavailable} :
          Larger(w, StatusOf(t)) = IF w = Unavailable \/ t \in failed THEN Unavailable ELSE Healthy
    BY <2>2 DEF Larger, Healthy, Unavailable
  <2>4. Healthy # Unavailable
    BY DEF Healthy, Unavailable
  <2>5. CASE t \in Endpoints
    <3>1. worst'["service"] = worst["service"]
          /\ worst'["client"] = Larger(worst["client"], StatusOf(t))
      BY <1>0, <2>1, <2>5 DEF TypeOK
    <3>2. ClientTold' = ClientTold \cup (IF t \in failed THEN {t} ELSE {})
          /\ ServiceTold' = ServiceTold
      BY <1>2, <2>5, MergeTells
    <3> QED BY <1>0, <2>3, <2>4, <3>1, <3>2 DEF WorstOK, TypeOK
  <2>6. CASE t \in Members
    <3>1. worst'["client"] = worst["client"]
          /\ worst'["service"] = Larger(worst["service"], StatusOf(t))
      BY <1>0, <2>1, <2>6 DEF TypeOK
    <3>2. ServiceTold' = ServiceTold \cup (IF t \in failed THEN {t} ELSE {})
          /\ ClientTold' = ClientTold
      BY <1>2, <2>6, MergeTells
    <3> QED BY <1>0, <2>3, <2>4, <3>1, <3>2 DEF WorstOK, TypeOK
  <2> QED BY <2>5, <2>6
<1>3. CASE ~ NextCall /\ \A t \in Tasks : ~ Merge(t)
  BY <1>0, <1>3, NothingMerged DEF WorstOK
<1> QED BY <1>1, <1>2, <1>3

\* The merged entries name the tasks that are done and have failed, each once.
LEMMA EntriesStep ==
  ASSUME Inv, [Next]_vars
  PROVE  EntriesOK'
<1> USE TaskSets
<1>0. TypeOK /\ OrderOK /\ EntriesOK
  BY DEF Inv
<1>1. CASE NextCall
  <2>1. entries'["client"] = << >> /\ entries'["service"] = << >>
        /\ ClientTold' = {} /\ ServiceNamed' = {}
    BY <1>1, NothingYet
  <2> QED BY <2>1, ListsNobody DEF EntriesOK
<1>2. ASSUME NEW t \in Tasks, Merge(t) PROVE EntriesOK'
  <2> DEFINE S == IF t \notin failed THEN {}
                  ELSE IF t = Client THEN {Client} \cup ClientTold ELSE {t}
  <2>1. entries' = [entries EXCEPT ![group(t)] = entries[group(t)] \o EntriesOf(t)]
        /\ task[t] = "checking"
    BY <1>2, MergeFacts
  <2>2. \A x \in Tasks : Lists(<<x>>, {x}) /\ <<x>> \in Seq(Tasks)
    BY DEF Lists
  <2>3. entries["client"] \in Seq(Tasks) /\ entries["service"] \in Seq(Tasks)
        /\ EntriesOf(t) \in Seq(Tasks)
    BY <1>0, CheckTypes DEF TypeOK
  <2>4. Lists(EntriesOf(t), S)
    <3>1. CASE t \notin failed
      BY <3>1, ListsNobody DEF EntriesOf
    <3>2. CASE t \in failed /\ t = Client
      <4>1. {Client} \cap ClientTold = {}
        BY DEF ClientTold
      <4>2. Lists(<<Client>> \o entries["client"], {Client} \cup ClientTold)
        BY <1>0, <2>2, <2>3, <4>1, ListsAppend DEF EntriesOK
      <4> QED BY <3>2, <4>2 DEF EntriesOf
    <3>3. CASE t \in failed /\ t # Client
      BY <2>2, <3>3 DEF EntriesOf
    <3> QED BY <3>1, <3>2, <3>3
  <2>5. CASE t \in Endpoints
    <3>1. entries'["service"] = entries["service"]
          /\ entries'["client"] = entries["client"] \o EntriesOf(t)
      BY <1>0, <2>1, <2>5 DEF TypeOK
    <3>2. ClientTold' = ClientTold \cup S /\ ServiceNamed' = ServiceNamed
      BY <1>2, <2>5, MergeTells
    <3>3. ClientTold \cap S = {}
      BY <2>1, <2>5 DEF ClientTold
    <3>4. Lists(entries["client"] \o EntriesOf(t), ClientTold \cup S)
      BY <1>0, <2>3, <2>4, <3>3, ListsAppend DEF EntriesOK
    <3> QED BY <1>0, <3>1, <3>2, <3>4 DEF EntriesOK
  <2>6. CASE t \in Members
    <3>1. entries'["client"] = entries["client"]
          /\ entries'["service"] = entries["service"] \o EntriesOf(t)
      BY <1>0, <2>1, <2>6 DEF TypeOK
    <3>2. ServiceNamed' = ServiceNamed \cup S /\ ClientTold' = ClientTold
      BY <1>2, <2>6, MergeTells
    <3>3. ServiceNamed \cap S = {}
      <4>1. t \notin ServiceTold
        BY <2>1 DEF ServiceTold
      <4>2. t = Client => ServiceNamed = ServiceTold
        BY <4>1 DEF ServiceNamed
      <4>3. ServiceTold \cap Endpoints = {}
        BY DEF ServiceTold
      <4> QED BY <2>6, <4>1, <4>2, <4>3 DEF ServiceNamed, ClientTold
    <3>4. Lists(entries["service"] \o EntriesOf(t), ServiceNamed \cup S)
      BY <1>0, <2>3, <2>4, <3>3, ListsAppend DEF EntriesOK
    <3> QED BY <1>0, <3>1, <3>2, <3>4 DEF EntriesOK
  <2> QED BY <2>5, <2>6
<1>3. CASE ~ NextCall /\ \A t \in Tasks : ~ Merge(t)
  BY <1>0, <1>3, NothingMerged DEF EntriesOK
<1> QED BY <1>1, <1>2, <1>3

-----------------------------------------------------------------------------
(* The theorems                                                            *)

\* Before the first call nothing is merged and nobody is in check.
LEMMA InitInv == Init => Inv
<1> SUFFICES ASSUME Init PROVE Inv
  OBVIOUS
<1> USE TaskSets
<1>1. TypeOK
  <2>1. /\ entries \in [Groups -> Seq(Tasks)] /\ worst \in [Groups -> {Healthy, Unavailable}]
        /\ lock \in [Groups -> Tasks \cup {Nobody}]
        /\ task \in [Tasks -> {"absent", "running", "answered", "checking", "done"}]
    BY DEF Init
  <2>2. local \in [Tasks -> [worst : {Healthy, Unavailable}, entries : Seq(Tasks)]]
    BY DEF Init, Blank
  <2> QED BY <2>1, <2>2 DEF Init, TypeOK
<1>2. LockOK /\ SnapshotOK /\ OrderOK
  BY DEF Init, LockOK, SnapshotOK, OrderOK, Passed
<1>3. ClientTold = {} /\ ServiceTold = {} /\ ServiceNamed = {}
  BY DEF Init, ClientTold, ServiceTold, ServiceNamed
<1>4. WorstOK /\ EntriesOK
  BY <1>3, ListsNobody DEF Init, WorstOK, EntriesOK
<1> QED BY <1>1, <1>2, <1>4 DEF Inv

\* The invariant holds of every reachable state.
THEOREM FanOutInvariant == Spec => []Inv
<1>1. Inv /\ [Next]_vars => Inv'
  BY TypeStep, LockStep, SnapshotStep, OrderStep, WorstStep, EntriesStep DEF Inv
<1> QED BY <1>1, InitInv, PTL DEF Spec

\* The variables of the readiness check keep their types.
THEOREM TypeCorrect == Spec => []TypeOK
BY FanOutInvariant, PTL DEF Inv

\* What Status returns tells of every failure, once each, and of nothing else.
THEOREM FailuresAreTold == Spec => []EveryFailureTold
<1> USE TaskSets
<1>1. Inv => EveryFailureTold
  <2> SUFFICES ASSUME Inv, pc = "returned"
               PROVE  /\ worst["service"] = IF failed = {} THEN Healthy ELSE Unavailable
                      /\ \A t \in Tasks :
                           Count(entries["service"], t) = IF t \in failed THEN 1 ELSE 0
    BY DEF EveryFailureTold
  <2>0. TypeOK /\ OrderOK /\ WorstOK /\ EntriesOK
    BY DEF Inv
  <2>1. \A t \in Tasks : task[t] = "done"
    BY <2>0, ReturnedIsDone
  <2>2. Client \in failed <=> \E e \in Endpoints : e \in failed
    BY <2>0, <2>1 DEF OrderOK, Passed
  <2>3. failed \subseteq Tasks
    BY <2>0 DEF TypeOK
  <2>4. ServiceTold = {m \in Members : m \in failed}
    BY <2>1 DEF ServiceTold
  <2>5. ServiceTold = {} <=> failed = {}
    BY <2>2, <2>3, <2>4
  <2>6. ServiceNamed = failed
    BY <2>2, <2>3, <2>4 DEF ServiceNamed
  <2>7. \A t \in Tasks : Count(entries["service"], t) = IF t \in failed THEN 1 ELSE 0
    <3>1. entries["service"] \in Seq(Tasks) /\ Lists(entries["service"], failed)
      BY <2>0, <2>6 DEF TypeOK, EntriesOK
    <3> QED BY <3>1, ListsCount
  <2> QED BY <2>0, <2>5, <2>7 DEF WorstOK
<1> QED BY <1>1, FanOutInvariant, PTL
-----------------------------------------------------------------------------
(* Why it comes back: a call of Status can always go on, and cannot go on   *)
(* for ever.  With goroutines that are scheduled this is StatusComesBack.  *)

\* The guards of the steps of a call: what some goroutine, or the timer, can do.
CanGoOn ==
  \/ bounded /\ ~expired
  \/ task[Client] = "running" /\ ((\A e \in Endpoints : task[e] = "absent") \/ AllDone("client"))
  \/ \E t \in Probed : task[t] = "running" /\ (t \notin silent \/ expired)
  \/ \E t \in Tasks : task[t] = "answered" /\ lock[group(t)] = Nobody
  \/ \E t \in Tasks : task[t] = "checking"
  \/ AllDone("service")

NeverStuck == pc = "waiting" => CanGoOn

\* While Status waits its context has a deadline, and each fan-out has spawned
\* all of its goroutines at once.
WaitOK ==
  pc = "waiting" =>
    /\ bounded
    /\ \A m \in Members : task[m] # "absent"
    /\ (\E e \in Endpoints : task[e] = "absent") => \A e \in Endpoints : task[e] = "absent"

\* Nothing is forgotten: goroutines are spawned together and never vanish.
LEMMA WaitStep ==
  ASSUME Inv, WaitOK, [Next]_vars
  PROVE  WaitOK'
<1> USE TaskSets DEF WaitOK
<1>0. TypeOK /\ OrderOK
  BY DEF Inv
<1>1. CASE Status
  <2>1. bounded' = TRUE /\ \A t \in Tasks : task'[t] = IF t \in Members THEN "running" ELSE "absent"
    BY <1>1 DEF Status
  <2> QED BY <2>1
<1>2. CASE Expire \/ StatusReturns \/ UNCHANGED vars
  BY <1>2 DEF Expire, StatusReturns, vars
<1>3. CASE FanOut
  BY <1>0, <1>3 DEF FanOut, TypeOK
<1>4. CASE ClientAnswers
  BY <1>0, <1>4 DEF ClientAnswers, TypeOK
<1>5. CASE NextCall
  BY <1>5 DEF NextCall
<1>6. ASSUME NEW t \in Tasks, TaskSteps(t) PROVE WaitOK'
  <2>1. /\ UNCHANGED <<pc, bounded>> /\ task[t] # "absent"
        /\ \E x \in {"answered", "checking", "done"} : task' = [task EXCEPT ![t] = x]
    BY <1>6 DEF TaskSteps, Answers, Check, Merge
  <2>2. \A u \in Tasks : task'[u] = "absent" <=> task[u] = "absent"
    BY <1>0, <2>1 DEF TypeOK
  <2> QED BY <2>1, <2>2
<1> QED BY <1>1, <1>2, <1>3, <1>4, <1>5, <1>6 DEF Next

\* However silent the peers are and however the goroutines of the two fan-outs
\* stand to each other, a call of Status that has not returned can go on: the
\* mutexes are free when nobody is in check, a silent peer is given up at the
\* deadline, which every call has, and a fan-out is over when its goroutines are.
THEOREM StatusIsNeverStuck == Spec => []NeverStuck
<1>1. Inv /\ WaitOK => NeverStuck
  <2> SUFFICES ASSUME Inv, WaitOK, pc = "waiting", ~CanGoOn PROVE FALSE
    BY DEF NeverStuck
  <2> USE TaskSets
  <2>0. TypeOK /\ LockOK /\ OrderOK
    BY DEF Inv
  <2>1. \A t \in Tasks : task[t] # "checking" /\ task[t] # "answered"
    <3>1. \A t \in Tasks : task[t] # "checking"
      BY DEF CanGoOn
    <3>2. \A g \in Groups : lock[g] = Nobody
      BY <2>0, <3>1 DEF LockOK, TypeOK
    <3> QED BY <3>1, <3>2 DEF CanGoOn
  <2>2. expired /\ \A t \in Probed : task[t] # "running"
    BY DEF CanGoOn, WaitOK
  <2>3. \A e \in Endpoints : task[e] \in {"absent", "done"}
    BY <2>0, <2>1, <2>2 DEF TypeOK, Probed
  <2>4. task[Client] # "running"
    <3>1. (\A e \in Endpoints : task[e] = "absent") \/ AllDone("client")
      BY <2>3 DEF WaitOK, AllDone
    <3> QED BY <3>1 DEF CanGoOn
  <2>5. \A m \in Members : task[m] = "done"
    BY <2>0, <2>1, <2>2, <2>4 DEF TypeOK, Probed, Members, WaitOK
  <2> QED BY <2>5 DEF CanGoOn, AllDone
<1>2. Init => WaitOK
  BY DEF Init, WaitOK
<1>3. Inv /\ WaitOK /\ [Next]_vars => WaitOK'
  BY WaitStep
<1> QED BY <1>1, <1>2, <1>3, FanOutInvariant, PTL DEF Spec

\* How far a goroutine has come.
Rank == [absent |-> 0, running |-> 1, answered |-> 2, checking |-> 3, done |-> 4]

\* A step of a call takes some goroutine further, and none back, or it is the
\* deadline or the return.
Advances ==
  pc = "waiting" =>
    /\ \/ pc' = "returned"
       \/ ~expired /\ expired'
       \/ \E t \in Tasks : Rank[task'[t]] > Rank[task[t]]
    /\ \A t \in Tasks : Rank[task'[t]] >= Rank[task[t]]
    /\ expired => expired'

\* A call of Status ends after at most four steps for each goroutine, one for the
\* deadline and one for its return: every step advances it, so that no goroutine
\* can keep the others waiting by going round in circles.
THEOREM EveryStepAdvances == Spec => [][Advances]_vars
<1>1. Inv /\ [Next]_vars => [Advances]_vars
  <2> SUFFICES ASSUME Inv, Next, pc = "waiting" PROVE Advances \/ UNCHANGED vars
    BY DEF Advances
  <2> USE TaskSets
  <2>0. TypeOK
    BY DEF Inv
  <2>1. CASE Status \/ NextCall
    BY <2>1 DEF Status, NextCall
  <2>2. CASE Expire \/ StatusReturns
    <3>1. task' = task /\ (pc' = "returned" \/ (~expired /\ expired')) /\ (expired => expired')
      BY <2>2 DEF Expire, StatusReturns
    <3>2. \A t \in Tasks : Rank[task'[t]] >= Rank[task[t]]
      BY <2>0, <3>1 DEF TypeOK, Rank
    <3> QED BY <3>1, <3>2 DEF Advances
  <2>3. ASSUME NEW t \in Tasks, NEW x \in {"running", "answered", "checking", "done"},
               task' = [task EXCEPT ![t] = x], Rank[x] > Rank[task[t]], UNCHANGED expired
        PROVE  Advances
    <3>1. \A u \in Tasks : task'[u] = IF u = t THEN x ELSE task[u]
      BY <2>0, <2>3 DEF TypeOK
    <3>2. \A u \in Tasks : Rank[task[u]] \in Nat
      BY <2>0 DEF TypeOK, Rank
    <3>3. Rank[x] \in Nat
      BY DEF Rank
    <3> QED BY <2>3, <3>1, <3>2, <3>3 DEF Advances
  <2>4. CASE ClientAnswers
    <3>1. task[Client] = "running" /\ task' = [task EXCEPT ![Client] = "answered"] /\ UNCHANGED expired
      BY <2>4 DEF ClientAnswers
    <3>2. Rank["answered"] > Rank["running"]
      BY DEF Rank
    <3> QED BY <3>1, <3>2, <2>3
  <2>5. ASSUME NEW t \in Tasks, TaskSteps(t) PROVE Advances
    <3>1. PICK x \in {"answered", "checking", "done"} :
            task' = [task EXCEPT ![t] = x] /\ Rank[x] > Rank[task[t]]
      BY <2>5 DEF TaskSteps, Answers, Check, Merge, Rank
    <3>2. UNCHANGED expired
      BY <2>5 DEF TaskSteps, Answers, Check, Merge
    <3> QED BY <3>1, <3>2, <2>3
  <2>6. CASE FanOut
    <3>1. \A t \in Tasks : task'[t] = IF t \in Endpoints THEN "running" ELSE task[t]
      BY <2>6 DEF FanOut
    <3>2. (\A e \in Endpoints : task[e] = "absent") /\ UNCHANGED expired
      BY <2>6 DEF FanOut
    <3>3. \A t \in Tasks : Rank[task[t]] \in Nat
      BY <2>0 DEF TypeOK, Rank
    <3>4. Rank["running"] = 1 /\ Rank["absent"] = 0
      BY DEF Rank
    <3>5. CASE Endpoints = {}
      <4>1. task' = task
        BY <2>0, <2>6, <3>5 DEF FanOut, TypeOK
      <4> QED BY <2>6, <4>1 DEF FanOut, vars
    <3>6. CASE Endpoints # {}
      BY <3>1, <3>2, <3>3, <3>4, <3>6 DEF Advances
    <3> QED BY <3>5, <3>6
  <2> HIDE DEF Advances
  <2> QED BY <2>1, <2>2, <2>4, <2>5, <2>6 DEF Next
<1> QED BY <1>1, FanOutInvariant, PTL DEF Spec
=============================================================================
