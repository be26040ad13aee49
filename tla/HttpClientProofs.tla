-------------------------- MODULE HttpClientProofs --------------------------
(***************************************************************************)
(* Theorems about HttpClient, for any number of goroutines, any number of  *)
(* endpoints and any width of the cursor.                                  *)
(***************************************************************************)
EXTENDS HttpClient, TLAPS

USE DEF callVars, Attempts, Endpoints, Outcomes, Answers, MaxLead

-----------------------------------------------------------------------------
(* Type correctness                                                        *)

\* The client has its types at first.
LEMMA TypeInit == Init => TypeOK
BY HttpClientAssumption DEF Init, TypeOK, Results, Nothing

\* Counting a first choice keeps the counters of the endpoints in range.
LEMMA AdvanceType ==
  ASSUME NEW e \in Endpoints, lead \in [Endpoints -> 0 .. MaxLead], Advance(e)
  PROVE  lead' \in [Endpoints -> 0 .. MaxLead]
<1> DEFINE more == [lead EXCEPT ![e] = Capped(@ + 1)]
<1>1. more \in [Endpoints -> 0 .. MaxLead]
  BY DEF Capped
<1>2. CASE \A x \in Endpoints : more[x] > 0
  <2>1. lead' = [x \in Endpoints |-> more[x] - 1]
    BY <1>2 DEF Advance
  <2> HIDE DEF more
  <2> QED
    BY <1>1, <1>2, <2>1
<1>3. CASE ~ \A x \in Endpoints : more[x] > 0
  <2>1. lead' = more
    BY <1>3 DEF Advance
  <2> QED
    BY <1>1, <2>1
<1> QED
  BY <1>2, <1>3

\* Draining the bodies of a call leaves a state for each of its attempts.
LEMMA DrainedType ==
  ASSUME TypeOK, NEW c \in Callers
  PROVE  Drained(c, body[c]) \in [Attempts -> {"none", "open", "closed"}]
BY DEF TypeOK, Drained

\* An attempt adds one outcome to those of its call, and there is room for it.
LEMMA RecordsType ==
  ASSUME TypeOK, NEW c \in Callers, NEW o \in Outcomes, Records(c, o)
  PROVE  /\ seen' \in [Callers -> Seq(Outcomes)]
         /\ \A d \in Callers : Len(seen'[d]) <= count
         /\ Len(seen[c]) + 1 \in Attempts
         /\ Len(seen'[c]) = Len(seen[c]) + 1
<1> USE HttpClientAssumption DEF TypeOK, Records
<1>1. Append(seen[c], o) \in Seq(Outcomes) /\ Len(Append(seen[c], o)) = Len(seen[c]) + 1
  OBVIOUS
<1>2. seen' = [seen EXCEPT ![c] = Append(seen[c], o)]
  OBVIOUS
<1>3. \A d \in Callers : seen'[d] = IF d = c THEN Append(seen[c], o) ELSE seen[d]
  BY <1>2
<1>4. seen' \in [Callers -> Seq(Outcomes)]
  BY <1>1, <1>2
<1> QED
  BY <1>1, <1>3, <1>4

\* Every step keeps the types.
LEMMA TypeStep == TypeOK /\ [Next]_vars => TypeOK'
<1> SUFFICES ASSUME TypeOK, [Next]_vars PROVE TypeOK'
  OBVIOUS
<1> USE HttpClientAssumption DEF TypeOK
<1>1. ASSUME NEW c \in Callers, count' = count, Draws(c) PROVE TypeOK'
  <2>1. index % count \in Endpoints /\ (index + 1) % CursorModulus \in 0 .. CursorModulus - 1
    OBVIOUS
  <2>2. lead' \in [Endpoints -> 0 .. MaxLead]
    BY <1>1, <2>1, AdvanceType DEF Draws
  <2> QED
    BY <1>1, <2>1, <2>2 DEF Draws, Enter
<1>2. ASSUME NEW c \in Callers, count' = count, FastPath(c) PROVE TypeOK'
  BY <1>2 DEF FastPath, Enter
<1>3. ASSUME NEW c \in Callers, count' = count, Cancel(c) PROVE TypeOK'
  BY <1>3 DEF Cancel
<1>4. ASSUME NEW c \in Callers, count' = count, StopsTrying(c) PROVE TypeOK'
  BY <1>4, DrainedType DEF StopsTrying, Returns, Results
<1>5. ASSUME NEW c \in Callers, count' = count, Tries(c) PROVE TypeOK'
  BY <1>5 DEF Tries
<1>6. ASSUME NEW c \in Callers, count' = count, Errors(c) PROVE TypeOK'
  BY <1>6, RecordsType DEF Errors
<1>7. ASSUME NEW c \in Callers, count' = count, Supersedes(c) PROVE TypeOK'
  <2>1. Records(c, "5xx")
    BY <1>7 DEF Supersedes
  <2> DEFINE k == Len(seen[c]) + 1
  <2>2. k \in Attempts
    BY <2>1, RecordsType
  <2>3. [Drained(c, body[c]) EXCEPT ![k] = "open"] \in [Attempts -> {"none", "open", "closed"}]
    BY <2>2, DrainedType
  <2> QED
    BY <1>7, <2>1, <2>2, <2>3, RecordsType DEF Supersedes
<1>8. ASSUME NEW c \in Callers, count' = count, Succeeds(c) PROVE TypeOK'
  <2>1. PICK o \in Answers : Records(c, o)
    BY <1>8 DEF Succeeds
  <2> DEFINE k == Len(seen[c]) + 1
  <2>2. k \in Attempts
    BY <2>1, RecordsType
  <2>3. [Drained(c, body[c]) EXCEPT ![k] = "open"] \in [Attempts -> {"none", "open", "closed"}]
    BY <2>2, DrainedType
  <2> QED
    BY <1>8, <2>1, <2>2, <2>3, RecordsType DEF Succeeds, Returns, Results
<1>9. ASSUME NEW c \in Callers, count' = count, GivesUp(c) PROVE TypeOK'
  BY <1>9 DEF GivesUp, Returns, Results
<1>10. ASSUME NEW c \in Callers, count' = count, ReturnsDirectly(c) PROVE TypeOK'
  <2>1. PICK o \in Outcomes :
          /\ Records(c, o)
          /\ IF o = "error"
             THEN Returns(c, "error", 0) /\ UNCHANGED body
             ELSE Returns(c, "response", 1) /\ body' = [body EXCEPT ![c][1] = "open"]
    BY <1>10, Zenon DEF ReturnsDirectly
  <2>2. UNCHANGED <<index, start, lastResp, ctx, lead>> /\ single
    BY <1>10 DEF ReturnsDirectly
  <2>3. CASE o = "error"
    <3>1. Returns(c, "error", 0) /\ UNCHANGED body
      BY <2>1, <2>3
    <3> QED
      BY <1>10, <2>1, <2>2, <3>1, RecordsType DEF Returns, Results
  <2>4. CASE o # "error"
    <3>1. Returns(c, "response", 1) /\ body' = [body EXCEPT ![c][1] = "open"]
      BY <2>1, <2>4
    <3>2. body' \in [Callers -> [Attempts -> {"none", "open", "closed"}]]
      BY <3>1
    <3>3. result' \in [Callers -> Results]
      BY <3>1 DEF Returns, Results
    <3>4. pc' \in [Callers -> {"idle", "loop", "attempt", "returned"}]
      BY <3>1 DEF Returns
    <3> QED
      BY <1>10, <2>1, <2>2, <3>2, <3>3, <3>4, RecordsType
  <2> QED
    BY <2>3, <2>4
<1>11. ASSUME NEW c \in Callers, count' = count, CallerCloses(c) PROVE TypeOK'
  BY <1>11 DEF CallerCloses, Nothing, Results
<1>12. CASE UNCHANGED vars
  BY <1>12 DEF vars
<1> QED
  BY <1>1, <1>2, <1>3, <1>4, <1>5, <1>6, <1>7, <1>8, <1>9, <1>10, <1>11, <1>12
     DEF Next, CallStep, Iterate

\* Every variable of the model of the client keeps its type.
THEOREM TypeCorrect == Spec => []TypeOK
BY TypeInit, TypeStep, PTL DEF Spec

-----------------------------------------------------------------------------
(* The bodies, the retained response and the result                        *)

\* What is known of one call, and needs that call's variables only.
Contract(c) ==
  Exhausted(c) =>
    LET n == Len(seen[c]) IN
    /\ \A k \in 1 .. n - 1 : seen[c][k] \notin Answers
    /\ \/ /\ result[c].kind = "response"
          /\ seen[c][n] \in Answers
          /\ result[c].at = n
       \/ /\ result[c].kind = "response"
          /\ seen[c][result[c].at] = "5xx"
          /\ \A k \in result[c].at + 1 .. n : seen[c][k] = "error"
       \/ /\ result[c].kind = "error"
          /\ \A k \in 1 .. n : seen[c][k] = "error"

Bodies(c) ==
  /\ pc[c] = "idle" => Open(c) = {}
  /\ pc[c] \in {"loop", "attempt"} => Open(c) = {lastResp[c]} \ {0}
  /\ pc[c] = "returned" => Open(c) = {result[c].at} \ {0}

PerCall(c) == Bodies(c) /\ Contract(c) /\ CallInv(c)

\* The invariant says the same of each call on its own.
LEMMA IInvIsPerCall == IInv <=> TypeOK /\ \A c \in Callers : PerCall(c)
BY DEF IInv, NoBodyLeaked, LastFailureSurfaced, PerCall, Bodies, Contract

\* No call has begun at first.
LEMMA InvInit == Init => IInv
<1> SUFFICES ASSUME Init PROVE IInv
  OBVIOUS
<1>1. TypeOK
  BY TypeInit
<1>2. ASSUME NEW c \in Callers PROVE PerCall(c)
  <2>1. pc[c] = "idle" /\ Open(c) = {} /\ Fresh(c)
    BY DEF Init, Open, Fresh
  <2> QED
    BY <2>1 DEF PerCall, Bodies, Contract, CallInv, Exhausted
<1> QED
  BY <1>1, <1>2, IInvIsPerCall

\* A step of another goroutine leaves a call as it was.
LEMMA Frame ==
  ASSUME TypeOK, NEW c \in Callers, NEW d \in Callers, d # c, PerCall(d),
         count' = count, CallStep(c)
  PROVE  PerCall(d)'
<1>1. /\ pc'[d] = pc[d] /\ seen'[d] = seen[d] /\ lastResp'[d] = lastResp[d]
      /\ body'[d] = body[d] /\ result'[d] = result[d]
  <2> USE DEF TypeOK
  <2>1. CASE Draws(c) \/ FastPath(c) \/ Cancel(c) \/ CallerCloses(c)
    BY <2>1 DEF Draws, FastPath, Enter, Cancel, CallerCloses
  <2>2. CASE StopsTrying(c) \/ Tries(c) \/ GivesUp(c)
    BY <2>2 DEF StopsTrying, Tries, GivesUp, Returns
  <2>3. CASE Errors(c) \/ Supersedes(c)
    BY <2>3 DEF Errors, Supersedes, Records
  <2>4. CASE Succeeds(c)
    BY <2>4 DEF Succeeds, Records, Returns
  <2>5. CASE ReturnsDirectly(c)
    <3>1. PICK o \in Outcomes :
            /\ Records(c, o)
            /\ IF o = "error"
               THEN Returns(c, "error", 0) /\ UNCHANGED body
               ELSE Returns(c, "response", 1) /\ body' = [body EXCEPT ![c][1] = "open"]
      BY <2>5, Zenon DEF ReturnsDirectly
    <3>2. body'[d] = body[d] /\ pc'[d] = pc[d] /\ result'[d] = result[d]
      <4>1. CASE o = "error"
        BY <3>1, <4>1 DEF Returns
      <4>2. CASE o # "error"
        BY <3>1, <4>2 DEF Returns
      <4> QED
        BY <4>1, <4>2
    <3> QED
      BY <2>5, <3>1, <3>2 DEF Records, ReturnsDirectly
  <2> QED
    BY <2>1, <2>2, <2>3, <2>4, <2>5 DEF CallStep, Iterate
<1>2. Open(d)' = Open(d) /\ (Exhausted(d)' <=> Exhausted(d)) /\ (Fresh(d)' <=> Fresh(d))
  BY <1>1 DEF Open, Exhausted, Fresh, Nothing, single
<1>3. Bodies(d)'
  BY <1>1, <1>2 DEF PerCall, Bodies
<1>4. Contract(d)'
  BY <1>1, <1>2 DEF PerCall, Contract
<1>5. CallInv(d)'
  BY <1>1, <1>2 DEF PerCall, CallInv, Retained, single
<1> QED
  BY <1>3, <1>4, <1>5 DEF PerCall

\* What the step of an attempt does to the call that takes it.
LEMMA AfterRecords ==
  ASSUME TypeOK, NEW c \in Callers, NEW o \in Outcomes, Records(c, o)
  PROVE  /\ Len(seen'[c]) = Len(seen[c]) + 1
         /\ \A k \in 1 .. Len(seen[c]) : seen'[c][k] = seen[c][k]
         /\ seen'[c][Len(seen[c]) + 1] = o
         /\ Len(seen[c]) \in Nat
         /\ Len(seen[c]) < count
<1>1. seen'[c] = Append(seen[c], o) /\ seen[c] \in Seq(Outcomes)
  BY DEF TypeOK, Records
<1> QED
  BY <1>1 DEF Records

\* A transport error keeps what the call retained.
LEMMA ErrorsStep ==
  ASSUME TypeOK, NEW c \in Callers, PerCall(c), count' = count, Errors(c)
  PROVE  PerCall(c)'
<1> DEFINE n == Len(seen[c])
<1>1. Records(c, "error") /\ pc[c] = "attempt" /\ ~single
  BY DEF Errors, Records
<1>2. pc'[c] = "loop" /\ lastResp'[c] = lastResp[c] /\ body'[c] = body[c]
  BY DEF Errors, TypeOK
<1>3. /\ Len(seen'[c]) = n + 1 /\ seen'[c][n + 1] = "error" /\ n \in Nat /\ n < count
      /\ \A k \in 1 .. n : seen'[c][k] = seen[c][k]
  BY <1>1, AfterRecords
<1>4. Bodies(c)'
  BY <1>1, <1>2 DEF PerCall, Bodies, Open
<1>5. Contract(c)'
  BY <1>2 DEF Contract, Exhausted
<1>6. Retained(c)'
  <2>1. Retained(c)
    BY <1>1 DEF PerCall, CallInv
  <2>2. lastResp[c] \in Nat
    BY DEF TypeOK
  <2>3. n = Len(seen[c])
    OBVIOUS
  <2> HIDE DEF n
  <2>4. \A k \in 1 .. n + 1 : seen'[c][k] \notin Answers
    BY <1>3, <2>1, <2>3 DEF Retained
  <2>5. ASSUME NEW k \in lastResp[c] + 1 .. n + 1 PROVE seen'[c][k] = "error"
    <3>1. CASE k = n + 1
      BY <1>3, <3>1
    <3>2. CASE k # n + 1
      <4>1. k \in 1 .. n /\ k \in lastResp[c] + 1 .. n
        BY <1>3, <2>2, <3>2
      <4>2. seen[c][k] = "error"
        BY <2>1, <2>3, <4>1 DEF Retained
      <4> QED
        BY <1>3, <4>1, <4>2
    <3> QED
      BY <3>1, <3>2
  <2>6. lastResp[c] # 0 => lastResp[c] <= n + 1 /\ seen'[c][lastResp[c]] = "5xx"
    BY <1>3, <2>1, <2>2, <2>3 DEF Retained
  <2>7. Len(seen'[c]) = n + 1 /\ lastResp'[c] = lastResp[c]
    BY <1>2, <1>3
  <2> QED
    BY <2>4, <2>5, <2>6, <2>7 DEF Retained
<1>7. CallInv(c)'
  BY <1>1, <1>2, <1>6 DEF CallInv, Exhausted, single
<1> QED
  BY <1>4, <1>5, <1>7 DEF PerCall

\* A 5xx response takes the place of the one retained, whose body is closed.
LEMMA SupersedesStep ==
  ASSUME TypeOK, NEW c \in Callers, PerCall(c), count' = count, Supersedes(c)
  PROVE  PerCall(c)'
<1> DEFINE n == Len(seen[c])
<1>1. Records(c, "5xx") /\ pc[c] = "attempt" /\ ~single
  BY DEF Supersedes, Records
<1>2. /\ pc'[c] = "loop" /\ lastResp'[c] = n + 1
      /\ body'[c] = [Drained(c, body[c]) EXCEPT ![n + 1] = "open"]
  BY RecordsType, <1>1 DEF Supersedes, TypeOK
<1>3. /\ Len(seen'[c]) = n + 1 /\ seen'[c][n + 1] = "5xx" /\ n \in Nat /\ n < count
      /\ \A k \in 1 .. n : seen'[c][k] = seen[c][k]
  BY <1>1, AfterRecords
<1>4. Bodies(c)'
  <2>1. Open(c) = {lastResp[c]} \ {0}
    BY <1>1 DEF PerCall, Bodies
  <2>2. \A k \in Attempts : Drained(c, body[c])[k] # "open"
    BY <2>1 DEF Drained, Open
  <2>3. n + 1 \in Attempts /\ Drained(c, body[c]) \in [Attempts -> {"none", "open", "closed"}]
    BY <1>1, RecordsType, DrainedType
  <2>4. Open(c)' = {n + 1}
    BY <1>2, <2>2, <2>3 DEF Open
  <2> QED
    BY <1>2, <1>3, <2>4 DEF Bodies
<1>5. Contract(c)'
  BY <1>2 DEF Contract, Exhausted
<1>6. Retained(c)'
  <2>1. Retained(c)
    BY <1>1 DEF PerCall, CallInv
  <2>2. n = Len(seen[c])
    OBVIOUS
  <2> HIDE DEF n
  <2>3. \A k \in 1 .. n + 1 : seen'[c][k] \notin Answers
    BY <1>3, <2>1, <2>2 DEF Retained
  <2> QED
    BY <1>2, <1>3, <2>3 DEF Retained
<1>7. CallInv(c)'
  BY <1>1, <1>2, <1>6 DEF CallInv, Exhausted, single
<1> QED
  BY <1>4, <1>5, <1>7 DEF PerCall

\* An answer is returned, and the body of the retained response closed.
LEMMA SucceedsStep ==
  ASSUME TypeOK, NEW c \in Callers, PerCall(c), count' = count, Succeeds(c)
  PROVE  PerCall(c)'
<1> DEFINE n == Len(seen[c])
<1>1. PICK o \in Answers : Records(c, o)
  BY DEF Succeeds
<1>2. pc[c] = "attempt" /\ ~single
  BY DEF Succeeds, Records
<1>3. /\ pc'[c] = "returned" /\ result'[c] = [kind |-> "response", at |-> n + 1]
      /\ body'[c] = [Drained(c, body[c]) EXCEPT ![n + 1] = "open"]
  BY RecordsType, <1>1 DEF Succeeds, Returns, TypeOK
<1>4. /\ Len(seen'[c]) = n + 1 /\ seen'[c][n + 1] = o /\ n \in Nat
      /\ \A k \in 1 .. n : seen'[c][k] = seen[c][k]
  BY <1>1, AfterRecords
<1>5. Bodies(c)'
  <2>1. Open(c) = {lastResp[c]} \ {0}
    BY <1>2 DEF PerCall, Bodies
  <2>2. \A k \in Attempts : Drained(c, body[c])[k] # "open"
    BY <2>1 DEF Drained, Open
  <2>3. n + 1 \in Attempts /\ Drained(c, body[c]) \in [Attempts -> {"none", "open", "closed"}]
    BY <1>1, RecordsType, DrainedType
  <2>4. Open(c)' = {n + 1}
    BY <1>3, <2>2, <2>3 DEF Open
  <2> QED
    BY <1>3, <1>4, <2>4 DEF Bodies
<1>6. Contract(c)'
  <2>1. Retained(c)
    BY <1>2 DEF PerCall, CallInv
  <2> HIDE DEF n
  <2>2. \A k \in 1 .. (n + 1) - 1 : seen'[c][k] \notin Answers
    BY <1>4, <2>1 DEF Retained, n
  <2> QED
    BY <1>3, <1>4, <2>2 DEF Contract
<1>7. CallInv(c)'
  BY <1>2, <1>3, <1>4 DEF CallInv, Exhausted, single
<1> QED
  BY <1>5, <1>6, <1>7 DEF PerCall

\* With one endpoint the outcome is handed on as it is.
LEMMA ReturnsDirectlyStep ==
  ASSUME TypeOK, NEW c \in Callers, PerCall(c), count' = count, ReturnsDirectly(c)
  PROVE  PerCall(c)'
<1>1. PICK o \in Outcomes :
        /\ Records(c, o)
        /\ IF o = "error"
           THEN Returns(c, "error", 0) /\ UNCHANGED body
           ELSE Returns(c, "response", 1) /\ body' = [body EXCEPT ![c][1] = "open"]
  BY Zenon DEF ReturnsDirectly
<1>2. single /\ pc[c] = "attempt"
  BY <1>1, Zenon DEF ReturnsDirectly, Records
<1>3. Fresh(c) /\ Open(c) = {}
  BY <1>2 DEF PerCall, CallInv, Bodies, Fresh
<1>4. pc'[c] = "returned" /\ Open(c)' = {result'[c].at} \ {0}
  <2>1. CASE o = "error"
    <3>1. Returns(c, "error", 0) /\ UNCHANGED body
      BY <1>1, <2>1
    <3> QED
      BY <3>1, <1>3 DEF Returns, TypeOK, Open
  <2>2. CASE o # "error"
    <3>1. Returns(c, "response", 1) /\ body' = [body EXCEPT ![c][1] = "open"]
      BY <1>1, <2>2
    <3>2. 1 \in Attempts
      BY HttpClientAssumption
    <3>3. body'[c] = [body[c] EXCEPT ![1] = "open"] /\ body[c] \in [Attempts -> {"none", "open", "closed"}]
      BY <3>1 DEF TypeOK
    <3>4. Open(c)' = {1}
      BY <3>2, <3>3, <1>3 DEF Open
    <3> QED
      BY <3>1, <3>4 DEF Returns, TypeOK
  <2> QED
    BY <2>1, <2>2
<1>5. Bodies(c)'
  BY <1>4 DEF Bodies
<1>6. Contract(c)' /\ CallInv(c)'
  BY <1>2, <1>4 DEF Contract, CallInv, Exhausted, single
<1> QED
  BY <1>5, <1>6 DEF PerCall

\* A call out of endpoints returns what it retained, or its error.
LEMMA GivesUpStep ==
  ASSUME TypeOK, NEW c \in Callers, PerCall(c), count' = count, GivesUp(c)
  PROVE  PerCall(c)'
<1>1. /\ pc[c] = "loop" /\ Len(seen[c]) = count
      /\ pc'[c] = "returned" /\ result'[c].at = lastResp[c]
      /\ result'[c].kind = IF lastResp[c] # 0 THEN "response" ELSE "error"
      /\ seen' = seen /\ body' = body /\ lastResp' = lastResp
  BY DEF GivesUp, Returns, TypeOK
<1>2. Retained(c) /\ Open(c) = {lastResp[c]} \ {0}
  BY <1>1 DEF PerCall, CallInv, Bodies
<1>3. Bodies(c)'
  BY <1>1, <1>2 DEF Bodies, Open
<1>4. Contract(c)'
  <2>1. \A k \in 1 .. Len(seen[c]) - 1 : seen[c][k] \notin Answers
    BY <1>1, <1>2, HttpClientAssumption DEF Retained
  <2>2. lastResp[c] \in 0 .. MaxCount
    BY DEF TypeOK
  <2>3. CASE lastResp[c] = 0
    BY <1>1, <1>2, <2>1, <2>3 DEF Contract, Retained
  <2>4. CASE lastResp[c] # 0
    BY <1>1, <1>2, <2>1, <2>4 DEF Contract, Retained
  <2> QED
    BY <2>3, <2>4
<1>5. CallInv(c)'
  BY <1>1 DEF CallInv, Exhausted
<1> QED
  BY <1>3, <1>4, <1>5 DEF PerCall

\* The steps that make no attempt keep the invariant of their call.
LEMMA OtherSteps ==
  ASSUME TypeOK, NEW c \in Callers, PerCall(c), count' = count,
         \/ Draws(c) \/ FastPath(c) \/ Cancel(c)
         \/ StopsTrying(c) \/ Tries(c) \/ CallerCloses(c)
  PROVE  PerCall(c)'
<1> USE HttpClientAssumption DEF TypeOK
<1>1. CASE Draws(c) \/ FastPath(c)
  <2>1. /\ pc[c] = "idle" /\ pc'[c] \in {"loop", "attempt"}
        /\ pc'[c] = "loop" => ~single
        /\ seen' = seen /\ lastResp' = lastResp /\ body' = body /\ result' = result
    BY <1>1 DEF Draws, FastPath, Enter
  <2>2. Fresh(c) /\ Open(c) = {}
    BY <2>1 DEF PerCall, CallInv, Bodies
  <2>3. Bodies(c)' /\ Contract(c)'
    BY <2>1, <2>2 DEF Bodies, Contract, Exhausted, Open, Fresh
  <2>4. Fresh(c)' /\ Retained(c)' /\ Len(seen'[c]) = 0
    BY <2>1, <2>2 DEF Fresh, Retained, Nothing
  <2> QED
    BY <2>1, <2>3, <2>4 DEF PerCall, CallInv, Exhausted, single
<1>2. CASE Cancel(c)
  <2>1. UNCHANGED <<pc, seen, lastResp, body, result>>
    BY <1>2 DEF Cancel
  <2> QED
    BY <2>1 DEF PerCall, Bodies, Contract, CallInv, Exhausted, Open, Fresh, Nothing,
                Retained, single
<1>3. CASE StopsTrying(c)
  <2>1. /\ pc[c] = "loop" /\ pc'[c] = "returned" /\ result'[c] = [kind |-> "cancelled", at |-> 0]
        /\ body'[c] = Drained(c, body[c])
    BY <1>3 DEF StopsTrying, Returns
  <2>2. Open(c) = {lastResp[c]} \ {0}
    BY <2>1 DEF PerCall, Bodies
  <2>3. Open(c)' = {}
    BY <2>1, <2>2 DEF Open, Drained
  <2> QED
    BY <2>1, <2>3 DEF PerCall, Bodies, Contract, CallInv, Exhausted
<1>4. CASE Tries(c)
  <2>1. /\ pc[c] = "loop" /\ pc'[c] = "attempt" /\ Len(seen[c]) < count
        /\ UNCHANGED <<seen, lastResp, body, result>>
    BY <1>4 DEF Tries
  <2>2. ~single /\ Retained(c)
    BY <2>1 DEF PerCall, CallInv
  <2>3. Retained(c)'
    BY <2>1, <2>2 DEF Retained
  <2>4. Bodies(c)'
    BY <2>1 DEF PerCall, Bodies, Open
  <2> QED
    BY <2>1, <2>2, <2>3, <2>4 DEF PerCall, Contract, CallInv, Exhausted, single
<1>5. CASE CallerCloses(c)
  <2>1. pc'[c] = "idle" /\ Fresh(c)' /\ Open(c)' = {}
    BY <1>5 DEF CallerCloses, Fresh, Open, Nothing
  <2> QED
    BY <2>1 DEF PerCall, Bodies, Contract, CallInv, Exhausted
<1> QED
  BY <1>1, <1>2, <1>3, <1>4, <1>5

\* Every step keeps the invariant: its own call by the lemmas above, the others by Frame.
LEMMA InvStep == IInv /\ [Next]_vars => IInv'
<1> SUFFICES ASSUME IInv, [Next]_vars PROVE IInv'
  OBVIOUS
<1>1. TypeOK /\ \A c \in Callers : PerCall(c)
  BY IInvIsPerCall
<1>2. TypeOK'
  BY <1>1, TypeStep
<1>3. ASSUME NEW c \in Callers, count' = count, CallStep(c)
      PROVE  \A d \in Callers : PerCall(d)'
  <2>1. PerCall(c)'
    BY <1>1, <1>3, ErrorsStep, SupersedesStep, SucceedsStep, ReturnsDirectlyStep,
       GivesUpStep, OtherSteps DEF CallStep, Iterate
  <2>2. ASSUME NEW d \in Callers, d # c PROVE PerCall(d)'
    BY <1>1, <1>3, <2>2, Frame
  <2> QED
    BY <2>1, <2>2
<1>4. ASSUME UNCHANGED vars PROVE \A d \in Callers : PerCall(d)'
  <2> SUFFICES ASSUME NEW d \in Callers PROVE PerCall(d)'
    OBVIOUS
  <2>1. UNCHANGED <<count, pc, seen, lastResp, body, result>>
    BY <1>4 DEF vars
  <2>2. PerCall(d)
    BY <1>1
  <2> QED
    BY <2>1, <2>2 DEF PerCall, Bodies, Contract, CallInv, Exhausted, Open, Fresh, Nothing,
                      Retained, single
<1>5. \A d \in Callers : PerCall(d)'
  BY <1>3, <1>4, Zenon DEF Next
<1>6. IInv'
  BY <1>2, <1>5 DEF IInv, NoBodyLeaked, LastFailureSurfaced, PerCall, Bodies, Contract
<1> QED
  BY <1>6

\* The invariant holds in every state of the client.
THEOREM Inductive == Spec => []IInv
BY InvInit, InvStep, PTL DEF Spec

\* No goroutine leaks a response body, and none returns one it has closed.
THEOREM NoLeak == Spec => []NoBodyLeaked
BY Inductive, PTL DEF IInv

\* The result of a call is its last answer, its last 5xx response or an error,
\* in that order of preference.
THEOREM ResultContract == Spec => []LastFailureSurfaced
BY Inductive, PTL DEF IInv

-----------------------------------------------------------------------------
(* The endpoints a call tries                                              *)

\* What quotient and remainder are.
LEMMA Quotient ==
  ASSUME NEW n \in Nat \ {0}, NEW x \in Nat
  PROVE  x \div n \in Nat /\ x % n \in 0 .. n - 1 /\ x = n * (x \div n) + (x % n)
OBVIOUS

\* The remainder of a sum is the part that is below the divisor.
LEMMA Residue ==
  ASSUME NEW n \in Nat \ {0}, NEW q \in Nat, NEW r \in 0 .. n - 1
  PROVE  (n * q + r) % n = r
<1> DEFINE x == n * q + r
           d == x \div n
<1>1. x \in Nat
  OBVIOUS
<1>2. d \in Nat /\ x % n \in 0 .. n - 1 /\ x = n * d + (x % n)
  BY <1>1, Quotient
<1>3. d = q
  <2>1. n * (d - q) = r - (x % n)
    BY <1>2
  <2>2. CASE d > q
    <3>1. n * (d - q) >= n
      BY <1>2, <2>2
    <3> QED
      BY <1>2, <2>1, <3>1
  <2>3. CASE d < q
    <3>1. n * (q - d) >= n
      BY <1>2, <2>3
    <3>2. n * (q - d) = (x % n) - r
      BY <1>2
    <3> QED
      BY <1>2, <3>1, <3>2
  <2> QED
    BY <1>2, <2>2, <2>3
<1> QED
  BY <1>2, <1>3

\* C consecutive positions from the cursor s meet every residue modulo C.
Covers(M, C, s) == \A e \in 0 .. C - 1 : \E k \in 1 .. C : ((s + k - 1) % M) % C = e

\* They do when they do not wrap, or when the wrap keeps the residues in step.
LEMMA RoundCoversEndpoints ==
  ASSUME NEW M \in Nat \ {0}, NEW C \in Nat \ {0}, C <= M,
         NEW s \in 0 .. M - 1, s + C <= M \/ M % C = 0
  PROVE  Covers(M, C, s)
<1> SUFFICES ASSUME NEW e \in 0 .. C - 1
             PROVE  \E k \in 1 .. C : ((s + k - 1) % M) % C = e
  BY DEF Covers
<1> DEFINE r == s % C
           q == s \div C
           k == IF e >= r THEN e - r + 1 ELSE e - r + C + 1
           p == IF e >= r THEN q ELSE q + 1
           t == s + k - 1
<1>1. q \in Nat /\ r \in 0 .. C - 1 /\ s = C * q + r
  <2>1. s \in Nat
    OBVIOUS
  <2> QED
    BY <2>1, Quotient
<1> HIDE DEF r, q
<1>2. k \in 1 .. C /\ p \in Nat
  BY <1>1
<1>3. t = C * p + e
  <2>1. CASE e >= r
    BY <1>1, <2>1
  <2>2. CASE ~(e >= r)
    <3>1. C * (q + 1) = C * q + C
      BY <1>1
    <3> QED
      BY <1>1, <2>2, <3>1
  <2> QED
    BY <2>1, <2>2
<1> HIDE DEF k, p
<1>4. t \in Nat /\ t <= s + C - 1 /\ t < M + M
  BY <1>2
<1>5. CASE t < M
  <2>1. t % M = t
    <3>1. M * 0 + t = t /\ t \in 0 .. M - 1
      BY <1>4, <1>5
    <3>2. (M * 0 + t) % M = t
      BY <3>1, Residue
    <3> QED
      BY <3>1, <3>2
  <2>2. (C * p + e) % C = e
    BY <1>2, Residue
  <2> QED
    BY <1>2, <1>3, <2>1, <2>2
<1>6. CASE t >= M
  <2> DEFINE m == M \div C
  <2>1. M % C = 0 /\ m \in Nat /\ M = C * m
    <3>1. M % C = 0
      BY <1>4, <1>6
    <3> QED
      BY <3>1, Quotient
  <2> HIDE DEF m
  <2>2. t % M = t - M
    <3>1. M * 1 + (t - M) = t /\ t - M \in 0 .. M - 1
      BY <1>4, <1>6
    <3>2. (M * 1 + (t - M)) % M = t - M
      BY <3>1, Residue
    <3> QED
      BY <3>1, <3>2
  <2>3. p >= m
    <3>1. ASSUME p < m PROVE FALSE
      <4>1. C * (m - p) >= C
        BY <1>2, <2>1, <3>1
      <4>2. C * m - C * p >= C
        BY <1>2, <2>1, <4>1
      <4> QED
        BY <1>2, <1>3, <1>6, <2>1, <4>2
    <3> QED
      BY <1>2, <2>1, <3>1
  <2>4. t - M = C * (p - m) + e /\ p - m \in Nat
    BY <1>2, <1>3, <2>1, <2>3
  <2>5. (C * (p - m) + e) % C = e
    BY <2>4, Residue
  <2> QED
    BY <1>2, <2>2, <2>4, <2>5
<1> QED
  BY <1>4, <1>5, <1>6

\* A call that made all its attempts has tried each endpoint.
LEMMA CompleteWhenExhausted ==
  ASSUME TypeOK, IInv, NEW c \in Callers, Exhausted(c), ~Torn(c),
         \A k \in 1 .. Len(seen[c]) : seen[c][k] \notin Answers
  PROVE  {Endpoint(c, k) : k \in 1 .. Len(seen[c])} = Endpoints
<1> USE HttpClientAssumption
<1>1. Len(seen[c]) = count
  BY DEF IInv, CallInv
<1>2. /\ start[c] \in 0 .. CursorModulus - 1
      /\ count \in Nat \ {0} /\ count <= CursorModulus
  BY DEF TypeOK
<1>3. ASSUME NEW k \in 1 .. count PROVE Endpoint(c, k) \in Endpoints
  <2>1. start[c] + k - 1 \in Nat
    BY <1>2
  <2>2. (start[c] + k - 1) % CursorModulus \in Nat
    BY <2>1, Quotient
  <2>3. ((start[c] + k - 1) % CursorModulus) % count \in 0 .. count - 1
    BY <1>2, <2>2, Quotient
  <2> QED
    BY <2>3 DEF Endpoint
<1>4. ASSUME NEW e \in Endpoints PROVE \E k \in 1 .. count : Endpoint(c, k) = e
  <2>1. start[c] + count <= CursorModulus \/ CursorModulus % count = 0
    BY <1>2 DEF Torn
  <2>2. Covers(CursorModulus, count, start[c])
    BY <1>2, <2>1, RoundCoversEndpoints
  <2> QED
    BY <2>2, Zenon DEF Endpoint, Covers
<1> QED
  BY <1>1, <1>3, <1>4

\* A call that gives up has tried every endpoint, for any number of endpoints
\* and any interleaving of the goroutines that share the cursor.
THEOREM FailoverCoversEveryEndpoint == Spec => []FailoverIsComplete
<1>1. IInv => FailoverIsComplete
  BY CompleteWhenExhausted DEF FailoverIsComplete, IInv
<1> QED
  BY <1>1, Inductive, PTL

-----------------------------------------------------------------------------
(* The load                                                                *)

\* Where the wrap keeps the residues in step, the cursor moves on by one residue.
LEMMA NextResidue ==
  ASSUME NEW M \in Nat \ {0}, NEW C \in Nat \ {0}, M % C = 0, NEW i \in 0 .. M - 1
  PROVE  ((i + 1) % M) % C = IF i % C = C - 1 THEN 0 ELSE (i % C) + 1
<1> DEFINE r == i % C
           q == i \div C
<1>1. q \in Nat /\ r \in 0 .. C - 1 /\ i = C * q + r
  <2>1. i \in Nat
    OBVIOUS
  <2> QED
    BY <2>1, Quotient
<1> HIDE DEF r, q
<1>2. (i + 1) % C = IF r = C - 1 THEN 0 ELSE r + 1
  <2>1. CASE r = C - 1
    <3>1. i + 1 = C * (q + 1) + 0
      BY <1>1, <2>1
    <3>2. (C * (q + 1) + 0) % C = 0
      BY <1>1, Residue
    <3> QED
      BY <2>1, <3>1, <3>2
  <2>2. CASE r # C - 1
    <3>1. i + 1 = C * q + (r + 1) /\ r + 1 \in 0 .. C - 1
      BY <1>1, <2>2
    <3>2. (C * q + (r + 1)) % C = r + 1
      BY <1>1, <3>1, Residue
    <3> QED
      BY <2>2, <3>1, <3>2
  <2> QED
    BY <2>1, <2>2
<1>3. CASE i + 1 < M
  <2>1. M * 0 + (i + 1) = i + 1 /\ i + 1 \in 0 .. M - 1
    BY <1>3
  <2>2. (M * 0 + (i + 1)) % M = i + 1
    BY <2>1, Residue
  <2> QED
    BY <1>2, <2>1, <2>2 DEF r
<1>4. CASE i + 1 = M
  <2>1. M % M = 0
    <3>1. M * 1 + 0 = M
      OBVIOUS
    <3>2. (M * 1 + 0) % M = 0
      BY Residue
    <3> QED
      BY <3>1, <3>2
  <2>2. 0 % C = 0
    <3>1. C * 0 + 0 = 0
      OBVIOUS
    <3>2. (C * 0 + 0) % C = 0
      BY Residue
    <3> QED
      BY <3>1, <3>2
  <2>3. r = C - 1
    BY <1>1, <1>2, <1>4
  <2> QED
    BY <1>4, <2>1, <2>2, <2>3 DEF r
<1> QED
  BY <1>3, <1>4

\* A call that draws the cursor moves the turn on by one endpoint.
LEMMA DrawsInTurn ==
  ASSUME TypeOK, RoundRobin, NEW c \in Callers, count' = count, Draws(c)
  PROVE  RoundRobin'
<1> SUFFICES ASSUME CursorModulus % count = 0 PROVE RoundRobin'
  BY DEF RoundRobin
<1> DEFINE r == index % count
           more == [lead EXCEPT ![r] = Capped(@ + 1)]
<1>1. count \in Nat \ {0} /\ CursorModulus \in Nat \ {0} /\ index \in 0 .. CursorModulus - 1
  BY HttpClientAssumption DEF TypeOK
<1>2. r \in 0 .. count - 1
  BY <1>1, Quotient
<1>3. lead = [e \in 0 .. count - 1 |-> IF e < r THEN 1 ELSE 0]
  BY DEF RoundRobin
<1>4. index' % count = IF r = count - 1 THEN 0 ELSE r + 1
  BY <1>1, NextResidue DEF Draws
<1> HIDE DEF r
<1>5. more = [e \in 0 .. count - 1 |-> IF e <= r THEN 1 ELSE 0]
  <2>1. more = [e \in 0 .. count - 1 |-> IF e = r THEN Capped(lead[r] + 1) ELSE lead[e]]
    BY <1>3
  <2>2. lead[r] = 0 /\ Capped(lead[r] + 1) = 1
    BY <1>2, <1>3 DEF Capped
  <2>3. \A e \in 0 .. count - 1 :
          (IF e = r THEN Capped(lead[r] + 1) ELSE lead[e]) = IF e <= r THEN 1 ELSE 0
    <3> SUFFICES ASSUME NEW e \in 0 .. count - 1
                 PROVE  (IF e = r THEN 1 ELSE lead[e]) = IF e <= r THEN 1 ELSE 0
      BY <2>2
    <3>1. e \in Int /\ r \in Int /\ lead[e] = IF e < r THEN 1 ELSE 0
      BY <1>1, <1>2, <1>3
    <3> QED
      BY <3>1
  <2> QED
    BY <2>1, <2>3
<1>6. lead' = IF \A x \in 0 .. count - 1 : more[x] > 0
              THEN [x \in 0 .. count - 1 |-> more[x] - 1] ELSE more
  BY DEF Draws, Advance, r
<1> HIDE DEF more
<1>7. (\A x \in 0 .. count - 1 : more[x] > 0) <=> r = count - 1
  BY <1>1, <1>2, <1>5
<1>8. lead' = [e \in 0 .. count - 1 |-> IF e < index' % count THEN 1 ELSE 0]
  <2>1. CASE r = count - 1
    <3>1. lead' = [x \in 0 .. count - 1 |-> more[x] - 1]
      BY <1>6, <1>7, <2>1
    <3>2. \A e \in 0 .. count - 1 : more[e] - 1 = IF e < index' % count THEN 1 ELSE 0
      BY <1>1, <1>2, <1>4, <1>5, <2>1
    <3> QED
      BY <3>1, <3>2
  <2>2. CASE r # count - 1
    <3>1. lead' = more /\ index' % count = r + 1
      BY <1>4, <1>6, <1>7, <2>2
    <3>2. \A e \in 0 .. count - 1 : (e <= r) <=> (e < r + 1)
      BY <1>1, <1>2
    <3> QED
      BY <1>5, <3>1, <3>2
  <2> QED
    BY <2>1, <2>2
<1> QED
  BY <1>8 DEF RoundRobin

\* The goroutines that share the cursor spread their first attempts evenly over
\* any number of endpoints that divides the modulus of the cursor.
THEOREM LoadIsBalanced == Spec => []Balanced
<1>1. Init => RoundRobin
  <2> SUFFICES ASSUME Init PROVE RoundRobin
    OBVIOUS
  <2>1. count \in Nat \ {0} /\ index = 0
    BY HttpClientAssumption DEF Init
  <2>2. index % count \in 0 .. count - 1 /\ 0 = count * (0 \div count) + (0 % count) /\ 0 \div count \in Nat
    BY <2>1, Quotient
  <2>3. \A e \in 0 .. count - 1 : ~(e < index % count)
    BY <2>1, <2>2
  <2> QED
    BY <2>3 DEF Init, RoundRobin
<1>2. IInv /\ RoundRobin /\ [Next]_vars => RoundRobin'
  <2> SUFFICES ASSUME IInv, RoundRobin, [Next]_vars PROVE RoundRobin'
    OBVIOUS
  <2>1. ASSUME NEW c \in Callers, Draws(c), count' = count PROVE RoundRobin'
    BY <2>1, DrawsInTurn DEF IInv
  <2>2. ASSUME NEW c \in Callers, CallStep(c), ~Draws(c) PROVE UNCHANGED <<index, lead>>
    BY <2>2 DEF CallStep, FastPath, Iterate, StopsTrying, Tries, GivesUp, Errors, Supersedes, Succeeds,
                ReturnsDirectly, Cancel, CallerCloses
  <2>3. ASSUME UNCHANGED <<count, index, lead>> PROVE RoundRobin'
    BY <2>3 DEF RoundRobin
  <2> QED
    BY <2>1, <2>2, <2>3 DEF Next, vars
<1>3. RoundRobin => Balanced
  <2> SUFFICES ASSUME RoundRobin, CursorModulus % count = 0, NEW e \in Endpoints PROVE lead[e] <= 1
    BY DEF Balanced
  <2>1. lead[e] \in {0, 1}
    BY Zenon DEF RoundRobin
  <2> QED
    BY <2>1
<1> QED
  BY <1>1, <1>2, <1>3, Inductive, PTL DEF Spec
=============================================================================
