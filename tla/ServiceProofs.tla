--------------------------- MODULE ServiceProofs ---------------------------
(***************************************************************************)
(* Theorems about Service, for any number of goroutines, starts, requests, *)
(* dependencies and attachments.                                           *)
(***************************************************************************)
EXTENDS Service, TLAPS

USE DEF Runs, httpVars, lifecycleVars, signalVars, stopVars, depVars

\* The Service has its types when New returns.
LEMMA TypeInit == Init => TypeOK
<1> SUFFICES ASSUME Init PROVE TypeOK
  OBVIOUS
<1>1. HttpTypeOK
  BY StartsAssumption DEF Init, HttpInit, HttpTypeOK, RunPhase, RequestState
<1>2. dependencies \in Seq(Deps)
  BY DEF Init
<1>3. starts \in 0 .. MaxStarts /\ stopping \in 0 .. MaxStarts
      /\ run \in [Callers -> 0 .. MaxStarts]
  BY StartsAssumption DEF Init
<1> QED
  BY <1>1, <1>2, <1>3 DEF Init, TypeOK, CallerState

\* Every step keeps the types.
LEMMA TypeStep == TypeOK /\ [Next]_vars => TypeOK'
<1> SUFFICES ASSUME TypeOK, [Next]_vars PROVE TypeOK'
  OBVIOUS
<1> USE StartsAssumption, ServiceAssumption
    DEF TypeOK, HttpTypeOK, RunPhase, RequestState, CallerState, Attachments,
        Locks, Goto, requireState, serviceVars
<1>1. ASSUME NEW p \in Callers, Serve(p) PROVE TypeOK'
  BY <1>1 DEF Serve
<1>2. ASSUME NEW p \in Callers, NEW d \in Deps, Attach(p, d) PROVE TypeOK'
  BY <1>2 DEF Attach
<1>3. ASSUME NEW p \in Callers, Start(p) PROVE TypeOK'
  BY <1>3 DEF Start, Launch
<1>4. ASSUME NEW p \in Callers, StartSignalled(p) PROVE TypeOK'
  BY <1>4 DEF StartSignalled
<1>5. ASSUME NEW p \in Callers, StartReturns(p) PROVE TypeOK'
  BY <1>5 DEF StartReturns
<1>6. ASSUME NEW p \in Callers, StartFails(p) PROVE TypeOK'
  BY <1>6 DEF StartFails
<1>7. ASSUME NEW p \in Callers, Stop(p) PROVE TypeOK'
  BY <1>7 DEF Stop
<1>8. ASSUME NEW p \in Callers, StopServer(p) PROVE TypeOK'
  <2>1. CASE handle # 0 /\ Shutdown
    <3>1. handle \in Runs
      BY <2>1
    <3> QED
      BY <1>8, <2>1, <3>1 DEF StopServer, Shutdown
  <2>2. CASE UNCHANGED httpVars
    BY <1>8, <2>2 DEF StopServer, Shutdown
  <2> QED
    BY <1>8, <2>1, <2>2 DEF StopServer
<1>9. ASSUME NEW p \in Callers, StopDrained(p) PROVE TypeOK'
  BY <1>9 DEF StopDrained
<1>10. ASSUME NEW p \in Callers, StopDrainExpires(p) PROVE TypeOK'
  BY <1>10 DEF StopDrainExpires
<1>11. ASSUME NEW p \in Callers, NEW i \in Attachments, CloseBegins(p, i) PROVE TypeOK'
  BY <1>11 DEF CloseBegins
<1>12. ASSUME NEW p \in Callers, NEW i \in Attachments, CloseEnds(p, i) PROVE TypeOK'
  BY <1>12 DEF CloseEnds
<1>13. ASSUME NEW p \in Callers, StopReturns(p) PROVE TypeOK'
  BY <1>13 DEF StopReturns
<1>14. ASSUME NEW n \in Runs, ServerSteps(n) PROVE TypeOK'
  <2>1. HttpTypeOK'
    <3>1. CASE Build(n)
      BY <3>1 DEF Build
    <3>2. CASE Listen(n)
      <4>1. \E x \in RunPhase : phase' = [phase EXCEPT ![n] = x]
        BY <3>2 DEF Listen
      <4>2. UNCHANGED object \/ object' = [object EXCEPT ![n] = handle]
        BY <3>2 DEF Listen
      <4>3. UNCHANGED <<handle, down, req, via>>
        BY <3>2 DEF Listen
      <4> QED
        BY <4>1, <4>2, <4>3
    <3>3. CASE ServeReturns(n)
      BY <3>3 DEF ServeReturns
    <3> QED
      BY <1>14, <3>1, <3>2, <3>3 DEF ServerSteps
  <2> QED
    BY <1>14, <2>1 DEF ServerSteps
<1>15. ASSUME NEW r \in Requests, NEW n \in Runs, Arrive(r, n), UNCHANGED serviceVars
       PROVE TypeOK'
  BY <1>15 DEF Arrive
<1>16. ASSUME NEW r \in Requests, NEW d \in Deps, Borrow(r, d) PROVE TypeOK'
  BY <1>16 DEF Borrow
<1>17. ASSUME NEW r \in Requests, Respond(r) PROVE TypeOK'
  BY <1>17 DEF Respond, Answer
<1>18. ASSUME NEW r \in Requests, StatusLocks(r) PROVE TypeOK'
  BY <1>18 DEF StatusLocks
<1>19. ASSUME NEW r \in Requests, StatusReturns(r) PROVE TypeOK'
  BY <1>19 DEF StatusReturns, Answer
<1>20. CASE Signal \/ Expire
  BY <1>20 DEF Signal, Expire
<1>21. CASE UNCHANGED vars
  BY <1>21 DEF vars
<1> QED
  BY <1>1, <1>2, <1>3, <1>4, <1>5, <1>6, <1>7, <1>8, <1>9, <1>10, <1>11, <1>12, <1>13,
     <1>14, <1>15, <1>16, <1>17, <1>18, <1>19, <1>20, <1>21
  DEF Next, CallerSteps, StopSteps, RequestSteps, Request, Refused

\* Every variable keeps the type the code gives it: no run, no server and no
\* attachment outside those that exist.
THEOREM TypeCorrect == Spec => []TypeOK
  BY TypeInit, TypeStep, PTL DEF Spec

\* The variables the invariants are about.
safetyVars == <<mu, state, pc, stopping, down, req, via, errs, expired, task, conn, holds,
                dependencies, telemetry>>

\* A step that changes nothing the invariant reads keeps it.
LEMMA Frame == ASSUME IInv, TypeOK', UNCHANGED safetyVars PROVE IInv'
<1> USE DEF safetyVars
<1>1. StopHoldsLock'
  BY DEF IInv, StopHoldsLock, InStop
<1>2. StopOnlyStarted'
  BY DEF IInv, StopOnlyStarted
<1>3. BorrowsTracked'
  BY DEF IInv, BorrowsTracked, Attached
<1>4. DrainDone'
  BY DEF IInv, DrainDone, InFlight
<1>5. CloseProgress'
  BY DEF IInv, CloseProgress, Closing
<1>6. BorrowedStaysAlive'
  BY DEF IInv, BorrowedStaysAlive
<1>7. TelemetryLast'
  BY DEF IInv, TelemetryLast, Attached
<1>8. StoppedMeansReleased'
  BY DEF IInv, StoppedMeansReleased, Attached, InFlight
<1> QED
  BY <1>1, <1>2, <1>3, <1>4, <1>5, <1>6, <1>7, <1>8 DEF IInv

\* The invariants of Service hold together: TypeOK says what the variables are,
\* StopHoldsLock and StopOnlyStarted where svc.mu is, the others what the Stop
\* in progress has achieved.
LEMMA InvInit == Init => IInv
<1> SUFFICES ASSUME Init PROVE IInv
  OBVIOUS
<1>1. TypeOK
  BY TypeInit
<1>2. DOMAIN dependencies = {}
  BY DEF Init
<1> QED
  BY <1>1, <1>2, ServiceAssumption
  DEF Init, HttpInit, IInv, StopHoldsLock, InStop, StopOnlyStarted, BorrowsTracked, DrainDone,
      CloseProgress, BorrowedStaysAlive, TelemetryLast, StoppedMeansReleased, Attached

\* Every step keeps the invariant, one action at a time.
LEMMA InvStep == IInv /\ [Next]_vars => IInv'
<1> SUFFICES ASSUME IInv, [Next]_vars PROVE IInv'
  OBVIOUS
<1>0. TypeOK /\ TypeOK'
  BY TypeStep DEF IInv
<1> USE <1>0, StartsAssumption, ServiceAssumption
    DEF IInv, TypeOK, HttpTypeOK, Locks, Goto, requireState, serviceVars
<1>1. ASSUME NEW p \in Callers, Serve(p)
      PROVE  IInv'
  <2>1. UNCHANGED safetyVars
    BY <1>1 DEF Serve, safetyVars
  <2> QED
    BY <2>1, Frame
<1>2. ASSUME NEW p \in Callers, NEW d \in Deps, Attach(p, d)
      PROVE  IInv'
  <2>1. StopHoldsLock'
    BY <1>2 DEF Attach, StopHoldsLock, InStop
  <2>2. StopOnlyStarted'
    BY <1>2 DEF Attach, StopOnlyStarted, StopHoldsLock, InStop
  <2>3. BorrowsTracked'
    BY <1>2 DEF Attach, BorrowsTracked, Attached
  <2>4. DrainDone'
    BY <1>2 DEF Attach, DrainDone, InFlight, StopHoldsLock, InStop
  <2>5. CloseProgress'
    <3>1. \A i \in Attachments : task[i] = "pending"
      BY <1>2 DEF Attach, CloseProgress, Closing, StopHoldsLock, InStop
    <3>2. Len(dependencies') = Len(dependencies) + 1 /\ Len(dependencies) < MaxAttached
          /\ DOMAIN dependencies' = 1 .. Len(dependencies')
      BY <1>2 DEF Attach
    <3>3. DOMAIN dependencies' \subseteq Attachments
      BY <3>2 DEF Attachments
    <3> QED
      BY <1>2, <3>1, <3>3 DEF Attach, CloseProgress
  <2>6. BorrowedStaysAlive'
    BY <1>2 DEF Attach, BorrowedStaysAlive, BorrowsTracked, CloseProgress, Attached, StopHoldsLock, InStop
  <2>7. TelemetryLast'
    BY <1>2 DEF Attach, TelemetryLast, Attached, CloseProgress, StopOnlyStarted
  <2>8. StoppedMeansReleased'
    BY <1>2 DEF Attach, StoppedMeansReleased, Attached, InFlight, CloseProgress, DrainDone, StopOnlyStarted, TelemetryLast, StopHoldsLock, InStop
  <2> QED
    BY <2>1, <2>2, <2>3, <2>4, <2>5, <2>6, <2>7, <2>8
<1>3. ASSUME NEW p \in Callers, Start(p)
      PROVE  IInv'
  <2>1. StopHoldsLock'
    BY <1>3 DEF Start, Launch, StopHoldsLock, InStop
  <2>2. StopOnlyStarted'
    BY <1>3 DEF Start, Launch, StopOnlyStarted, StopHoldsLock, InStop
  <2>3. BorrowsTracked'
    BY <1>3 DEF Start, Launch, BorrowsTracked, Attached
  <2>4. DrainDone'
    BY <1>3 DEF Start, Launch, DrainDone, InFlight, StopHoldsLock, InStop
  <2>5. CloseProgress'
    BY <1>3 DEF Start, Launch, CloseProgress, Closing, BorrowsTracked, Attached, StopHoldsLock, InStop
  <2>6. BorrowedStaysAlive'
    BY <1>3 DEF Start, Launch, BorrowedStaysAlive, BorrowsTracked, CloseProgress, Attached, StopHoldsLock, InStop
  <2>7. TelemetryLast'
    BY <1>3 DEF Start, Launch, TelemetryLast, Attached, CloseProgress, StopOnlyStarted
  <2>8. StoppedMeansReleased'
    BY <1>3 DEF Start, Launch, StoppedMeansReleased, Attached, InFlight, CloseProgress, DrainDone, StopOnlyStarted, TelemetryLast, StopHoldsLock, InStop
  <2> QED
    BY <2>1, <2>2, <2>3, <2>4, <2>5, <2>6, <2>7, <2>8
<1>4. ASSUME NEW p \in Callers, StartSignalled(p)
      PROVE  IInv'
  <2>1. StopHoldsLock'
    BY <1>4 DEF StartSignalled, StopHoldsLock, InStop
  <2>2. StopOnlyStarted'
    BY <1>4 DEF StartSignalled, StopOnlyStarted, StopHoldsLock, InStop
  <2>3. BorrowsTracked'
    BY <1>4 DEF StartSignalled, BorrowsTracked, Attached
  <2>4. DrainDone'
    BY <1>4 DEF StartSignalled, DrainDone, InFlight, StopHoldsLock, InStop
  <2>5. CloseProgress'
    BY <1>4 DEF StartSignalled, CloseProgress, Closing, BorrowsTracked, Attached, StopHoldsLock, InStop
  <2>6. BorrowedStaysAlive'
    BY <1>4 DEF StartSignalled, BorrowedStaysAlive, BorrowsTracked, CloseProgress, Attached, StopHoldsLock, InStop
  <2>7. TelemetryLast'
    BY <1>4 DEF StartSignalled, TelemetryLast, Attached, CloseProgress, StopOnlyStarted
  <2>8. StoppedMeansReleased'
    BY <1>4 DEF StartSignalled, StoppedMeansReleased, Attached, InFlight, CloseProgress, DrainDone, StopOnlyStarted, TelemetryLast, StopHoldsLock, InStop
  <2> QED
    BY <2>1, <2>2, <2>3, <2>4, <2>5, <2>6, <2>7, <2>8
<1>5. ASSUME NEW p \in Callers, StartReturns(p)
      PROVE  IInv'
  <2>1. StopHoldsLock'
    BY <1>5 DEF StartReturns, StopHoldsLock, InStop
  <2>2. StopOnlyStarted'
    BY <1>5 DEF StartReturns, StopOnlyStarted, StopHoldsLock, InStop
  <2>3. BorrowsTracked'
    BY <1>5 DEF StartReturns, BorrowsTracked, Attached
  <2>4. DrainDone'
    BY <1>5 DEF StartReturns, DrainDone, InFlight, StopHoldsLock, InStop
  <2>5. CloseProgress'
    BY <1>5 DEF StartReturns, CloseProgress, Closing, BorrowsTracked, Attached, StopHoldsLock, InStop
  <2>6. BorrowedStaysAlive'
    BY <1>5 DEF StartReturns, BorrowedStaysAlive, BorrowsTracked, CloseProgress, Attached, StopHoldsLock, InStop
  <2>7. TelemetryLast'
    BY <1>5 DEF StartReturns, TelemetryLast, Attached, CloseProgress, StopOnlyStarted
  <2>8. StoppedMeansReleased'
    BY <1>5 DEF StartReturns, StoppedMeansReleased, Attached, InFlight, CloseProgress, DrainDone, StopOnlyStarted, TelemetryLast, StopHoldsLock, InStop
  <2> QED
    BY <2>1, <2>2, <2>3, <2>4, <2>5, <2>6, <2>7, <2>8
<1>6. ASSUME NEW p \in Callers, StartFails(p)
      PROVE  IInv'
  <2>1. StopHoldsLock'
    BY <1>6 DEF StartFails, StopHoldsLock, InStop
  <2>2. StopOnlyStarted'
    BY <1>6 DEF StartFails, StopOnlyStarted, StopHoldsLock, InStop
  <2>3. BorrowsTracked'
    BY <1>6 DEF StartFails, BorrowsTracked, Attached
  <2>4. DrainDone'
    BY <1>6 DEF StartFails, DrainDone, InFlight, StopHoldsLock, InStop
  <2>5. CloseProgress'
    BY <1>6 DEF StartFails, CloseProgress, Closing, BorrowsTracked, Attached, StopHoldsLock, InStop
  <2>6. BorrowedStaysAlive'
    BY <1>6 DEF StartFails, BorrowedStaysAlive, BorrowsTracked, CloseProgress, Attached, StopHoldsLock, InStop
  <2>7. TelemetryLast'
    BY <1>6 DEF StartFails, TelemetryLast, Attached, CloseProgress, StopOnlyStarted
  <2>8. StoppedMeansReleased'
    BY <1>6 DEF StartFails, StoppedMeansReleased, Attached, InFlight, CloseProgress, DrainDone, StopOnlyStarted, TelemetryLast, StopHoldsLock, InStop
  <2> QED
    BY <2>1, <2>2, <2>3, <2>4, <2>5, <2>6, <2>7, <2>8
<1>7. ASSUME NEW p \in Callers, Stop(p)
      PROVE  IInv'
  <2>1. StopHoldsLock'
    BY <1>7 DEF Stop, StopHoldsLock, InStop
  <2>2. StopOnlyStarted'
    BY <1>7 DEF Stop, StopOnlyStarted, StopHoldsLock, InStop
  <2>3. BorrowsTracked'
    BY <1>7 DEF Stop, BorrowsTracked, Attached
  <2>4. DrainDone'
    BY <1>7 DEF Stop, DrainDone, InFlight, StopHoldsLock, InStop
  <2>5. CloseProgress'
    BY <1>7 DEF Stop, CloseProgress, Closing, BorrowsTracked, Attached, StopHoldsLock, InStop
  <2>6. BorrowedStaysAlive'
    BY <1>7 DEF Stop, BorrowedStaysAlive, BorrowsTracked, CloseProgress, Attached, StopHoldsLock, InStop
  <2>7. TelemetryLast'
    BY <1>7 DEF Stop, TelemetryLast, Attached, CloseProgress, StopOnlyStarted
  <2>8. StoppedMeansReleased'
    BY <1>7 DEF Stop, StoppedMeansReleased, Attached, InFlight, CloseProgress, DrainDone, StopOnlyStarted, TelemetryLast, StopHoldsLock, InStop
  <2> QED
    BY <2>1, <2>2, <2>3, <2>4, <2>5, <2>6, <2>7, <2>8
<1>8. ASSUME NEW p \in Callers, StopServer(p)
      PROVE  IInv'
  <2>1. StopHoldsLock'
    BY <1>8 DEF StopServer, Shutdown, StopHoldsLock, InStop
  <2>2. StopOnlyStarted'
    BY <1>8 DEF StopServer, Shutdown, StopOnlyStarted, StopHoldsLock, InStop
  <2>3. BorrowsTracked'
    BY <1>8 DEF StopServer, Shutdown, BorrowsTracked, Attached
  <2>4. DrainDone'
    BY <1>8 DEF StopServer, Shutdown, DrainDone, InFlight, StopHoldsLock, InStop
  <2>5. CloseProgress'
    BY <1>8 DEF StopServer, Shutdown, CloseProgress, Closing, BorrowsTracked, Attached, StopHoldsLock, InStop
  <2>6. BorrowedStaysAlive'
    BY <1>8 DEF StopServer, Shutdown, BorrowedStaysAlive, BorrowsTracked, CloseProgress, Attached, StopHoldsLock, InStop
  <2>7. TelemetryLast'
    BY <1>8 DEF StopServer, Shutdown, TelemetryLast, Attached, CloseProgress, StopOnlyStarted
  <2>8. StoppedMeansReleased'
    BY <1>8 DEF StopServer, Shutdown, StoppedMeansReleased, Attached, InFlight, CloseProgress, DrainDone, StopOnlyStarted, TelemetryLast, StopHoldsLock, InStop
  <2> QED
    BY <2>1, <2>2, <2>3, <2>4, <2>5, <2>6, <2>7, <2>8
<1>9. ASSUME NEW p \in Callers, StopDrained(p)
      PROVE  IInv'
  <2>1. StopHoldsLock'
    BY <1>9 DEF StopDrained, StopHoldsLock, InStop
  <2>2. StopOnlyStarted'
    BY <1>9 DEF StopDrained, StopOnlyStarted, StopHoldsLock, InStop
  <2>3. BorrowsTracked'
    BY <1>9 DEF StopDrained, BorrowsTracked, Attached
  <2>4. DrainDone'
    BY <1>9 DEF StopDrained, DrainDone, InFlight, StopHoldsLock, InStop
  <2>5. CloseProgress'
    BY <1>9 DEF StopDrained, CloseProgress, Closing, BorrowsTracked, Attached, StopHoldsLock, InStop
  <2>6. BorrowedStaysAlive'
    BY <1>9 DEF StopDrained, BorrowedStaysAlive, BorrowsTracked, CloseProgress, Attached, StopHoldsLock, InStop
  <2>7. TelemetryLast'
    BY <1>9 DEF StopDrained, TelemetryLast, Attached, CloseProgress, StopOnlyStarted
  <2>8. StoppedMeansReleased'
    BY <1>9 DEF StopDrained, StoppedMeansReleased, Attached, InFlight, CloseProgress, DrainDone, StopOnlyStarted, TelemetryLast, StopHoldsLock, InStop
  <2> QED
    BY <2>1, <2>2, <2>3, <2>4, <2>5, <2>6, <2>7, <2>8
<1>10. ASSUME NEW p \in Callers, StopDrainExpires(p)
      PROVE  IInv'
  <2>1. StopHoldsLock'
    BY <1>10 DEF StopDrainExpires, StopHoldsLock, InStop
  <2>2. StopOnlyStarted'
    BY <1>10 DEF StopDrainExpires, StopOnlyStarted, StopHoldsLock, InStop
  <2>3. BorrowsTracked'
    BY <1>10 DEF StopDrainExpires, BorrowsTracked, Attached
  <2>4. DrainDone'
    BY <1>10 DEF StopDrainExpires, DrainDone, InFlight, StopHoldsLock, InStop
  <2>5. CloseProgress'
    BY <1>10 DEF StopDrainExpires, CloseProgress, Closing, BorrowsTracked, Attached, StopHoldsLock, InStop
  <2>6. BorrowedStaysAlive'
    BY <1>10 DEF StopDrainExpires, BorrowedStaysAlive, BorrowsTracked, CloseProgress, Attached, StopHoldsLock, InStop
  <2>7. TelemetryLast'
    BY <1>10 DEF StopDrainExpires, TelemetryLast, Attached, CloseProgress, StopOnlyStarted
  <2>8. StoppedMeansReleased'
    BY <1>10 DEF StopDrainExpires, StoppedMeansReleased, Attached, InFlight, CloseProgress, DrainDone, StopOnlyStarted, TelemetryLast, StopHoldsLock, InStop
  <2> QED
    BY <2>1, <2>2, <2>3, <2>4, <2>5, <2>6, <2>7, <2>8
<1>11. ASSUME NEW p \in Callers, NEW i \in Attachments, CloseBegins(p, i)
      PROVE  IInv'
  <2>1. StopHoldsLock'
    BY <1>11 DEF CloseBegins, StopHoldsLock, InStop
  <2>2. StopOnlyStarted'
    BY <1>11 DEF CloseBegins, StopOnlyStarted, StopHoldsLock, InStop
  <2>3. BorrowsTracked'
    BY <1>11 DEF CloseBegins, BorrowsTracked, Attached
  <2>4. DrainDone'
    BY <1>11 DEF CloseBegins, DrainDone, InFlight, StopHoldsLock, InStop
  <2>5. CloseProgress'
    BY <1>11 DEF CloseBegins, CloseProgress, Closing, BorrowsTracked, Attached, StopHoldsLock, InStop
  <2>6. BorrowedStaysAlive'
    BY <1>11 DEF CloseBegins, BorrowedStaysAlive, BorrowsTracked, CloseProgress, Attached, StopHoldsLock, InStop
  <2>7. TelemetryLast'
    BY <1>11 DEF CloseBegins, TelemetryLast, Attached, CloseProgress, StopOnlyStarted
  <2>8. StoppedMeansReleased'
    BY <1>11 DEF CloseBegins, StoppedMeansReleased, Attached, InFlight, CloseProgress, DrainDone, StopOnlyStarted, TelemetryLast, StopHoldsLock, InStop
  <2> QED
    BY <2>1, <2>2, <2>3, <2>4, <2>5, <2>6, <2>7, <2>8
<1>12. ASSUME NEW p \in Callers, NEW i \in Attachments, CloseEnds(p, i)
      PROVE  IInv'
  <2>1. StopHoldsLock'
    BY <1>12 DEF CloseEnds, StopHoldsLock, InStop
  <2>2. StopOnlyStarted'
    BY <1>12 DEF CloseEnds, StopOnlyStarted, StopHoldsLock, InStop
  <2>3. BorrowsTracked'
    BY <1>12 DEF CloseEnds, BorrowsTracked, Attached
  <2>4. DrainDone'
    <3>1. ~errs' => ~errs
      BY <1>12 DEF CloseEnds
    <3>2. UNCHANGED <<pc, stopping, down, expired, req, via>>
      BY <1>12 DEF CloseEnds
    <3> QED
      BY <3>1, <3>2 DEF DrainDone, InFlight
  <2>5. CloseProgress'
    <3>1. \A r \in Requests : dependencies[i] \notin holds[r]
      BY <1>12 DEF CloseEnds, BorrowsTracked
    <3>2. Closing'
      BY <1>12 DEF CloseEnds, Closing
    <3>3. \A k \in Attachments : k # i => task'[k] = task[k]
      BY <1>12 DEF CloseEnds
    <3>4. task'[i] = "done" /\ task[i] # "pending"
      BY <1>12 DEF CloseEnds
    <3>5. UNCHANGED <<dependencies, conn, holds>>
      BY <1>12 DEF CloseEnds
    <3> QED
      BY <3>1, <3>2, <3>3, <3>4, <3>5 DEF CloseProgress
  <2>6. BorrowedStaysAlive'
    BY <1>12 DEF CloseEnds, BorrowedStaysAlive, BorrowsTracked, CloseProgress, Attached, StopHoldsLock, InStop
  <2>7. TelemetryLast'
    BY <1>12 DEF CloseEnds, TelemetryLast, Attached, CloseProgress, StopOnlyStarted
  <2>8. StoppedMeansReleased'
    BY <1>12 DEF CloseEnds, StoppedMeansReleased, Attached, InFlight, CloseProgress, DrainDone, StopOnlyStarted, TelemetryLast, StopHoldsLock, InStop
  <2> QED
    BY <2>1, <2>2, <2>3, <2>4, <2>5, <2>6, <2>7, <2>8
<1>13. ASSUME NEW p \in Callers, StopReturns(p)
      PROVE  IInv'
  <2>1. StopHoldsLock'
    BY <1>13 DEF StopReturns, StopHoldsLock, InStop
  <2>2. StopOnlyStarted'
    BY <1>13 DEF StopReturns, StopOnlyStarted, StopHoldsLock, InStop
  <2>3. BorrowsTracked'
    BY <1>13 DEF StopReturns, BorrowsTracked, Attached
  <2>4. DrainDone'
    BY <1>13 DEF StopReturns, DrainDone, InFlight, StopHoldsLock, InStop
  <2>5. CloseProgress'
    BY <1>13 DEF StopReturns, CloseProgress, Closing, BorrowsTracked, Attached, StopHoldsLock, InStop
  <2>6. BorrowedStaysAlive'
    BY <1>13 DEF StopReturns, BorrowedStaysAlive, BorrowsTracked, CloseProgress, Attached, StopHoldsLock, InStop
  <2>7. TelemetryLast'
    BY <1>13 DEF StopReturns, TelemetryLast, Attached, CloseProgress, StopOnlyStarted
  <2>8. StoppedMeansReleased'
    BY <1>13 DEF StopReturns, StoppedMeansReleased, Attached, InFlight, CloseProgress, DrainDone, StopOnlyStarted, TelemetryLast, StopHoldsLock, InStop
  <2> QED
    BY <2>1, <2>2, <2>3, <2>4, <2>5, <2>6, <2>7, <2>8
<1>14. ASSUME NEW n \in Runs, ServerSteps(n)
      PROVE  IInv'
  <2>1. UNCHANGED safetyVars
    BY <1>14 DEF ServerSteps, Build, Listen, ServeReturns, safetyVars
  <2> QED
    BY <2>1, Frame
<1>15. ASSUME NEW r \in Requests, NEW n \in Runs, Arrive(r, n), UNCHANGED serviceVars
      PROVE  IInv'
  <2>1. StopHoldsLock'
    BY <1>15 DEF Arrive, Accepting, StopHoldsLock, InStop
  <2>2. StopOnlyStarted'
    BY <1>15 DEF Arrive, Accepting, StopOnlyStarted, StopHoldsLock, InStop
  <2>3. BorrowsTracked'
    BY <1>15 DEF Arrive, Accepting, BorrowsTracked, Attached
  <2>4. DrainDone'
    BY <1>15 DEF Arrive, Accepting, DrainDone, InFlight, StopHoldsLock, InStop
  <2>5. CloseProgress'
    BY <1>15 DEF Arrive, Accepting, CloseProgress, Closing, BorrowsTracked, Attached, StopHoldsLock, InStop
  <2>6. BorrowedStaysAlive'
    BY <1>15 DEF Arrive, Accepting, BorrowedStaysAlive, BorrowsTracked, CloseProgress, Attached, StopHoldsLock, InStop
  <2>7. TelemetryLast'
    BY <1>15 DEF Arrive, Accepting, TelemetryLast, Attached, CloseProgress, StopOnlyStarted
  <2>8. StoppedMeansReleased'
    BY <1>15 DEF Arrive, Accepting, StoppedMeansReleased, Attached, InFlight, CloseProgress, DrainDone, StopOnlyStarted, TelemetryLast, StopHoldsLock, InStop
  <2> QED
    BY <2>1, <2>2, <2>3, <2>4, <2>5, <2>6, <2>7, <2>8
<1>16. ASSUME NEW r \in Requests, NEW d \in Deps, Borrow(r, d)
      PROVE  IInv'
  <2>1. StopHoldsLock'
    BY <1>16 DEF Borrow, StopHoldsLock, InStop
  <2>2. StopOnlyStarted'
    BY <1>16 DEF Borrow, StopOnlyStarted, StopHoldsLock, InStop
  <2>3. BorrowsTracked'
    BY <1>16 DEF Borrow, BorrowsTracked, Attached
  <2>4. DrainDone'
    BY <1>16 DEF Borrow, DrainDone, InFlight, StopHoldsLock, InStop
  <2>5. CloseProgress'
    BY <1>16 DEF Borrow, CloseProgress, Closing, BorrowsTracked, Attached, StopHoldsLock, InStop
  <2>6. BorrowedStaysAlive'
    BY <1>16 DEF Borrow, BorrowedStaysAlive, BorrowsTracked, CloseProgress, Attached, StopHoldsLock, InStop
  <2>7. TelemetryLast'
    BY <1>16 DEF Borrow, TelemetryLast, Attached, CloseProgress, StopOnlyStarted
  <2>8. StoppedMeansReleased'
    BY <1>16 DEF Borrow, StoppedMeansReleased, Attached, InFlight, CloseProgress, DrainDone, StopOnlyStarted, TelemetryLast, StopHoldsLock, InStop
  <2> QED
    BY <2>1, <2>2, <2>3, <2>4, <2>5, <2>6, <2>7, <2>8
<1>17. ASSUME NEW r \in Requests, Respond(r)
      PROVE  IInv'
  <2>1. StopHoldsLock'
    BY <1>17 DEF Respond, Answer, StopHoldsLock, InStop
  <2>2. StopOnlyStarted'
    BY <1>17 DEF Respond, Answer, StopOnlyStarted, StopHoldsLock, InStop
  <2>3. BorrowsTracked'
    BY <1>17 DEF Respond, Answer, BorrowsTracked, Attached
  <2>4. DrainDone'
    BY <1>17 DEF Respond, Answer, DrainDone, InFlight, StopHoldsLock, InStop
  <2>5. CloseProgress'
    BY <1>17 DEF Respond, Answer, CloseProgress, Closing, BorrowsTracked, Attached, StopHoldsLock, InStop
  <2>6. BorrowedStaysAlive'
    BY <1>17 DEF Respond, Answer, BorrowedStaysAlive, BorrowsTracked, CloseProgress, Attached, StopHoldsLock, InStop
  <2>7. TelemetryLast'
    BY <1>17 DEF Respond, Answer, TelemetryLast, Attached, CloseProgress, StopOnlyStarted
  <2>8. StoppedMeansReleased'
    BY <1>17 DEF Respond, Answer, StoppedMeansReleased, Attached, InFlight, CloseProgress, DrainDone, StopOnlyStarted, TelemetryLast, StopHoldsLock, InStop
  <2> QED
    BY <2>1, <2>2, <2>3, <2>4, <2>5, <2>6, <2>7, <2>8
<1>18. ASSUME NEW r \in Requests, StatusLocks(r)
      PROVE  IInv'
  <2>1. StopHoldsLock'
    BY <1>18 DEF StatusLocks, StopHoldsLock, InStop
  <2>2. StopOnlyStarted'
    BY <1>18 DEF StatusLocks, StopOnlyStarted, StopHoldsLock, InStop
  <2>3. BorrowsTracked'
    BY <1>18 DEF StatusLocks, BorrowsTracked, Attached
  <2>4. DrainDone'
    BY <1>18 DEF StatusLocks, DrainDone, InFlight, StopHoldsLock, InStop
  <2>5. CloseProgress'
    BY <1>18 DEF StatusLocks, CloseProgress, Closing, BorrowsTracked, Attached, StopHoldsLock, InStop
  <2>6. BorrowedStaysAlive'
    BY <1>18 DEF StatusLocks, BorrowedStaysAlive, BorrowsTracked, CloseProgress, Attached, StopHoldsLock, InStop
  <2>7. TelemetryLast'
    BY <1>18 DEF StatusLocks, TelemetryLast, Attached, CloseProgress, StopOnlyStarted
  <2>8. StoppedMeansReleased'
    BY <1>18 DEF StatusLocks, StoppedMeansReleased, Attached, InFlight, CloseProgress, DrainDone, StopOnlyStarted, TelemetryLast, StopHoldsLock, InStop
  <2> QED
    BY <2>1, <2>2, <2>3, <2>4, <2>5, <2>6, <2>7, <2>8
<1>19. ASSUME NEW r \in Requests, StatusReturns(r)
      PROVE  IInv'
  <2>1. StopHoldsLock'
    BY <1>19 DEF StatusReturns, Answer, StopHoldsLock, InStop
  <2>2. StopOnlyStarted'
    BY <1>19 DEF StatusReturns, Answer, StopOnlyStarted, StopHoldsLock, InStop
  <2>3. BorrowsTracked'
    BY <1>19 DEF StatusReturns, Answer, BorrowsTracked, Attached
  <2>4. DrainDone'
    BY <1>19 DEF StatusReturns, Answer, DrainDone, InFlight, StopHoldsLock, InStop
  <2>5. CloseProgress'
    BY <1>19 DEF StatusReturns, Answer, CloseProgress, Closing, BorrowsTracked, Attached, StopHoldsLock, InStop
  <2>6. BorrowedStaysAlive'
    BY <1>19 DEF StatusReturns, Answer, BorrowedStaysAlive, BorrowsTracked, CloseProgress, Attached, StopHoldsLock, InStop
  <2>7. TelemetryLast'
    BY <1>19 DEF StatusReturns, Answer, TelemetryLast, Attached, CloseProgress, StopOnlyStarted
  <2>8. StoppedMeansReleased'
    BY <1>19 DEF StatusReturns, Answer, StoppedMeansReleased, Attached, InFlight, CloseProgress, DrainDone, StopOnlyStarted, TelemetryLast, StopHoldsLock, InStop
  <2> QED
    BY <2>1, <2>2, <2>3, <2>4, <2>5, <2>6, <2>7, <2>8
<1>20. CASE Signal \/ UNCHANGED vars
  <2>1. UNCHANGED safetyVars
    BY <1>20 DEF Signal, vars, safetyVars
  <2> QED
    BY <2>1, Frame
<1>21. CASE Expire
  <2>1. expired' /\ UNCHANGED <<mu, state, pc, stopping, down, req, via, errs, task, conn, holds,
                                 dependencies, telemetry>>
    BY <1>21 DEF Expire
  <2>2. StopHoldsLock' /\ StopOnlyStarted' /\ BorrowsTracked'
    BY <2>1 DEF StopHoldsLock, StopOnlyStarted, BorrowsTracked, Attached, InStop
  <2>3. DrainDone'
    BY <2>1 DEF DrainDone, InFlight
  <2>4. CloseProgress' /\ BorrowedStaysAlive'
    BY <2>1 DEF CloseProgress, BorrowedStaysAlive, Closing
  <2>5. TelemetryLast' /\ StoppedMeansReleased'
    BY <2>1 DEF TelemetryLast, StoppedMeansReleased, Attached, InFlight
  <2> QED
    BY <2>2, <2>3, <2>4, <2>5
<1> HIDE DEF IInv
<1> QED
  BY <1>1, <1>2, <1>3, <1>4, <1>5, <1>6, <1>7, <1>8, <1>9, <1>10, <1>11, <1>12, <1>13,
     <1>14, <1>15, <1>16, <1>17, <1>18, <1>19, <1>20, <1>21
  DEF Next, CallerSteps, StopSteps, RequestSteps, Request, Refused

\* Whoever is in Stop is alone there.
LEMMA NobodyElse ==
  ASSUME IInv, NEW p \in Callers, pc[p] \in InStop
  PROVE  \A q \in Callers : pc[q] \in InStop => q = p
  BY ServiceAssumption DEF IInv, StopHoldsLock

\* Nothing is shut down or closed at first.
LEMMA FromStartedInit == Init => StopsFromStarted
  BY DEF Init, HttpInit, StopsFromStarted

\* Nothing is closed before Started, whatever the goroutines do.
LEMMA FromStartedStep ==
  ASSUME IInv, StopsFromStarted, [Next]_vars PROVE StopsFromStarted'
<1>0. TypeOK
  BY DEF IInv
<1> USE <1>0, ServiceAssumption DEF TypeOK, HttpTypeOK, StopsFromStarted
<1>1. ASSUME NEW p \in Callers, StopSteps(p) PROVE StopsFromStarted'
  <2>1. state = "Started"
    BY <1>1 DEF StopSteps, StopServer, StopDrained, StopDrainExpires, CloseBegins, CloseEnds,
                StopReturns, IInv, StopHoldsLock, StopOnlyStarted, InStop
  <2>2. state' # "Created"
    BY <1>1, <2>1 DEF StopSteps, StopServer, StopDrained, StopDrainExpires, CloseBegins, CloseEnds,
                      StopReturns
  <2>3. CASE StopReturns(p)
    BY <2>2, <2>3 DEF StopReturns, IInv, DrainDone
  <2>4. CASE StopServer(p)
    BY <2>2, <2>4, NobodyElse DEF StopServer, Shutdown, Closing, InStop
  <2>5. CASE ~StopReturns(p) /\ ~StopServer(p)
    <3>1. UNCHANGED <<telemetry, stopping, down>>
      BY <1>1, <2>5 DEF StopSteps, StopDrained, StopDrainExpires, CloseBegins, CloseEnds
    <3>2. (pc'[p] = "closing") \/ UNCHANGED <<pc, conn>>
      BY <1>1, <2>5 DEF StopSteps, StopDrained, StopDrainExpires, CloseBegins, CloseEnds, Goto
    <3> QED
      BY <2>2, <3>1, <3>2 DEF Closing
  <2> QED
    BY <2>3, <2>4, <2>5
<1>2. ASSUME NEW p \in Callers, CallerSteps(p), ~StopSteps(p)
      PROVE /\ UNCHANGED <<conn, telemetry, stopping, down>> /\ (state' = state \/ state' # "Created")
            /\ Closing => Closing'
  <2>1. UNCHANGED <<conn, telemetry, stopping, down>> /\ (state' = state \/ state' # "Created")
    BY <1>2 DEF CallerSteps, Serve, Attach, Start, Launch, StartSignalled, StartReturns, StartFails,
                Stop, Refused, vars
  <2>2. UNCHANGED pc \/ (pc[p] # "closing" /\ \E l \in CallerState : Goto(p, l))
    BY <1>2 DEF CallerSteps, Serve, Attach, Start, StartSignalled, StartReturns, StartFails, Stop,
                Refused, vars, Locks, CallerState
  <2>3. ASSUME NEW l, Goto(p, l), pc[p] # "closing", Closing PROVE Closing'
    BY <2>3 DEF Goto, Closing
  <2>4. Closing => Closing'
    BY <2>2, <2>3 DEF Closing
  <2> QED
    BY <2>1, <2>4
<1>3. ASSUME UNCHANGED <<conn, telemetry, stopping, down>>, state' = state \/ state' # "Created",
             Closing => Closing'
      PROVE StopsFromStarted'
  BY <1>3
<1>4. ASSUME NEW n \in Runs, ServerSteps(n) PROVE UNCHANGED <<state, pc, conn, telemetry, stopping, down>>
  BY <1>4 DEF ServerSteps, Build, Listen, ServeReturns, serviceVars
<1>5. ASSUME NEW r \in Requests, RequestSteps(r)
      PROVE  UNCHANGED <<state, pc, conn, telemetry, stopping, down>>
  BY <1>5 DEF RequestSteps, Request, Arrive, Borrow, Respond, StatusLocks, StatusReturns, Answer,
              serviceVars
<1>6. ASSUME Signal \/ Expire \/ UNCHANGED vars
      PROVE  UNCHANGED <<state, pc, conn, telemetry, stopping, down>>
  BY <1>6 DEF Signal, Expire, vars
<1> HIDE DEF StopsFromStarted
<1> QED
  BY <1>1, <1>2, <1>3, <1>4, <1>5, <1>6 DEF Next, Closing

\* The invariants hold in every state of the Service, however often it is started.
LEMMA Inductive == Spec => [](IInv /\ StopsFromStarted)
<1>1. Init => IInv /\ StopsFromStarted
  BY InvInit, FromStartedInit
<1>2. IInv /\ StopsFromStarted /\ [Next]_vars => (IInv /\ StopsFromStarted)'
  BY InvStep, FromStartedStep
<1> QED
  BY <1>1, <1>2, PTL DEF Spec

\* Dependencies are torn down only after the drain, unless its deadline passed,
\* and then the Stop that let a request meet a closed dependency fails.
THEOREM DrainedBeforeClosed == Spec => []DrainBeforeClose
<1>1. IInv /\ StopsFromStarted => DrainBeforeClose
  <2> SUFFICES ASSUME IInv, StopsFromStarted PROVE DrainBeforeClose
    OBVIOUS
  <2>1. \A p \in Callers : pc[p] = "closing" /\ ~expired => InFlight(stopping) = {}
    BY DEF IInv, DrainDone
  <2>2. ASSUME InFlight(stopping) # {}, NEW d \in Attached, conn[d] = "closed"
        PROVE state = "Started" /\ (telemetry = "down" \/ (expired /\ errs))
    <3>1. d \in Deps
      BY DEF IInv, TypeOK, Attached
    <3>2. state = "Started"
      <4>1. state # "Created"
        BY <2>2, <3>1 DEF StopsFromStarted
      <4>2. state # "Stopped"
        BY <2>2 DEF IInv, StoppedMeansReleased
      <4> QED
        BY <4>1, <4>2 DEF IInv, TypeOK
    <3>3. CASE telemetry = "up"
      BY <2>2, <3>1, <3>2, <3>3 DEF StopsFromStarted, Closing, IInv, TypeOK, DrainDone
    <3> QED
      BY <3>2, <3>3 DEF IInv, TypeOK
  <2> QED
    BY <2>1, <2>2 DEF DrainBeforeClose
<1> QED
  BY <1>1, Inductive, PTL

\* A borrowed connection is never gone under the request that holds it.
THEOREM BorrowersAreSafe == Spec => []BorrowedStaysAlive
<1>1. IInv => BorrowedStaysAlive
  BY DEF IInv
<1> QED
  BY <1>1, Inductive, PTL

\* The telemetry outlives every dependency that was ever attached.
THEOREM TelemetryIsLast == Spec => []TelemetryLast
<1>1. IInv => TelemetryLast
  BY DEF IInv
<1> QED
  BY <1>1, Inductive, PTL

\* A Service that says Stopped has released everything.
THEOREM StoppedIsReleased == Spec => []StoppedMeansReleased
<1>1. IInv => StoppedMeansReleased
  BY DEF IInv
<1> QED
  BY <1>1, Inductive, PTL

\* svc.mu excludes two Stops, and belongs to the one that runs.
THEOREM LockIsExclusive == Spec => []StopHoldsLock
<1>1. IInv => StopHoldsLock
  BY DEF IInv
<1> QED
  BY <1>1, Inductive, PTL

\* However many Starts have failed, a Service that never got to Started has shut
\* nothing down: every dependency attached to it is still open, for the Start
\* that is tried next and for the Stop after it.
THEOREM NothingClosedBeforeStarted == Spec => []StopsFromStarted
  BY Inductive, PTL

-----------------------------------------------------------------------------
(* How far the panic of a nil server field reaches. *)

\* The field is nil only as long as no run has built its server, and Stop
\* dereferences it only then.
PanicOnlyUnbuilt ==
  /\ handle = 0 => \A n \in Runs : phase[n] \in {"absent", "launched"}
  /\ crashed => handle = 0 /\ state = "Started"

\* Stop leaves the field and the runs as they are.
LEMMA StopServerKeeps ==
  ASSUME NEW p \in Callers, StopServer(p)
  PROVE  UNCHANGED <<handle, phase, state>> /\ (crashed' = crashed \/ handle = 0)
  BY DEF StopServer, Shutdown

\* A process that has panicked is over, and a server once stored stays stored.
LEMMA PanicStep ==
  ASSUME IInv, PanicOnlyUnbuilt, [Next]_vars PROVE PanicOnlyUnbuilt'
<1> USE DEF IInv, TypeOK, HttpTypeOK, PanicOnlyUnbuilt
<1>1. CASE crashed \/ UNCHANGED vars
  <2>1. UNCHANGED vars
    BY <1>1, Zenon DEF Next
  <2>2. UNCHANGED <<handle, phase, crashed, state>>
    BY <2>1 DEF vars
  <2> QED
    BY <2>2
<1>2. ASSUME ~crashed, NEW n \in Runs, ServerSteps(n) PROVE PanicOnlyUnbuilt'
  <2>1. UNCHANGED <<crashed, state>> /\ handle' \in {handle, n}
    BY <1>2 DEF ServerSteps, Build, Listen, ServeReturns, serviceVars
  <2>2. handle' = 0 => handle = 0 /\ ~Build(n)
    BY <2>1, StartsAssumption DEF Build
  <2>3. phase[n] \in {"absent", "launched"} => Build(n)
    BY <1>2 DEF ServerSteps, Listen, ServeReturns
  <2>4. handle' # 0
    BY <2>2, <2>3
  <2>5. ~crashed'
    BY <1>2, <2>1, Zenon
  <2> QED
    BY <2>4, <2>5
<1>3. ASSUME ~crashed, NEW p \in Callers, Start(p) PROVE PanicOnlyUnbuilt'
  BY <1>3 DEF Start, Launch
<1>4. ASSUME ~crashed, NEW p \in Callers, StopServer(p) PROVE PanicOnlyUnbuilt'
  <2>1. state = "Started"
    BY <1>4, ServiceAssumption DEF StopServer, IInv, StopHoldsLock, StopOnlyStarted, InStop
  <2> QED
    BY <1>4, <2>1, StopServerKeeps
<1>5. ASSUME ~crashed, UNCHANGED <<handle, phase, crashed>> PROVE PanicOnlyUnbuilt'
  BY <1>5
<1>6. ASSUME NEW p \in Callers, CallerSteps(p), ~Start(p), ~StopServer(p)
      PROVE UNCHANGED <<handle, phase, crashed>>
  BY <1>6 DEF CallerSteps, StopSteps, Serve, Attach, StartSignalled, StartReturns, StartFails, Stop,
              StopDrained, StopDrainExpires, CloseBegins, CloseEnds, StopReturns, Refused, vars
<1>7. ASSUME NEW r \in Requests, RequestSteps(r) PROVE UNCHANGED <<handle, phase, crashed>>
  BY <1>7 DEF RequestSteps, Request, Arrive, Borrow, Respond, StatusLocks, StatusReturns, Answer,
              serviceVars
<1>8. ASSUME Signal \/ Expire PROVE UNCHANGED <<handle, phase, crashed>>
  BY <1>8 DEF Signal, Expire
<1> HIDE DEF PanicOnlyUnbuilt, IInv
<1> QED
  BY <1>1, <1>2, <1>3, <1>4, <1>5, <1>6, <1>7, <1>8 DEF Next

\* The panic StopNeverPanics denies happens in one situation only: the Service
\* was started and stopped before the goroutine of any Start had built a server.
\* As soon as one server exists, no Stop panics any more.
THEOREM PanicsOnlyUnbuilt == Spec => []PanicOnlyUnbuilt
<1>1. Init => PanicOnlyUnbuilt
  BY DEF Init, HttpInit, PanicOnlyUnbuilt
<1>2. IInv /\ PanicOnlyUnbuilt /\ [Next]_vars => PanicOnlyUnbuilt'
  BY PanicStep
<1> QED
  BY <1>1, <1>2, Inductive, PTL DEF Spec

-----------------------------------------------------------------------------
(* What a Stop can wait for. *)

\* The Stop of p has a step to take: the guards of StopSteps.
CanStop(p) ==
  \/ pc[p] = "stopping"
  \/ pc[p] = "draining" /\ (InFlight(stopping) = {} \/ expired)
  \/ /\ pc[p] = "closing"
     /\ \/ \A i \in DOMAIN dependencies : task[i] = "done"
        \/ \E i \in DOMAIN dependencies :
             \/ task[i] = "pending"
             \/ /\ task[i] = "running"
                /\ dependencies[i] \in Pooled => \A r \in Requests : dependencies[i] \notin holds[r]

\* The handler of r waits for nothing but its own work: the guards of Respond
\* and of StatusReturns.
Answerable(r) == req[r] # "idle" /\ (r \in Probes => req[r] = "checking")

\* A Stop that has no step waits for a handler that has one, or it waits, before
\* its deadline, for readiness probes that wait for it.
StopWaitsForProbesOnly ==
  \A p \in Callers : pc[p] \in InStop =>
    \/ CanStop(p)
    \/ \E r \in Requests : Answerable(r)
    \/ /\ pc[p] = "draining" /\ ~expired /\ mu = p
       /\ InFlight(stopping) # {} /\ InFlight(stopping) \subseteq Probes

\* Connections are held by ordinary requests, and only while they are answered.
HoldersInFlight == \A r \in Requests : holds[r] # {} => r \notin Probes /\ req[r] # "idle"

\* A probe borrows nothing, and a response gives everything back.
LEMMA HoldersStep == ASSUME IInv, HoldersInFlight, [Next]_vars PROVE HoldersInFlight'
<1> USE DEF IInv, TypeOK, HttpTypeOK, HoldersInFlight
<1>1. ASSUME NEW r \in Requests, NEW n \in Runs, Arrive(r, n), UNCHANGED holds PROVE HoldersInFlight'
  BY <1>1 DEF Arrive
<1>2. ASSUME NEW r \in Requests, NEW d \in Deps, Borrow(r, d) PROVE HoldersInFlight'
  BY <1>2 DEF Borrow
<1>3. ASSUME NEW r \in Requests, Respond(r) PROVE HoldersInFlight'
  BY <1>3 DEF Respond, Answer
<1>4. ASSUME NEW r \in Requests, StatusLocks(r) \/ StatusReturns(r) PROVE HoldersInFlight'
  BY <1>4 DEF StatusLocks, StatusReturns, Answer, serviceVars
<1>5. ASSUME UNCHANGED <<holds, req>> PROVE HoldersInFlight'
  BY <1>5
<1>6. ASSUME NEW p \in Callers, CallerSteps(p) PROVE UNCHANGED <<holds, req>>
  BY <1>6 DEF CallerSteps, StopSteps, Serve, Attach, Start, Launch, StartSignalled, StartReturns,
              StartFails, Stop, StopServer, Shutdown, StopDrained, StopDrainExpires, CloseBegins,
              CloseEnds, StopReturns, Refused, vars
<1>7. ASSUME NEW n \in Runs, ServerSteps(n) PROVE UNCHANGED <<holds, req>>
  BY <1>7 DEF ServerSteps, Build, Listen, ServeReturns, serviceVars
<1>8. ASSUME Signal \/ Expire \/ UNCHANGED vars PROVE UNCHANGED <<holds, req>>
  BY <1>8 DEF Signal, Expire, vars
<1> HIDE DEF HoldersInFlight, IInv
<1> QED
  BY <1>1, <1>2, <1>3, <1>4, <1>5, <1>6, <1>7, <1>8 DEF Next, RequestSteps, Request, serviceVars

\* A Close call without a step waits for the handler that holds its connection.
LEMMA CloseWaitsForHandlers ==
  ASSUME IInv, HoldersInFlight, NEW p \in Callers, pc[p] = "closing", ~CanStop(p)
  PROVE  \E r \in Requests : Answerable(r)
<1> USE DEF IInv, TypeOK, HttpTypeOK
<1>1. PICK i \in DOMAIN dependencies : task[i] # "done"
  BY DEF CanStop
<1>2. task[i] = "running" /\ dependencies[i] \in Pooled
  BY <1>1 DEF CanStop, CloseProgress
<1>3. PICK r \in Requests : dependencies[i] \in holds[r]
  BY <1>1, <1>2 DEF CanStop
<1> QED
  BY <1>3 DEF HoldersInFlight, Answerable

\* Stop is never stuck by itself, whatever is in flight, borrowed or started
\* meanwhile: what the lock, the drain and the Close calls wait for comes to an
\* end when the handlers return, with the one exception of a probe that waits
\* for svc.mu while Stop, which holds it, waits for the probe, and that
\* exception ends at the deadline.
THEOREM StopWaitsOnlyForProbes == Spec => []StopWaitsForProbesOnly
<1>1. IInv /\ HoldersInFlight => StopWaitsForProbesOnly
  <2> SUFFICES ASSUME IInv, HoldersInFlight, NEW p \in Callers, pc[p] \in InStop, ~CanStop(p),
                      \A r \in Requests : ~Answerable(r)
               PROVE  /\ pc[p] = "draining" /\ ~expired /\ mu = p
                      /\ InFlight(stopping) # {} /\ InFlight(stopping) \subseteq Probes
    BY DEF StopWaitsForProbesOnly
  <2>1. pc[p] = "draining"
    BY CloseWaitsForHandlers DEF CanStop, InStop
  <2>2. ~expired /\ InFlight(stopping) # {}
    BY <2>1 DEF CanStop
  <2>3. InFlight(stopping) \subseteq Probes
    BY DEF InFlight, Answerable
  <2>4. mu = p
    BY DEF IInv, StopHoldsLock
  <2> QED
    BY <2>1, <2>2, <2>3, <2>4
<1>2. Init => HoldersInFlight
  BY DEF Init, HoldersInFlight
<1>3. IInv /\ HoldersInFlight /\ [Next]_vars => HoldersInFlight'
  BY HoldersStep
<1> QED
  BY <1>1, <1>2, <1>3, Inductive, PTL DEF Spec

-----------------------------------------------------------------------------
(* A Service whose Starts are orderly: the proofs use MaxStarts nowhere. *)

\* Nobody has called Start at first.
LEMMA OrderlyInit == Init => OrderlyInv
  BY StartsAssumption DEF Init, HttpInit, OrderlyInv, OneStarter, LastRun

\* Starts that overlap could take the state back to Started behind a Stop; a
\* Start that comes after a failed one cannot.
LEMMA StarterStep ==
  ASSUME IInv, OneStarter, [Next]_vars, starts' # starts => NoneAlive PROVE OneStarter'
<1> USE DEF OneStarter
<1>0. TypeOK
  BY DEF IInv
<1> USE <1>0 DEF TypeOK, Locks, Goto, requireState
<1>1. ASSUME NEW p \in Callers, Start(p) PROVE OneStarter'
  <2>1. starts' = starts + 1 /\ starts \in Nat
    BY <1>1, StartsAssumption DEF Start
  <2>2. \A q \in Callers : pc[q] \notin {"starting", "signalled"}
    BY <2>1 DEF NoneAlive
  <2> QED
    BY <1>1, <2>1, <2>2 DEF Start
<1>2. ASSUME NEW p \in Callers, StartReturns(p) PROVE OneStarter'
  BY <1>2 DEF StartReturns
<1>3. ASSUME NEW p \in Callers, StartSignalled(p) \/ StartFails(p) PROVE OneStarter'
  BY <1>3 DEF StartSignalled, StartFails
<1>4. ASSUME NEW p \in Callers, Stop(p) \/ StopServer(p) \/ StopDrained(p) \/ StopDrainExpires(p)
      PROVE OneStarter'
  BY <1>4 DEF Stop, StopServer, StopDrained, StopDrainExpires
<1>5. ASSUME NEW p \in Callers, StopReturns(p) PROVE OneStarter'
  <2>1. state = "Started"
    BY <1>5, ServiceAssumption DEF StopReturns, IInv, StopHoldsLock, StopOnlyStarted, InStop
  <2> QED
    BY <1>5, <2>1 DEF StopReturns
<1>6. ASSUME UNCHANGED <<state, starts, pc>> PROVE OneStarter'
  BY <1>6
<1>7. ASSUME NEW p \in Callers, NEW i \in Attachments, CloseBegins(p, i) \/ CloseEnds(p, i)
      PROVE UNCHANGED <<state, starts, pc>>
  BY <1>7 DEF CloseBegins, CloseEnds
<1>8. ASSUME NEW p \in Callers, Serve(p) \/ (\E d \in Deps : Attach(p, d)) \/ Refused(p)
      PROVE UNCHANGED <<state, starts, pc>>
  BY <1>8 DEF Serve, Attach, Refused, vars
<1>9. ASSUME NEW n \in Runs, ServerSteps(n) PROVE UNCHANGED <<state, starts, pc>>
  BY <1>9 DEF ServerSteps, serviceVars
<1>10. ASSUME NEW r \in Requests, RequestSteps(r) PROVE UNCHANGED <<state, starts, pc>>
  BY <1>10 DEF RequestSteps, Request, Borrow, Respond, StatusLocks, StatusReturns, serviceVars
<1>11. ASSUME Signal \/ Expire \/ UNCHANGED vars PROVE UNCHANGED <<state, starts, pc>>
  BY <1>11 DEF Signal, Expire, vars
<1> HIDE DEF OneStarter
<1> QED
  BY <1>1, <1>2, <1>3, <1>4, <1>5, <1>6, <1>7, <1>8, <1>9, <1>10, <1>11
  DEF Next, CallerSteps, StopSteps

\* A Start after a failed one finds nothing of it: no request, and no server that
\* was shut down.
LEMMA StartAfterFailure ==
  ASSUME IInv, StopsFromStarted, LastRun, NoneAlive, NEW p \in Callers, Start(p) PROVE LastRun'
<1> USE StartsAssumption DEF IInv, TypeOK, HttpTypeOK
<1>1. starts' = starts + 1 /\ starts' \in Runs /\ starts' # starts /\ starts \in Nat /\ starts' # 0
  BY DEF Start
<1>2. /\ phase'[starts'] = "launched" /\ \A n \in Runs : n # starts' => phase'[n] = phase[n]
      /\ UNCHANGED <<handle, object, down, req, via>>
  BY <1>1 DEF Start, Launch
<1>3. \A n \in Runs : phase[n] \in {"absent", "failed"} /\ object[n] = 0
  BY DEF NoneAlive
<1>4. down = {}
  BY DEF StopsFromStarted, Start, requireState
<1>5. \A r \in Requests : req[r] = "idle" /\ via[r] = 0
  BY <1>1, <1>3 DEF LastRun
<1> QED
  BY <1>1, <1>2, <1>3, <1>4, <1>5 DEF LastRun

\* Whatever a run does, it is the last one, and listens with its own server.
LEMMA LastRunSteps ==
  ASSUME IInv, LastRun, NEW n \in Runs, ServerSteps(n) PROVE LastRun'
<1> USE StartsAssumption DEF IInv, TypeOK, HttpTypeOK
<1>1. n = starts /\ UNCHANGED starts
  BY DEF ServerSteps, Build, Listen, ServeReturns, LastRun, serviceVars
<1>2. CASE Build(n)
  BY <1>1, <1>2 DEF Build, LastRun
<1>3. CASE Listen(n)
  <2>1. handle = starts
    BY <1>1, <1>3 DEF Listen, LastRun
  <2>2. UNCHANGED <<handle, down, req, via>>
    BY <1>3 DEF Listen
  <2>3. \A m \in Runs : m # n => phase'[m] = phase[m] /\ object'[m] = object[m]
    BY <1>3 DEF Listen
  <2>4. /\ phase'[n] \in {"closed", "serving", "failed"} /\ object'[n] \in {object[n], handle}
        /\ phase'[n] = "serving" => object'[n] = handle
    BY <1>3 DEF Listen
  <2>5. \A m \in Runs : m # starts => phase'[m] \in {"absent", "failed"} /\ object'[m] = 0
    BY <1>1, <2>3 DEF LastRun
  <2>6. object'[n] \in {0, starts} /\ (phase'[n] = "serving" => object'[n] # 0)
    BY <1>1, <2>1, <2>4 DEF LastRun
  <2>7. object[starts] # 0 => object'[starts] # 0
    BY <1>1, <2>1, <2>4
  <2>8. handle' = starts' /\ phase'[starts'] # "launched" /\ starts' = starts /\ starts # 0
    BY <1>1, <2>1, <2>2, <2>4
  <2> HIDE DEF IInv, TypeOK, HttpTypeOK
  <2> QED
    BY <1>1, <2>2, <2>5, <2>6, <2>7, <2>8 DEF LastRun
<1>4. CASE ServeReturns(n)
  BY <1>1, <1>4 DEF ServeReturns, LastRun
<1> QED
  BY <1>2, <1>3, <1>4 DEF ServerSteps

\* The variables LastRun is about.
runVars == <<starts, handle, phase, object, req, via, down>>

\* Every request and every server there is stays one of the last run.
LEMMA LastRunStep ==
  ASSUME IInv, StopsFromStarted, LastRun, [OrderlyNext]_vars PROVE LastRun'
<1>0. TypeOK
  BY DEF IInv
<1> USE <1>0, StartsAssumption DEF TypeOK, HttpTypeOK
<1>1. ASSUME NEW n \in Runs, ServerSteps(n) PROVE LastRun'
  BY <1>1, LastRunSteps
<1>2. ASSUME NEW p \in Callers, Start(p), Orderly PROVE LastRun'
  <2>1. starts' # starts
    BY <1>2 DEF Start
  <2> QED
    BY <1>2, <2>1, StartAfterFailure DEF Orderly
<1>3. ASSUME NEW r \in Requests, NEW n \in Runs, Arrive(r, n), UNCHANGED starts PROVE LastRun'
  <2>1. object[n] = starts /\ n = starts
    BY <1>3 DEF Arrive, Accepting, LastRun
  <2> QED
    BY <1>3, <2>1 DEF Arrive, LastRun
<1>4. ASSUME NEW r \in Requests, Respond(r) \/ StatusReturns(r) \/ StatusLocks(r) PROVE LastRun'
  BY <1>4 DEF Respond, StatusReturns, StatusLocks, Answer, LastRun, serviceVars
<1>5. ASSUME UNCHANGED runVars PROVE LastRun'
  BY <1>5 DEF LastRun, runVars
<1>6. ASSUME NEW p \in Callers, StopServer(p), Orderly PROVE LastRun'
  <2>1. CASE down' = down
    <3>1. UNCHANGED runVars
      BY <1>6, <2>1 DEF StopServer, Shutdown, runVars
    <3> QED
      BY <3>1, <1>5
  <2>2. CASE down' # down
    <3>1. down' = down \cup {handle} /\ handle # 0
      BY <1>6, <2>2 DEF StopServer, Shutdown
    <3>2. handle = starts
      BY <1>6, <2>2, <3>1 DEF Orderly, LastRun
    <3>3. UNCHANGED <<starts, handle, phase, object, req, via>>
      BY <1>6, <2>2 DEF StopServer, Shutdown
    <3> QED
      BY <3>1, <3>2, <3>3 DEF LastRun
  <2> QED
    BY <2>1, <2>2
<1>7. ASSUME NEW p \in Callers, CallerSteps(p), ~Start(p), ~StopServer(p) PROVE UNCHANGED runVars
  BY <1>7 DEF CallerSteps, StopSteps, Serve, Attach, StartSignalled, StartReturns, StartFails, Stop,
              StopDrained, StopDrainExpires, CloseBegins, CloseEnds, StopReturns, Refused, vars, runVars
<1>8. ASSUME NEW r \in Requests, NEW d \in Deps, Borrow(r, d) PROVE UNCHANGED runVars
  BY <1>8 DEF Borrow, runVars
<1>9. ASSUME Signal \/ Expire \/ UNCHANGED vars PROVE UNCHANGED runVars
  BY <1>9 DEF Signal, Expire, vars, runVars
<1> QED
  BY <1>1, <1>2, <1>3, <1>4, <1>5, <1>6, <1>7, <1>8, <1>9
  DEF OrderlyNext, Next, RequestSteps, Request, serviceVars

\* When Starts are orderly all invariants hold in every state.
LEMMA OrderlyInductive == OrderlySpec => [](IInv /\ StopsFromStarted /\ OrderlyInv)
<1>1. Init => IInv /\ StopsFromStarted /\ OrderlyInv
  BY InvInit, FromStartedInit, OrderlyInit
<1>2. IInv /\ StopsFromStarted /\ OrderlyInv /\ [OrderlyNext]_vars
        => (IInv /\ StopsFromStarted /\ OrderlyInv)'
  <2> SUFFICES ASSUME IInv, StopsFromStarted, OrderlyInv, [OrderlyNext]_vars
               PROVE  (IInv /\ StopsFromStarted /\ OrderlyInv)'
    OBVIOUS
  <2>1. [Next]_vars /\ (starts' # starts => NoneAlive)
    BY DEF OrderlyNext, Orderly, vars
  <2> QED
    BY <2>1, InvStep, FromStartedStep, StarterStep, LastRunStep DEF OrderlyInv
<1> QED
  BY <1>1, <1>2, PTL DEF OrderlySpec

\* A Service that may be started only once is orderly: what follows speaks of
\* every one of its behaviours.
THEOREM OneStartIsOrderly == ASSUME MaxStarts = 1 PROVE Spec => OrderlySpec
<1>1. IInv /\ OrderlyInv /\ [Next]_vars => [OrderlyNext]_vars
  <2> SUFFICES ASSUME IInv, OrderlyInv, Next PROVE OrderlyNext \/ UNCHANGED vars
    OBVIOUS
  <2> USE DEF IInv, TypeOK, HttpTypeOK
  <2>1. ASSUME NEW p \in Callers, Start(p) PROVE Orderly
    <3>1. starts = 0 /\ \A n \in Runs : n # starts
      BY <2>1 DEF Start
    <3>2. NoneAlive
      BY <3>1 DEF OrderlyInv, OneStarter, LastRun, NoneAlive
    <3>3. UNCHANGED down
      BY <2>1 DEF Start, Launch
    <3> QED
      BY <3>2, <3>3 DEF Orderly
  <2>2. ASSUME NEW p \in Callers, StopServer(p) PROVE Orderly
    <3>1. CASE handle = 0
      BY <2>2, <3>1 DEF StopServer, Shutdown, Orderly
    <3>2. CASE handle # 0
      <4>1. handle = starts /\ starts # 0
        BY <3>2 DEF OrderlyInv, LastRun
      <4> QED
        BY <2>2, <4>1 DEF StopServer, Shutdown, Orderly, OrderlyInv, LastRun
    <3> QED
      BY <3>1, <3>2
  <2>3. ASSUME UNCHANGED <<starts, down>> PROVE Orderly
    BY <2>3 DEF Orderly
  <2>4. ASSUME NEW p \in Callers, CallerSteps(p), ~Start(p), ~StopServer(p)
        PROVE UNCHANGED <<starts, down>>
    BY <2>4 DEF CallerSteps, StopSteps, Serve, Attach, StartSignalled, StartReturns, StartFails, Stop,
                StopDrained, StopDrainExpires, CloseBegins, CloseEnds, StopReturns, Refused, vars
  <2>5. ASSUME NEW n \in Runs, ServerSteps(n) PROVE UNCHANGED <<starts, down>>
    BY <2>5 DEF ServerSteps, Build, Listen, ServeReturns, serviceVars
  <2>6. ASSUME NEW r \in Requests, RequestSteps(r) PROVE UNCHANGED <<starts, down>>
    BY <2>6 DEF RequestSteps, Request, Arrive, Borrow, Respond, StatusLocks, StatusReturns, Answer,
                serviceVars
  <2>7. ASSUME Signal \/ Expire PROVE UNCHANGED <<starts, down>>
    BY <2>7 DEF Signal, Expire
  <2> QED
    BY <2>1, <2>2, <2>3, <2>4, <2>5, <2>6, <2>7 DEF Next, OrderlyNext
<1>2. Init => IInv /\ StopsFromStarted /\ OrderlyInv
  BY InvInit, FromStartedInit, OrderlyInit
<1>3. IInv /\ StopsFromStarted /\ OrderlyInv /\ [Next]_vars
        => (IInv /\ StopsFromStarted /\ OrderlyInv)'
  <2> SUFFICES ASSUME IInv, StopsFromStarted, OrderlyInv, [Next]_vars
               PROVE  (IInv /\ StopsFromStarted /\ OrderlyInv)'
    OBVIOUS
  <2>1. [OrderlyNext]_vars
    BY <1>1
  <2>2. starts' # starts => NoneAlive
    BY <2>1 DEF OrderlyNext, Orderly, vars
  <2> QED
    BY <2>1, <2>2, InvStep, FromStartedStep, StarterStep, LastRunStep DEF OrderlyInv
<1> QED
  BY <1>1, <1>2, <1>3, PTL DEF Spec, OrderlySpec

\* The server being drained is the one every request came through.
LEMMA DrainedIsAll ==
  ASSUME IInv, OrderlyInv, stopping \in down
  PROVE  /\ \A n \in Runs : ~Accepting(n)
         /\ InFlight(stopping) = {r \in Requests : req[r] # "idle"}
<1>1. stopping = starts /\ down = {starts}
  BY DEF OrderlyInv, LastRun
<1>2. \A n \in Runs : ~Accepting(n)
  BY <1>1 DEF OrderlyInv, LastRun, Accepting
<1>3. \A r \in Requests : req[r] # "idle" => via[r] = starts
  BY DEF OrderlyInv, LastRun
<1> QED
  BY <1>1, <1>2, <1>3 DEF InFlight

\* When Starts are orderly, a Service that says Stopped is silent: no run accepts
\* a connection and no request is in flight.
THEOREM StoppedServiceIsQuiet == OrderlySpec => []StoppedIsQuiet
<1>1. IInv /\ OrderlyInv => StoppedIsQuiet
  <2> SUFFICES ASSUME IInv, OrderlyInv, state = "Stopped" PROVE StoppedIsQuiet
    BY DEF StoppedIsQuiet
  <2>1. stopping \in down /\ InFlight(stopping) = {}
    BY DEF IInv, StoppedMeansReleased
  <2> QED
    BY <2>1, DrainedIsAll DEF StoppedIsQuiet
<1> QED
  BY <1>1, OrderlyInductive, PTL

\* The order of the states of a Service.
Forward ==
  /\ state' = "Created" => state = "Created"
  /\ state' = "Stopped" => state \in {"Started", "Stopped"}
  /\ state = "Stopped" => state' = "Stopped"

\* No Start, signal or Stop ever leads back: a Service only goes from Created to
\* Started and from Started to Stopped, although Start takes svc.mu twice and
\* checks the state only the first time.
THEOREM LifecycleGoesForward == OrderlySpec => [][Forward]_vars
<1>1. IInv /\ OrderlyInv /\ [OrderlyNext]_vars => [Forward]_vars
  <2> SUFFICES ASSUME IInv, OrderlyInv, OrderlyNext PROVE Forward \/ UNCHANGED vars
    OBVIOUS
  <2>1. ASSUME UNCHANGED state PROVE Forward
    BY <2>1 DEF Forward
  <2>2. ASSUME NEW p \in Callers, StartReturns(p) PROVE Forward
    BY <2>2 DEF StartReturns, OrderlyInv, OneStarter, Forward
  <2>3. ASSUME NEW p \in Callers, StopReturns(p) PROVE Forward
    <3>1. state = "Started"
      BY <2>3, ServiceAssumption DEF StopReturns, IInv, StopHoldsLock, StopOnlyStarted, InStop
    <3> QED
      BY <2>3, <3>1 DEF StopReturns, Forward
  <2>4. ASSUME NEW p \in Callers, CallerSteps(p), ~StartReturns(p), ~StopReturns(p)
        PROVE UNCHANGED state
    BY <2>4 DEF CallerSteps, StopSteps, Serve, Attach, Start, Launch, StartSignalled, StartFails, Stop,
                StopServer, StopDrained, StopDrainExpires, CloseBegins, CloseEnds, Refused, vars
  <2>5. ASSUME NEW n \in Runs, ServerSteps(n) PROVE UNCHANGED state
    BY <2>5 DEF ServerSteps, serviceVars
  <2>6. ASSUME NEW r \in Requests, RequestSteps(r) PROVE UNCHANGED state
    BY <2>6 DEF RequestSteps, Request, Borrow, Respond, StatusLocks, StatusReturns, serviceVars
  <2>7. ASSUME Signal \/ Expire PROVE UNCHANGED state
    BY <2>7 DEF Signal, Expire
  <2> QED
    BY <2>1, <2>2, <2>3, <2>4, <2>5, <2>6, <2>7 DEF Next, OrderlyNext
<1> QED
  BY <1>1, OrderlyInductive, PTL DEF OrderlySpec

-----------------------------------------------------------------------------
(* The refinement of GracefulShutdown. *)

\* What the abstract variables are made of.
mappedVars == <<state, pc, telemetry, req, dependencies, conn, expired>>

\* A step that changes nothing the mapping reads is a stutter of the documented shutdown.
LEMMA MappedStutters == UNCHANGED mappedVars => UNCHANGED Graceful!absVars
  BY DEF mappedVars, Graceful!absVars, stage, Attached

\* Whoever is in Stop is alone there, so the place it is at decides the stage.
LEMMA StageOfStop ==
  ASSUME IInv, NEW p \in Callers, pc[p] \in InStop
  PROVE  /\ state = "Started" /\ mu = p
         /\ \A q \in Callers : pc[q] \in InStop => q = p
         /\ pc[p] = "draining" => stage = "draining"
         /\ pc[p] = "closing" => stage = "closing"
         /\ pc[p] = "stopping" => stage \in {"up", "failed"}
<1>1. mu = p /\ mu # NoCaller /\ \A q \in Callers : pc[q] \in InStop => q = p
  BY ServiceAssumption DEF IInv, StopHoldsLock
<1>2. state = "Started"
  BY <1>1 DEF IInv, StopOnlyStarted
<1> QED
  BY <1>1, <1>2 DEF stage, InStop

\* Nobody is draining or closing when a caller that is idle has the mutex.
LEMMA NobodyStops ==
  ASSUME IInv, mu = NoCaller PROVE \A p \in Callers : pc[p] \notin InStop
  BY ServiceAssumption DEF IInv, StopHoldsLock

\* Attach is the attachment of the documented shutdown.
LEMMA RegistrationRefines ==
  ASSUME IInv, StopsFromStarted, NEW p \in Callers, NEW d \in Deps, Attach(p, d)
  PROVE  Graceful!Attaches(d)
<1> USE DEF Attach, Locks, requireState
<1>1. \A q \in Callers : pc[q] \notin InStop
  BY NobodyStops
<1>2. state = "Created" /\ telemetry = "up" /\ conn[d] = "open"
  BY DEF IInv, TypeOK, StopOnlyStarted, StopsFromStarted
<1>3. stage = "up" /\ UNCHANGED stage
  BY <1>1, <1>2 DEF stage, InStop
<1>4. Attached' = Attached \cup {d}
  <2>1. dependencies \in Seq(Deps) /\ dependencies' = Append(dependencies, d)
    BY DEF IInv, TypeOK
  <2>2. DOMAIN dependencies' = DOMAIN dependencies \cup {Len(dependencies) + 1}
    BY <2>1
  <2>3. \A i \in DOMAIN dependencies : dependencies'[i] = dependencies[i]
    BY <2>1
  <2>4. dependencies'[Len(dependencies) + 1] = d
    BY <2>1
  <2> QED
    BY <2>2, <2>3, <2>4 DEF Attached
<1> QED
  BY <1>2, <1>3, <1>4 DEF Graceful!Attaches

\* Nothing is accepted once a drain has begun, also not between a Stop that has
\* failed and the one that tries again.
LEMMA ArrivalRefines ==
  ASSUME IInv, StopsFromStarted, OrderlyInv, NEW r \in Requests, NEW n \in Runs,
         Arrive(r, n), UNCHANGED serviceVars
  PROVE  Graceful!Accepts(r)
<1>1. stopping \notin down
  BY DrainedIsAll DEF Arrive
<1>2. state # "Stopped" /\ telemetry # "down"
  BY <1>1 DEF IInv, StoppedMeansReleased, StopsFromStarted
<1>3. \A p \in Callers : pc[p] \notin {"draining", "closing"}
  BY <1>1 DEF IInv, DrainDone
<1>4. stage = "up" /\ UNCHANGED stage
  BY <1>2, <1>3 DEF stage, serviceVars
<1>5. {x \in Requests : req'[x] # "idle"} = {x \in Requests : req[x] # "idle"} \cup {r}
  BY DEF Arrive, IInv, TypeOK, HttpTypeOK
<1> QED
  BY <1>4, <1>5 DEF Graceful!Accepts, serviceVars, Attached

\* A response is an answer of the documented shutdown.
LEMMA AnswerRefines ==
  ASSUME IInv, NEW r \in Requests, Respond(r) \/ StatusReturns(r)
  PROVE  Graceful!Answers(r)
<1>1. UNCHANGED <<state, pc, telemetry, dependencies, conn, expired>>
  BY DEF Respond, StatusReturns, serviceVars
<1>2. {x \in Requests : req'[x] # "idle"} = {x \in Requests : req[x] # "idle"} \ {r}
  BY DEF Respond, StatusReturns, Answer, IInv, TypeOK, HttpTypeOK
<1> QED
  BY <1>1, <1>2 DEF Graceful!Answers, stage, Attached

\* Stop takes a Service that is up, or whose last Stop failed, to the drain.
LEMMA ShutdownRefines ==
  ASSUME IInv, NEW p \in Callers, StopServer(p)
  PROVE  Graceful!Drains \/ UNCHANGED Graceful!absVars
<1>1. CASE UNCHANGED <<httpVars, stopping, pc>>
  <2>1. UNCHANGED mappedVars
    BY <1>1 DEF StopServer, mappedVars
  <2> QED
    BY <2>1, MappedStutters
<1>2. CASE Shutdown /\ Goto(p, "draining")
  <2>1. state = "Started" /\ stage \in {"up", "failed"}
    BY StageOfStop DEF StopServer, InStop
  <2>2. UNCHANGED <<state, telemetry, dependencies, conn, expired, req>>
    BY <1>2 DEF StopServer, Shutdown
  <2>3. pc'[p] = "draining"
    BY <1>2 DEF Goto, IInv, TypeOK
  <2>4. stage' = "draining"
    BY <2>1, <2>2, <2>3 DEF stage
  <2>5. (expired /\ \E q \in Callers : pc[q] \in {"draining", "closing"})' \in BOOLEAN
    BY <2>2 DEF IInv, TypeOK
  <2> QED
    BY <2>1, <2>2, <2>4, <2>5 DEF Graceful!Drains, Attached
<1> QED
  BY <1>1, <1>2 DEF StopServer

\* The Close calls wait for the drain, or for its deadline.
LEMMA DrainRefines ==
  ASSUME IInv, OrderlyInv, NEW p \in Callers, StopDrained(p) \/ StopDrainExpires(p)
  PROVE  Graceful!TearsDown
<1>1. state = "Started" /\ stage = "draining" /\ pc[p] = "draining"
  BY StageOfStop DEF StopDrained, StopDrainExpires, InStop
<1>2. UNCHANGED <<state, telemetry, dependencies, conn, expired, req>> /\ Goto(p, "closing")
  BY DEF StopDrained, StopDrainExpires
<1>3. pc' = [pc EXCEPT ![p] = "closing"] /\ pc'[p] = "closing"
  BY <1>2 DEF Goto, IInv, TypeOK
<1>4. \A q \in Callers : q # p => pc'[q] = pc[q] /\ pc[q] \notin {"draining", "closing"}
  BY <1>1, <1>3, StageOfStop DEF InStop, IInv, TypeOK
<1>5. stage' = "closing"
  BY <1>1, <1>2, <1>3, <1>4 DEF stage
<1>6. {r \in Requests : req[r] # "idle"} = {} \/ expired
  BY DrainedIsAll, <1>1 DEF StopDrained, StopDrainExpires, IInv, DrainDone
<1> QED
  BY <1>1, <1>2, <1>3, <1>5, <1>6 DEF Graceful!TearsDown, Attached

\* The Close of a dependency is one of the documented shutdown.
LEMMA CloseRefines ==
  ASSUME IInv, NEW p \in Callers, NEW i \in Attachments, CloseBegins(p, i)
  PROVE  \E d \in Deps : Graceful!Closes(d)
<1>1. stage = "closing"
  BY StageOfStop DEF CloseBegins, InStop
<1>2. dependencies[i] \in Deps
  BY DEF CloseBegins, IInv, TypeOK
<1>3. UNCHANGED <<state, pc, telemetry, dependencies, expired, req>>
  BY DEF CloseBegins
<1>4. \A d \in Deps : conn'[d] = IF d = dependencies[i] THEN "closed" ELSE conn[d]
  BY DEF CloseBegins, IInv, TypeOK
<1>5. Attached \subseteq Deps /\ Attached' = Attached
  BY <1>3 DEF IInv, TypeOK, Attached
<1>6. {d \in Attached' : conn'[d] = "open"} = {d \in Attached : conn[d] = "open"} \ {dependencies[i]}
  BY <1>4, <1>5
<1>7. UNCHANGED stage
  BY <1>3 DEF stage
<1> QED
  BY <1>1, <1>2, <1>3, <1>6, <1>7 DEF Graceful!Closes

\* Stopped is only said when nothing is in flight and nothing is open.
LEMMA ReturnRefines ==
  ASSUME IInv, OrderlyInv, NEW p \in Callers, StopReturns(p)
  PROVE  Graceful!Ends
<1>1. stage = "closing" /\ state = "Started" /\ pc[p] = "closing"
  BY StageOfStop DEF StopReturns, InStop
<1>2. UNCHANGED <<dependencies, conn, req>> /\ expired' = FALSE /\ telemetry' = "down"
  BY DEF StopReturns
<1>3. {d \in Attached : conn[d] = "open"} = {}
  BY DEF StopReturns, IInv, CloseProgress, Attached
<1>4. \A q \in Callers : pc'[q] \notin {"draining", "closing"}
  BY <1>1, StageOfStop DEF StopReturns, Goto, InStop, IInv, TypeOK
<1>5. CASE ~errs /\ state' = "Stopped"
  <2>1. {r \in Requests : req[r] # "idle"} = {}
    BY <1>1, <1>5, DrainedIsAll DEF IInv, DrainDone
  <2>2. stage' = "stopped"
    BY <1>5 DEF stage
  <2> QED
    BY <1>1, <1>2, <1>3, <2>1, <2>2 DEF Graceful!Ends, Attached
<1>6. CASE UNCHANGED state
  <2>1. stage' = "failed"
    BY <1>1, <1>2, <1>4, <1>6 DEF stage
  <2> QED
    BY <1>1, <1>2, <1>3, <2>1 DEF Graceful!Ends, Attached
<1> QED
  BY <1>5, <1>6 DEF StopReturns

\* The timer of Stop is the deadline of the documented shutdown, or comes too late to matter.
LEMMA ExpiryRefines ==
  ASSUME IInv, Expire PROVE Graceful!Overruns \/ UNCHANGED Graceful!absVars
<1>1. UNCHANGED <<state, pc, telemetry, dependencies, conn, req>> /\ expired' = TRUE
  BY DEF Expire
<1>2. CASE \E p \in Callers : pc[p] \in {"draining", "closing"}
  <2>1. stage \in {"draining", "closing"}
    BY <1>2, StageOfStop DEF InStop
  <2> QED
    BY <1>1, <1>2, <2>1 DEF Graceful!Overruns, stage, Attached
<1>3. CASE \A p \in Callers : pc[p] \notin {"draining", "closing"}
  BY <1>1, <1>3 DEF Graceful!absVars, stage, Attached
<1> QED
  BY <1>2, <1>3

\* Start, and a Stop that has not called Shutdown, show nothing of themselves.
LEMMA CallerStutters ==
  ASSUME IInv, OneStarter, NEW p \in Callers,
         Start(p) \/ StartSignalled(p) \/ StartReturns(p) \/ StartFails(p) \/ Stop(p)
  PROVE  UNCHANGED Graceful!absVars
<1>1. UNCHANGED <<telemetry, dependencies, conn, expired, req>>
  BY DEF Start, Launch, StartSignalled, StartReturns, StartFails, Stop
<1>2. \A q \in Callers : \A l \in {"draining", "closing"} : pc'[q] = l <=> pc[q] = l
  BY DEF Start, StartSignalled, StartReturns, StartFails, Stop, Locks, Goto, IInv, TypeOK
<1>3. (state = "Stopped") <=> (state' = "Stopped")
  BY DEF Start, StartSignalled, StartReturns, StartFails, Stop, OneStarter
<1>4. UNCHANGED stage
  BY <1>1, <1>2, <1>3 DEF stage
<1>5. (\E q \in Callers : pc[q] \in {"draining", "closing"})
        <=> (\E q \in Callers : pc'[q] \in {"draining", "closing"})
  BY <1>2
<1> QED
  BY <1>1, <1>4, <1>5 DEF Graceful!absVars, Attached

\* Every step is one of the documented shutdown or a stutter.
LEMMA StepRefines ==
  ASSUME IInv, StopsFromStarted, OrderlyInv, [OrderlyNext]_vars
  PROVE  Graceful!AbsNext \/ UNCHANGED Graceful!absVars
<1> USE DEF Graceful!AbsNext
<1>1. ASSUME NEW p \in Callers, CallerSteps(p) PROVE Graceful!AbsNext \/ UNCHANGED Graceful!absVars
  <2>1. CASE Serve(p) \/ Refused(p)
    <3>1. UNCHANGED mappedVars
      BY <2>1 DEF Serve, Refused, vars, mappedVars
    <3> QED
      BY <3>1, MappedStutters
  <2>2. CASE \E i \in Attachments : CloseEnds(p, i)
    <3>1. UNCHANGED mappedVars
      BY <2>2 DEF CloseEnds, mappedVars
    <3> QED
      BY <3>1, MappedStutters
  <2>3. CASE Start(p) \/ StartSignalled(p) \/ StartReturns(p) \/ StartFails(p) \/ Stop(p)
    BY <2>3, CallerStutters DEF OrderlyInv
  <2>4. CASE \E d \in Deps : Attach(p, d)
    BY <2>4, RegistrationRefines
  <2>5. CASE StopServer(p)
    BY <2>5, ShutdownRefines
  <2>6. CASE StopDrained(p) \/ StopDrainExpires(p)
    BY <2>6, DrainRefines
  <2>7. CASE \E i \in Attachments : CloseBegins(p, i)
    BY <2>7, CloseRefines
  <2>8. CASE StopReturns(p)
    BY <2>8, ReturnRefines
  <2> QED
    BY <1>1, <2>1, <2>2, <2>3, <2>4, <2>5, <2>6, <2>7, <2>8 DEF CallerSteps, StopSteps
<1>2. ASSUME NEW r \in Requests, RequestSteps(r) PROVE Graceful!AbsNext \/ UNCHANGED Graceful!absVars
  <2>1. CASE \E d \in Deps : Borrow(r, d)
    <3>1. UNCHANGED mappedVars
      BY <2>1 DEF Borrow, mappedVars
    <3> QED
      BY <3>1, MappedStutters
  <2>2. CASE StatusLocks(r)
    <3>1. UNCHANGED <<state, pc, telemetry, dependencies, conn, expired>>
      BY <2>2 DEF StatusLocks, serviceVars
    <3>2. {x \in Requests : req'[x] # "idle"} = {x \in Requests : req[x] # "idle"}
      BY <2>2 DEF StatusLocks, IInv, TypeOK, HttpTypeOK
    <3> QED
      BY <3>1, <3>2 DEF Graceful!absVars, stage, Attached
  <2>3. CASE Request(r)
    BY <2>3, ArrivalRefines DEF Request
  <2>4. CASE Respond(r) \/ StatusReturns(r)
    BY <2>4, AnswerRefines
  <2> QED
    BY <1>2, <2>1, <2>2, <2>3, <2>4 DEF RequestSteps
<1>3. ASSUME NEW n \in Runs, ServerSteps(n) PROVE UNCHANGED Graceful!absVars
  <2>1. UNCHANGED mappedVars
    BY <1>3 DEF ServerSteps, Build, Listen, ServeReturns, serviceVars, mappedVars
  <2> QED
    BY <2>1, MappedStutters
<1>4. CASE Signal \/ UNCHANGED vars
  <2>1. UNCHANGED mappedVars
    BY <1>4 DEF Signal, vars, mappedVars
  <2> QED
    BY <2>1, MappedStutters
<1>5. CASE Expire
  BY <1>5, ExpiryRefines
<1> HIDE DEF Graceful!AbsNext
<1> QED
  BY <1>1, <1>2, <1>3, <1>4, <1>5 DEF Next, OrderlyNext

\* A new Service is one that the documented shutdown starts from.
LEMMA InitRefines == Init => Graceful!AbsInit
<1> SUFFICES ASSUME Init PROVE Graceful!AbsInit
  OBVIOUS
<1>1. stage = "up"
  BY DEF Init, stage
<1>2. {r \in Requests : req[r] # "idle"} = {}
  BY DEF Init, HttpInit
<1>3. Attached = {}
  BY DEF Init, Attached
<1> QED
  BY <1>1, <1>2, <1>3 DEF Init, Graceful!AbsInit

\* When Starts are orderly, the Service implements the shutdown the README
\* documents: accept while up, drain, close when drained or overdue, and Stopped
\* only with nothing in flight and nothing open.
THEOREM ShutdownIsGraceful == OrderlySpec => ImplementsGracefulShutdown
<1>1. IInv /\ StopsFromStarted /\ OrderlyInv /\ [OrderlyNext]_vars
        => [Graceful!AbsNext]_(Graceful!absVars)
  BY StepRefines
<1> QED
  BY <1>1, InitRefines, OrderlyInductive, PTL
  DEF OrderlySpec, ImplementsGracefulShutdown, Graceful!AbsSpec

\* Once a Stop has begun to drain, requests only end.
OnlyAnswered ==
  stage # "up" =>
    {r \in Requests : req'[r] # "idle"} \subseteq {r \in Requests : req[r] # "idle"}

\* No request is accepted once the drain has begun, not while the dependencies are
\* closed, not after a Stop that failed and not during its retry: none can come to
\* use a dependency that is being closed (README.md:218-228).
THEOREM NothingIsAcceptedLate == OrderlySpec => [][OnlyAnswered]_vars
<1>1. IInv /\ StopsFromStarted /\ OrderlyInv /\ [OrderlyNext]_vars => [OnlyAnswered]_vars
  <2> SUFFICES ASSUME IInv, StopsFromStarted, OrderlyInv, [OrderlyNext]_vars PROVE OnlyAnswered
    OBVIOUS
  <2> DEFINE inflight == {r \in Requests : req[r] # "idle"}
  <2>1. CASE Graceful!AbsNext
    <3>1. CASE \E r \in Requests : Graceful!Accepts(r)
      BY <3>1 DEF Graceful!Accepts, OnlyAnswered
    <3>2. CASE \E r \in Requests : Graceful!Answers(r)
      BY <3>2 DEF Graceful!Answers, OnlyAnswered
    <3>3. CASE ~ \E r \in Requests : Graceful!Accepts(r) \/ Graceful!Answers(r)
      <4>1. inflight' = inflight
        BY <2>1, <3>3 DEF Graceful!AbsNext, Graceful!Attaches, Graceful!Closes, Graceful!Drains,
           Graceful!Overruns, Graceful!TearsDown, Graceful!Ends
      <4> QED
        BY <4>1 DEF OnlyAnswered
    <3> QED
      BY <3>1, <3>2, <3>3
  <2>2. CASE UNCHANGED Graceful!absVars
    BY <2>2 DEF Graceful!absVars, OnlyAnswered
  <2> QED
    BY <2>1, <2>2, StepRefines
<1> QED
  BY <1>1, OrderlyInductive, PTL DEF OrderlySpec
=============================================================================
