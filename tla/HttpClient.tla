----------------------------- MODULE HttpClient -----------------------------
(***************************************************************************)
(* connection.Do of integration/httpclient: one client is shared by many   *)
(* goroutines, and each call sends its request to the endpoints in turn    *)
(* until one of them answers below 500.                                    *)
(*                                                                         *)
(* The data of a request is left out.  What is kept is what the loop       *)
(* branches on (the class of each outcome, whether the context is done)    *)
(* and what it must release: every response but the returned one has a     *)
(* body that the loop has to drain and close.  A response is named by the  *)
(* attempt it answered; responses and the loop variable start at 1 here.   *)
(***************************************************************************)
EXTENDS Integers, Sequences, FiniteSets

CONSTANTS
  Callers,       \* goroutines sharing the client
  MaxCount,      \* the longest conn.endpoints considered
  CursorModulus  \* the values of the round-robin cursor, an atomic.Uint64

ASSUME HttpClientAssumption ==
  /\ MaxCount \in Nat \ {0}
  /\ CursorModulus \in Nat \ {0}
  /\ MaxCount <= CursorModulus

VARIABLES
  count,     \* len(conn.endpoints), fixed by Connect
  index,     \* conn.index
  pc,        \* where each call is
  start,     \* the cursor it drew
  seen,      \* the outcome of each of its attempts so far
  lastResp,  \* the 5xx response it retains, 0 for nil
  body,      \* the body of the response to each attempt
  ctx,       \* the context of the call: "live" or "done"
  result,    \* what the call returned
  lead       \* by how many first attempts each endpoint is ahead of the last

callVars == <<start, seen, lastResp, body, ctx, result>>
vars == <<count, index, pc, callVars, lead>>

single == count = 1
Endpoints == 0 .. count - 1
Attempts == 1 .. MaxCount
Answers == {"2xx", "4xx"}
Outcomes == Answers \cup {"5xx", "error"}
Results == [kind : {"none", "response", "error", "cancelled"}, at : 0 .. MaxCount]
MaxLead == 3  \* where the history variable lead saturates

TypeOK ==
  /\ count \in 1 .. MaxCount
  /\ index \in 0 .. CursorModulus - 1
  /\ pc \in [Callers -> {"idle", "loop", "attempt", "returned"}]
  /\ start \in [Callers -> 0 .. CursorModulus - 1]
  /\ seen \in [Callers -> Seq(Outcomes)]
  /\ \A c \in Callers : Len(seen[c]) <= count
  /\ lastResp \in [Callers -> 0 .. MaxCount]
  /\ body \in [Callers -> [Attempts -> {"none", "open", "closed"}]]
  /\ ctx \in [Callers -> {"live", "done"}]
  /\ result \in [Callers -> Results]
  /\ lead \in [Endpoints -> 0 .. MaxLead]

Nothing == [kind |-> "none", at |-> 0]

Init ==
  /\ count \in 1 .. MaxCount
  /\ index = 0
  /\ pc = [c \in Callers |-> "idle"]
  /\ start = [c \in Callers |-> 0]
  /\ seen = [c \in Callers |-> << >>]
  /\ lastResp = [c \in Callers |-> 0]
  /\ body = [c \in Callers |-> [k \in Attempts |-> "none"]]
  /\ ctx = [c \in Callers |-> "live"]
  /\ result = [c \in Callers |-> Nothing]
  /\ lead = [e \in Endpoints |-> 0]

\* (mutant) The wrapped sum is replaced by the cursor alone.
CursorOnly(c, k) == start[c] % count

\* endpoints[(start+i)%count], where the sum wraps like the cursor does.
Endpoint(c, k) == ((start[c] + k - 1) % CursorModulus) % count

Capped(n) == IF n > MaxLead THEN MaxLead ELSE n

\* Counts one more first attempt on e and forgets what all endpoints share.
Advance(e) ==
  LET more == [lead EXCEPT ![e] = Capped(@ + 1)]
  IN  lead' = IF \A x \in Endpoints : more[x] > 0
              THEN [x \in Endpoints |-> more[x] - 1]
              ELSE more

Enter(c, at) ==
  /\ pc[c] = "idle"
  /\ pc' = [pc EXCEPT ![c] = at]
  /\ \E x \in {"live", "done"} : ctx' = [ctx EXCEPT ![c] = x]
  /\ UNCHANGED <<seen, lastResp, body, result>>

\* (mutant) The cursor is loaded and stored: one of two concurrent updates may
\* be lost.
DrawsLoadStore(c) ==
  /\ ~single
  /\ Enter(c, "loop")
  /\ start' = [start EXCEPT ![c] = index]
  /\ index' \in {index, (index + 1) % CursorModulus}
  /\ Advance(index % count)

\* Do over several endpoints draws its own starting endpoint.
Draws(c) ==
  /\ ~single
  /\ Enter(c, "loop")
  /\ start' = [start EXCEPT ![c] = index]
  /\ index' = (index + 1) % CursorModulus
  /\ Advance(index % count)

\* A single endpoint needs no cursor, and the context is left to http.Client.
FastPath(c) ==
  /\ single
  /\ Enter(c, "attempt")
  /\ UNCHANGED <<index, start, lead>>

Cancel(c) ==
  /\ pc[c] \in {"loop", "attempt"}
  /\ ctx[c] = "live"
  /\ ctx' = [ctx EXCEPT ![c] = "done"]
  /\ UNCHANGED <<index, pc, start, seen, lastResp, body, result, lead>>

\* drainClose(lastResp) on the bodies of the call, a no-op without a response.
Drained(c, bodies) ==
  [k \in Attempts |-> IF k = lastResp[c] THEN "closed" ELSE bodies[k]]

Returns(c, kind, k) ==
  /\ pc' = [pc EXCEPT ![c] = "returned"]
  /\ result' = [result EXCEPT ![c] = [kind |-> kind, at |-> k]]

\* (mutant) The retained response is forgotten when the context is done.
StopsWithoutDrain(c) ==
  /\ pc[c] = "loop"
  /\ Len(seen[c]) < count
  /\ ctx[c] = "done"
  /\ Returns(c, "cancelled", 0)
  /\ UNCHANGED <<index, start, seen, body, lastResp, ctx, lead>>

\* The context is done before the next attempt.
StopsTrying(c) ==
  /\ pc[c] = "loop"
  /\ Len(seen[c]) < count
  /\ ctx[c] = "done"
  /\ body' = [body EXCEPT ![c] = Drained(c, @)]
  /\ Returns(c, "cancelled", 0)
  /\ UNCHANGED <<index, start, seen, lastResp, ctx, lead>>

Tries(c) ==
  /\ pc[c] = "loop"
  /\ Len(seen[c]) < count
  /\ ctx[c] = "live"
  /\ pc' = [pc EXCEPT ![c] = "attempt"]
  /\ UNCHANGED <<index, callVars, lead>>

\* attempt comes back: with an error when the request could not be built or
\* sent, timed out or was cancelled, with a response otherwise, even when the
\* context was cancelled meanwhile.
Records(c, outcome) ==
  /\ pc[c] = "attempt"
  /\ Len(seen[c]) < count
  /\ seen' = [seen EXCEPT ![c] = Append(@, outcome)]

\* (mutant) A transport error discards the response retained so far.
ErrorDiscards(c) ==
  /\ ~single
  /\ Records(c, "error")
  /\ pc' = [pc EXCEPT ![c] = "loop"]
  /\ body' = [body EXCEPT ![c] = Drained(c, @)]
  /\ lastResp' = [lastResp EXCEPT ![c] = 0]
  /\ UNCHANGED <<index, start, ctx, result, lead>>

\* A transport error keeps whatever response is retained.
Errors(c) ==
  /\ ~single
  /\ Records(c, "error")
  /\ pc' = [pc EXCEPT ![c] = "loop"]
  /\ UNCHANGED <<index, start, lastResp, body, ctx, result, lead>>

\* (mutant) The position of the response is counted one too far.
SupersedesOffByOne(c) ==
  LET k == Len(seen[c]) + 1 IN
  /\ ~single
  /\ Records(c, "5xx")
  /\ pc' = [pc EXCEPT ![c] = "loop"]
  /\ body' = [body EXCEPT ![c] = [Drained(c, @) EXCEPT ![k] = "open"]]
  /\ lastResp' = [lastResp EXCEPT ![c] = k + 1]
  /\ UNCHANGED <<index, start, ctx, result, lead>>

\* A 5xx response supersedes the one retained before it.
Supersedes(c) ==
  LET k == Len(seen[c]) + 1 IN
  /\ ~single
  /\ Records(c, "5xx")
  /\ pc' = [pc EXCEPT ![c] = "loop"]
  /\ body' = [body EXCEPT ![c] = [Drained(c, @) EXCEPT ![k] = "open"]]
  /\ lastResp' = [lastResp EXCEPT ![c] = k]
  /\ UNCHANGED <<index, start, ctx, result, lead>>

\* Any answer below 500 is the result.
Succeeds(c) ==
  LET k == Len(seen[c]) + 1 IN
  /\ ~single
  /\ \E outcome \in Answers : Records(c, outcome)
  /\ body' = [body EXCEPT ![c] = [Drained(c, @) EXCEPT ![k] = "open"]]
  /\ Returns(c, "response", k)
  /\ UNCHANGED <<index, start, lastResp, ctx, lead>>

\* Every endpoint failed: the retained response, or else the last error.
GivesUp(c) ==
  /\ pc[c] = "loop"
  /\ Len(seen[c]) = count
  /\ Returns(c, IF lastResp[c] # 0 THEN "response" ELSE "error", lastResp[c])
  /\ UNCHANGED <<index, start, seen, lastResp, body, ctx, lead>>

\* The fast path returns the outcome of its attempt, whatever it is.
ReturnsDirectly(c) ==
  /\ single
  /\ \E outcome \in Outcomes :
       /\ Records(c, outcome)
       /\ IF outcome = "error"
          THEN Returns(c, "error", 0) /\ UNCHANGED body
          ELSE Returns(c, "response", 1) /\ body' = [body EXCEPT ![c][1] = "open"]
  /\ UNCHANGED <<index, start, lastResp, ctx, lead>>

\* The caller closes the body of the response it got, and its locals go.
CallerCloses(c) ==
  /\ pc[c] = "returned"
  /\ pc' = [pc EXCEPT ![c] = "idle"]
  /\ seen' = [seen EXCEPT ![c] = << >>]
  /\ lastResp' = [lastResp EXCEPT ![c] = 0]
  /\ start' = [start EXCEPT ![c] = 0]
  /\ ctx' = [ctx EXCEPT ![c] = "live"]
  /\ result' = [result EXCEPT ![c] = Nothing]
  /\ body' = [body EXCEPT ![c] = [k \in Attempts |-> "none"]]
  /\ UNCHANGED <<index, lead>>

Iterate(c) ==
  \/ StopsTrying(c) \/ Tries(c) \/ GivesUp(c)
  \/ Errors(c) \/ Supersedes(c) \/ Succeeds(c) \/ ReturnsDirectly(c)

CallStep(c) == Draws(c) \/ FastPath(c) \/ Iterate(c) \/ Cancel(c) \/ CallerCloses(c)

Next == UNCHANGED count /\ \E c \in Callers : CallStep(c)

Spec == Init /\ [][Next]_vars

-----------------------------------------------------------------------------
(* Safety                                                                  *)

Open(c) == {k \in Attempts : body[c][k] = "open"}

\* While a call runs, the only open body is that of the response it retains;
\* once it has returned, that of the response it returned; a call that returned
\* an error left none.
NoBodyLeaked ==
  \A c \in Callers :
    /\ pc[c] = "idle" => Open(c) = {}
    /\ pc[c] \in {"loop", "attempt"} => Open(c) = {lastResp[c]} \ {0}
    /\ pc[c] = "returned" => Open(c) = {result[c].at} \ {0}

Exhausted(c) == pc[c] = "returned" /\ result[c].kind # "cancelled" /\ ~single

\* The contract of Do: no request is sent again after an answer below 500, and
\* that answer is the result; when there was none the result is the last 5xx
\* response, and an error only if every attempt failed in transport.
LastFailureSurfaced ==
  \A c \in Callers : Exhausted(c) =>
    LET n == Len(seen[c]) IN
    /\ \A k \in 1 .. n - 1 : seen[c][k] \notin Answers
    /\ \/ /\ result[c].kind = "response"
          /\ seen[c][n] \in Answers
          /\ result[c].at = n
       \/ /\ result[c].kind = "response"
          /\ seen[c][result[c].at] = "5xx"
          /\ \A k \in result[c].at + 1 .. n : seen[c][k] = "error"
       \/ /\ result[c].kind = "error"
          /\ \A k \in 1 .. n : seen[c][k] = "error"

\* The sums of a call wrap past the largest cursor, at a distance the number
\* of endpoints does not divide.
Torn(c) == start[c] + count > CursorModulus /\ CursorModulus % count # 0

\* A call that comes back without an answer below 500 has tried every endpoint,
\* wherever the other goroutines moved the cursor meanwhile.
FailoverIsComplete ==
  \A c \in Callers :
    (/\ Exhausted(c)
     /\ \A k \in 1 .. Len(seen[c]) : seen[c][k] \notin Answers
     /\ ~Torn(c))
    => {Endpoint(c, k) : k \in 1 .. Len(seen[c])} = Endpoints

\* Round-robin: however the callers interleave, no endpoint is the first choice
\* of two more calls than another, as long as the cursor wraps evenly.
Balanced == CursorModulus % count = 0 => \A e \in Endpoints : lead[e] <= 1

-----------------------------------------------------------------------------
(* The inductive invariant the proofs use                                  *)

Fresh(c) == seen[c] = << >> /\ lastResp[c] = 0 /\ result[c] = Nothing

\* What the loop knows of the attempts so far: all of them failed, and
\* lastResp is the last of them that got a response.
Retained(c) ==
  /\ \A k \in 1 .. Len(seen[c]) : seen[c][k] \notin Answers
  /\ \A k \in lastResp[c] + 1 .. Len(seen[c]) : seen[c][k] = "error"
  /\ lastResp[c] # 0 => lastResp[c] <= Len(seen[c]) /\ seen[c][lastResp[c]] = "5xx"

\* A call that goes on has not answered; one that is back without an answer
\* made count attempts.
CallInv(c) ==
  /\ pc[c] = "idle" => Fresh(c)
  /\ pc[c] = "loop" => ~single
  /\ pc[c] \in {"loop", "attempt"} => Retained(c)
  /\ pc[c] = "attempt" => Len(seen[c]) < count
  /\ (pc[c] = "attempt" /\ single) => Fresh(c)
  /\ (Exhausted(c) /\ \A k \in 1 .. Len(seen[c]) : seen[c][k] \notin Answers)
       => Len(seen[c]) = count

\* When the wrap is even, the endpoints before the one the cursor points at are
\* one first attempt ahead of the others.
RoundRobin ==
  CursorModulus % count = 0 =>
    lead = [e \in Endpoints |-> IF e < index % count THEN 1 ELSE 0]

IInv ==
  /\ TypeOK
  /\ NoBodyLeaked
  /\ LastFailureSurfaced
  /\ \A c \in Callers : CallInv(c)

=============================================================================
