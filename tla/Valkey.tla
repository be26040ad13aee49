------------------------------- MODULE Valkey -------------------------------
(***************************************************************************)
(* The calls of integration/valkey/valkey.go against a server other        *)
(* clients use too: what each sends, what it makes of the reply, and the   *)
(* span it leaves.  A request may fail before the server has it, and its   *)
(* reply may be lost after; the client library sends no write twice.       *)
(*                                                                         *)
(* Keys hold a number, which INCRBY accepts, a text, which it refuses, or  *)
(* an empty string, which MGet takes for a missing key.  Durations         *)
(* are in milliseconds.  Streams and the messages of a channel are not     *)
(* kept: XAdd, XRange and Publish are requests that leave the keys alone.  *)
(***************************************************************************)
EXTENDS Integers, Sequences, SequencesExt, Spans

CONSTANTS
  Callers,  \* goroutines using the client
  Keys,
  Texts,    \* values that are neither a number nor empty
  Missing,  \* what the server has at a key that does not exist
  NoKey

Values == {"empty", "number"} \cup Texts

ASSUME ValkeyAssumption ==
  /\ Missing \notin Values \cup [value : Values, expires : BOOLEAN]
  /\ NoKey \notin Keys

VARIABLES
  store,    \* the server: what each key holds
  pc,       \* "idle", "replied", "scanning" between two requests of a Scan
  call,     \* the call each caller is in
  reply,    \* what came back
  cursor,   \* Scan: the keys the server has still to go through, behind its cursor
  found,    \* Scan: the keys gathered so far
  steady,   \* Scan (history): the keys there ever since it began
  snapshot, \* MGet: what the keys held when the server executed it; once it has
            \* returned, of the keys it was asked for
  fresh,    \* SetNX (history): the key was not removed since it was executed
  holds,    \* (history) the key each caller was told it has set, until the key is removed
  span,     \* the span of the last call
  result    \* what the last call returned

callVars == <<pc, call, reply, cursor, found, snapshot, span, result>>
histVars == <<steady, fresh, holds>>
vars == <<store, callVars, histVars>>

Durations == {0, 500, 1500}
KeyLists == {ks \in UNION {[1 .. n -> Keys] : n \in 0 .. 2} : IsInjective(ks)}

\* What is left of a call once it is sent: the keys where its reply or a
\* property needs them, and whether it gave a time to live.  The calls whose
\* reply is handed back as it is are one, "other".
Ops == {"none", "other", "Get", "Set", "Expire", "SetNX", "MGet", "Scan"}
Calls == [op : Ops, keys : KeyLists, bounded : BOOLEAN, onNotFound : BOOLEAN]
Call(op, keys) == [op |-> op, keys |-> keys, bounded |-> FALSE, onNotFound |-> FALSE]
NoCall == Call("none", << >>)

Replies == {"none", "ok", "nil", "error"}

\* An MGet hands out no empty value.
Pairs == Keys \X (Values \ {"empty"})
Results == [op : {"Scan", "MGet", "other"}, error : BOOLEAN, silent : BOOLEAN,
            pairs : SUBSET Pairs, found : SUBSET Keys]
NoResult == [op |-> "other", error |-> FALSE, silent |-> FALSE, pairs |-> {}, found |-> {}]

Present == {k \in Keys : store[k] # Missing}
\* What MGET answers for a key.
Answerable == Values \cup {Missing}
Contents == [k \in Keys |-> IF store[k] = Missing THEN Missing ELSE store[k].value]
Blank == [k \in Keys |-> Missing]

TypeOK ==
  /\ store \in [Keys -> [value : Values, expires : BOOLEAN] \cup {Missing}]
  /\ pc \in [Callers -> {"idle", "replied", "scanning"}]
  /\ call \in [Callers -> Calls]
  /\ reply \in [Callers -> Replies]
  /\ cursor \in [Callers -> SUBSET Keys]
  /\ found \in [Callers -> SUBSET Keys]
  /\ steady \in [Callers -> SUBSET Keys]
  /\ snapshot \in [Callers -> [Keys -> Answerable]]
  /\ fresh \in [Callers -> BOOLEAN]
  /\ holds \in [Callers -> Keys \cup {NoKey}]
  /\ span \in [Callers -> SpanRecords]
  /\ result \in [Callers -> Results]

\* The server may hold anything when the first client connects.
Init ==
  /\ store \in [Keys -> [value : Values, expires : BOOLEAN] \cup {Missing}]
  /\ pc = [c \in Callers |-> "idle"]
  /\ call = [c \in Callers |-> NoCall]
  /\ reply = [c \in Callers |-> "none"]
  /\ cursor = [c \in Callers |-> {}]
  /\ found = [c \in Callers |-> {}]
  /\ steady = [c \in Callers |-> {}]
  /\ snapshot = [c \in Callers |-> Blank]
  /\ fresh = [c \in Callers |-> FALSE]
  /\ holds = [c \in Callers |-> NoKey]
  /\ span = [c \in Callers |-> End(Started)]
  /\ result = [c \in Callers |-> NoResult]

-----------------------------------------------------------------------------
(* The requests *)

\* A call starts a span, builds its command and sends it.  Nothing of the call
\* can be told apart until the server has executed it, or never will.
Sends(c, r) ==
  /\ pc[c] = "idle"
  /\ pc' = [pc EXCEPT ![c] = "replied"]
  /\ call' = [call EXCEPT ![c] = r]
  /\ span' = [span EXCEPT ![c] = Started]
  /\ result' = [result EXCEPT ![c] = NoResult]

\* The command is executed: its reply may be lost.  It may not be executed.
Answers(c, kind) == \E r \in {kind, "error"} : reply' = [reply EXCEPT ![c] = r]
Fails(c) == reply' = [reply EXCEPT ![c] = "error"]

\* What the history keeps when c makes a request that removes the keys in gone.
History(c, gone) ==
  /\ steady' = [d \in Callers |-> IF d = c THEN {} ELSE steady[d] \ gone]
  /\ fresh' = [d \in Callers |-> fresh[d] /\ call[d].keys[1] \notin gone]
  /\ holds' = [d \in Callers |-> IF holds[d] \in gone THEN NoKey ELSE holds[d]]

NotMGet(c) == snapshot' = [snapshot EXCEPT ![c] = Blank]
NotScan == UNCHANGED <<cursor, found>>

\* MGet and Delete of no key return without a request.
ReturnsAtOnce(c, op) ==
  /\ pc[c] = "idle"
  /\ span' = [span EXCEPT ![c] = End(Started)]
  /\ result' = [result EXCEPT ![c] = [NoResult EXCEPT !.op = op]]
  /\ History(c, {}) /\ NotMGet(c) /\ NotScan
  /\ UNCHANGED <<store, pc, call, reply>>

\* (mutant) EXPIRE is sent the whole seconds, which may be 0.
Unclamped(d) == d \div 1000

\* The seconds of EXPIRE, and those of EX in Set and SetNX when it is given.
ExpireSeconds(d) == IF d \div 1000 <= 0 THEN 1 ELSE d \div 1000
WithTtl(d) == d > 0
ExSeconds(d) == d \div 1000

\* The server refuses EX 0.
Refused(d) == WithTtl(d) /\ ExSeconds(d) = 0

Set(c) ==
  /\ \E k \in Keys, v \in Values, d \in Durations :
       /\ Sends(c, [Call("Set", <<k>>) EXCEPT !.bounded = d > 0])
       /\ \/ /\ ~ Refused(d)
             /\ store' = [store EXCEPT ![k] = [value |-> v, expires |-> WithTtl(d)]]
             /\ Answers(c, "ok")
          \/ Fails(c) /\ UNCHANGED store
  /\ History(c, {}) /\ NotMGet(c) /\ NotScan

SetNX(c) ==
  /\ \E k \in Keys, d \in Durations :
       /\ Sends(c, [Call("SetNX", <<k>>) EXCEPT !.bounded = d > 0])
       /\ \/ /\ ~ Refused(d) /\ store[k] = Missing
             /\ store' = [store EXCEPT ![k] = [value |-> "number", expires |-> WithTtl(d)]]
             /\ Answers(c, "ok")
          \/ /\ ~ Refused(d) /\ store[k] # Missing
             /\ Answers(c, "nil")
             /\ UNCHANGED store
          \/ Fails(c) /\ UNCHANGED store
  /\ steady' = [steady EXCEPT ![c] = {}]
  /\ fresh' = [fresh EXCEPT ![c] = TRUE]
  /\ NotMGet(c) /\ NotScan
  /\ UNCHANGED holds

\* Increment, and Decrement with the command DECRBY.
Increment(c) ==
  /\ \E k \in Keys :
       /\ Sends(c, Call("other", << >>))
       /\ \/ /\ store[k] = Missing
             /\ store' = [store EXCEPT ![k] = [value |-> "number", expires |-> FALSE]]
             /\ Answers(c, "ok")
          \/ /\ store[k] # Missing
             /\ Answers(c, IF store[k].value = "number" THEN "ok" ELSE "error")
             /\ UNCHANGED store
          \/ Fails(c) /\ UNCHANGED store
  /\ History(c, {}) /\ NotMGet(c) /\ NotScan

\* The server removes the key on EXPIRE 0.
Expire(c) ==
  /\ \E k \in Keys, d \in Durations :
       /\ Sends(c, Call("Expire", <<k>>))
       /\ \/ /\ store[k] # Missing /\ ExpireSeconds(d) > 0
             /\ store' = [store EXCEPT ![k].expires = TRUE]
             /\ Answers(c, "ok")
             /\ History(c, {})
          \/ /\ store[k] # Missing /\ ExpireSeconds(d) = 0
             /\ store' = [store EXCEPT ![k] = Missing]
             /\ Answers(c, "ok")
             /\ History(c, {k})
          \/ /\ store[k] = Missing
             /\ Answers(c, "ok")
             /\ History(c, {}) /\ UNCHANGED store
          \/ Fails(c) /\ History(c, {}) /\ UNCHANGED store
  /\ NotMGet(c) /\ NotScan

Delete(c) ==
  \/ ReturnsAtOnce(c, "other")
  \/ /\ \E ks \in KeyLists \ {<< >>} :
          /\ Sends(c, Call("other", << >>))
          /\ \/ /\ store' = [k \in Keys |-> IF k \in ToSet(ks) THEN Missing ELSE store[k]]
                /\ Answers(c, "ok")
                /\ History(c, ToSet(ks))
             \/ Fails(c) /\ History(c, {}) /\ UNCHANGED store
     /\ NotMGet(c) /\ NotScan

Exists(c) ==
  /\ Sends(c, Call("other", << >>))
  /\ Answers(c, "ok")
  /\ History(c, {}) /\ NotMGet(c) /\ NotScan
  /\ UNCHANGED store

Get(c) ==
  /\ \E k \in Keys, b \in BOOLEAN :
       /\ Sends(c, [Call("Get", << >>) EXCEPT !.onNotFound = b])
       /\ Answers(c, IF store[k] = Missing THEN "nil" ELSE "ok")
  /\ History(c, {}) /\ NotMGet(c) /\ NotScan
  /\ UNCHANGED store

MGet(c) ==
  \/ ReturnsAtOnce(c, "MGet")
  \/ /\ \E ks \in KeyLists \ {<< >>} : Sends(c, Call("MGet", ks))
     /\ snapshot' = [snapshot EXCEPT ![c] = Contents]
     /\ Answers(c, "ok")
     /\ History(c, {}) /\ NotScan
     /\ UNCHANGED store

\* Publish, XAdd and XRange.
Elsewhere(c) ==
  /\ Sends(c, Call("other", << >>))
  /\ Answers(c, "ok")
  /\ History(c, {}) /\ NotMGet(c) /\ NotScan
  /\ UNCHANGED store

\* A subscription lasts until its context is cancelled, which is no error, or
\* anything else ends it.
Subscribe(c) ==
  /\ Sends(c, Call("other", << >>))
  /\ Answers(c, "ok")
  /\ History(c, {}) /\ NotMGet(c) /\ NotScan
  /\ UNCHANGED store

\* SCAN goes on behind its cursor: any part of what is left, maybe none of it.
Batch(c, left) ==
  /\ \E part \in SUBSET left :
       \/ /\ cursor' = [cursor EXCEPT ![c] = left \ part]
          /\ found' = [found EXCEPT ![c] = @ \cup (part \cap Present)]
          /\ reply' = [reply EXCEPT ![c] = "ok"]
       \/ Fails(c) /\ UNCHANGED <<cursor, found>>
  /\ UNCHANGED store

\* The first request of a Scan carries the cursor 0.
Scan(c) ==
  /\ Sends(c, Call("Scan", << >>))
  /\ Batch(c, Keys)
  /\ steady' = [steady EXCEPT ![c] = Present]
  /\ NotMGet(c)
  /\ UNCHANGED <<fresh, holds>>

ScanOn(c) ==
  /\ pc[c] = "scanning"
  /\ pc' = [pc EXCEPT ![c] = "replied"]
  /\ Batch(c, cursor[c])
  /\ UNCHANGED <<call, snapshot, span, result, histVars>>

\* The time to live of a key runs out.
TimePasses ==
  \E k \in Present :
    /\ store[k].expires
    /\ store' = [store EXCEPT ![k] = Missing]
    /\ steady' = [d \in Callers |-> steady[d] \ {k}]
    /\ fresh' = [d \in Callers |-> fresh[d] /\ call[d].keys[1] # k]
    /\ holds' = [d \in Callers |-> IF holds[d] = k THEN NoKey ELSE holds[d]]
    /\ UNCHANGED callVars

-----------------------------------------------------------------------------
(* The calls return *)

\* The client library makes an empty string of a nil in the reply.
AsStrSlice(held) == [k \in Keys |-> IF held[k] = Missing THEN "empty" ELSE held[k]]

\* (mutant) The values that are there are paired with the first keys.
PairsFirst(c) ==
  LET full == SelectSeq([i \in DOMAIN call[c].keys |-> AsStrSlice(snapshot[c])[call[c].keys[i]]],
                        LAMBDA v : v # "empty")
  IN {<<call[c].keys[i], full[i]>> : i \in DOMAIN full}

\* The i-th value goes with the i-th key, and an empty one is skipped.
PairsOf(c) ==
  LET sse == AsStrSlice(snapshot[c]) IN
  {<<call[c].keys[i], sse[call[c].keys[i]]>> :
     i \in {j \in DOMAIN call[c].keys : sse[call[c].keys[j]] # "empty"}}

\* (mutant) The reply of a key that exists is a success.
WonWhenPresent(c) == reply[c] \in {"ok", "nil"}

\* SetNX returns true.
Won(c) == reply[c] = "ok"

\* (mutant) The first batch is the last.
FirstBatch(c) == call[c].op = "Scan"

\* The cursor of the server is back to 0.
ScanDone(c) == cursor[c] = {}

\* A call returns an error: of a missing key in Get, not in SetNX.  Scan hands
\* out what it gathered with it.
Errs(c) == reply[c] = "error" \/ (reply[c] = "nil" /\ call[c].op = "Get")

\* An error of Get goes to the span only when its options ask for it.
Records(c) == Errs(c) /\ (call[c].op = "Get" => call[c].onNotFound)

NextBatch(c) ==
  /\ pc[c] = "replied" /\ call[c].op = "Scan"
  /\ ~ Errs(c) /\ ~ ScanDone(c)
  /\ pc' = [pc EXCEPT ![c] = "scanning"]
  /\ reply' = [reply EXCEPT ![c] = "none"]
  /\ UNCHANGED <<store, call, cursor, found, snapshot, span, result, histVars>>

Return(c) ==
  /\ pc[c] = "replied"
  /\ call[c].op = "Scan" => Errs(c) \/ ScanDone(c)
  /\ span' = [span EXCEPT ![c] = End(IF Records(c) THEN RecordError(@) ELSE @)]
  /\ result' = [result EXCEPT ![c] =
       [op |-> IF call[c].op \in {"Scan", "MGet"} THEN call[c].op ELSE "other",
        error |-> Errs(c),
        silent |-> call[c].op = "Get" /\ ~ call[c].onNotFound,
        pairs |-> IF call[c].op = "MGet" /\ ~ Errs(c) THEN PairsOf(c) ELSE {},
        found |-> found[c]]]
  /\ holds' = [holds EXCEPT ![c] =
       IF call[c].op = "SetNX" /\ Won(c) /\ fresh[c] THEN call[c].keys[1] ELSE @]
  /\ snapshot' = [snapshot EXCEPT ![c] =
       [k \in Keys |-> IF k \in ToSet(call[c].keys) /\ ~ Errs(c) THEN @[k] ELSE Missing]]
  /\ pc' = [pc EXCEPT ![c] = "idle"]
  /\ call' = [call EXCEPT ![c] = NoCall]
  /\ reply' = [reply EXCEPT ![c] = "none"]
  /\ cursor' = [cursor EXCEPT ![c] = {}]
  /\ found' = [found EXCEPT ![c] = {}]
  /\ fresh' = [fresh EXCEPT ![c] = FALSE]
  /\ steady' = [steady EXCEPT ![c] = IF Errs(c) THEN {} ELSE @]
  /\ UNCHANGED store

-----------------------------------------------------------------------------
Step(c) ==
  \/ Exists(c) \/ Get(c) \/ Set(c) \/ Increment(c) \/ Expire(c) \/ SetNX(c)
  \/ Delete(c) \/ MGet(c) \/ Scan(c) \/ ScanOn(c) \/ Elsewhere(c) \/ Subscribe(c)
  \/ NextBatch(c) \/ Return(c)

Next == TimePasses \/ \E c \in Callers : Step(c)

Spec == Init /\ [][Next]_vars

-----------------------------------------------------------------------------
(* Properties *)

\* "Returns true when the value was set (the caller won the race)"
\* (valkey.go:380): from the moment a key is there until it is removed, no
\* two callers of SetNX are told true, whatever replies are lost.
OneHolder ==
  \A c, d \in Callers : holds[c] # NoKey /\ holds[c] = holds[d] => c = d

\* A Scan that returns no error has found every key that was there all along,
\* in however many batches the server went through them (valkey.go:297-314).
ScanComplete ==
  \A c \in Callers :
    result[c].op = "Scan" /\ ~ result[c].error => steady[c] \subseteq result[c].found

\* What MGet hands out is, for every key asked for that held something, the value
\* it held, all of them at one moment and each with its own key.  Left out are the
\* keys that did not exist and, which the server tells apart and the caller then
\* cannot, those that held an empty string (valkey.go:337-354): they lack among
\* the "key/value pairs for all keys passed" (valkey.go:318).
MGetExact ==
  \A c \in Callers :
    result[c].op = "MGet" /\ ~ result[c].error =>
      result[c].pairs =
        {<<k, snapshot[c][k]>> : k \in {j \in Keys : snapshot[c][j] \notin {Missing, "empty"}}}

\* A write with a time to live that returned nil, or that the caller cannot
\* tell from one, never leaves a key that lives forever, and Expire never
\* removes the key it is about to bound (valkey.go:203, 269, 391).
TtlKept ==
  [][\A c \in Callers : pc[c] = "idle" /\ pc'[c] = "replied" =>
       LET k == call'[c].keys[1] IN
       /\ call'[c].op \in {"Set", "SetNX"} /\ call'[c].bounded =>
            ((store'[k] # store[k] \/ reply'[c] = "ok") => store'[k].expires)
       /\ call'[c].op = "Expire" /\ store[k] # Missing =>
            /\ store'[k] # Missing
            /\ (reply'[c] = "ok" => store'[k].expires)]_vars

\* A call that has returned has ended its span, with the status Error exactly
\* when it returned an error, but for a Get that was not asked to record it
\* ("It automatically handles tracing and error recording").
SpanTellsOutcome ==
  \A c \in Callers :
    pc[c] = "idle" =>
      /\ span[c].ended
      /\ span[c].status = IF result[c].error /\ ~ result[c].silent THEN "error" ELSE "ok"

=============================================================================
