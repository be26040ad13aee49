---------------------------- MODULE ValkeyProofs ----------------------------
(***************************************************************************)
(* Proofs about Valkey: what its calls return and leave behind, for any    *)
(* number of callers and keys.  Most requests differ only in what they     *)
(* send: Asks is what they have in common, and every proof about a step    *)
(* has one case for all of them.                                           *)
(***************************************************************************)
EXTENDS Valkey, SequenceTheorems, TLAPS

Entries == [value : Values, expires : BOOLEAN] \cup {Missing}

-----------------------------------------------------------------------------
(* The operators *)

\* Lemma.  What a list of keys is.
LEMMA KeyListsAre ==
  ASSUME NEW ks \in KeyLists
  PROVE  ks \in Seq(Keys) /\ \A i \in DOMAIN ks : ks[i] \in Keys
<1>1. PICK n \in 0 .. 2 : ks \in [1 .. n -> Keys]
  BY DEF KeyLists
<1> QED
  BY <1>1

\* Lemma.  No key, and one key, are lists of keys.
LEMMA ShortKeyLists ==
  << >> \in KeyLists /\ \A k \in Keys : <<k>> \in KeyLists
<1>1. << >> \in [1 .. 0 -> Keys] /\ IsInjective(<< >>)
  BY DEF IsInjective
<1>2. ASSUME NEW k \in Keys
      PROVE  <<k>> \in [1 .. 1 -> Keys] /\ IsInjective(<<k>>)
  BY DEF IsInjective
<1> QED
  BY <1>1, <1>2 DEF KeyLists

\* Lemma.  A call of the client, with or without options.
LEMMA CallsAre ==
  ASSUME NEW op \in Ops, NEW ks \in KeyLists, NEW b \in BOOLEAN
  PROVE  /\ Call(op, ks) \in Calls
         /\ Call(op, ks).op = op /\ Call(op, ks).keys = ks
         /\ [Call(op, ks) EXCEPT !.bounded = b] \in Calls
         /\ [Call(op, ks) EXCEPT !.bounded = b].op = op
         /\ [Call(op, ks) EXCEPT !.bounded = b].keys = ks
         /\ [Call(op, ks) EXCEPT !.bounded = b].bounded = b
         /\ [Call(op, ks) EXCEPT !.onNotFound = b] \in Calls
         /\ [Call(op, ks) EXCEPT !.onNotFound = b].op = op
  BY DEF Call, Calls

\* Lemma.  The span of a call that ends, with or without an error recorded.
LEMMA SpanOfCall ==
  /\ Started \in SpanRecords
  /\ End(Started) \in SpanRecords /\ End(Started).ended /\ End(Started).status = "ok"
  /\ End(RecordError(Started)) \in SpanRecords
  /\ End(RecordError(Started)).ended /\ End(RecordError(Started)).status = "error"
  BY DEF Started, End, RecordError, StatusEnd, StatusSetStatus, SdkSetStatus, SpanRecords

\* Lemma.  A result before anything was returned, or of no key.
LEMMA EmptyResults ==
  ASSUME NEW op \in {"MGet", "other"}
  PROVE  /\ NoResult \in Results /\ NoResult.op = "other"
         /\ [NoResult EXCEPT !.op = op] \in Results
         /\ [NoResult EXCEPT !.op = op].op = op
         /\ [NoResult EXCEPT !.op = op].error = FALSE
         /\ [NoResult EXCEPT !.op = op].pairs = {}
  BY DEF NoResult, Results

\* Lemma.  What the keys hold, or that none exists, is an answer.
LEMMA ContentsAre ==
  ASSUME TypeOK
  PROVE  Contents \in [Keys -> Answerable] /\ Blank \in [Keys -> Answerable]
  BY DEF TypeOK, Contents, Blank, Answerable

\* Lemma.  An MGet hands out the keys that held something, with what they held:
\* taking a missing key for an empty one neither adds a pair nor changes one.
LEMMA PairsAre ==
  ASSUME TypeOK, NEW c \in Callers
  PROVE  /\ PairsOf(c) \in SUBSET Pairs
         /\ PairsOf(c) = {<<k, snapshot[c][k]>> :
              k \in {j \in ToSet(call[c].keys) : snapshot[c][j] \notin {Missing, "empty"}}}
<1> DEFINE ks == call[c].keys
           held == snapshot[c]
           sse == AsStrSlice(held)
<1>1. ks \in KeyLists /\ held \in [Keys -> Answerable]
  BY DEF TypeOK, Calls, Answerable
<1>2. \A i \in DOMAIN ks : ks[i] \in Keys
  BY <1>1, KeyListsAre
<1>3. ToSet(ks) = {ks[i] : i \in DOMAIN ks}
  BY DEF ToSet
<1>4. PairsOf(c) = {<<ks[i], sse[ks[i]]>> : i \in {j \in DOMAIN ks : sse[ks[j]] # "empty"}}
  BY DEF PairsOf
<1>5. \A k \in Keys : sse[k] = IF held[k] = Missing THEN "empty" ELSE held[k]
  BY DEF AsStrSlice
<1> HIDE DEF ks, held, sse
<1>6. ASSUME NEW i \in DOMAIN ks
      PROVE  /\ sse[ks[i]] # "empty" <=> held[ks[i]] \notin {Missing, "empty"}
             /\ sse[ks[i]] # "empty" => sse[ks[i]] = held[ks[i]] /\ held[ks[i]] \in Values \ {"empty"}
  <2>1. ks[i] \in Keys /\ held[ks[i]] \in Answerable
    BY <1>1, <1>2
  <2> QED
    BY <1>5, <2>1 DEF Answerable
<1>7. PairsOf(c) \in SUBSET Pairs
  BY <1>2, <1>4, <1>6 DEF Pairs
<1>8. PairsOf(c) = {<<k, held[k]>> : k \in {j \in ToSet(ks) : held[j] \notin {Missing, "empty"}}}
  BY <1>3, <1>4, <1>6
<1> QED
  BY <1>7, <1>8 DEF ks, held

-----------------------------------------------------------------------------
(* The requests *)

\* What a request of c does when it is neither SetNX nor Scan: it may write
\* keys, and removes those in gone.
Asks(c, r, x, gone, held) ==
  /\ r \in Calls /\ r.op \notin {"SetNX", "Scan"} /\ Sends(c, r)
  /\ x \in Replies /\ reply' = [reply EXCEPT ![c] = x]
  /\ store' \in [Keys -> Entries]
  /\ \A k \in Keys : store'[k] = Missing => store[k] = Missing \/ k \in gone
  /\ History(c, gone)
  /\ held \in [Keys -> Answerable] /\ snapshot' = [snapshot EXCEPT ![c] = held]
  /\ NotScan

\* Lemma.  A request that leaves the keys alone.
LEMMA ReadsAsk ==
  ASSUME TypeOK, NEW c \in Callers,
         Exists(c) \/ Get(c) \/ Elsewhere(c) \/ Subscribe(c)
  PROVE  \E r, x, held : Asks(c, r, x, {}, held)
<1>1. PICK r \in Calls, kind \in {"ok", "nil"} :
        r.op \notin {"SetNX", "Scan"} /\ Sends(c, r) /\ Answers(c, kind)
  <2>1. ASSUME NEW k \in Keys
        PROVE  (IF store[k] = Missing THEN "nil" ELSE "ok") \in {"ok", "nil"}
    OBVIOUS
  <2>2. CASE Get(c)
    <3>1. PICK k \in Keys, b \in BOOLEAN :
            /\ Sends(c, [Call("Get", << >>) EXCEPT !.onNotFound = b])
            /\ Answers(c, IF store[k] = Missing THEN "nil" ELSE "ok")
      BY <2>2 DEF Get
    <3>2. /\ [Call("Get", << >>) EXCEPT !.onNotFound = b] \in Calls
          /\ [Call("Get", << >>) EXCEPT !.onNotFound = b].op = "Get"
      BY ShortKeyLists DEF Call, Calls, Ops
    <3> QED
      BY <2>1, <3>1, <3>2
  <2>3. CASE Exists(c) \/ Elsewhere(c) \/ Subscribe(c)
    BY <2>3, ShortKeyLists, CallsAre DEF Ops, Exists, Elsewhere, Subscribe
  <2> QED
    BY <2>2, <2>3 DEF Get
<1>2. PICK x \in {kind, "error"} : reply' = [reply EXCEPT ![c] = x]
  BY <1>1 DEF Answers
<1>3. store' = store /\ History(c, {}) /\ NotMGet(c) /\ NotScan
  BY DEF Exists, Get, Elsewhere, Subscribe
<1>4. store \in [Keys -> Entries] /\ Blank \in [Keys -> Answerable]
  BY ContentsAre DEF TypeOK, Entries
<1>5. x \in Replies
  BY <1>2 DEF Replies
<1>6. Asks(c, r, x, {}, Blank)
  BY <1>1, <1>2, <1>3, <1>4, <1>5 DEF Asks, NotMGet
<1> QED
  BY <1>6

\* Lemma.  A call of one of the operations, on no key or one, with no option or
\* one, and a list of keys for an MGet.
LEMMA RequestsAre ==
  ASSUME NEW k \in Keys, NEW d \in Durations
  PROVE  /\ [Call("Set", <<k>>) EXCEPT !.bounded = d > 0] \in Calls
         /\ [Call("Set", <<k>>) EXCEPT !.bounded = d > 0].op = "Set"
         /\ [Call("Set", <<k>>) EXCEPT !.bounded = d > 0].keys = <<k>>
         /\ [Call("Set", <<k>>) EXCEPT !.bounded = d > 0].bounded = (d > 0)
         /\ [Call("SetNX", <<k>>) EXCEPT !.bounded = d > 0] \in Calls
         /\ [Call("SetNX", <<k>>) EXCEPT !.bounded = d > 0].op = "SetNX"
         /\ [Call("SetNX", <<k>>) EXCEPT !.bounded = d > 0].keys = <<k>>
         /\ [Call("SetNX", <<k>>) EXCEPT !.bounded = d > 0].bounded = (d > 0)
         /\ Call("Expire", <<k>>) \in Calls /\ Call("Expire", <<k>>).op = "Expire"
         /\ Call("Expire", <<k>>).keys = <<k>>
<1>1. <<k>> \in KeyLists /\ (d > 0) \in BOOLEAN
  BY ShortKeyLists
<1> QED
  BY <1>1 DEF Call, Calls, Ops

\* Lemma.  The calls on no key, or on several.
LEMMA OtherRequestsAre ==
  /\ Call("other", << >>) \in Calls /\ Call("other", << >>).op = "other"
  /\ Call("Scan", << >>) \in Calls /\ Call("Scan", << >>).op = "Scan"
  /\ NoCall \in Calls /\ NoCall.op = "none"
  /\ \A ks \in KeyLists : Call("MGet", ks) \in Calls /\ Call("MGet", ks).op = "MGet"
  BY ShortKeyLists DEF Call, Calls, Ops, NoCall

\* Lemma.  A request that writes the key it is about, or removes keys, or reads
\* several.
LEMMA WritesAsk ==
  ASSUME TypeOK, NEW c \in Callers,
         Set(c) \/ Increment(c) \/ Expire(c) \/ Delete(c) \/ MGet(c)
  PROVE  \/ \E r, x, gone, held : Asks(c, r, x, gone, held)
         \/ \E op \in {"other", "MGet"} : ReturnsAtOnce(c, op)
<1>1. store \in [Keys -> Entries] /\ Blank \in [Keys -> Answerable] /\ Contents \in [Keys -> Answerable]
  BY ContentsAre DEF TypeOK, Entries
<1>2. ASSUME NEW k \in Keys, NEW e \in Entries, store' = [store EXCEPT ![k] = e]
      PROVE  /\ store' \in [Keys -> Entries]
             /\ \A j \in Keys : store'[j] = Missing => store[j] = Missing \/ j \in {k}
             /\ e # Missing => \A j \in Keys : store'[j] = Missing => store[j] = Missing
  BY <1>1, <1>2
<1>3. ASSUME NEW b \in BOOLEAN, NEW v \in Values
      PROVE  /\ [value |-> v, expires |-> b] \in Entries
             /\ [value |-> v, expires |-> b] # Missing
  BY <1>3, ValkeyAssumption DEF Entries, Values
<1>4. ASSUME NEW e \in Entries, e # Missing
      PROVE  [e EXCEPT !.expires = TRUE] \in Entries /\ [e EXCEPT !.expires = TRUE] # Missing
  BY <1>4, ValkeyAssumption DEF Entries, Values
<1>5. Missing \in Entries
  BY DEF Entries
<1>6. \A kind \in Replies : Answers(c, kind) => \E x \in Replies : reply' = [reply EXCEPT ![c] = x]
  BY DEF Answers, Replies
<1>7. Fails(c) => \E x \in Replies : reply' = [reply EXCEPT ![c] = x]
  BY DEF Fails, Replies
<1>8. {"ok", "error"} \subseteq Replies
  BY DEF Replies
<1>9. ASSUME NEW r \in Calls, r.op \notin {"SetNX", "Scan"}, Sends(c, r),
             NEW x \in Replies, reply' = [reply EXCEPT ![c] = x],
             store' \in [Keys -> Entries],
             NEW gone, \A k \in Keys : store'[k] = Missing => store[k] = Missing \/ k \in gone,
             History(c, gone),
             NEW held \in {Blank, Contents}, snapshot' = [snapshot EXCEPT ![c] = held], NotScan
      PROVE  \E rr, xx, gg, hh : Asks(c, rr, xx, gg, hh)
  BY <1>1, <1>9 DEF Asks
<1>10. CASE Set(c)
  <2>1. PICK k \in Keys, v \in Values, d \in Durations :
          /\ Sends(c, [Call("Set", <<k>>) EXCEPT !.bounded = d > 0])
          /\ \/ /\ store' = [store EXCEPT ![k] = [value |-> v, expires |-> WithTtl(d)]]
                /\ Answers(c, "ok")
             \/ Fails(c) /\ UNCHANGED store
    BY <1>10 DEF Set
  <2>2. WithTtl(d) \in BOOLEAN
    BY DEF WithTtl
  <2>3. PICK x \in Replies : reply' = [reply EXCEPT ![c] = x]
    BY <1>6, <1>7, <1>8, <2>1
  <2>4. /\ store' \in [Keys -> Entries]
        /\ \A j \in Keys : store'[j] = Missing => store[j] = Missing \/ j \in {}
    BY <1>1, <1>2, <1>3, <2>1, <2>2
  <2>5. History(c, {}) /\ NotMGet(c) /\ NotScan
    BY <1>10 DEF Set
  <2> QED
    BY <1>9, <2>1, <2>3, <2>4, <2>5, RequestsAre DEF NotMGet
<1>11. CASE Increment(c)
  <2>1. PICK k \in Keys :
          /\ Sends(c, Call("other", << >>))
          /\ \/ /\ store' = [store EXCEPT ![k] = [value |-> "number", expires |-> FALSE]]
                /\ Answers(c, "ok")
             \/ /\ Answers(c, IF store[k].value = "number" THEN "ok" ELSE "error")
                /\ UNCHANGED store
             \/ Fails(c) /\ UNCHANGED store
    BY <1>11 DEF Increment
  <2>2. PICK x \in Replies : reply' = [reply EXCEPT ![c] = x]
    BY <1>6, <1>7, <1>8, <2>1
  <2>3. "number" \in Values
    BY DEF Values
  <2>4. /\ store' \in [Keys -> Entries]
        /\ \A j \in Keys : store'[j] = Missing => store[j] = Missing \/ j \in {}
    BY <1>1, <1>2, <1>3, <2>1, <2>3
  <2>5. History(c, {}) /\ NotMGet(c) /\ NotScan
    BY <1>11 DEF Increment
  <2> QED
    BY <1>9, <2>1, <2>2, <2>4, <2>5, OtherRequestsAre DEF NotMGet
<1>12. CASE Expire(c)
  <2>1. PICK k \in Keys, d \in Durations :
          /\ Sends(c, Call("Expire", <<k>>))
          /\ \/ /\ store[k] # Missing
                /\ store' = [store EXCEPT ![k].expires = TRUE]
                /\ Answers(c, "ok") /\ History(c, {})
             \/ /\ store' = [store EXCEPT ![k] = Missing]
                /\ Answers(c, "ok") /\ History(c, {k})
             \/ (Answers(c, "ok") \/ Fails(c)) /\ History(c, {}) /\ UNCHANGED store
    BY <1>12 DEF Expire
  <2>2. PICK x \in Replies : reply' = [reply EXCEPT ![c] = x]
    BY <1>6, <1>7, <1>8, <2>1
  <2>3. \E gone \in {{}, {k}} :
          /\ store' \in [Keys -> Entries]
          /\ \A j \in Keys : store'[j] = Missing => store[j] = Missing \/ j \in gone
          /\ History(c, gone)
    <3>1. CASE /\ store[k] # Missing
               /\ store' = [store EXCEPT ![k].expires = TRUE]
               /\ History(c, {})
      <4>1. store[k] \in Entries /\ store' = [store EXCEPT ![k] = [store[k] EXCEPT !.expires = TRUE]]
        BY <1>1, <3>1
      <4> QED
        BY <1>2, <1>4, <3>1, <4>1
    <3>2. CASE store' = [store EXCEPT ![k] = Missing] /\ History(c, {k})
      BY <1>2, <1>5, <3>2
    <3>3. CASE UNCHANGED store /\ History(c, {})
      BY <1>1, <3>3
    <3> QED
      BY <2>1, <3>1, <3>2, <3>3
  <2>4. NotMGet(c) /\ NotScan
    BY <1>12 DEF Expire
  <2>5. /\ Call("Expire", <<k>>) \in Calls
        /\ Call("Expire", <<k>>).op \notin {"SetNX", "Scan"}
    BY RequestsAre
  <2> QED
    BY <1>9, <2>1, <2>2, <2>3, <2>4, <2>5 DEF NotMGet
<1>13. CASE Delete(c)
  <2>1. CASE ReturnsAtOnce(c, "other")
    BY <2>1
  <2>2. CASE ~ReturnsAtOnce(c, "other")
    <3>1. PICK ks \in KeyLists :
            /\ Sends(c, Call("other", << >>))
            /\ \/ /\ store' = [k \in Keys |-> IF k \in ToSet(ks) THEN Missing ELSE store[k]]
                  /\ Answers(c, "ok") /\ History(c, ToSet(ks))
               \/ Fails(c) /\ History(c, {}) /\ UNCHANGED store
      BY <1>13, <2>2 DEF Delete
    <3>2. PICK x \in Replies : reply' = [reply EXCEPT ![c] = x]
      BY <1>6, <1>7, <1>8, <3>1
    <3>3. \E gone \in {{}, ToSet(ks)} :
            /\ store' \in [Keys -> Entries]
            /\ \A j \in Keys : store'[j] = Missing => store[j] = Missing \/ j \in gone
            /\ History(c, gone)
      BY <1>1, <1>5, <3>1
    <3>4. NotMGet(c) /\ NotScan
      BY <1>13, <2>2 DEF Delete
    <3> QED
      BY <1>9, <3>1, <3>2, <3>3, <3>4, OtherRequestsAre DEF NotMGet
  <2> QED
    BY <2>1, <2>2
<1>14. CASE MGet(c)
  <2>1. CASE ReturnsAtOnce(c, "MGet")
    BY <2>1
  <2>2. CASE ~ReturnsAtOnce(c, "MGet")
    <3>1. PICK ks \in KeyLists : Sends(c, Call("MGet", ks))
      BY <1>14, <2>2 DEF MGet
    <3>2. PICK x \in Replies : reply' = [reply EXCEPT ![c] = x]
      BY <1>6, <1>8, <1>14, <2>2 DEF MGet
    <3>3. /\ snapshot' = [snapshot EXCEPT ![c] = Contents] /\ store' = store
          /\ History(c, {}) /\ NotScan
      BY <1>14, <2>2 DEF MGet
    <3> QED
      BY <1>1, <1>9, <3>1, <3>2, <3>3, OtherRequestsAre
  <2> QED
    BY <2>1, <2>2
<1> QED
  BY <1>10, <1>11, <1>12, <1>13, <1>14

\* What a SetNX of c does: only when it is told so, it has set the key.
Races(c, k, d, x) ==
  /\ Sends(c, [Call("SetNX", <<k>>) EXCEPT !.bounded = d > 0])
  /\ reply' = [reply EXCEPT ![c] = x]
  /\ store' \in [Keys -> Entries]
  /\ \A j \in Keys : store'[j] = Missing => store[j] = Missing
  /\ x = "ok" => store[k] = Missing /\ store'[k] # Missing
  /\ steady' = [steady EXCEPT ![c] = {}]
  /\ fresh' = [fresh EXCEPT ![c] = TRUE]
  /\ holds' = holds
  /\ NotMGet(c) /\ NotScan

\* Lemma.  SetNX writes only a key that is missing.
LEMMA SetNXRaces ==
  ASSUME TypeOK, NEW c \in Callers, SetNX(c)
  PROVE  \E k \in Keys, d \in Durations, x \in Replies : Races(c, k, d, x)
<1>1. PICK k \in Keys, d \in Durations :
        /\ Sends(c, [Call("SetNX", <<k>>) EXCEPT !.bounded = d > 0])
        /\ \/ /\ store[k] = Missing
              /\ store' = [store EXCEPT ![k] = [value |-> "number", expires |-> WithTtl(d)]]
              /\ Answers(c, "ok")
           \/ Answers(c, "nil") /\ UNCHANGED store
           \/ Fails(c) /\ UNCHANGED store
  BY DEF SetNX
<1>2. /\ steady' = [steady EXCEPT ![c] = {}] /\ fresh' = [fresh EXCEPT ![c] = TRUE]
      /\ holds' = holds /\ NotMGet(c) /\ NotScan
  BY DEF SetNX
<1>3. store \in [Keys -> Entries]
  BY DEF TypeOK, Entries
<1>4. /\ [value |-> "number", expires |-> WithTtl(d)] \in Entries
      /\ [value |-> "number", expires |-> WithTtl(d)] # Missing
  <2>1. WithTtl(d) \in BOOLEAN /\ "number" \in Values
    BY DEF WithTtl, Values
  <2> QED
    BY <2>1, ValkeyAssumption DEF Entries, Values
<1>5. PICK x \in Replies :
        /\ reply' = [reply EXCEPT ![c] = x]
        /\ x # "ok" \/ (/\ store[k] = Missing
                        /\ store' = [store EXCEPT ![k] = [value |-> "number", expires |-> WithTtl(d)]])
  BY <1>1 DEF Answers, Fails, Replies
<1>6. /\ store' \in [Keys -> Entries]
      /\ \A j \in Keys : store'[j] = Missing => store[j] = Missing
      /\ x = "ok" => store[k] = Missing /\ store'[k] # Missing
  BY <1>1, <1>3, <1>4, <1>5
<1> QED
  BY <1>1, <1>2, <1>5, <1>6 DEF Races

\* What a batch of c does: a key that is there is found, or comes later.
Gathers(c, left, x, cur, got) ==
  /\ x \in {"ok", "error"} /\ reply' = [reply EXCEPT ![c] = x]
  /\ cur \in SUBSET Keys /\ cursor' = [cursor EXCEPT ![c] = cur]
  /\ got \in SUBSET Keys /\ found' = [found EXCEPT ![c] = got]
  /\ found[c] \subseteq got
  /\ x = "ok" => left \cap Present \subseteq got \cup cur
  /\ store' = store

\* Lemma.  Batch gathers, whether or not its request fails.
LEMMA BatchGathers ==
  ASSUME TypeOK, NEW c \in Callers, NEW left \in SUBSET Keys, Batch(c, left)
  PROVE  \E x, cur, got : Gathers(c, left, x, cur, got)
<1>1. cursor \in [Callers -> SUBSET Keys] /\ found \in [Callers -> SUBSET Keys]
  BY DEF TypeOK
<1>2. PICK part \in SUBSET left :
        \/ /\ cursor' = [cursor EXCEPT ![c] = left \ part]
           /\ found' = [found EXCEPT ![c] = found[c] \cup (part \cap Present)]
           /\ reply' = [reply EXCEPT ![c] = "ok"]
        \/ Fails(c) /\ UNCHANGED <<cursor, found>>
  BY <1>1 DEF Batch
<1>3. store' = store /\ Present \in SUBSET Keys
  BY DEF Batch, Present
<1>4. CASE /\ cursor' = [cursor EXCEPT ![c] = left \ part]
           /\ found' = [found EXCEPT ![c] = found[c] \cup (part \cap Present)]
           /\ reply' = [reply EXCEPT ![c] = "ok"]
  <2>1. found[c] \cup (part \cap Present) \in SUBSET Keys /\ left \ part \in SUBSET Keys
    BY <1>1, <1>3
  <2>2. Gathers(c, left, "ok", left \ part, found[c] \cup (part \cap Present))
    BY <1>3, <1>4, <2>1 DEF Gathers
  <2> QED
    BY <2>2
<1>5. CASE Fails(c) /\ UNCHANGED <<cursor, found>>
  <2>1. cursor' = [cursor EXCEPT ![c] = cursor[c]] /\ found' = [found EXCEPT ![c] = found[c]]
    BY <1>1, <1>5
  <2>2. Gathers(c, left, "error", cursor[c], found[c])
    BY <1>1, <1>3, <1>5, <2>1 DEF Gathers, Fails
  <2> QED
    BY <2>2
<1> QED
  BY <1>2, <1>4, <1>5

\* Lemma.  Every step is one of these.
LEMMA Steps ==
  ASSUME TypeOK, Next
  PROVE  \/ TimePasses
         \/ \E c \in Callers :
              \/ \E r, x, gone, held : Asks(c, r, x, gone, held)
              \/ \E op \in {"other", "MGet"} : ReturnsAtOnce(c, op)
              \/ \E k \in Keys, d \in Durations, x \in Replies : Races(c, k, d, x)
              \/ Scan(c) \/ ScanOn(c) \/ NextBatch(c) \/ Return(c)
  BY ReadsAsk, WritesAsk, SetNXRaces DEF Next, Step

-----------------------------------------------------------------------------
(* The types *)

\* Lemma.  A call that is sent is of its type.
LEMMA SendsType ==
  ASSUME TypeOK, NEW c \in Callers, NEW r \in Calls, Sends(c, r)
  PROVE  /\ pc' \in [Callers -> {"idle", "replied", "scanning"}]
         /\ call' \in [Callers -> Calls]
         /\ span' \in [Callers -> SpanRecords]
         /\ result' \in [Callers -> Results]
<1>1. Started \in SpanRecords /\ NoResult \in Results
  BY SpanOfCall, EmptyResults
<1> QED
  BY <1>1 DEF TypeOK, Sends

\* Lemma.  So is what the history keeps of a request.
LEMMA HistoryType ==
  ASSUME TypeOK, NEW c \in Callers, NEW gone, History(c, gone)
  PROVE  /\ steady' \in [Callers -> SUBSET Keys]
         /\ fresh' \in [Callers -> BOOLEAN]
         /\ holds' \in [Callers -> Keys \cup {NoKey}]
<1>1. steady' \in [Callers -> SUBSET Keys]
  BY DEF TypeOK, History
<1>2. fresh' \in [Callers -> BOOLEAN]
  BY DEF TypeOK, History
<1>3. holds' \in [Callers -> Keys \cup {NoKey}]
  BY DEF TypeOK, History
<1> QED
  BY <1>1, <1>2, <1>3

\* Lemma.  So is what a call returns.
LEMMA ReturnType ==
  ASSUME TypeOK, NEW c \in Callers, Return(c),
         call[c].op = "SetNX" => call[c].keys[1] \in Keys, span[c] = Started
  PROVE  TypeOK'
<1> DEFINE r == [op |-> IF call[c].op \in {"Scan", "MGet"} THEN call[c].op ELSE "other",
                 error |-> Errs(c),
                 silent |-> call[c].op = "Get" /\ ~ call[c].onNotFound,
                 pairs |-> IF call[c].op = "MGet" /\ ~ Errs(c) THEN PairsOf(c) ELSE {},
                 found |-> found[c]]
           held == [k \in Keys |-> IF k \in ToSet(call[c].keys) /\ ~ Errs(c)
                                   THEN snapshot[c][k] ELSE Missing]
<1>1. r \in Results
  <2>1. /\ Errs(c) \in BOOLEAN
        /\ (call[c].op = "Get" /\ ~ call[c].onNotFound) \in BOOLEAN
        /\ (IF call[c].op = "MGet" /\ ~ Errs(c) THEN PairsOf(c) ELSE {}) \in SUBSET Pairs
        /\ found[c] \in SUBSET Keys
        /\ (IF call[c].op \in {"Scan", "MGet"} THEN call[c].op ELSE "other") \in {"Scan", "MGet", "other"}
    BY PairsAre DEF TypeOK, Errs
  <2> QED
    BY <2>1 DEF Results
<1>2. held \in [Keys -> Answerable]
  BY DEF TypeOK, Answerable
<1>3. End(IF Records(c) THEN RecordError(span[c]) ELSE span[c]) \in SpanRecords
  BY SpanOfCall
<1>4. NoCall \in Calls
  BY OtherRequestsAre
<1> HIDE DEF r, held
<1>5. /\ result' = [result EXCEPT ![c] = r]
      /\ snapshot' = [snapshot EXCEPT ![c] = held]
      /\ span' = [span EXCEPT ![c] = End(IF Records(c) THEN RecordError(span[c]) ELSE span[c])]
  BY DEF Return, TypeOK, r, held
<1>6. /\ result' \in [Callers -> Results] /\ snapshot' \in [Callers -> [Keys -> Answerable]]
      /\ span' \in [Callers -> SpanRecords] /\ call' \in [Callers -> Calls]
  <2>1. call' = [call EXCEPT ![c] = NoCall]
    BY DEF Return
  <2>2. /\ result \in [Callers -> Results] /\ snapshot \in [Callers -> [Keys -> Answerable]]
        /\ span \in [Callers -> SpanRecords] /\ call \in [Callers -> Calls]
    BY DEF TypeOK
  <2> QED
    BY <1>1, <1>2, <1>3, <1>4, <1>5, <2>1, <2>2
<1>7. /\ holds' \in [Callers -> Keys \cup {NoKey}]
      /\ fresh' \in [Callers -> BOOLEAN] /\ steady' \in [Callers -> SUBSET Keys]
  BY DEF TypeOK, Return
<1>8. /\ pc' \in [Callers -> {"idle", "replied", "scanning"}] /\ reply' \in [Callers -> Replies]
      /\ cursor' \in [Callers -> SUBSET Keys] /\ found' \in [Callers -> SUBSET Keys]
      /\ store' = store
  BY DEF TypeOK, Return, Replies
<1> QED
  BY <1>6, <1>7, <1>8 DEF TypeOK

\* What is known of a call while it is under way, and after it returned.
CallOK(c) ==
  /\ call[c].op = "SetNX" => \E k \in Keys : call[c].keys = <<k>>
  /\ fresh[c] => pc[c] # "idle" /\ call[c].op = "SetNX"
  /\ pc[c] = "scanning" => call[c].op = "Scan" /\ reply[c] = "none"
  /\ pc[c] # "idle" => span[c] = Started /\ result[c] = NoResult
  /\ pc[c] = "idle" =>
       /\ span[c].ended
       /\ span[c].status = IF result[c].error /\ ~ result[c].silent THEN "error" ELSE "ok"

CallsOK == TypeOK /\ \A c \in Callers : CallOK(c)

\* Lemma.  The types and CallOK survive every step.
LEMMA CallsStep == CallsOK /\ [Next]_vars => CallsOK'
<1> SUFFICES ASSUME CallsOK, [Next]_vars PROVE CallsOK'
  OBVIOUS
<1>1. TypeOK /\ \A c \in Callers : CallOK(c)
  BY DEF CallsOK
<1>2. CASE UNCHANGED vars
  BY <1>1, <1>2 DEF CallsOK, TypeOK, CallOK, vars, callVars, histVars, Present
<1>3. CASE TimePasses
  <2>1. PICK k \in Present :
          /\ store' = [store EXCEPT ![k] = Missing]
          /\ steady' = [d \in Callers |-> steady[d] \ {k}]
          /\ fresh' = [d \in Callers |-> fresh[d] /\ call[d].keys[1] # k]
          /\ holds' = [d \in Callers |-> IF holds[d] = k THEN NoKey ELSE holds[d]]
          /\ UNCHANGED callVars
    BY <1>3 DEF TimePasses
  <2>2. fresh' \in [Callers -> BOOLEAN] /\ \A d \in Callers : fresh'[d] => fresh[d]
    BY <1>1, <2>1 DEF TypeOK
  <2>3. TypeOK'
    BY <1>1, <2>1, <2>2 DEF TypeOK, callVars
  <2>4. ASSUME NEW d \in Callers PROVE CallOK(d)'
    BY <1>1, <2>1, <2>2 DEF CallOK, callVars
  <2> QED
    BY <2>3, <2>4 DEF CallsOK
<1>4. ASSUME NEW c \in Callers, NEW r, NEW x, NEW gone, NEW held, Asks(c, r, x, gone, held)
      PROVE  CallsOK'
  <2>1. /\ r \in Calls /\ r.op \notin {"SetNX", "Scan"} /\ Sends(c, r)
        /\ x \in Replies /\ reply' = [reply EXCEPT ![c] = x]
        /\ store' \in [Keys -> Entries] /\ History(c, gone)
        /\ held \in [Keys -> Answerable] /\ snapshot' = [snapshot EXCEPT ![c] = held]
        /\ NotScan
    BY <1>4 DEF Asks
  <2>2. TypeOK'
    BY <1>1, <2>1, SendsType, HistoryType DEF TypeOK, Entries, NotScan
  <2>3. /\ pc[c] = "idle" /\ pc' = [pc EXCEPT ![c] = "replied"] /\ call' = [call EXCEPT ![c] = r]
        /\ span' = [span EXCEPT ![c] = Started] /\ result' = [result EXCEPT ![c] = NoResult]
    BY <2>1 DEF Sends
  <2>4. \A d \in Callers : fresh'[d] => fresh[d]
    BY <2>1 DEF History
  <2>5. ASSUME NEW d \in Callers PROVE CallOK(d)'
    BY <1>1, <2>1, <2>3, <2>4 DEF CallOK, TypeOK
  <2> QED
    BY <2>2, <2>5 DEF CallsOK
<1>5. ASSUME NEW c \in Callers, NEW op \in {"other", "MGet"}, ReturnsAtOnce(c, op)
      PROVE  CallsOK'
  <2>1. /\ span' = [span EXCEPT ![c] = End(Started)]
        /\ result' = [result EXCEPT ![c] = [NoResult EXCEPT !.op = op]]
        /\ History(c, {}) /\ snapshot' = [snapshot EXCEPT ![c] = Blank] /\ NotScan
        /\ pc[c] = "idle"
        /\ UNCHANGED <<store, pc, call, reply>>
    BY <1>5 DEF ReturnsAtOnce, NotMGet
  <2>2. /\ span' \in [Callers -> SpanRecords] /\ result' \in [Callers -> Results]
        /\ snapshot' \in [Callers -> [Keys -> Answerable]]
    BY <1>1, <2>1, SpanOfCall, EmptyResults, ContentsAre DEF TypeOK
  <2>3. TypeOK'
    BY <1>1, <2>1, <2>2, HistoryType DEF TypeOK, NotScan
  <2>4. \A d \in Callers : fresh'[d] => fresh[d]
    BY <2>1 DEF History
  <2>5. ASSUME NEW d \in Callers PROVE CallOK(d)'
    <3>1. CASE d = c
      BY <1>1, <2>1, <2>4, <3>1, SpanOfCall, EmptyResults DEF CallOK, TypeOK
    <3>2. CASE d # c
      BY <1>1, <2>1, <2>4, <3>2 DEF CallOK, TypeOK
    <3> QED
      BY <3>1, <3>2
  <2> QED
    BY <2>3, <2>5 DEF CallsOK
<1>6. ASSUME NEW c \in Callers, NEW k \in Keys, NEW d \in Durations, NEW x \in Replies,
             Races(c, k, d, x)
      PROVE  CallsOK'
  <2> DEFINE r == [Call("SetNX", <<k>>) EXCEPT !.bounded = d > 0]
  <2>1. /\ Sends(c, r) /\ reply' = [reply EXCEPT ![c] = x]
        /\ store' \in [Keys -> Entries]
        /\ steady' = [steady EXCEPT ![c] = {}] /\ fresh' = [fresh EXCEPT ![c] = TRUE]
        /\ holds' = holds
        /\ snapshot' = [snapshot EXCEPT ![c] = Blank] /\ NotScan
    BY <1>6 DEF Races, NotMGet
  <2>2. r \in Calls /\ r.op = "SetNX" /\ r.keys = <<k>>
    BY RequestsAre
  <2> HIDE DEF r
  <2>3. TypeOK'
    BY <1>1, <2>1, <2>2, SendsType, ContentsAre DEF TypeOK, Entries, NotScan
  <2>4. /\ pc[c] = "idle" /\ pc' = [pc EXCEPT ![c] = "replied"] /\ call' = [call EXCEPT ![c] = r]
        /\ span' = [span EXCEPT ![c] = Started] /\ result' = [result EXCEPT ![c] = NoResult]
    BY <2>1 DEF Sends
  <2>5. ASSUME NEW e \in Callers PROVE CallOK(e)'
    BY <1>1, <2>1, <2>2, <2>4 DEF CallOK, TypeOK
  <2> QED
    BY <2>3, <2>5 DEF CallsOK
<1>7. ASSUME NEW c \in Callers, Scan(c)
      PROVE  CallsOK'
  <2>1. PICK x, cur, got : Gathers(c, Keys, x, cur, got)
    BY <1>1, <1>7, BatchGathers DEF Scan
  <2>2. /\ Sends(c, Call("Scan", << >>)) /\ steady' = [steady EXCEPT ![c] = Present]
        /\ snapshot' = [snapshot EXCEPT ![c] = Blank] /\ UNCHANGED <<fresh, holds>>
    BY <1>7 DEF Scan, NotMGet
  <2>3. Call("Scan", << >>) \in Calls /\ Call("Scan", << >>).op = "Scan"
    BY OtherRequestsAre
  <2>4. Present \in SUBSET Keys
    BY DEF Present
  <2>5. TypeOK'
    BY <1>1, <2>1, <2>2, <2>3, <2>4, SendsType, ContentsAre DEF TypeOK, Gathers, Replies
  <2>6. /\ pc[c] = "idle" /\ pc' = [pc EXCEPT ![c] = "replied"]
        /\ call' = [call EXCEPT ![c] = Call("Scan", << >>)]
        /\ span' = [span EXCEPT ![c] = Started] /\ result' = [result EXCEPT ![c] = NoResult]
    BY <2>2 DEF Sends
  <2>7. ASSUME NEW e \in Callers PROVE CallOK(e)'
    BY <1>1, <2>1, <2>2, <2>3, <2>6 DEF CallOK, TypeOK, Gathers
  <2> QED
    BY <2>5, <2>7 DEF CallsOK
<1>8. ASSUME NEW c \in Callers, ScanOn(c)
      PROVE  CallsOK'
  <2>1. cursor[c] \in SUBSET Keys
    BY <1>1 DEF TypeOK
  <2>2. PICK x, cur, got : Gathers(c, cursor[c], x, cur, got)
    BY <1>1, <1>8, <2>1, BatchGathers DEF ScanOn
  <2>3. /\ pc[c] = "scanning" /\ pc' = [pc EXCEPT ![c] = "replied"]
        /\ UNCHANGED <<call, snapshot, span, result, histVars>>
    BY <1>8 DEF ScanOn
  <2>4. TypeOK'
    BY <1>1, <2>2, <2>3 DEF TypeOK, Gathers, Replies, histVars
  <2>5. ASSUME NEW e \in Callers PROVE CallOK(e)'
    BY <1>1, <2>2, <2>3 DEF CallOK, TypeOK, histVars, Gathers
  <2> QED
    BY <2>4, <2>5 DEF CallsOK
<1>9. ASSUME NEW c \in Callers, NextBatch(c)
      PROVE  CallsOK'
  <2>1. /\ pc[c] = "replied" /\ pc' = [pc EXCEPT ![c] = "scanning"] /\ call[c].op = "Scan"
        /\ reply' = [reply EXCEPT ![c] = "none"]
        /\ UNCHANGED <<store, call, cursor, found, snapshot, span, result, histVars>>
    BY <1>9 DEF NextBatch
  <2>2. TypeOK'
    BY <1>1, <2>1 DEF TypeOK, Replies, histVars
  <2>3. ASSUME NEW e \in Callers PROVE CallOK(e)'
    BY <1>1, <2>1 DEF CallOK, TypeOK, histVars
  <2> QED
    BY <2>2, <2>3 DEF CallsOK
<1>10. ASSUME NEW c \in Callers, Return(c)
      PROVE  CallsOK'
  <2>1. span[c] = Started /\ (call[c].op = "SetNX" => call[c].keys[1] \in Keys)
    BY <1>1, <1>10 DEF CallOK, Return
  <2>2. TypeOK'
    BY <1>1, <1>10, <2>1, ReturnType
  <2>3. /\ pc' = [pc EXCEPT ![c] = "idle"] /\ call' = [call EXCEPT ![c] = NoCall]
        /\ fresh' = [fresh EXCEPT ![c] = FALSE] /\ reply' = [reply EXCEPT ![c] = "none"]
    BY <1>10 DEF Return
  <2>4. /\ \A e \in Callers \ {c} : span'[e] = span[e] /\ result'[e] = result[e]
        /\ span'[c] = End(IF Records(c) THEN RecordError(Started) ELSE Started)
        /\ result'[c].error = Errs(c)
        /\ result'[c].silent = (call[c].op = "Get" /\ ~ call[c].onNotFound)
    BY <1>1, <1>10, <2>1 DEF Return, TypeOK
  <2>5. CallOK(c)'
    <3>1. span'[c].ended /\ span'[c].status = (IF Records(c) THEN "error" ELSE "ok")
      BY <2>4, SpanOfCall
    <3>2. Records(c) <=> result'[c].error /\ ~ result'[c].silent
      BY <2>4 DEF Records
    <3> QED
      BY <1>1, <2>3, <3>1, <3>2, OtherRequestsAre DEF CallOK, TypeOK
  <2>6. ASSUME NEW e \in Callers, e # c PROVE CallOK(e)'
    BY <1>1, <2>3, <2>4, <2>6 DEF CallOK, TypeOK
  <2> QED
    BY <2>2, <2>5, <2>6 DEF CallsOK
<1> QED
  BY <1>1, <1>2, <1>3, <1>4, <1>5, <1>6, <1>7, <1>8, <1>9, <1>10, Steps

\* Lemma.  The state a client starts in.
LEMMA CallsInit == Init => CallsOK
<1> SUFFICES ASSUME Init PROVE CallsOK
  OBVIOUS
<1>1. /\ NoCall \in Calls /\ NoCall.op = "none" /\ NoResult \in Results
      /\ NoResult.error = FALSE /\ Blank \in [Keys -> Answerable]
      /\ End(Started) \in SpanRecords /\ End(Started).ended /\ End(Started).status = "ok"
  BY OtherRequestsAre, EmptyResults, SpanOfCall DEF Blank, Answerable, NoResult
<1>2. TypeOK
  BY <1>1 DEF Init, TypeOK, Replies
<1>3. ASSUME NEW c \in Callers PROVE CallOK(c)
  BY <1>1 DEF Init, CallOK
<1> QED
  BY <1>2, <1>3 DEF CallsOK

\* CallsOK holds in every reachable state.
THEOREM CallsInvariant == Spec => []CallsOK
  BY CallsInit, CallsStep, PTL DEF Spec

\* Type correctness.
THEOREM TypeCorrect == Spec => []TypeOK
<1>1. CallsOK => TypeOK
  BY DEF CallsOK
<1> QED
  BY <1>1, CallsInvariant, PTL

\* A call that has returned has ended its span, with the status Error exactly
\* when it returned an error the options do not silence, whatever is lost and
\* however the calls of any number of goroutines interleave.
THEOREM SpansTellTheOutcome == Spec => []SpanTellsOutcome
<1>1. CallsOK => SpanTellsOutcome
  BY DEF CallsOK, CallOK, SpanTellsOutcome
<1> QED
  BY <1>1, CallsInvariant, PTL

-----------------------------------------------------------------------------
(* The winner of a race *)

\* The keys a caller was told it has set, or is about to be told.
Told(c) == {k \in Keys : \/ holds[c] = k
                         \/ fresh[c] /\ reply[c] = "ok" /\ call[c].keys[1] = k}

RaceInv ==
  /\ \A c \in Callers, k \in Keys : k \in Told(c) => store[k] # Missing
  /\ \A c, d \in Callers : c # d => Told(c) \cap Told(d) = {}

\* Lemma.  It survives a step that tells nobody of a key anew.
LEMMA NobodyIsTold ==
  ASSUME RaceInv,
         \A c \in Callers : Told(c)' \subseteq Told(c),
         \A c \in Callers, k \in Keys : k \in Told(c)' => store'[k] # Missing
  PROVE  RaceInv'
  BY DEF RaceInv

\* Lemma.  It survives every step.
LEMMA RaceStep == CallsOK /\ RaceInv /\ [Next]_vars => RaceInv'
<1> SUFFICES ASSUME CallsOK, RaceInv, [Next]_vars PROVE RaceInv'
  OBVIOUS
<1>1. TypeOK /\ \A c \in Callers : CallOK(c)
  BY DEF CallsOK
<1>2. CASE UNCHANGED vars
  BY <1>2, NobodyIsTold DEF RaceInv, Told, vars, callVars, histVars
<1>3. CASE TimePasses
  <2>1. PICK k \in Present :
          /\ store' = [store EXCEPT ![k] = Missing]
          /\ fresh' = [d \in Callers |-> fresh[d] /\ call[d].keys[1] # k]
          /\ holds' = [d \in Callers |-> IF holds[d] = k THEN NoKey ELSE holds[d]]
          /\ UNCHANGED <<call, reply>>
    BY <1>3 DEF TimePasses, callVars
  <2>2. \A d \in Callers : Told(d)' \subseteq Told(d) \ {k}
    BY <2>1, ValkeyAssumption DEF Told, Present
  <2>3. \A j \in Keys : j # k => store'[j] = store[j]
    BY <1>1, <2>1 DEF TypeOK
  <2> QED
    BY <2>2, <2>3, NobodyIsTold DEF RaceInv
<1>4. ASSUME NEW c \in Callers, NEW gone, NEW r, NEW x, Sends(c, r), History(c, gone),
             reply' = [reply EXCEPT ![c] = x],
             \A k \in Keys : store'[k] = Missing => store[k] = Missing \/ k \in gone
      PROVE  RaceInv'
  <2>1. pc[c] = "idle" /\ ~fresh[c] /\ call' = [call EXCEPT ![c] = r]
    BY <1>1, <1>4 DEF Sends, CallOK
  <2>2. /\ fresh' = [d \in Callers |-> fresh[d] /\ call[d].keys[1] \notin gone]
        /\ holds' = [d \in Callers |-> IF holds[d] \in gone THEN NoKey ELSE holds[d]]
    BY <1>4 DEF History
  <2>3. ASSUME NEW d \in Callers, NEW k \in Told(d)'
        PROVE  k \in Told(d) /\ k \notin gone
    <3>1. CASE holds'[d] = k
      BY <2>2, <2>3, <3>1, ValkeyAssumption DEF Told
    <3>2. CASE fresh'[d] /\ reply'[d] = "ok" /\ call'[d].keys[1] = k
      <4>1. d # c /\ fresh[d] /\ call[d].keys[1] \notin gone
        BY <2>1, <2>2, <3>2
      <4>2. reply'[d] = reply[d] /\ call'[d] = call[d]
        BY <1>1, <1>4, <2>1, <4>1 DEF TypeOK
      <4> QED
        BY <2>3, <3>2, <4>1, <4>2 DEF Told
    <3> QED
      BY <2>3, <3>1, <3>2 DEF Told
  <2> QED
    BY <1>4, <2>3, NobodyIsTold DEF RaceInv, Told
<1>5. ASSUME NEW c \in Callers, NEW op, ReturnsAtOnce(c, op)
      PROVE  RaceInv'
  <2>1. /\ History(c, {}) /\ UNCHANGED <<store, call, reply>>
    BY <1>5 DEF ReturnsAtOnce
  <2>2. \A d \in Callers : Told(d)' \subseteq Told(d)
    BY <2>1, ValkeyAssumption DEF Told, History
  <2> QED
    BY <2>1, <2>2, NobodyIsTold DEF RaceInv
<1>6. ASSUME NEW c \in Callers, NEW k \in Keys, NEW t \in Durations, NEW x \in Replies,
             Races(c, k, t, x)
      PROVE  RaceInv'
  <2> DEFINE r == [Call("SetNX", <<k>>) EXCEPT !.bounded = t > 0]
  <2>1. /\ Sends(c, r) /\ reply' = [reply EXCEPT ![c] = x]
        /\ \A j \in Keys : store'[j] = Missing => store[j] = Missing
        /\ x = "ok" => store[k] = Missing /\ store'[k] # Missing
        /\ fresh' = [fresh EXCEPT ![c] = TRUE] /\ holds' = holds
    BY <1>6 DEF Races
  <2>2. r.keys = <<k>>
    BY RequestsAre
  <2> HIDE DEF r
  <2>3. call' = [call EXCEPT ![c] = r]
    BY <2>1 DEF Sends
  <2>4. \A d \in Callers \ {c} : Told(d)' = Told(d)
    BY <1>1, <2>1, <2>3 DEF TypeOK, Told
  <2>5. Told(c)' \subseteq Told(c) \cup (IF x = "ok" THEN {k} ELSE {})
    BY <1>1, <2>1, <2>2, <2>3 DEF TypeOK, Told
  <2>6. x = "ok" => \A d \in Callers : k \notin Told(d)
    BY <2>1 DEF RaceInv
  <2>7. ASSUME NEW d \in Callers, NEW j \in Keys, j \in Told(d)'
        PROVE  store'[j] # Missing
    BY <2>1, <2>4, <2>5, <2>7 DEF RaceInv
  <2>8. ASSUME NEW d \in Callers, NEW e \in Callers, d # e
        PROVE  Told(d)' \cap Told(e)' = {}
    BY <2>4, <2>5, <2>6, <2>8 DEF RaceInv
  <2> QED
    BY <2>7, <2>8 DEF RaceInv
<1>7. ASSUME NEW c \in Callers, Scan(c) \/ ScanOn(c) \/ NextBatch(c)
      PROVE  RaceInv'
  <2>1. ~fresh[c]
    BY <1>1, <1>7 DEF CallOK, Scan, Sends, ScanOn, NextBatch
  <2>2. /\ UNCHANGED <<store, fresh, holds>>
        /\ \A d \in Callers \ {c} : reply'[d] = reply[d] /\ call'[d] = call[d]
    <3>1. store' = store
      BY <1>7 DEF Scan, ScanOn, NextBatch, Batch
    <3>2. UNCHANGED <<fresh, holds>>
      BY <1>7 DEF Scan, ScanOn, NextBatch, histVars
    <3>3. \A d \in Callers \ {c} : call'[d] = call[d]
      BY <1>1, <1>7 DEF Scan, Sends, ScanOn, NextBatch, TypeOK
    <3>4. \E x : reply' = [reply EXCEPT ![c] = x]
      BY <1>7 DEF Scan, ScanOn, NextBatch, Batch, Fails
    <3>5. \A d \in Callers \ {c} : reply'[d] = reply[d]
      BY <1>1, <3>4 DEF TypeOK
    <3> QED
      BY <3>1, <3>2, <3>3, <3>5
  <2>3. \A d \in Callers : Told(d)' \subseteq Told(d)
    BY <2>1, <2>2 DEF Told
  <2> QED
    BY <2>2, <2>3, NobodyIsTold DEF RaceInv
<1>8. ASSUME NEW c \in Callers, Return(c)
      PROVE  RaceInv'
  <2>1. /\ holds' = [holds EXCEPT ![c] =
              IF call[c].op = "SetNX" /\ Won(c) /\ fresh[c] THEN call[c].keys[1] ELSE holds[c]]
        /\ fresh' = [fresh EXCEPT ![c] = FALSE]
        /\ call' = [call EXCEPT ![c] = NoCall] /\ reply' = [reply EXCEPT ![c] = "none"]
        /\ store' = store
    BY <1>1, <1>8 DEF Return, TypeOK
  <2>2. Told(c)' \subseteq Told(c)
    BY <1>1, <2>1 DEF TypeOK, Told, Won
  <2>3. \A d \in Callers \ {c} : Told(d)' = Told(d)
    BY <1>1, <2>1 DEF TypeOK, Told
  <2> QED
    BY <2>1, <2>2, <2>3, NobodyIsTold DEF RaceInv
<1>9. ASSUME NEW c \in Callers, NEW r, NEW x, NEW gone, NEW held, Asks(c, r, x, gone, held)
      PROVE  RaceInv'
  BY <1>4, <1>9 DEF Asks
<1> QED
  BY <1>1, <1>2, <1>3, <1>5, <1>6, <1>7, <1>8, <1>9, Steps

\* RaceInv holds in every reachable state.
THEOREM RaceInvariant == Spec => []RaceInv
<1>1. Init => RaceInv
  BY ValkeyAssumption DEF Init, RaceInv, Told
<1>2. CallsOK /\ RaceInv /\ [Next]_vars => RaceInv'
  BY RaceStep
<1> QED
  BY <1>1, <1>2, CallsInvariant, PTL DEF Spec

\* No two of any number of callers of SetNX are told they have set a key,
\* from the moment it is there until it is removed.
THEOREM OneCallerWins == Spec => []OneHolder
<1>1. CallsOK /\ RaceInv => OneHolder
  BY DEF CallsOK, TypeOK, RaceInv, Told, OneHolder
<1> QED
  BY <1>1, CallsInvariant, RaceInvariant, PTL

-----------------------------------------------------------------------------
(* What a Scan finds *)

\* While a Scan goes on, what is there ever since it began is found, or comes
\* behind the cursor.
ScanOK(c) ==
  /\ pc[c] # "idle" /\ call[c].op = "Scan" =>
       /\ steady[c] \subseteq Present
       /\ reply[c] # "error" => steady[c] \subseteq found[c] \cup cursor[c]
  /\ result[c].op = "Scan" /\ ~ result[c].error => steady[c] \subseteq result[c].found

ScanInv == \A c \in Callers : ScanOK(c)

\* Lemma.  It survives what others do to the keys, when the history keeps track.
LEMMA OthersScan ==
  ASSUME ScanInv, NEW c \in Callers, NEW gone, steady'[c] \subseteq steady[c] \ gone,
         Present \ gone \subseteq Present', ~ (pc'[c] # "idle" /\ pc[c] = "idle"),
         call'[c] = call[c], reply'[c] = reply[c],
         UNCHANGED <<found[c], cursor[c], result[c]>>
  PROVE  ScanOK(c)'
<1>1. ScanOK(c)
  BY DEF ScanInv
<1> QED
  BY <1>1 DEF ScanOK

\* Lemma.  It survives every step.
LEMMA ScanStep == CallsOK /\ ScanInv /\ [Next]_vars => ScanInv'
<1> SUFFICES ASSUME CallsOK, ScanInv, [Next]_vars PROVE ScanInv'
  OBVIOUS
<1>1. TypeOK /\ \A c \in Callers : CallOK(c)
  BY DEF CallsOK
<1>2. CASE UNCHANGED vars
  BY <1>2 DEF ScanInv, ScanOK, Present, vars, callVars, histVars
<1>3. CASE TimePasses
  <2>1. PICK k \in Present :
          /\ store' = [store EXCEPT ![k] = Missing]
          /\ steady' = [d \in Callers |-> steady[d] \ {k}]
          /\ UNCHANGED callVars
    BY <1>3 DEF TimePasses
  <2>2. Present \ {k} \subseteq Present'
    BY <1>1, <2>1 DEF TypeOK, Present
  <2>3. ASSUME NEW d \in Callers PROVE ScanOK(d)'
    BY <2>1, <2>2, OthersScan DEF callVars
  <2> QED
    BY <2>3 DEF ScanInv
<1>4. ASSUME NEW c \in Callers, NEW r, NEW x, NEW gone, NEW held, Asks(c, r, x, gone, held)
      PROVE  ScanInv'
  <2>1. /\ r.op # "Scan" /\ pc' = [pc EXCEPT ![c] = "replied"] /\ call' = [call EXCEPT ![c] = r]
        /\ result' = [result EXCEPT ![c] = NoResult] /\ reply' = [reply EXCEPT ![c] = x]
        /\ UNCHANGED <<cursor, found>>
    BY <1>4 DEF Asks, Sends, NotScan
  <2>2. Present \ gone \subseteq Present'
    BY <1>4 DEF Asks, Present
  <2>3. steady' = [d \in Callers |-> IF d = c THEN {} ELSE steady[d] \ gone]
    BY <1>4 DEF Asks, History
  <2>4. ScanOK(c)'
    BY <1>1, <2>1, EmptyResults DEF ScanOK, TypeOK
  <2>5. ASSUME NEW d \in Callers, d # c PROVE ScanOK(d)'
    <3>1. /\ pc'[d] = pc[d] /\ call'[d] = call[d] /\ reply'[d] = reply[d]
          /\ UNCHANGED <<found[d], cursor[d], result[d]>>
      BY <1>1, <2>1, <2>5 DEF TypeOK
    <3> QED
      BY <2>2, <2>3, <2>5, <3>1, OthersScan
  <2> QED
    BY <2>4, <2>5 DEF ScanInv
<1>5. ASSUME NEW c \in Callers, NEW op \in {"other", "MGet"}, ReturnsAtOnce(c, op)
      PROVE  ScanInv'
  <2>1. /\ pc[c] = "idle" /\ result' = [result EXCEPT ![c] = [NoResult EXCEPT !.op = op]]
        /\ steady' = [d \in Callers |-> IF d = c THEN {} ELSE steady[d] \ {}]
        /\ UNCHANGED <<store, pc, call, reply, cursor, found>>
    BY <1>5 DEF ReturnsAtOnce, History, NotScan
  <2>2. ScanOK(c)'
    BY <1>1, <2>1, EmptyResults DEF ScanOK, TypeOK
  <2>3. ASSUME NEW d \in Callers, d # c PROVE ScanOK(d)'
    BY <1>1, <2>1, <2>3 DEF ScanInv, ScanOK, TypeOK, Present
  <2> QED
    BY <2>2, <2>3 DEF ScanInv
<1>6. ASSUME NEW c \in Callers, NEW k \in Keys, NEW t \in Durations, NEW x \in Replies,
             Races(c, k, t, x)
      PROVE  ScanInv'
  <2> DEFINE r == [Call("SetNX", <<k>>) EXCEPT !.bounded = t > 0]
  <2>1. /\ pc' = [pc EXCEPT ![c] = "replied"] /\ call' = [call EXCEPT ![c] = r]
        /\ result' = [result EXCEPT ![c] = NoResult] /\ reply' = [reply EXCEPT ![c] = x]
        /\ steady' = [steady EXCEPT ![c] = {}] /\ UNCHANGED <<cursor, found>>
    BY <1>6 DEF Races, Sends, NotScan
  <2>2. Present \subseteq Present'
    BY <1>6 DEF Races, Present
  <2>3. r.op = "SetNX"
    BY RequestsAre
  <2> HIDE DEF r
  <2>4. ScanOK(c)'
    BY <1>1, <2>1, <2>3, EmptyResults DEF ScanOK, TypeOK
  <2>5. ASSUME NEW d \in Callers, d # c PROVE ScanOK(d)'
    <3>1. /\ pc'[d] = pc[d] /\ call'[d] = call[d] /\ reply'[d] = reply[d] /\ steady'[d] = steady[d]
          /\ UNCHANGED <<found[d], cursor[d], result[d]>>
      BY <1>1, <2>1, <2>5 DEF TypeOK
    <3> QED
      BY <2>2, <3>1, OthersScan
  <2> QED
    BY <2>4, <2>5 DEF ScanInv
<1>7. ASSUME NEW c \in Callers, Scan(c)
      PROVE  ScanInv'
  <2>1. PICK x, cur, got : Gathers(c, Keys, x, cur, got)
    BY <1>1, <1>7, BatchGathers DEF Scan
  <2>2. /\ pc' = [pc EXCEPT ![c] = "replied"] /\ call' = [call EXCEPT ![c] = Call("Scan", << >>)]
        /\ result' = [result EXCEPT ![c] = NoResult] /\ steady' = [steady EXCEPT ![c] = Present]
    BY <1>7 DEF Scan, Sends
  <2>3. /\ reply' = [reply EXCEPT ![c] = x] /\ cursor' = [cursor EXCEPT ![c] = cur]
        /\ found' = [found EXCEPT ![c] = got] /\ x \in {"ok", "error"}
        /\ x = "ok" => Keys \cap Present \subseteq got \cup cur
        /\ Present' = Present
    BY <2>1 DEF Gathers, Present
  <2>4. ScanOK(c)'
    <3>1. Present \subseteq Keys
      BY DEF Present
    <3> QED
      BY <1>1, <2>2, <2>3, <3>1, EmptyResults DEF ScanOK, TypeOK
  <2>5. ASSUME NEW d \in Callers, d # c PROVE ScanOK(d)'
    <3>1. /\ pc'[d] = pc[d] /\ call'[d] = call[d] /\ reply'[d] = reply[d] /\ steady'[d] = steady[d]
          /\ UNCHANGED <<found[d], cursor[d], result[d]>>
      BY <1>1, <2>2, <2>3, <2>5 DEF TypeOK
    <3> QED
      BY <2>3, <3>1, OthersScan
  <2> QED
    BY <2>4, <2>5 DEF ScanInv
<1>8. ASSUME NEW c \in Callers, ScanOn(c)
      PROVE  ScanInv'
  <2>1. cursor[c] \in SUBSET Keys
    BY <1>1 DEF TypeOK
  <2>2. PICK x, cur, got : Gathers(c, cursor[c], x, cur, got)
    BY <1>1, <1>8, <2>1, BatchGathers DEF ScanOn
  <2>3. /\ pc[c] = "scanning" /\ pc' = [pc EXCEPT ![c] = "replied"]
        /\ UNCHANGED <<call, result, steady>>
    BY <1>8 DEF ScanOn, histVars
  <2>4. /\ reply' = [reply EXCEPT ![c] = x] /\ cursor' = [cursor EXCEPT ![c] = cur]
        /\ found' = [found EXCEPT ![c] = got] /\ x \in {"ok", "error"}
        /\ x = "ok" => cursor[c] \cap Present \subseteq got \cup cur
        /\ found[c] \subseteq got /\ Present' = Present
    BY <2>2 DEF Gathers, Present
  <2>5. ScanOK(c)'
    <3>1. /\ call[c].op = "Scan" /\ reply[c] = "none" /\ ScanOK(c)
          /\ result[c] = NoResult
      BY <1>1, <2>3 DEF CallOK, ScanInv
    <3>2. steady[c] \subseteq Present /\ steady[c] \subseteq found[c] \cup cursor[c]
      BY <2>3, <3>1 DEF ScanOK
    <3> QED
      BY <1>1, <2>3, <2>4, <3>1, <3>2, EmptyResults DEF ScanOK, TypeOK
  <2>6. ASSUME NEW d \in Callers, d # c PROVE ScanOK(d)'
    <3>1. /\ pc'[d] = pc[d] /\ call'[d] = call[d] /\ reply'[d] = reply[d] /\ steady'[d] = steady[d]
          /\ UNCHANGED <<found[d], cursor[d], result[d]>>
      BY <1>1, <2>3, <2>4, <2>6 DEF TypeOK
    <3> QED
      BY <2>4, <3>1, OthersScan
  <2> QED
    BY <2>5, <2>6 DEF ScanInv
<1>9. ASSUME NEW c \in Callers, NextBatch(c)
      PROVE  ScanInv'
  <2>1. /\ pc[c] = "replied" /\ pc' = [pc EXCEPT ![c] = "scanning"]
        /\ reply' = [reply EXCEPT ![c] = "none"] /\ reply[c] # "error"
        /\ UNCHANGED <<store, call, cursor, found, result, steady>>
    BY <1>9 DEF NextBatch, histVars, Errs
  <2>2. ASSUME NEW d \in Callers PROVE ScanOK(d)'
    BY <1>1, <2>1 DEF ScanInv, ScanOK, TypeOK, Present
  <2> QED
    BY <2>2 DEF ScanInv
<1>10. ASSUME NEW c \in Callers, Return(c)
      PROVE  ScanInv'
  <2>1. /\ pc[c] = "replied" /\ pc' = [pc EXCEPT ![c] = "idle"]
        /\ call[c].op = "Scan" => Errs(c) \/ cursor[c] = {}
        /\ call' = [call EXCEPT ![c] = NoCall] /\ reply' = [reply EXCEPT ![c] = "none"]
        /\ cursor' = [cursor EXCEPT ![c] = {}] /\ found' = [found EXCEPT ![c] = {}]
        /\ steady' = [steady EXCEPT ![c] = IF Errs(c) THEN {} ELSE steady[c]]
        /\ store' = store
    BY <1>1, <1>10 DEF Return, ScanDone, TypeOK
  <2>2. /\ \A d \in Callers \ {c} : result'[d] = result[d]
        /\ result'[c].op = (IF call[c].op \in {"Scan", "MGet"} THEN call[c].op ELSE "other")
        /\ result'[c].error = Errs(c) /\ result'[c].found = found[c]
    BY <1>1, <1>10 DEF Return, TypeOK
  <2>3. ScanOK(c)'
    <3>1. pc'[c] = "idle" /\ steady'[c] = (IF Errs(c) THEN {} ELSE steady[c])
      BY <1>1, <2>1 DEF TypeOK
    <3>2. ScanOK(c)
      BY DEF ScanInv
    <3> QED
      BY <2>1, <2>2, <3>1, <3>2 DEF ScanOK, Errs
  <2>4. ASSUME NEW d \in Callers, d # c PROVE ScanOK(d)'
    BY <1>1, <2>1, <2>2, <2>4 DEF ScanInv, ScanOK, TypeOK, Present
  <2> QED
    BY <2>3, <2>4 DEF ScanInv
<1> QED
  BY <1>1, <1>2, <1>3, <1>4, <1>5, <1>6, <1>7, <1>8, <1>9, <1>10, Steps

\* ScanInv holds in every reachable state.
THEOREM ScanInvariant == Spec => []ScanInv
<1>1. Init => ScanInv
  BY EmptyResults DEF Init, ScanInv, ScanOK
<1>2. CallsOK /\ ScanInv /\ [Next]_vars => ScanInv'
  BY ScanStep
<1> QED
  BY <1>1, <1>2, CallsInvariant, PTL DEF Spec

\* A Scan that returns no error has found every key that was there all along,
\* whatever batches the server cuts the keys into.
THEOREM ScansAreComplete == Spec => []ScanComplete
<1>1. ScanInv => ScanComplete
  BY DEF ScanInv, ScanOK, ScanComplete
<1> QED
  BY <1>1, ScanInvariant, PTL

-----------------------------------------------------------------------------
(* What an MGet hands out *)

MGetOK(c) ==
  result[c].op = "MGet" /\ ~ result[c].error =>
    result[c].pairs = {<<k, snapshot[c][k]>> : k \in {j \in Keys : snapshot[c][j] \notin {Missing, "empty"}}}

\* Lemma.  MGetExact survives every step.
LEMMA MGetStep == CallsOK /\ MGetExact /\ [Next]_vars => MGetExact'
<1> SUFFICES ASSUME CallsOK, MGetExact, [Next]_vars PROVE MGetExact'
  OBVIOUS
<1>1. /\ TypeOK /\ \A c \in Callers : CallOK(c)
      /\ \A c \in Callers : MGetOK(c)
  BY DEF CallsOK, MGetExact, MGetOK
<1>2. SUFFICES \A c \in Callers : MGetOK(c)'
  BY DEF MGetExact, MGetOK
<1>3. ASSUME UNCHANGED <<result, snapshot>>
      PROVE  \A c \in Callers : MGetOK(c)'
  BY <1>1, <1>3 DEF MGetOK
<1>4. ASSUME NEW c \in Callers, NEW held, snapshot' = [snapshot EXCEPT ![c] = held],
             NEW r, Sends(c, r)
      PROVE  \A d \in Callers : MGetOK(d)'
  <2>1. result' = [result EXCEPT ![c] = NoResult] /\ NoResult.op = "other"
    BY <1>4, EmptyResults DEF Sends
  <2>2. \A d \in Callers \ {c} : result'[d] = result[d] /\ snapshot'[d] = snapshot[d]
    BY <1>1, <1>4, <2>1 DEF TypeOK
  <2>3. result'[c].op = "other"
    BY <1>1, <2>1 DEF TypeOK
  <2> QED
    BY <1>1, <2>2, <2>3 DEF MGetOK
<1>5. ASSUME NEW c \in Callers, NEW r, NEW x, NEW gone, NEW held, Asks(c, r, x, gone, held)
      PROVE  \A d \in Callers : MGetOK(d)'
  BY <1>4, <1>5 DEF Asks
<1>6. ASSUME NEW c \in Callers, NEW op \in {"other", "MGet"}, ReturnsAtOnce(c, op)
      PROVE  \A d \in Callers : MGetOK(d)'
  <2>1. /\ result' = [result EXCEPT ![c] = [NoResult EXCEPT !.op = op]]
        /\ snapshot' = [snapshot EXCEPT ![c] = Blank]
    BY <1>6 DEF ReturnsAtOnce, NotMGet
  <2>2. \A d \in Callers \ {c} : result'[d] = result[d] /\ snapshot'[d] = snapshot[d]
    BY <1>1, <2>1 DEF TypeOK
  <2>3. result'[c].pairs = {} /\ \A k \in Keys : snapshot'[c][k] = Missing
    BY <1>1, <2>1, EmptyResults DEF TypeOK, Blank
  <2>4. {<<k, snapshot'[c][k]>> : k \in {j \in Keys : snapshot'[c][j] \notin {Missing, "empty"}}} = {}
    BY <2>3
  <2> SUFFICES ASSUME NEW d \in Callers PROVE MGetOK(d)'
    OBVIOUS
  <2>5. CASE d = c
    BY <2>3, <2>4, <2>5 DEF MGetOK
  <2>6. CASE d # c
    BY <1>1, <2>2, <2>6 DEF MGetOK
  <2> QED
    BY <2>5, <2>6
<1>7. ASSUME NEW c \in Callers, NEW k \in Keys, NEW t \in Durations, NEW x \in Replies,
             Races(c, k, t, x)
      PROVE  \A d \in Callers : MGetOK(d)'
  BY <1>4, <1>7 DEF Races, NotMGet
<1>8. ASSUME NEW c \in Callers, Scan(c)
      PROVE  \A d \in Callers : MGetOK(d)'
  BY <1>4, <1>8 DEF Scan, NotMGet
<1>9. ASSUME NEW c \in Callers, Return(c)
      PROVE  \A d \in Callers : MGetOK(d)'
  <2> DEFINE ks == call[c].keys
             was == snapshot[c]
  <2>1. /\ \A d \in Callers \ {c} : result'[d] = result[d]
        /\ result'[c].op = (IF call[c].op \in {"Scan", "MGet"} THEN call[c].op ELSE "other")
        /\ result'[c].error = Errs(c)
        /\ result'[c].pairs = (IF call[c].op = "MGet" /\ ~ Errs(c) THEN PairsOf(c) ELSE {})
    BY <1>1, <1>9 DEF Return, TypeOK
  <2>2. /\ \A d \in Callers \ {c} : snapshot'[d] = snapshot[d]
        /\ snapshot'[c] = [k \in Keys |-> IF k \in ToSet(ks) /\ ~ Errs(c) THEN was[k] ELSE Missing]
    BY <1>1, <1>9 DEF Return, TypeOK
  <2>3. ToSet(ks) \subseteq Keys
    <3>1. ks \in KeyLists
      BY <1>1 DEF TypeOK, Calls
    <3> QED
      BY <3>1, KeyListsAre DEF ToSet
  <2>4. PairsOf(c) = {<<k, was[k]>> : k \in {j \in ToSet(ks) : was[j] \notin {Missing, "empty"}}}
    BY <1>1, PairsAre
  <2> HIDE DEF ks, was
  <2>5. ASSUME result'[c].op = "MGet", ~ result'[c].error
        PROVE  result'[c].pairs =
                 {<<k, snapshot'[c][k]>> : k \in {j \in Keys : snapshot'[c][j] \notin {Missing, "empty"}}}
    <3>1. ~ Errs(c) /\ result'[c].pairs = PairsOf(c)
      BY <2>1, <2>5
    <3>2. {j \in Keys : snapshot'[c][j] \notin {Missing, "empty"}} = {j \in ToSet(ks) : was[j] \notin {Missing, "empty"}}
      BY <2>2, <2>3, <3>1
    <3>3. \A k \in ToSet(ks) : snapshot'[c][k] = was[k]
      BY <2>2, <2>3, <3>1
    <3> QED
      BY <2>4, <3>1, <3>2, <3>3
  <2>6. ASSUME NEW d \in Callers PROVE MGetOK(d)'
    <3>1. CASE d = c
      BY <2>5, <3>1 DEF MGetOK
    <3>2. CASE d # c
      BY <1>1, <2>1, <2>2, <3>2 DEF MGetOK
    <3> QED
      BY <3>1, <3>2
  <2> QED
    BY <2>6
<1>10. CASE TimePasses
  BY <1>3, <1>10 DEF TimePasses, callVars
<1>11. CASE UNCHANGED vars
  BY <1>3, <1>11 DEF vars, callVars
<1>12. ASSUME NEW c \in Callers, ScanOn(c) \/ NextBatch(c)
       PROVE  \A d \in Callers : MGetOK(d)'
  BY <1>3, <1>12 DEF ScanOn, NextBatch
<1> QED
  BY <1>1, <1>5, <1>6, <1>7, <1>8, <1>9, <1>10, <1>11, <1>12, Steps

\* MGet hands out the values its keys held, all at one moment and each with its own
\* key, and leaves out the missing keys and those that held an empty string, for any
\* number of keys and any values.
THEOREM MGetsAreExact == Spec => []MGetExact
<1>1. Init => MGetExact
  BY EmptyResults DEF Init, MGetExact
<1> QED
  BY <1>1, MGetStep, CallsInvariant, PTL DEF Spec

-----------------------------------------------------------------------------
(* Times to live *)

\* What a call of c that is sent may do to the time to live of its key.
Bounds(c) ==
  LET k == call'[c].keys[1] IN
  /\ call'[c].op \in {"Set", "SetNX"} /\ call'[c].bounded =>
       ((store'[k] # store[k] \/ reply'[c] = "ok") => store'[k].expires)
  /\ call'[c].op = "Expire" /\ store[k] # Missing =>
       /\ store'[k] # Missing
       /\ (reply'[c] = "ok" => store'[k].expires)

\* Lemma.  What is sent to EXPIRE is a second at least.
LEMMA ExpireSecondsArePositive == \A d \in Durations : ExpireSeconds(d) > 0
<1>1. ASSUME NEW d \in Durations PROVE d \div 1000 \in Int
  BY DEF Durations
<1> QED
  BY <1>1 DEF ExpireSeconds

\* Lemma.  Set and SetNX with a time to live write a key that expires.
LEMMA SetsBound ==
  ASSUME TypeOK, NEW c \in Callers, Set(c) \/ SetNX(c)
  PROVE  Bounds(c)
<1>1. PICK op \in {"Set", "SetNX"}, k \in Keys, d \in Durations, v \in Values :
        /\ Sends(c, [Call(op, <<k>>) EXCEPT !.bounded = d > 0])
        /\ \/ /\ store' = [store EXCEPT ![k] = [value |-> v, expires |-> WithTtl(d)]]
              /\ Answers(c, "ok")
           \/ Answers(c, "nil") /\ UNCHANGED store
           \/ Fails(c) /\ UNCHANGED store
  <2>1. CASE Set(c)
    <3>1. PICK k \in Keys, v \in Values, d \in Durations :
            /\ Sends(c, [Call("Set", <<k>>) EXCEPT !.bounded = d > 0])
            /\ \/ /\ store' = [store EXCEPT ![k] = [value |-> v, expires |-> WithTtl(d)]]
                  /\ Answers(c, "ok")
               \/ Fails(c) /\ UNCHANGED store
      BY <2>1 DEF Set
    <3> QED
      BY <3>1
  <2>2. CASE SetNX(c)
    <3>1. PICK k \in Keys, d \in Durations :
            /\ Sends(c, [Call("SetNX", <<k>>) EXCEPT !.bounded = d > 0])
            /\ \/ /\ store' = [store EXCEPT ![k] = [value |-> "number", expires |-> WithTtl(d)]]
                  /\ Answers(c, "ok")
               \/ Answers(c, "nil") /\ UNCHANGED store
               \/ Fails(c) /\ UNCHANGED store
      BY <2>2 DEF SetNX
    <3>2. "number" \in Values
      BY DEF Values
    <3> QED
      BY <3>1, <3>2
  <2> QED
    BY <2>1, <2>2
<1> DEFINE r == [Call(op, <<k>>) EXCEPT !.bounded = d > 0]
<1>2. r.op = op /\ r.keys = <<k>> /\ r.bounded = (d > 0)
  BY RequestsAre
<1> HIDE DEF r
<1>3. call' = [call EXCEPT ![c] = r]
  BY <1>1 DEF Sends, r
<1>4. call'[c] = r /\ call'[c].keys[1] = k
  BY <1>2, <1>3 DEF TypeOK
<1>5. \/ store'[k].expires = (d > 0)
      \/ store'[k] = store[k] /\ reply'[c] # "ok"
  BY <1>1 DEF TypeOK, WithTtl, Answers, Fails
<1> QED
  BY <1>1, <1>2, <1>4, <1>5 DEF Bounds

\* Lemma.  Expire removes nothing, and answers once the key expires.
LEMMA ExpireBounds ==
  ASSUME TypeOK, NEW c \in Callers, Expire(c)
  PROVE  Bounds(c)
<1>1. PICK k \in Keys, d \in Durations :
        /\ Sends(c, Call("Expire", <<k>>))
        /\ \/ store[k] # Missing /\ store' = [store EXCEPT ![k].expires = TRUE]
           \/ ExpireSeconds(d) = 0
           \/ store[k] = Missing
           \/ Fails(c) /\ UNCHANGED store
  BY DEF Expire
<1>2. ExpireSeconds(d) # 0
  <2>1. ExpireSeconds(d) \in Int /\ ExpireSeconds(d) > 0
    BY ExpireSecondsArePositive DEF ExpireSeconds, Durations
  <2> QED
    BY <2>1
<1>3. /\ call'[c] = Call("Expire", <<k>>)
      /\ call'[c].keys = <<k>> /\ call'[c].keys[1] = k /\ call'[c].op = "Expire"
  <2>1. call'[c] = Call("Expire", <<k>>)
    BY <1>1 DEF Sends, TypeOK
  <2>2. Call("Expire", <<k>>).keys = <<k>> /\ Call("Expire", <<k>>).op = "Expire"
    BY DEF Call
  <2> QED
    BY <2>1, <2>2
<1>4. CASE store[k] # Missing /\ store' = [store EXCEPT ![k].expires = TRUE]
  <2>1. store[k] \in [value : Values, expires : BOOLEAN]
    BY <1>4 DEF TypeOK
  <2>2. store'[k] = [store[k] EXCEPT !.expires = TRUE]
    BY <1>4 DEF TypeOK
  <2>3. store'[k].expires /\ store'[k] # Missing
    BY <2>1, <2>2, ValkeyAssumption DEF Values
  <2> QED
    BY <1>3, <2>3 DEF Bounds
<1>5. CASE Fails(c) /\ UNCHANGED store
  BY <1>3, <1>5 DEF Bounds, Fails, TypeOK
<1> QED
  BY <1>1, <1>2, <1>3, <1>4, <1>5 DEF Bounds

\* Lemma.  A step that sends a call of c.
LEMMA SentCalls ==
  ASSUME TypeOK, Next, NEW c \in Callers, pc[c] = "idle", pc'[c] = "replied"
  PROVE  Bounds(c)
<1>1. PICK d \in Callers : Step(d)
  BY DEF Next, TimePasses, callVars
<1>2. d = c
  <2>1. UNCHANGED pc \/ \E state : pc' = [pc EXCEPT ![d] = state]
    BY <1>1 DEF Step, Exists, Get, Set, Increment, Expire, SetNX, Delete, MGet, Scan, ScanOn,
                Elsewhere, Subscribe, NextBatch, Return, Sends, ReturnsAtOnce
  <2> QED
    BY <2>1 DEF TypeOK
<1>3. CASE Set(c) \/ SetNX(c) \/ Expire(c)
  BY <1>3, SetsBound, ExpireBounds
<1>4. ASSUME NEW r, Sends(c, r), r.op \notin {"Set", "SetNX", "Expire"}
      PROVE  Bounds(c)
  <2>1. call'[c] = r
    BY <1>4 DEF Sends, TypeOK
  <2> QED
    BY <1>4, <2>1 DEF Bounds
<1>5. CASE \/ Exists(c) \/ Get(c) \/ Increment(c) \/ Delete(c) \/ MGet(c)
           \/ Scan(c) \/ Elsewhere(c) \/ Subscribe(c)
  <2>1. ~ \E op : ReturnsAtOnce(c, op)
    BY DEF ReturnsAtOnce
  <2>2. \E r : Sends(c, r) /\ r.op \notin {"Set", "SetNX", "Expire"}
    <3>1. CASE Get(c)
      <4>1. PICK b \in BOOLEAN : Sends(c, [Call("Get", << >>) EXCEPT !.onNotFound = b])
        BY <3>1 DEF Get
      <4> QED
        BY <4>1 DEF Call
    <3>2. CASE MGet(c)
      <4>1. PICK ks : Sends(c, Call("MGet", ks))
        BY <2>1, <3>2 DEF MGet
      <4> QED
        BY <4>1 DEF Call
    <3>3. CASE Scan(c)
      BY <3>3, OtherRequestsAre DEF Scan
    <3>4. CASE Exists(c) \/ Increment(c) \/ Delete(c) \/ Elsewhere(c) \/ Subscribe(c)
      BY <2>1, <3>4, OtherRequestsAre DEF Exists, Increment, Delete, Elsewhere, Subscribe
    <3> QED
      BY <1>5, <3>1, <3>2, <3>3, <3>4
  <2> QED
    BY <1>4, <2>2
<1>6. ~ ScanOn(c) /\ ~ NextBatch(c) /\ ~ Return(c)
  BY DEF ScanOn, NextBatch, Return
<1> QED
  BY <1>1, <1>2, <1>3, <1>5, <1>6 DEF Step

\* A write with a time to live that returned nil, or may have been made, leaves
\* no key that lives forever, and Expire removes no key, with any keys and
\* callers.
THEOREM TtlsAreKept == Spec => TtlKept
<1>1. TypeOK /\ [Next]_vars =>
        [\A c \in Callers : pc[c] = "idle" /\ pc'[c] = "replied" => Bounds(c)]_vars
  BY SentCalls
<1>2. TypeOK /\ [Next]_vars =>
        [\A c \in Callers : pc[c] = "idle" /\ pc'[c] = "replied" =>
           LET k == call'[c].keys[1] IN
           /\ call'[c].op \in {"Set", "SetNX"} /\ call'[c].bounded =>
                ((store'[k] # store[k] \/ reply'[c] = "ok") => store'[k].expires)
           /\ call'[c].op = "Expire" /\ store[k] # Missing =>
                /\ store'[k] # Missing
                /\ (reply'[c] = "ok" => store'[k].expires)]_vars
  BY <1>1 DEF Bounds
<1> QED
  BY <1>2, TypeCorrect, PTL DEF Spec, TtlKept

=============================================================================
