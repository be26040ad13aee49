-------------------------- MODULE PresenterProofs --------------------------
(***************************************************************************)
(* Theorems about Presenter, for any number of resolvers, keys and         *)
(* entries.  EntriesInv relates the errors of the response to how far each *)
(* resolver is; ExtensionsInv relates who registered which key to the      *)
(* range each resolver is in.                                              *)
(***************************************************************************)
EXTENDS Presenter, FiniteSetTheorems, TLAPS

Entries(r) == 1 .. Len(stack[r].paths)

\* The entries of a resolver that the response has: errorPresenter reports the
\* first one last.
Told(r) ==
  CASE pc[r] = "running" -> {}
    [] pc[r] = "adding" -> 1 .. at[r] - 1
    [] pc[r] = "fanning" -> 2 .. at[r] - 1
    [] pc[r] = "done" -> Entries(r)
    [] OTHER -> 2 .. Len(stack[r].paths)

\* How far a resolver is, and with what.
PlaceOK(r) ==
  /\ pc[r] = "running" => stack[r] = NoStack
  /\ pc[r] = "adding" => at[r] \in 1 .. Len(stack[r].paths) + 1
  /\ pc[r] \in {"fanning", "forwarding", "registering", "writing"} => stack[r].paths # << >>
  /\ pc[r] = "fanning" => at[r] \in 2 .. Len(stack[r].paths) + 1
  /\ pc[r] \in {"registering", "writing"} => left[r] # << >>

\* The errors of the response are the entries told, each once and in its place.
ErrorsOK ==
  /\ \A r \in Resolvers : \A n \in DOMAIN errors : errors[n].from = r =>
       IF errors[n].entry = 0
       THEN pc[r] = "done" /\ stack[r].paths = << >>
       ELSE errors[n].entry \in Told(r) /\ errors[n].path = Due(r, errors[n].entry)
  /\ \A m, n \in DOMAIN errors :
       errors[m].from = errors[n].from /\ errors[m].entry = errors[n].entry => m = n
  /\ \A r \in Resolvers : \A i \in Told(r) :
       \E n \in DOMAIN errors : errors[n].from = r /\ errors[n].entry = i

\* The mutex of RegisterExtension is held by who writes, and a response is sent
\* by resolvers that are done.
LockOK ==
  /\ \A r \in Resolvers : pc[r] = "writing" <=> writer = r
  /\ state = "sent" => \A r \in Resolvers : pc[r] = "done"

EntriesInv == TypeOK /\ LockOK /\ (\A r \in Resolvers : PlaceOK(r)) /\ ErrorsOK

-----------------------------------------------------------------------------
(* The types                                                               *)

\* The orders in which a range may visit a set of keys.
LEMMA RangeOrders ==
  ASSUME NEW S \in SUBSET Keys, NEW order \in SetToSeqs(S)
  PROVE  /\ order \in Seq(Keys)
         /\ \A i, j \in DOMAIN order : order[i] = order[j] => i = j
         /\ \A i \in DOMAIN order : order[i] \in S
         /\ \A k \in S : \E i \in DOMAIN order : order[i] = k
<1> DEFINE n == Cardinality(S)
<1>1. IsFiniteSet(S) /\ n \in Nat
  BY PresenterAssumption, FS_Subset, FS_CardinalityType
<1>2. /\ order \in [1 .. n -> S]
      /\ \A i, j \in 1 .. n : i # j => order[i] # order[j]
  BY DEF SetToSeqs
<1>3. order \in Seq(Keys) /\ DOMAIN order = 1 .. n
  BY <1>1, <1>2
<1>4. order \in Injection(1 .. n, S)
  BY <1>2 DEF Injection, IsInjective
<1>5. Cardinality(1 .. n) = n
  BY <1>1, FS_Interval
<1>6. order \in Surjection(1 .. n, S)
  BY <1>1, <1>4, <1>5, FS_Injection
<1> QED
  BY <1>2, <1>3, <1>6 DEF Surjection

\* A stack of the type of the model has a list of paths.
LEMMA StackTypes ==
  ASSUME NEW s \in Stacks
  PROVE  /\ s.paths \in Seq({"own", "none"}) /\ Len(s.paths) \in 0 .. MaxEntries
         /\ s.keys \in SUBSET Keys
         /\ \A i \in 1 .. Len(s.paths) : s.paths[i] \in {"own", "none"}
<1>1. PICK n \in 0 .. MaxEntries : s.paths \in [1 .. n -> {"own", "none"}]
  BY DEF Stacks
<1>2. s.keys \in SUBSET Keys
  BY DEF Stacks
<1> QED
  BY <1>1, <1>2, PresenterAssumption

\* The stack at first is one.
LEMMA NoStackType == NoStack \in Stacks
<1>1. << >> \in [1 .. 0 -> {"own", "none"}] /\ 0 \in 0 .. MaxEntries
  BY PresenterAssumption
<1> QED
  BY <1>1 DEF NoStack, Stacks

\* Every variable keeps its type.
LEMMA TypeStep ==
  ASSUME EntriesInv, [Next]_vars
  PROVE  TypeOK'
<1> USE PresenterAssumption DEF TypeOK, Goto
<1>0. TypeOK /\ \A r \in Resolvers : PlaceOK(r)
  BY DEF EntriesInv
<1>1. ASSUME NEW r \in Resolvers, Succeed(r) \/ EndAddErrors(r) \/ Miss(r) \/ EndForward(r) \/ Collide(r),
             state' \in {state, "dead"}
      PROVE  TypeOK'
  BY <1>0, <1>1 DEF Succeed, EndAddErrors, Miss, EndForward, Collide
<1>2. ASSUME NEW r \in Resolvers, Fail(r) \/ CallAddErrors(r), UNCHANGED state
      PROVE  TypeOK'
  <2>1. PICK s \in Stacks : stack' = [stack EXCEPT ![r] = s]
    BY <1>2 DEF Fail, CallAddErrors
  <2>2. UNCHANGED <<view, left, errors, extensions, writer, state>> /\ pc' \in [Resolvers -> {"running", "adding", "fanning", "forwarding",
                           "registering", "writing", "returning", "done"}]
    BY <1>0, <1>2 DEF Fail, CallAddErrors
  <2>3. CASE at' = at
    BY <1>0, <2>1, <2>2, <2>3
  <2>4. CASE at' = [at EXCEPT ![r] = 1]
    BY <1>0, <2>1, <2>2, <2>4
  <2>5. CASE at' = [at EXCEPT ![r] = 2] /\ s.paths # << >>
    <3>1. Len(s.paths) \in 0 .. MaxEntries /\ s.paths \in Seq({"own", "none"})
      BY StackTypes
    <3>2. MaxEntries >= 1
      BY <2>5, <3>1
    <3> QED
      BY <1>0, <2>1, <2>2, <2>5, <3>2
  <2>6. s.paths = (stack'[r]).paths
    BY <1>0, <2>1
  <2> QED
    BY <1>0, <1>2, <2>1, <2>3, <2>4, <2>5, <2>6 DEF Fail, CallAddErrors, FanFirst
<1>3. ASSUME NEW r \in Resolvers, AddEntry(r) \/ Return(r), UNCHANGED state
      PROVE  TypeOK'
  <2>1. stack[r] \in Stacks
    BY <1>0
  <2>2. /\ Len(stack[r].paths) \in 0 .. MaxEntries
        /\ \A i \in 1 .. Len(stack[r].paths) : stack[r].paths[i] \in {"own", "none"}
        /\ stack[r].paths # << >> => Len(stack[r].paths) > 0
    BY <2>1, StackTypes
  <2>3. PICK i \in 0 .. MaxEntries : AddError(r, i)
    <3>1. CASE AddEntry(r)
      <4>1. at[r] \in 0 .. MaxEntries
        BY <1>0, <2>2, <3>1 DEF AddEntry
      <4> QED
        BY <3>1, <4>1 DEF AddEntry
    <3>2. CASE Return(r)
      <4>1. (IF stack[r].paths = << >> THEN 0 ELSE 1) \in 0 .. MaxEntries
        BY <2>2
      <4> QED
        BY <3>2, <4>1 DEF Return
    <3> QED
      BY <1>3, <3>1, <3>2
  <2>4. errors' \in Seq(Reported)
    <3>1. [from |-> r, entry |-> i, path |-> IF i = 0 THEN r ELSE PathOf(r, i)] \in Reported
      BY DEF Reported, PathOf
    <3> QED
      BY <1>0, <2>3, <3>1 DEF AddError
  <2>5. at' \in [Resolvers -> 0 .. MaxEntries + 1]
    <3>1. CASE AddEntry(r)
      <4>1. at[r] + 1 \in 0 .. MaxEntries + 1
        BY <1>0, <2>2, <3>1 DEF AddEntry
      <4> QED
        BY <1>0, <3>1, <4>1 DEF AddEntry
    <3>2. CASE Return(r)
      BY <1>0, <3>2 DEF Return
    <3> QED
      BY <1>3, <3>1, <3>2
  <2> QED
    BY <1>0, <1>3, <2>4, <2>5 DEF AddEntry, Return
<1>4. ASSUME NEW r \in Resolvers, Forward(r), UNCHANGED state PROVE TypeOK'
  <2>1. stack[r].keys \in SUBSET Keys
    BY <1>0, StackTypes
  <2>2. left' \in [Resolvers -> Seq(Keys)]
    <3>1. CASE \E order \in SetToSeqs(stack[r].keys) : left' = [left EXCEPT ![r] = order]
      <4>1. PICK order \in SetToSeqs(stack[r].keys) : left' = [left EXCEPT ![r] = order]
        BY <3>1
      <4>2. order \in Seq(Keys)
        BY <2>1, RangeOrders
      <4> QED
        BY <1>0, <4>1, <4>2
    <3> QED
      BY <1>0, <1>4, <3>1 DEF Forward
  <2> QED
    BY <1>0, <1>4, <2>2 DEF Forward
<1>5. ASSUME NEW r \in Resolvers, Skip(r) \/ Register(r) \/ Written(r), UNCHANGED state
      PROVE  TypeOK'
  <2>1. left[r] # << >>
    BY <1>0, <1>5 DEF Skip, Register, Written, PlaceOK
  <2>2. left[r] \in Seq(Keys) /\ Tail(left[r]) \in Seq(Keys) /\ Head(left[r]) \in Keys
    BY <1>0, <2>1
  <2>3. CASE Skip(r)
    BY <1>0, <1>5, <2>2, <2>3 DEF Skip, Rest
  <2>4. CASE Register(r)
    <3>1. left' \in [Resolvers -> Seq(Keys)]
      <4>1. CASE left' = [left EXCEPT ![r] = << >>]
        <5>1. << >> \in Seq(Keys)
          OBVIOUS
        <5> QED
          BY <1>0, <4>1, <5>1
      <4> QED
        BY <1>0, <2>4, <4>1 DEF Register
    <3> QED
      BY <1>0, <1>5, <2>4, <3>1 DEF Register
  <2>5. CASE Written(r)
    BY <1>0, <1>5, <2>2, <2>5 DEF Written
  <2> QED
    BY <1>5, <2>3, <2>4, <2>5
<1>6. CASE Send
  BY <1>0, <1>6 DEF Send
<1>7. CASE Ended \/ UNCHANGED vars
  BY <1>0, <1>7 DEF Ended, vars
<1> QED
  BY <1>1, <1>2, <1>3, <1>4, <1>5, <1>6, <1>7 DEF EntriesInv, Next, Step, Collide

-----------------------------------------------------------------------------
(* The entries                                                             *)

\* Who holds the mutex, and that nobody steps once the response is sent.
LEMMA LockStep ==
  ASSUME EntriesInv, [Next]_vars
  PROVE  LockOK'
<1> USE PresenterAssumption DEF EntriesInv, LockOK, TypeOK, Goto
<1>1. ASSUME NEW r \in Resolvers, Step(r) \/ Collide(r), state = "serving",
             state' \in {"serving", "dead"}
      PROVE  LockOK'
  <2>1. CASE Register(r) \/ Written(r)
    BY <1>1, <2>1 DEF Register, Written
  <2>2. CASE ~ (Register(r) \/ Written(r))
    <3>1. /\ writer' = writer /\ pc[r] # "writing" /\ pc'[r] # "writing"
          /\ \A s \in Resolvers \ {r} : pc'[s] = pc[s]
      BY <1>1, <2>2 DEF Step, Collide, Succeed, Fail, CallAddErrors, AddEntry, EndAddErrors,
         Forward, Skip, Miss, EndForward, Return
    <3> QED
      BY <1>1, <3>1
  <2> QED
    BY <2>1, <2>2
<1>2. CASE Send \/ Ended \/ UNCHANGED vars
  BY <1>2 DEF Send, Ended, vars
<1> QED
  BY <1>1, <1>2 DEF Next, Collide

\* Each resolver is where its stack and its counter say.
LEMMA PlaceStep ==
  ASSUME EntriesInv, [Next]_vars
  PROVE  \A r \in Resolvers : PlaceOK(r)'
<1>0. TypeOK /\ \A r \in Resolvers : PlaceOK(r)
  BY DEF EntriesInv
<1>1. ASSUME NEW r \in Resolvers, Step(r) \/ Collide(r) PROVE \A s \in Resolvers : PlaceOK(s)'
  <2>1. ASSUME NEW s \in Resolvers, s # r PROVE PlaceOK(s)'
    <3>1. /\ pc'[s] = pc[s] /\ stack'[s] = stack[s] /\ at'[s] = at[s] /\ left'[s] = left[s]
      BY <1>0, <1>1, <2>1 DEF TypeOK, Goto, Step, Collide, Succeed, Fail, CallAddErrors, AddEntry,
         EndAddErrors, Forward, Skip, Miss, Register, Written, EndForward, Return
    <3> QED
      BY <1>0, <3>1 DEF PlaceOK
  <2>2. PlaceOK(r)'
    <3> USE <1>0 DEF PlaceOK, TypeOK, Goto
    <3>0. /\ Len(stack[r].paths) \in Nat /\ (stack[r].paths # << >> => Len(stack[r].paths) > 0)
          /\ at[r] \in Nat
      <4>1. stack[r] \in Stacks
        OBVIOUS
      <4> QED
        BY <4>1, StackTypes
    <3>1. CASE Succeed(r) \/ EndAddErrors(r) \/ Miss(r) \/ EndForward(r) \/ Collide(r)
      BY <3>1 DEF Succeed, EndAddErrors, Miss, EndForward, Collide
    <3>2. CASE Fail(r) \/ CallAddErrors(r)
      <4>1. PICK s \in Stacks : stack' = [stack EXCEPT ![r] = s]
        BY <3>2 DEF Fail, CallAddErrors
      <4>2. stack'[r] = s /\ Len(s.paths) \in Nat /\ (s.paths # << >> => Len(s.paths) > 0)
        BY <4>1, StackTypes
      <4>3. CASE Fail(r)
        BY <3>2, <4>1, <4>2, <4>3 DEF Fail, FanFirst
      <4>4. CASE CallAddErrors(r)
        BY <3>2, <4>1, <4>2, <4>4 DEF CallAddErrors
      <4> QED
        BY <3>2, <4>3, <4>4
    <3>3. CASE AddEntry(r)
      BY <3>0, <3>3 DEF AddEntry
    <3>4. CASE Forward(r) \/ Skip(r) \/ Return(r)
      BY <3>4 DEF Forward, Skip, Return
    <3>5. CASE Register(r) \/ Written(r)
      BY <3>5 DEF Register, Written
    <3> QED
      BY <1>1, <3>1, <3>2, <3>3, <3>4, <3>5 DEF Step
  <2> QED
    BY <2>1, <2>2
<1>2. CASE Send \/ Ended \/ UNCHANGED vars
  <2>1. UNCHANGED <<pc, stack, at, left>>
    BY <1>2 DEF Send, Ended, vars
  <2> QED
    BY <1>0, <2>1 DEF PlaceOK
<1> QED
  BY <1>1, <1>2 DEF Next

\* A step that appends no error.
LEMMA NothingAdded ==
  ASSUME EntriesInv, UNCHANGED errors,
         \A r \in Resolvers :
           /\ Told(r)' = Told(r)
           /\ pc[r] # "running" => stack'[r] = stack[r]
           /\ pc[r] = "done" => pc'[r] = "done"
  PROVE  ErrorsOK'
<1> USE DEF EntriesInv, ErrorsOK
<1>1. ASSUME NEW r \in Resolvers, NEW n \in DOMAIN errors, errors[n].from = r
      PROVE  IF errors[n].entry = 0
             THEN pc'[r] = "done" /\ stack'[r].paths = << >>
             ELSE errors[n].entry \in Told(r)' /\ errors[n].path = Due(r, errors[n].entry)'
  <2>1. pc[r] # "running"
    BY <1>1 DEF Told
  <2>2. stack'[r] = stack[r] /\ Told(r)' = Told(r)
    BY <2>1
  <2> QED
    BY <1>1, <2>2 DEF Due
<1>4. \A r \in Resolvers : \A i \in Told(r)' :
        \E n \in DOMAIN errors' : errors'[n].from = r /\ errors'[n].entry = i
  OBVIOUS
<1>5. \A m, n \in DOMAIN errors :
        errors[m].from = errors[n].from /\ errors[m].entry = errors[n].entry => m = n
  OBVIOUS
<1> QED
  BY <1>1, <1>4, <1>5 DEF Due

\* A step that appends the entry i of the resolver r.
LEMMA EntryAdded ==
  ASSUME EntriesInv, NEW r \in Resolvers, NEW i \in 0 .. MaxEntries, AddError(r, i),
         UNCHANGED stack,
         \A s \in Resolvers : (s # r => Told(s)' = Told(s)) /\ (pc[s] = "done" => pc'[s] = "done"),
         i = 0 => pc[r] # "done" /\ pc'[r] = "done" /\ stack[r].paths = << >>,
         i # 0 => i \in Entries(r) \ Told(r),
         Told(r)' = Told(r) \cup ({i} \ {0})
  PROVE  ErrorsOK'
<1> USE DEF EntriesInv
<1> DEFINE e == [from |-> r, entry |-> i, path |-> IF i = 0 THEN r ELSE PathOf(r, i)]
           l == Len(errors) + 1
<1>2. /\ DOMAIN errors' = DOMAIN errors \cup {l} /\ l \notin DOMAIN errors
      /\ errors'[l] = e /\ \A n \in DOMAIN errors : errors'[n] = errors[n]
  <2>1. errors \in Seq(Reported) /\ errors' = Append(errors, e)
    BY DEF AddError, TypeOK
  <2>2. DOMAIN errors = 1 .. Len(errors) /\ Len(errors) \in Nat
    BY <2>1
  <2>3. DOMAIN errors' = 1 .. l /\ errors'[l] = e /\ \A n \in 1 .. Len(errors) : errors'[n] = errors[n]
    BY <2>1, <2>2
  <2> QED
    BY <2>2, <2>3
<1>3. e.from = r /\ e.entry = i /\ (i # 0 => e.path = Due(r, i))
  BY DEF Due, PathOf
<1>4. ASSUME NEW n \in DOMAIN errors, errors[n].from = r, errors[n].entry = i PROVE FALSE
  <2>1. IF errors[n].entry = 0 THEN pc[r] = "done" ELSE errors[n].entry \in Told(r)
    BY <1>4 DEF ErrorsOK
  <2> QED
    BY <1>4, <2>1
<1> HIDE DEF e, l
<1>5. ASSUME NEW s \in Resolvers, NEW n \in DOMAIN errors', errors'[n].from = s
      PROVE  IF errors'[n].entry = 0
             THEN pc'[s] = "done" /\ stack[s].paths = << >>
             ELSE errors'[n].entry \in Told(s)' /\ errors'[n].path = Due(s, errors'[n].entry)
  <2>1. CASE n = l
    BY <1>2, <1>3, <1>5, <2>1
  <2>2. CASE n \in DOMAIN errors
    <3>1. errors'[n] = errors[n] /\ Told(s) \subseteq Told(s)'
      BY <1>2, <2>2
    <3> QED
      BY <1>5, <2>2, <3>1 DEF ErrorsOK
  <2> QED
    BY <1>2, <2>1, <2>2
<1>6. \A m, n \in DOMAIN errors' :
        errors'[m].from = errors'[n].from /\ errors'[m].entry = errors'[n].entry => m = n
  BY <1>2, <1>3, <1>4 DEF ErrorsOK
<1>7. ASSUME NEW s \in Resolvers, NEW j \in Told(s)'
      PROVE  \E n \in DOMAIN errors' : errors'[n].from = s /\ errors'[n].entry = j
  <2>1. CASE j \in Told(s)
    BY <1>2, <2>1 DEF ErrorsOK
  <2>2. CASE s = r /\ j = i
    BY <1>2, <1>3, <2>2
  <2> QED
    BY <2>1, <2>2
<1>8. \A s \in Resolvers : \A j : Due(s, j)' = Due(s, j)
  BY DEF Due
<1> QED
  BY <1>5, <1>6, <1>7, <1>8 DEF ErrorsOK, Due

\* Every step adds what it should to the errors.
LEMMA ErrorsStep ==
  ASSUME EntriesInv, [Next]_vars
  PROVE  ErrorsOK'
<1>0. TypeOK /\ \A r \in Resolvers : PlaceOK(r)
  BY DEF EntriesInv
<1>1. ASSUME NEW r \in Resolvers, Step(r) \/ Collide(r) PROVE ErrorsOK'
  <2>1. \A s \in Resolvers \ {r} : pc'[s] = pc[s] /\ stack'[s] = stack[s] /\ at'[s] = at[s]
    BY <1>0, <1>1 DEF TypeOK, Goto, Step, Collide, Succeed, Fail, CallAddErrors, AddEntry,
       EndAddErrors, Forward, Skip, Miss, Register, Written, EndForward, Return
  <2>2. \A s \in Resolvers \ {r} : Told(s)' = Told(s)
    BY <2>1 DEF Told, Entries
  <2>3. /\ Len(stack[r].paths) \in 0 .. MaxEntries /\ at[r] \in Nat
        /\ stack[r].paths # << >> => Len(stack[r].paths) > 0
        /\ stack[r].paths = << >> => Len(stack[r].paths) = 0
    <3>1. stack[r] \in Stacks /\ at[r] \in Nat
      BY <1>0, PresenterAssumption DEF TypeOK
    <3> QED
      BY <3>1, StackTypes
  <2> USE <1>0 DEF TypeOK, PlaceOK, Goto
  <2>4. CASE AddEntry(r)
    <3>1. at[r] \in Entries(r) /\ at[r] # 0 /\ at[r] \in 0 .. MaxEntries
      <4>1. at[r] >= 1 /\ at[r] <= Len(stack[r].paths)
        BY <2>3, <2>4 DEF AddEntry
      <4> QED
        BY <2>3, <4>1, PresenterAssumption DEF Entries
    <3>2. at[r] \notin Told(r) /\ Told(r)' = Told(r) \cup {at[r]}
      <4>1. pc'[r] = pc[r] /\ at'[r] = at[r] + 1
        BY <2>4 DEF AddEntry
      <4>2. CASE pc[r] = "adding"
        <5>1. Told(r) = 1 .. at[r] - 1 /\ Told(r)' = 1 .. at'[r] - 1
          BY <4>1, <4>2 DEF Told
        <5> QED
          BY <2>3, <3>1, <4>1, <4>2, <5>1
      <4>3. CASE pc[r] = "fanning"
        <5>1. Told(r) = 2 .. at[r] - 1 /\ Told(r)' = 2 .. at'[r] - 1 /\ at[r] >= 2
          BY <4>1, <4>3, <2>3 DEF Told
        <5> QED
          BY <2>3, <3>1, <4>1, <5>1
      <4> QED
        BY <2>4, <4>2, <4>3 DEF AddEntry
    <3>3. AddError(r, at[r]) /\ UNCHANGED stack /\ pc' = pc
      BY <2>4 DEF AddEntry
    <3> QED
      BY <2>2, <3>1, <3>2, <3>3, EntryAdded
  <2>5. CASE Return(r)
    <3> DEFINE i == IF stack[r].paths = << >> THEN 0 ELSE 1
    <3>1. /\ AddError(r, i) /\ i \in 0 .. MaxEntries /\ UNCHANGED stack
          /\ pc[r] = "returning" /\ pc'[r] = "done"
      <4>1. i \in 0 .. MaxEntries
        BY <2>3, PresenterAssumption
      <4> QED
        BY <2>5, <4>1 DEF Return
    <3>2. Told(r) = 2 .. Len(stack[r].paths) /\ Told(r)' = 1 .. Len(stack[r].paths)
      BY <3>1 DEF Told, Entries
    <3>3. Told(r)' = Told(r) \cup ({i} \ {0}) /\ (i # 0 => i \in Entries(r) \ Told(r))
      BY <2>3, <3>2 DEF Entries
    <3> HIDE DEF i
    <3>4. i = 0 => stack[r].paths = << >>
      BY DEF i
    <3> QED
      BY <2>1, <2>2, <3>1, <3>3, <3>4, EntryAdded
  <2>6. CASE ~ AddEntry(r) /\ ~ Return(r)
    <3>1. UNCHANGED errors /\ (pc[r] # "running" => stack'[r] = stack[r]) /\ pc[r] # "done"
      BY <1>1, <2>6 DEF Step, Collide, Succeed, Fail, CallAddErrors, EndAddErrors, Forward, Skip,
         Miss, Register, Written, EndForward
    <3>2. Told(r)' = Told(r)
      <4>1. CASE Succeed(r)
        <5>1. pc[r] = "running" /\ pc'[r] = "done" /\ stack'[r] = NoStack
          BY <4>1 DEF Succeed
        <5> QED
          BY <5>1 DEF Told, Entries, NoStack
      <4>2. CASE Fail(r)
        <5>1. PICK s \in Stacks :
                /\ stack' = [stack EXCEPT ![r] = s]
                /\ IF s.paths = << >> THEN Goto(r, "returning")
                   ELSE Goto(r, "fanning") /\ at' = [at EXCEPT ![r] = FanFirst]
          BY <4>2 DEF Fail
        <5>2. pc[r] = "running" /\ stack'[r] = s
          BY <4>2, <5>1 DEF Fail
        <5>3. CASE s.paths = << >>
          <6>1. Told(r)' = 2 .. 0
            BY <5>1, <5>2, <5>3 DEF Told
          <6> QED
            BY <5>2, <6>1 DEF Told
        <5>4. CASE s.paths # << >>
          <6>1. Told(r)' = 2 .. 1
            BY <5>1, <5>2, <5>4 DEF Told, FanFirst
          <6> QED
            BY <5>2, <6>1 DEF Told
        <5> QED
          BY <5>3, <5>4
      <4>3. CASE CallAddErrors(r)
        <5>1. Told(r)' = 1 .. 0 /\ Told(r) = {}
          BY <4>3 DEF CallAddErrors, Told
        <5> QED
          BY <5>1
      <4>4. CASE EndAddErrors(r)
        <5>1. at[r] = Len(stack[r].paths) + 1
          BY <2>3, <4>4 DEF EndAddErrors
        <5>2. Told(r) = 1 .. at[r] - 1 /\ Told(r)' = 1 .. Len(stack[r].paths)
          BY <4>4 DEF EndAddErrors, Told, Entries
        <5> QED
          BY <2>3, <5>1, <5>2
      <4>5. CASE Forward(r)
        <5>1. at[r] = Len(stack[r].paths) + 1
          BY <2>3, <4>5 DEF Forward
        <5>2. Told(r) = 2 .. at[r] - 1 /\ Told(r)' = 2 .. Len(stack[r].paths)
          BY <4>5 DEF Forward, Told
        <5> QED
          BY <2>3, <5>1, <5>2
      <4>6. CASE Skip(r) \/ Miss(r) \/ Register(r) \/ Written(r) \/ EndForward(r) \/ Collide(r)
        <5>1. /\ stack' = stack /\ pc[r] \in {"forwarding", "registering", "writing"}
              /\ pc'[r] \in {"forwarding", "registering", "writing", "returning"}
          BY <4>6 DEF Skip, Miss, Register, Written, EndForward, Collide
        <5> QED
          BY <5>1 DEF Told
      <4> QED
        BY <1>1, <2>6, <4>1, <4>2, <4>3, <4>4, <4>5, <4>6 DEF Step
    <3> QED
      BY <2>1, <2>2, <3>1, <3>2, NothingAdded
  <2> QED
    BY <2>4, <2>5, <2>6
<1>2. CASE Send \/ Ended \/ UNCHANGED vars
  <2>1. UNCHANGED <<pc, stack, at, errors>>
    BY <1>2 DEF Send, Ended, vars
  <2>2. \A r \in Resolvers : Told(r)' = Told(r)
    BY <2>1 DEF Told, Entries
  <2> QED
    BY <2>1, <2>2, NothingAdded
<1> QED
  BY <1>1, <1>2 DEF Next

\* EntriesInv holds in every reachable state.
THEOREM EntriesInvariant == Spec => []EntriesInv
<1>1. Init => EntriesInv
  <2> SUFFICES ASSUME Init PROVE EntriesInv
    OBVIOUS
  <2>1. TypeOK
    BY NoStackType, PresenterAssumption DEF Init, TypeOK
  <2>2. LockOK
    BY PresenterAssumption DEF Init, LockOK
  <2>3. \A r \in Resolvers : PlaceOK(r)
    BY DEF Init, PlaceOK
  <2>4. ErrorsOK
    BY DEF Init, ErrorsOK, Told
  <2> QED
    BY <2>1, <2>2, <2>3, <2>4 DEF EntriesInv
<1>2. EntriesInv /\ [Next]_vars => EntriesInv'
  BY TypeStep, LockStep, PlaceStep, ErrorsStep DEF EntriesInv
<1> QED
  BY <1>1, <1>2, PTL DEF Spec

\* The variables keep their types.
THEOREM TypeCorrect == Spec => []TypeOK
<1>1. EntriesInv => TypeOK
  BY DEF EntriesInv
<1> QED
  BY <1>1, EntriesInvariant, PTL

\* A response has every entry of every resolver once and in its place, however
\* the resolvers interleave (error_presenter.go).
THEOREM EntriesAreReportedOnce == Spec => []EveryEntryOnce
<1>1. EntriesInv => EveryEntryOnce
  <2> SUFFICES ASSUME EntriesInv, state = "sent", NEW r \in Resolvers, NEW i \in 1 .. MaxEntries
               PROVE  /\ {errors[n].path : n \in Reports(r, i)} = (IF i \in Owed(r) THEN {Due(r, i)} ELSE {})
                      /\ Cardinality(Reports(r, i)) <= 1
    BY DEF EveryEntryOnce
  <2>1. Told(r) = Owed(r) /\ i # 0
    BY DEF EntriesInv, LockOK, Told, Entries, Owed
  <2>2. \A n \in Reports(r, i) : i \in Told(r) /\ errors[n].path = Due(r, i)
    BY <2>1 DEF EntriesInv, ErrorsOK, Reports
  <2>3. i \in Told(r) => \E n \in DOMAIN errors : n \in Reports(r, i)
    BY DEF EntriesInv, ErrorsOK, Reports
  <2>4. \A m, n \in Reports(r, i) : m = n
    BY DEF EntriesInv, ErrorsOK, Reports
  <2>5. Reports(r, i) = {} \/ \E n : Reports(r, i) = {n}
    BY <2>4
  <2>6. Cardinality(Reports(r, i)) <= 1
    <3>1. CASE Reports(r, i) = {}
      BY <3>1, FS_EmptySet
    <3>2. ASSUME NEW n, Reports(r, i) = {n} PROVE Cardinality(Reports(r, i)) <= 1
      <4>1. Cardinality({n}) = 1
        BY FS_Singleton
      <4> QED
        BY <3>2, <4>1
    <3> QED
      BY <2>5, <3>1, <3>2
  <2> QED
    BY <2>1, <2>2, <2>3, <2>6
<1> QED
  BY <1>1, EntriesInvariant, PTL

-----------------------------------------------------------------------------
(* The extensions                                                          *)

\* Another resolver has one of the keys of r.
Contested(r) == \E s \in Resolvers \ {r} : stack[s].keys \cap stack[r].keys # {}

Pending(order) == {order[i] : i \in DOMAIN order}
Distinct(order) == \A i, j \in DOMAIN order : order[i] = order[j] => i = j

Ranging == {"forwarding", "registering", "writing"}

\* A key is registered by the application or by a resolver that has it.
SourceOK == \A k \in Keys : extensions[k] \in Resolvers => k \in stack[extensions[k]].keys

\* What is known of the range over the extensions of a resolver: a key that is
\* not there is still to come, unless another resolver has one of the keys; what
\* is still to come was not registered by the resolver itself; and if it got an
\* empty map, then the application has registered nothing.
RangeOK(r) ==
  /\ pc[r] = "adding" => stack[r].keys = {}
  /\ pc[r] \in {"running", "fanning"} => \A k \in Keys : extensions[k] # r
  /\ pc[r] \in Ranging =>
       /\ view[r] \in {"empty", "live"}
       /\ view[r] = "empty" => \A k \in Keys : extensions[k] # App
       /\ Distinct(left[r])
       /\ \A k \in Pending(left[r]) : k \in stack[r].keys /\ extensions[k] # r
       /\ \A k \in stack[r].keys : k \in Pending(left[r]) \/ extensions[k] # None
  /\ pc[r] = "registering" => extensions[Head(left[r])] = None \/ Contested(r)
  /\ pc[r] = "writing" => extensions[Head(left[r])] = None
  /\ pc[r] \in {"returning", "done"} /\ stack[r].paths # << >> =>
       Contested(r) \/ \A k \in stack[r].keys : extensions[k] # None

\* Two resolvers with extensions are needed for the runtime to see a read and a
\* write of the map at once.
DeadOK ==
  state = "dead" =>
    \E r, s \in Resolvers : r # s /\ stack[r].keys # {} /\ stack[s].keys # {}

ExtensionsInv == SourceOK /\ (\A r \in Resolvers : RangeOK(r)) /\ DeadOK

\* The first of the keys to come, and those after it.
LEMMA PendingTail ==
  ASSUME NEW order \in Seq(Keys), order # << >>, Distinct(order)
  PROVE  /\ Head(order) \in Pending(order) /\ Head(order) \in Keys
         /\ Tail(order) \in Seq(Keys)
         /\ Distinct(Tail(order)) /\ Pending(Tail(order)) = Pending(order) \ {Head(order)}
<1>1. /\ DOMAIN order = 1 .. Len(order) /\ Len(order) \in Nat \ {0} /\ Head(order) = order[1]
      /\ DOMAIN Tail(order) = 1 .. Len(order) - 1
      /\ \A i \in 1 .. Len(order) - 1 : Tail(order)[i] = order[i + 1]
  OBVIOUS
<1>2. Distinct(Tail(order))
  BY <1>1 DEF Distinct
<1>3. ASSUME NEW k \in Pending(Tail(order)) PROVE k \in Pending(order) /\ k # Head(order)
  BY <1>1, <1>3 DEF Pending, Distinct
<1>4. ASSUME NEW k \in Pending(order), k # Head(order) PROVE k \in Pending(Tail(order))
  <2>1. PICK i \in 1 .. Len(order) : order[i] = k
    BY <1>1 DEF Pending
  <2>2. i # 1 /\ i - 1 \in 1 .. Len(order) - 1
    BY <1>1, <1>4, <2>1
  <2>3. Tail(order)[i - 1] = k
    BY <1>1, <2>1, <2>2
  <2> QED
    BY <1>1, <2>2, <2>3 DEF Pending
<1>5. Head(order) \in Pending(order) /\ Head(order) \in Keys
  BY <1>1 DEF Pending
<1> QED
  BY <1>2, <1>3, <1>4, <1>5

\* A resolver that has keys keeps them.
LEMMA KeysStay ==
  ASSUME EntriesInv, [Next]_vars, NEW r \in Resolvers, stack[r].keys # {}
  PROVE  stack'[r] = stack[r]
<1>1. pc[r] # "running"
  BY DEF EntriesInv, PlaceOK, NoStack
<1>2. ASSUME NEW s \in Resolvers, Step(s) \/ Collide(s) PROVE stack'[r] = stack[r]
  BY <1>1, <1>2 DEF EntriesInv, TypeOK, Step, Collide, Succeed, Fail, CallAddErrors, AddEntry,
     EndAddErrors, Forward, Skip, Miss, Register, Written, EndForward, Return
<1> QED
  BY <1>2 DEF Next, Send, Ended, vars

\* Once contested, always contested.
LEMMA ContestedStays ==
  ASSUME EntriesInv, [Next]_vars, NEW r \in Resolvers, Contested(r)
  PROVE  Contested(r)'
<1>1. PICK s \in Resolvers \ {r} : stack[s].keys \cap stack[r].keys # {}
  BY DEF Contested
<1>2. stack'[s] = stack[s] /\ stack'[r] = stack[r]
  BY <1>1, KeysStay
<1> QED
  BY <1>1, <1>2 DEF Contested

\* A key changes hands once, to a resolver that is the writer.
LEMMA Registers ==
  ASSUME EntriesInv, ExtensionsInv, [Next]_vars
  PROVE  \/ UNCHANGED extensions
         \/ \E r \in Resolvers :
              /\ Written(r) /\ Head(left[r]) \in stack[r].keys
              /\ extensions[Head(left[r])] = None
              /\ extensions' = [extensions EXCEPT ![Head(left[r])] = r]
<1>1. ASSUME NEW r \in Resolvers, Written(r)
      PROVE  /\ Head(left[r]) \in stack[r].keys
             /\ extensions[Head(left[r])] = None
  <2>1. left[r] # << >> /\ left[r] \in Seq(Keys) /\ Distinct(left[r])
    BY <1>1 DEF Written, EntriesInv, TypeOK, PlaceOK, ExtensionsInv, RangeOK, Ranging
  <2> QED
    BY <1>1, <2>1, PendingTail DEF Written, ExtensionsInv, RangeOK, Ranging
<1>2. ASSUME NEW r \in Resolvers, Step(r) \/ Collide(r), ~ Written(r) PROVE UNCHANGED extensions
  BY <1>2 DEF Step, Collide, Succeed, Fail, CallAddErrors, AddEntry,
     EndAddErrors, Forward, Skip, Miss, Register, EndForward, Return
<1> QED
  BY <1>1, <1>2 DEF Next, Send, Ended, vars, Written

\* A key belongs to who registered it.
LEMMA SourceStep ==
  ASSUME EntriesInv, ExtensionsInv, [Next]_vars
  PROVE  SourceOK'
<1>1. \A k \in Keys : extensions[k] \in Resolvers =>
        k \in stack[extensions[k]].keys /\ stack'[extensions[k]] = stack[extensions[k]]
  BY KeysStay DEF ExtensionsInv, SourceOK
<1>2. CASE UNCHANGED extensions
  BY <1>1, <1>2 DEF SourceOK
<1>3. ASSUME NEW r \in Resolvers, Written(r), Head(left[r]) \in stack[r].keys,
             extensions' = [extensions EXCEPT ![Head(left[r])] = r]
      PROVE  SourceOK'
  <2>1. stack'[r] = stack[r] /\ extensions \in [Keys -> Resolvers \cup {App, None}]
    BY <1>3, KeysStay DEF EntriesInv, TypeOK
  <2> QED
    BY <1>1, <1>3, <2>1 DEF SourceOK
<1> QED
  BY <1>2, <1>3, Registers

\* The steps of another resolver.
LEMMA OtherRanges ==
  ASSUME EntriesInv, ExtensionsInv, [Next]_vars,
         NEW r \in Resolvers, Step(r) \/ Collide(r), NEW s \in Resolvers \ {r}
  PROVE  RangeOK(s)'
<1>1. /\ pc'[s] = pc[s] /\ stack'[s] = stack[s] /\ left'[s] = left[s] /\ view'[s] = view[s]
  BY DEF EntriesInv, TypeOK, Goto, Step, Collide, Succeed, Fail, CallAddErrors, AddEntry,
     EndAddErrors, Forward, Skip, Miss, Register, Written, EndForward, Return
<1>2. RangeOK(s) /\ (Contested(s) => Contested(s)')
  BY ContestedStays DEF ExtensionsInv
<1>3. CASE UNCHANGED extensions
  BY <1>1, <1>2, <1>3 DEF RangeOK
<1>4. ASSUME NEW t \in Resolvers, Written(t), Head(left[t]) \in stack[t].keys,
             extensions[Head(left[t])] = None,
             extensions' = [extensions EXCEPT ![Head(left[t])] = t]
      PROVE  RangeOK(s)'
  <2> DEFINE h == Head(left[t])
  <2>1. t # s
    <3>1. pc[t] = "writing" /\ pc'[t] = "forwarding"
      BY <1>4 DEF Written, Goto, EntriesInv, TypeOK
    <3> QED
      BY <1>1, <3>1
  <2>2. h \in Keys /\ extensions'[h] = t /\ \A k \in Keys \ {h} : extensions'[k] = extensions[k]
    BY <1>4, StackTypes DEF EntriesInv, TypeOK
  <2>3. pc[s] # "writing"
    BY <1>4, <2>1, PresenterAssumption DEF Written, EntriesInv, LockOK
  <2>4. h \in stack[s].keys => Contested(s)
    BY <1>4, <2>1 DEF Contested
  <2>5. stack[s].keys \subseteq Keys /\ t # App /\ t # None
    BY StackTypes, PresenterAssumption DEF EntriesInv, TypeOK
  <2>6. pc[s] \in Ranging => Pending(left[s]) \subseteq stack[s].keys
    BY <1>2 DEF RangeOK
  <2> HIDE DEF h
  <2>7. pc[s] = "registering" => Head(left[s]) \in stack[s].keys
    <3>1. pc[s] = "registering" => left[s] # << >> /\ left[s] \in Seq(Keys) /\ Distinct(left[s])
      BY <1>2 DEF RangeOK, Ranging, EntriesInv, PlaceOK, TypeOK
    <3> QED
      BY <2>6, <3>1, PendingTail DEF Ranging
  <2>8. pc[s] \in Ranging =>
          /\ view[s] = "empty" => \A k \in Keys : extensions'[k] # App
          /\ \A k \in Pending(left[s]) : k \in stack[s].keys /\ extensions'[k] # s
          /\ \A k \in stack[s].keys : k \in Pending(left[s]) \/ extensions'[k] # None
    <3> SUFFICES ASSUME pc[s] \in Ranging
                 PROVE  /\ view[s] = "empty" => \A k \in Keys : extensions'[k] # App
                        /\ \A k \in Pending(left[s]) : k \in stack[s].keys /\ extensions'[k] # s
                        /\ \A k \in stack[s].keys : k \in Pending(left[s]) \/ extensions'[k] # None
      OBVIOUS
    <3>1. \A k \in Keys : extensions'[k] = extensions[k] \/ extensions'[k] = t
      BY <2>2
    <3> QED
      BY <1>2, <2>1, <2>5, <3>1 DEF RangeOK
  <2>9. pc[s] = "registering" => extensions'[Head(left[s])] = None \/ Contested(s)
    BY <1>2, <2>2, <2>4, <2>5, <2>7 DEF RangeOK
  <2>10. pc[s] \in {"returning", "done"} /\ stack[s].paths # << >> =>
           Contested(s) \/ \A k \in stack[s].keys : extensions'[k] # None
    BY <1>2, <2>2, <2>5 DEF RangeOK
  <2>11. pc[s] \in {"running", "fanning"} => \A k \in Keys : extensions'[k] # s
    BY <1>2, <2>1, <2>2 DEF RangeOK
  <2> QED
    BY <1>1, <1>2, <2>3, <2>8, <2>9, <2>10, <2>11 DEF RangeOK
<1> QED
  BY <1>3, <1>4, Registers

\* The steps of the resolver itself.
LEMMA OwnRange ==
  ASSUME EntriesInv, ExtensionsInv, [Next]_vars, NEW r \in Resolvers, Step(r) \/ Collide(r)
  PROVE  RangeOK(r)'
<1>0. /\ TypeOK /\ PlaceOK(r) /\ RangeOK(r) /\ (Contested(r) => Contested(r)')
      /\ stack[r] \in Stacks
  BY ContestedStays DEF EntriesInv, ExtensionsInv, TypeOK
<1>1. CASE Succeed(r) \/ EndAddErrors(r)
  BY <1>0, <1>1 DEF Succeed, EndAddErrors, RangeOK, Goto, TypeOK, PlaceOK, Ranging, NoStack
<1>2. CASE Fail(r)
  <2>1. PICK s \in Stacks :
          /\ stack' = [stack EXCEPT ![r] = s]
          /\ IF s.paths = << >> THEN Goto(r, "returning") ELSE Goto(r, "fanning")
    BY <1>2 DEF Fail
  <2>2. /\ stack'[r] = s
        /\ \/ s.paths = << >> /\ pc'[r] = "returning"
           \/ pc'[r] = "fanning"
    BY <1>0, <2>1 DEF TypeOK, Goto
  <2>3. extensions' = extensions /\ \A k \in Keys : extensions[k] # r
    BY <1>0, <1>2 DEF Fail, RangeOK
  <2> QED
    BY <2>2, <2>3 DEF RangeOK, Ranging
<1>3. CASE CallAddErrors(r)
  BY <1>0, <1>3 DEF CallAddErrors, RangeOK, Goto, TypeOK, Ranging
<1>4. CASE AddEntry(r)
  BY <1>0, <1>4 DEF AddEntry, RangeOK, Ranging, Goto, TypeOK
<1>5. CASE Forward(r)
  <2>1. CASE stack[r].keys = {}
    BY <1>0, <1>5, <2>1 DEF Forward, RangeOK, Ranging, Goto, TypeOK
  <2>2. CASE stack[r].keys # {}
    <3>1. PICK order \in SetToSeqs(stack[r].keys) : left' = [left EXCEPT ![r] = order]
      BY <1>5, <2>2 DEF Forward
    <3>2. /\ pc'[r] = "forwarding" /\ stack'[r] = stack[r] /\ extensions' = extensions
          /\ left'[r] = order /\ view'[r] = IF Allocated THEN "live" ELSE "empty"
      BY <1>0, <1>5, <2>2, <3>1 DEF Forward, Goto, TypeOK
    <3>3. Pending(order) = stack[r].keys /\ Distinct(order)
      BY <1>0, StackTypes, RangeOrders DEF Pending, Distinct
    <3>4. ~ Allocated => \A k \in Keys : extensions[k] # App
      BY PresenterAssumption DEF Allocated
    <3>5. \A k \in stack[r].keys : extensions[k] # r
      BY <1>0, <1>5, StackTypes DEF Forward, RangeOK
    <3> QED
      BY <3>2, <3>3, <3>4, <3>5 DEF RangeOK, Ranging
  <2> QED
    BY <2>1, <2>2
<1>6. CASE Skip(r)
  <2>1. /\ pc[r] = "forwarding" /\ pc'[r] = "forwarding" /\ left[r] # << >>
        /\ extensions[Head(left[r])] # None /\ left'[r] = Tail(left[r])
        /\ UNCHANGED <<stack, view, extensions>>
    BY <1>0, <1>6 DEF Skip, Dup, Rest, TypeOK
  <2>2. left[r] \in Seq(Keys) /\ Distinct(left[r])
    BY <1>0, <2>1 DEF TypeOK, RangeOK, Ranging
  <2>3. Distinct(Tail(left[r])) /\ Pending(Tail(left[r])) = Pending(left[r]) \ {Head(left[r])}
    BY <2>1, <2>2, PendingTail
  <2> QED
    BY <1>0, <2>1, <2>3 DEF RangeOK, Ranging
<1>7. CASE Miss(r)
  <2>1. /\ pc[r] = "forwarding" /\ pc'[r] = "registering" /\ left[r] # << >> /\ ~ Dup(r)
        /\ UNCHANGED <<stack, left, view, extensions>>
    BY <1>0, <1>7 DEF Miss, Goto, TypeOK
  <2>2. left[r] \in Seq(Keys) /\ Distinct(left[r])
    BY <1>0, <2>1 DEF TypeOK, RangeOK, Ranging
  <2> DEFINE h == Head(left[r])
  <2>3. h \in Keys /\ h \in stack[r].keys /\ extensions[h] # r
    BY <1>0, <2>1, <2>2, PendingTail DEF RangeOK, Ranging
  <2>4. extensions[h] = None \/ extensions[h] \in Resolvers
    BY <1>0, <2>1, <2>3 DEF Dup, RangeOK, Ranging, TypeOK
  <2>5. extensions[h] \in Resolvers => Contested(r)
    BY <2>3 DEF ExtensionsInv, SourceOK, Contested
  <2> QED
    BY <1>0, <2>1, <2>4, <2>5 DEF RangeOK, Ranging
<1>8. CASE Register(r)
  <2>1. UNCHANGED <<stack, view, extensions>> /\ pc[r] = "registering"
    BY <1>8 DEF Register
  <2>2. CASE extensions[Head(left[r])] # None
    <3>1. pc'[r] = "returning" /\ Contested(r)
      BY <1>0, <1>8, <2>1, <2>2 DEF Register, Goto, TypeOK, RangeOK
    <3> QED
      BY <1>0, <3>1 DEF RangeOK, Ranging
  <2>3. CASE extensions[Head(left[r])] = None
    <3>1. pc'[r] = "writing" /\ left' = left
      BY <1>0, <1>8, <2>3 DEF Register, Goto, TypeOK
    <3> QED
      BY <1>0, <2>1, <2>3, <3>1 DEF RangeOK, Ranging
  <2> QED
    BY <2>2, <2>3
<1>9. CASE Written(r)
  <2> DEFINE h == Head(left[r])
  <2>1. /\ pc[r] = "writing" /\ pc'[r] = "forwarding" /\ left'[r] = Tail(left[r])
        /\ extensions' = [extensions EXCEPT ![h] = r] /\ UNCHANGED <<stack, view>>
    BY <1>0, <1>9 DEF Written, Goto, TypeOK
  <2>2. left[r] \in Seq(Keys) /\ left[r] # << >> /\ Distinct(left[r])
    BY <1>0, <2>1 DEF TypeOK, PlaceOK, RangeOK, Ranging
  <2>3. /\ h \in Keys /\ h \in Pending(left[r]) /\ Distinct(Tail(left[r]))
        /\ Pending(Tail(left[r])) = Pending(left[r]) \ {h}
    BY <2>2, PendingTail
  <2>4. extensions'[h] = r /\ \A k \in Keys \ {h} : extensions'[k] = extensions[k]
    BY <1>0, <2>1, <2>3 DEF TypeOK
  <2>5. stack[r].keys \subseteq Keys /\ r # App /\ r # None
    BY <1>0, StackTypes, PresenterAssumption
  <2> HIDE DEF h
  <2>6. /\ view[r] = "empty" => \A k \in Keys : extensions'[k] # App
        /\ \A k \in Pending(Tail(left[r])) : k \in stack[r].keys /\ extensions'[k] # r
        /\ \A k \in stack[r].keys : k \in Pending(Tail(left[r])) \/ extensions'[k] # None
    BY <1>0, <2>1, <2>3, <2>4, <2>5 DEF RangeOK, Ranging
  <2>7. view[r] \in {"empty", "live"}
    BY <1>0, <2>1 DEF RangeOK, Ranging
  <2> QED
    BY <2>1, <2>3, <2>6, <2>7 DEF RangeOK, Ranging
<1>10. CASE EndForward(r)
  <2>1. Pending(left[r]) = {}
    BY <1>10 DEF EndForward, Pending
  <2>2. /\ pc[r] = "forwarding" /\ pc'[r] = "returning" /\ UNCHANGED <<stack, extensions>>
    BY <1>0, <1>10 DEF EndForward, Goto, TypeOK
  <2> QED
    BY <1>0, <2>1, <2>2 DEF RangeOK, Ranging
<1>11. CASE Return(r)
  <2>1. pc[r] = "returning" /\ pc'[r] = "done" /\ UNCHANGED <<stack, extensions>>
    BY <1>0, <1>11 DEF Return, Goto, TypeOK
  <2> QED
    BY <1>0, <2>1 DEF RangeOK, Ranging
<1>12. CASE Collide(r)
  <2>1. UNCHANGED <<pc, stack, left, view, extensions>>
    BY <1>12 DEF Collide
  <2> QED
    BY <1>0, <2>1 DEF RangeOK, Ranging
<1> QED
  BY <1>1, <1>2, <1>3, <1>4, <1>5, <1>6, <1>7, <1>8, <1>9, <1>10, <1>11, <1>12 DEF Step

\* A map that is read while it is written has a reader and a writer.
LEMMA DeadStep ==
  ASSUME EntriesInv, ExtensionsInv, [Next]_vars
  PROVE  DeadOK'
<1>1. ASSUME NEW r \in Resolvers, Collide(r) PROVE DeadOK'
  <2>1. PICK s \in Resolvers : writer = s
    BY <1>1 DEF Collide, EntriesInv, TypeOK
  <2>2. pc[s] = "writing" /\ left[s] # << >> /\ pc[r] = "forwarding" /\ left[r] # << >> /\ s # r
    BY <1>1, <2>1 DEF Collide, EntriesInv, LockOK, PlaceOK
  <2>3. ASSUME NEW t \in {r, s} PROVE stack[t].keys # {}
    <3>1. /\ left[t] \in Seq(Keys) /\ left[t] # << >> /\ Distinct(left[t])
          /\ Pending(left[t]) \subseteq stack[t].keys
      BY <2>2 DEF EntriesInv, TypeOK, ExtensionsInv, RangeOK, Ranging
    <3> QED
      BY <3>1, PendingTail
  <2> QED
    BY <1>1, <2>2, <2>3 DEF Collide, DeadOK
<1>2. CASE state' # "dead"
  BY <1>2 DEF DeadOK
<1>3. CASE state' = state
  BY <1>3, KeysStay DEF ExtensionsInv, DeadOK
<1> QED
  BY <1>1, <1>2, <1>3 DEF Next, Send, Ended, vars

\* ExtensionsInv holds in every reachable state.
THEOREM ExtensionsInvariant == Spec => []ExtensionsInv
<1>1. Init => ExtensionsInv
  <2> SUFFICES ASSUME Init PROVE ExtensionsInv
    OBVIOUS
  <2>1. \A k \in Keys : extensions[k] \notin Resolvers
    BY PresenterAssumption DEF Init
  <2>2. \A r \in Resolvers : RangeOK(r)
    BY <2>1 DEF Init, RangeOK, Ranging
  <2> QED
    BY <2>1, <2>2 DEF Init, ExtensionsInv, SourceOK, DeadOK
<1>2. EntriesInv /\ ExtensionsInv /\ [Next]_vars => ExtensionsInv'
  <2> SUFFICES ASSUME EntriesInv, ExtensionsInv, [Next]_vars PROVE ExtensionsInv'
    OBVIOUS
  <2>1. \A s \in Resolvers : RangeOK(s)'
    <3>1. ASSUME NEW r \in Resolvers, Step(r) \/ Collide(r), NEW s \in Resolvers PROVE RangeOK(s)'
      BY <3>1, OtherRanges, OwnRange
    <3>2. CASE Send \/ Ended \/ UNCHANGED vars
      <4>1. UNCHANGED <<pc, stack, left, view, extensions>>
        BY <3>2 DEF Send, Ended, vars
      <4> QED
        BY <4>1 DEF ExtensionsInv, RangeOK, Contested
    <3> QED
      BY <3>1, <3>2 DEF Next
  <2> QED
    BY <2>1, SourceStep, DeadStep DEF ExtensionsInv
<1> QED
  BY <1>1, <1>2, EntriesInvariant, PTL DEF Spec

\* The extensions of a resolver that shares no key reach the response, and a
\* request with one such resolver does not die (error_presenter.go).
THEOREM LoneExtensionsArrive == Spec => []AloneIsForwarded
<1>1. EntriesInv /\ ExtensionsInv => AloneIsForwarded
  <2> SUFFICES ASSUME EntriesInv, ExtensionsInv, NEW r \in Resolvers
               PROVE  /\ /\ state = "sent" /\ stack[r].paths # << >>
                         /\ \A s \in Resolvers \ {r} : stack[s].keys \cap stack[r].keys = {}
                         => \A k \in stack[r].keys : extensions[k] \in {r, App}
                      /\ (\A s \in Resolvers \ {r} : stack[s].keys = {}) => state # "dead"
    BY DEF AloneIsForwarded
  <2>1. ASSUME state = "sent", stack[r].paths # << >>, NEW k \in stack[r].keys,
               \A s \in Resolvers \ {r} : stack[s].keys \cap stack[r].keys = {}
        PROVE  extensions[k] \in {r, App}
    <3>1. pc[r] = "done" /\ ~ Contested(r) /\ k \in Keys
      BY <2>1, StackTypes DEF EntriesInv, LockOK, Contested, TypeOK
    <3>2. extensions[k] # None
      BY <2>1, <3>1 DEF ExtensionsInv, RangeOK
    <3>3. extensions[k] \in Resolvers => k \in stack[extensions[k]].keys
      BY <3>1 DEF ExtensionsInv, SourceOK
    <3>4. extensions[k] \in Resolvers => extensions[k] = r
      BY <2>1, <3>3
    <3> QED
      BY <3>1, <3>2, <3>4 DEF EntriesInv, TypeOK
  <2>2. (\A s \in Resolvers \ {r} : stack[s].keys = {}) => state # "dead"
    BY DEF ExtensionsInv, DeadOK
  <2> QED
    BY <2>1, <2>2
<1> QED
  BY <1>1, EntriesInvariant, ExtensionsInvariant, PTL

-----------------------------------------------------------------------------
(* The map of extensions over a whole request                              *)

\* Whoever has a key keeps it.
FirstStays ==
  \A k \in Keys : extensions[k] # None => extensions'[k] = extensions[k]

\* The first to register a key of the response keeps it, whatever the others
\* read without the mutex: what is decided on the stale read of "existing[key]" is
\* decided again under the mutex, by a panic (error_presenter.go:91-105).
THEOREM FirstRegistrationWins == Spec => [][FirstStays]_vars
<1>1. EntriesInv /\ ExtensionsInv /\ [Next]_vars => [FirstStays]_vars
  <2> SUFFICES ASSUME EntriesInv, ExtensionsInv, [Next]_vars PROVE FirstStays
    OBVIOUS
  <2>1. CASE UNCHANGED extensions
    BY <2>1 DEF FirstStays
  <2>2. ASSUME NEW r \in Resolvers, extensions[Head(left[r])] = None,
               extensions' = [extensions EXCEPT ![Head(left[r])] = r]
        PROVE  FirstStays
    BY <2>2 DEF FirstStays, EntriesInv, TypeOK
  <2> QED
    BY <2>1, <2>2, Registers
<1> QED
  BY <1>1, EntriesInvariant, ExtensionsInvariant, PTL DEF Spec

\* The guards of the steps of a resolver: only RegisterExtension waits.
CanStep(r) ==
  \/ pc[r] \in {"running", "adding", "fanning", "forwarding", "writing", "returning"}
  \/ pc[r] = "registering" /\ writer = None

\* A request that is served can go on: some resolver has a step, or all are done
\* and the response is sent.
ServingGoesOn ==
  state = "serving" =>
    (\A r \in Resolvers : pc[r] = "done") \/ \E r \in Resolvers : CanStep(r)

\* The resolvers of a request never wait for each other in vain: the mutex of
\* RegisterExtension is free again when its holder has written or has panicked.
THEOREM RequestIsNeverStuck == Spec => []ServingGoesOn
<1>1. EntriesInv => ServingGoesOn
  <2> SUFFICES ASSUME EntriesInv, NEW r \in Resolvers, pc[r] # "done",
                      \A s \in Resolvers : ~ CanStep(s)
               PROVE  FALSE
    BY DEF ServingGoesOn
  <2>1. writer = None
    <3>1. \A s \in Resolvers : pc[s] # "writing"
      BY DEF CanStep
    <3> QED
      BY <3>1 DEF EntriesInv, LockOK, TypeOK
  <2> QED
    BY <2>1 DEF CanStep, EntriesInv, TypeOK
<1> QED
  BY <1>1, EntriesInvariant, PTL

=============================================================================
