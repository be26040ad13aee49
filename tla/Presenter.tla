----------------------------- MODULE Presenter -----------------------------
(***************************************************************************)
(* The errors of one GraphQL request.  gqlgen runs the resolvers of a      *)
(* request in goroutines of their own, and each that fails goes through    *)
(* errorPresenter, or through AddErrors (integration/graphql/              *)
(* error_presenter.go), towards one response: its list of errors, appended *)
(* to under a mutex, and its map of extensions, written under a mutex by   *)
(* RegisterExtension but handed out as it is by GetExtensions.             *)
(***************************************************************************)
EXTENDS Naturals, Sequences, SequencesExt, FiniteSets

CONSTANTS
  Resolvers,  \* the resolvers of the request; each one's path is itself
  Keys,       \* keys of top-level extensions; the map of an Error is finite
  MaxEntries, \* bound: entries of an errorstack.Error
  App,        \* the application, that registers extensions of its own before
  None

ASSUME PresenterAssumption ==
  /\ MaxEntries \in Nat
  /\ IsFiniteSet(Keys)
  /\ App \notin Resolvers /\ None \notin Resolvers \cup {App}

VARIABLES
  pc,         \* where each resolver is
  stack,      \* the error it ends with: of each entry its path, and the top-level extensions
  at,         \* the entry to report next
  view,       \* what GetExtensions returned: nothing yet, an empty map, or the live one
  left,       \* the keys of the range over its extensions still to come
  errors,     \* the response: its errors, in the order they were appended
  extensions, \* the response: who registered each key
  writer,     \* the resolver in the middle of an assignment to the live map, under the mutex
  state       \* "serving"; "sent"; "dead" when the runtime has killed the process

vars == <<pc, stack, at, view, left, errors, extensions, writer, state>>

Stacks == [paths : UNION {[1 .. n -> {"own", "none"}] : n \in 0 .. MaxEntries},
           keys : SUBSET Keys]
NoStack == [paths |-> << >>, keys |-> {}]

\* An error of the response: whose it is, which entry (0 for an error that is no
\* errorstack.Error, or has no entry), and its path.
Reported == [from : Resolvers, entry : 0 .. MaxEntries, path : Resolvers \cup {"own"}]

TypeOK ==
  /\ pc \in [Resolvers -> {"running", "adding", "fanning", "forwarding",
                           "registering", "writing", "returning", "done"}]
  /\ stack \in [Resolvers -> Stacks]
  /\ at \in [Resolvers -> 0 .. MaxEntries + 1]
  /\ view \in [Resolvers -> {"none", "empty", "live"}]
  /\ left \in [Resolvers -> Seq(Keys)]
  /\ errors \in Seq(Reported)
  /\ extensions \in [Keys -> Resolvers \cup {App, None}]
  /\ writer \in Resolvers \cup {None}
  /\ state \in {"serving", "sent", "dead"}

Init ==
  /\ pc = [r \in Resolvers |-> "running"]
  /\ stack = [r \in Resolvers |-> NoStack]
  /\ at = [r \in Resolvers |-> 0]
  /\ view = [r \in Resolvers |-> "none"]
  /\ left = [r \in Resolvers |-> << >>]
  /\ errors = << >>
  /\ extensions \in [Keys -> {App, None}]
  /\ writer = None
  /\ state = "serving"

Goto(r, label) == pc' = [pc EXCEPT ![r] = label]

-----------------------------------------------------------------------------
(* The entries *)

\* (mutant) An entry without a path has none.
PathBare(r, i) == stack[r].paths[i]

\* The path of an entry: its own, else that of the resolver.
PathOf(r, i) == IF stack[r].paths[i] = "own" THEN "own" ELSE r

\* AddError of gqlgen presents the error, then appends it under its mutex.
AddError(r, i) ==
  errors' = Append(errors, [from |-> r, entry |-> i,
                            path |-> IF i = 0 THEN r ELSE PathOf(r, i)])

\* (mutant) The range goes over all the entries.
FanAll == 1

\* errorPresenter fans out the entries from the second on.
FanFirst == 2

\* A resolver succeeds, or has nothing more to report.
Succeed(r) ==
  /\ pc[r] = "running"
  /\ Goto(r, "done")
  /\ UNCHANGED <<stack, at, view, left, errors, extensions, writer>>

\* It returns an error: gqlgen calls errorPresenter, which leaves an error with
\* no entry as DefaultErrorPresenter made it.
Fail(r) ==
  /\ pc[r] = "running"
  /\ \E s \in Stacks :
       /\ stack' = [stack EXCEPT ![r] = s]
       /\ IF s.paths = << >>
          THEN Goto(r, "returning") /\ UNCHANGED at
          ELSE Goto(r, "fanning") /\ at' = [at EXCEPT ![r] = FanFirst]
  /\ UNCHANGED <<view, left, errors, extensions, writer>>

\* It calls AddErrors and returns nil.  AddErrors has no use for the top-level
\* extensions.
CallAddErrors(r) ==
  /\ pc[r] = "running"
  /\ \E s \in Stacks :
       /\ s.paths # << >> /\ s.keys = {}
       /\ stack' = [stack EXCEPT ![r] = s]
  /\ Goto(r, "adding")
  /\ at' = [at EXCEPT ![r] = 1]
  /\ UNCHANGED <<view, left, errors, extensions, writer>>

\* The next entry of the range, in AddErrors and in errorPresenter.
AddEntry(r) ==
  /\ pc[r] \in {"adding", "fanning"} /\ at[r] <= Len(stack[r].paths)
  /\ AddError(r, at[r])
  /\ at' = [at EXCEPT ![r] = @ + 1]
  /\ UNCHANGED <<pc, stack, view, left, extensions, writer>>

EndAddErrors(r) ==
  /\ pc[r] = "adding" /\ at[r] > Len(stack[r].paths)
  /\ Goto(r, "done")
  /\ UNCHANGED <<stack, at, view, left, errors, extensions, writer>>

-----------------------------------------------------------------------------
(* forwardTopLevelExtensions *)

\* RegisterExtension allocates the map when it is called first.
Allocated == writer # None \/ \E k \in Keys : extensions[k] # None

\* GetExtensions returns the map of the response with no lock, or a new one.
\* The range over ext may go in any order.
Forward(r) ==
  /\ pc[r] = "fanning" /\ at[r] > Len(stack[r].paths)
  /\ IF stack[r].keys = {}
     THEN Goto(r, "returning") /\ UNCHANGED <<view, left>>
     ELSE /\ Goto(r, "forwarding")
          /\ view' = [view EXCEPT ![r] = IF Allocated THEN "live" ELSE "empty"]
          /\ \E order \in SetToSeqs(stack[r].keys) : left' = [left EXCEPT ![r] = order]
  /\ UNCHANGED <<stack, at, errors, extensions, writer>>

\* existing[key], read with no lock.
Dup(r) == view[r] = "live" /\ extensions[Head(left[r])] # None

\* (mutant) A key that is there ends the range.
RestNone(r) == << >>

\* A key that is there is skipped.
Rest(r) == Tail(left[r])

Skip(r) ==
  /\ pc[r] = "forwarding" /\ left[r] # << >> /\ Dup(r)
  /\ left' = [left EXCEPT ![r] = Rest(r)]
  /\ UNCHANGED <<pc, stack, at, view, errors, extensions, writer>>

Miss(r) ==
  /\ pc[r] = "forwarding" /\ left[r] # << >> /\ ~ Dup(r)
  /\ Goto(r, "registering")
  /\ UNCHANGED <<stack, at, view, left, errors, extensions, writer>>

\* A map read while it is written: the runtime may kill the process, which
\* recover does not prevent.
Collide(r) ==
  /\ pc[r] = "forwarding" /\ left[r] # << >>
  /\ view[r] = "live" /\ writer # None
  /\ state' = "dead"
  /\ UNCHANGED <<pc, stack, at, view, left, errors, extensions, writer>>

\* RegisterExtension, under its mutex: a key that is there is a panic, that
\* recover turns into the return of forwardTopLevelExtensions.
Register(r) ==
  /\ pc[r] = "registering" /\ writer = None
  /\ IF extensions[Head(left[r])] # None
     THEN /\ Goto(r, "returning")
          /\ left' = [left EXCEPT ![r] = << >>]
          /\ UNCHANGED writer
     ELSE /\ Goto(r, "writing")
          /\ writer' = r
          /\ UNCHANGED left
  /\ UNCHANGED <<stack, at, view, errors, extensions>>

Written(r) ==
  /\ pc[r] = "writing"
  /\ extensions' = [extensions EXCEPT ![Head(left[r])] = r]
  /\ left' = [left EXCEPT ![r] = Tail(@)]
  /\ writer' = None
  /\ Goto(r, "forwarding")
  /\ UNCHANGED <<stack, at, view, errors>>

EndForward(r) ==
  /\ pc[r] = "forwarding" /\ left[r] = << >>
  /\ Goto(r, "returning")
  /\ UNCHANGED <<stack, at, view, left, errors, extensions, writer>>

\* errorPresenter returns the first entry, which gqlgen appends.
Return(r) ==
  /\ pc[r] = "returning"
  /\ AddError(r, IF stack[r].paths = << >> THEN 0 ELSE 1)
  /\ Goto(r, "done")
  /\ view' = [view EXCEPT ![r] = "none"]
  /\ at' = [at EXCEPT ![r] = 0]
  /\ UNCHANGED <<stack, left, extensions, writer>>

-----------------------------------------------------------------------------
Step(r) ==
  \/ Succeed(r) \/ Fail(r) \/ CallAddErrors(r) \/ AddEntry(r) \/ EndAddErrors(r)
  \/ Forward(r) \/ Skip(r) \/ Miss(r) \/ Register(r) \/ Written(r)
  \/ EndForward(r) \/ Return(r)

\* gqlgen sends the response when the resolvers are done.
Send ==
  /\ state = "serving" /\ \A r \in Resolvers : pc[r] = "done"
  /\ state' = "sent"
  /\ UNCHANGED <<pc, stack, at, view, left, errors, extensions, writer>>

Ended == state # "serving" /\ UNCHANGED vars

Next ==
  \/ state = "serving" /\ \E r \in Resolvers : (Step(r) /\ UNCHANGED state) \/ Collide(r)
  \/ Send
  \/ Ended

Spec == Init /\ [][Next]_vars

-----------------------------------------------------------------------------
(* Properties *)

\* What a resolver that ended with s owes the response.
Owed(r) == 1 .. Len(stack[r].paths)
Due(r, i) == IF stack[r].paths[i] = "own" THEN "own" ELSE r
Reports(r, i) == {n \in DOMAIN errors : errors[n].from = r /\ errors[n].entry = i}

\* "the canonical errors[] array always has one element per Entry"
\* (error_presenter.go:28): a response has every entry of every resolver once,
\* whatever the interleaving, and whether or not its extensions could be
\* forwarded.  One without a path is at the path of its own resolver, also after
\* the path of the first entry was promoted (:45, :69).
EveryEntryOnce ==
  state = "sent" =>
    \A r \in Resolvers : \A i \in 1 .. MaxEntries :
      {errors[n].path : n \in Reports(r, i)} = (IF i \in Owed(r) THEN {Due(r, i)} ELSE {})
      /\ Cardinality(Reports(r, i)) <= 1

\* The top-level extensions of a resolver reach the response when no other
\* resolver has the same keys, and a request in which at most one resolver has
\* any does not die (error_presenter.go:91-105).
AloneIsForwarded ==
  \A r \in Resolvers :
    /\ /\ state = "sent" /\ stack[r].paths # << >>
       /\ \A s \in Resolvers \ {r} : stack[s].keys \cap stack[r].keys = {}
       => \A k \in stack[r].keys : extensions[k] \in {r, App}
    /\ (\A s \in Resolvers \ {r} : stack[s].keys = {}) => state # "dead"

\* "Top-level *errorstack.Error.Extensions are forwarded onto the
\* response-level extensions map", "Duplicate keys already registered on the
\* response are skipped" (error_presenter.go:32-35).
AllForwarded ==
  state = "sent" =>
    \A r \in Resolvers : stack[r].paths # << >> =>
      \A k \in stack[r].keys : extensions[k] # None

=============================================================================
