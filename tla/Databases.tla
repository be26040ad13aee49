----------------------------- MODULE Databases -----------------------------
(***************************************************************************)
(* The calls of the PostgreSQL, ClickHouse and bucket clients that are up, *)
(* each with the span it leaves:                                           *)
(*  - a transaction and the one nested in it, a savepoint, against a       *)
(*    server that refuses statements and a connection that breaks,         *)
(*  - a batch, whose parent span lives from NewBatchInsert to Send,        *)
(*  - AsyncInsertStruct, called by goroutines that share the cache of      *)
(*    reflected struct types,                                              *)
(*  - the calls that are one request to the driver.                        *)
(* They share nothing but the client: one kind of use at a time is         *)
(* followed (use).                                                         *)
(***************************************************************************)
EXTENDS Startup, Spans

CONSTANTS
  Goroutines,  \* callers of AsyncInsertStruct
  StructTypes  \* the types of the values they insert, each a sequence of fields [name, kind]

FieldKinds == {"embedded", "unexported", "untagged", "skipped", "tagged"}

ASSUME DatabasesAssumption == \A t \in StructTypes : t \in Seq([name : STRING, kind : FieldKinds])

VARIABLES
  use,      \* what the client is used for
  last,     \* the last call that is over: its span, and whether it returned an error
  server,   \* the PostgreSQL session, and what it has made durable
  wraps,    \* what transaction.client of each Tx is
  closed,   \* the transactions of the driver that take no more statements
  believed, \* (history) the rows each Tx was told it has written, and not told it has rolled back
  doubtful, \* (history) the rows of a Tx whose Commit or Rollback returned an error
  told,     \* (history) what became of the transaction, as far as the caller was told
  batch,    \* the Batch, its spans, and (history) whether it was told of a failure before Send
  cache,    \* structCache, as pairs
  insert    \* per goroutine: where AsyncInsertStruct is, and what it sent and returned

postgresVars == <<server, wraps, closed, believed, doubtful, told>>
insertVars == <<cache, insert>>
databaseVars == <<use, last, postgresVars, batch, insertVars>>

For(k, purpose) ==
  /\ kind = k /\ step = "up"
  /\ use \in {"none", purpose} /\ use' = purpose
  /\ UNCHANGED startupVars

\* trace.Start, RecordError if there is an error, and the deferred End.
Traced(error) == [error |-> error, span |-> End(IF error THEN RecordError(Started) ELSE Started)]

-----------------------------------------------------------------------------
(* The server and the driver: what may come of a statement, as pairs of the *)
(* session after it and whether an error is returned.  A statement that is  *)
(* not sent leaves the session alone; a connection may break before or      *)
(* after the server has done what it was asked.                             *)

Handles == {"outer", "nested"}  \* each writes one row, of its own name
NoSession == [state |-> "idle", written |-> {}, mark |-> {}, durable |-> {}]

Lost(s) == [s EXCEPT !.state = "lost"]
Broken(s) == {<<s, TRUE>>, <<Lost(s), TRUE>>}

\* A server that refuses a statement aborts the transaction.
Statement(s, done) ==
  Broken(s) \cup
  (IF s.state = "open" THEN {<<done, FALSE>>, <<[s EXCEPT !.state = "aborted"], TRUE>>} ELSE {})

Committed(s) == [s EXCEPT !.state = "idle", !.durable = s.written, !.written = {}]
RolledBack(s) == [s EXCEPT !.state = "idle", !.written = {}]

\* COMMIT of an aborted transaction rolls it back, which the driver returns as
\* an error; it closes the connection on any other.
CommitAll(s) ==
  {<<Lost(s), TRUE>>} \cup
  (CASE s.state = "open" -> {<<Committed(s), FALSE>>, <<Lost(Committed(s)), TRUE>>}
     [] s.state = "aborted" -> {<<RolledBack(s), TRUE>>}
     [] OTHER -> {})

RollbackAll(s) ==
  {<<Lost(s), TRUE>>} \cup
  (IF s.state \in {"open", "aborted"} THEN {<<RolledBack(s), FALSE>>} ELSE {})

\* RELEASE SAVEPOINT and ROLLBACK TO SAVEPOINT.
Release(s) == Statement(s, s)
RollbackTo(s) ==
  Broken(s) \cup
  (IF s.state \in {"open", "aborted"}
   THEN {<<[s EXCEPT !.state = "open", !.written = s.mark], FALSE>>} ELSE {})

\* A savepoint sends its statements through the transaction it is part of.
Open(tx) == tx \notin closed /\ "transaction" \notin closed
Through(tx, replies) == IF Open(tx) THEN replies ELSE {<<server, TRUE>>}

-----------------------------------------------------------------------------
(* transaction.go *)

TxCall == For("postgres", "transaction") /\ UNCHANGED <<batch, insertVars>>
TxUnchanged == UNCHANGED <<wraps, closed, believed, doubtful, told>>

\* A caller uses the Tx that was begun last and is not over.
Innermost(h) ==
  /\ wraps[h] # "none"
  /\ h = "outer" => wraps["nested"] = "none" \/ "savepoint" \in closed

\* connection.BeginTx; a caller drops the Tx that comes with an error.
BeginTx ==
  /\ TxCall
  /\ server.state = "idle" /\ told = "none"
  /\ \E error \in BOOLEAN :
       /\ last' = Traced(error)
       /\ IF error THEN UNCHANGED <<server, wraps, told>>
          ELSE /\ server' = [server EXCEPT !.state = "open"]
               /\ wraps' = [wraps EXCEPT !["outer"] = "transaction"]
               /\ told' = "open"
  /\ UNCHANGED <<closed, believed, doubtful>>

\* (mutant) The nested Tx wraps the client of the one it is part of.
SubtransactionOfOuter(tx) == tx

\* transaction.Begin: subtx, what the driver begun.
Subtransaction(tx) == "savepoint"

Begin ==
  /\ TxCall
  /\ wraps["outer"] # "none" /\ wraps["nested"] = "none"
  /\ \E reply \in Through("transaction", Statement(server, [server EXCEPT !.mark = server.written])) :
       /\ server' = reply[1]
       /\ wraps' = IF reply[2] THEN wraps
                   ELSE [wraps EXCEPT !["nested"] = Subtransaction(wraps["outer"])]
       /\ last' = Traced(reply[2])
  /\ UNCHANGED <<closed, believed, doubtful, told>>

Ends(h, reply, outcome) ==
  /\ wraps[h] # "none"
  /\ server' = reply[1]
  /\ closed' = closed \cup {wraps[h]}
  /\ last' = Traced(reply[2])
  /\ doubtful' = IF reply[2] THEN doubtful \cup believed[h] ELSE doubtful
  /\ told' = IF h = "nested" \/ told # "open" THEN told
             ELSE IF reply[2] THEN "unknown" ELSE outcome
  /\ UNCHANGED wraps

Commit(h) ==
  /\ TxCall
  /\ \E reply \in Through(wraps[h], IF wraps[h] = "savepoint" THEN Release(server) ELSE CommitAll(server)) :
       Ends(h, reply, "committed")
  /\ UNCHANGED believed

\* Also the Rollback that was deferred, when the Tx is over already.
Rollback(h) ==
  /\ TxCall
  /\ \E reply \in Through(wraps[h], IF wraps[h] = "savepoint" THEN RollbackTo(server) ELSE RollbackAll(server)) :
       /\ Ends(h, reply, "rolled back")
       /\ believed' = IF reply[2] THEN believed ELSE [believed EXCEPT ![h] = {}]

TxExec(h) ==
  /\ TxCall
  /\ Innermost(h)
  /\ \E reply \in Through(wraps[h], Statement(server, [server EXCEPT !.written = @ \cup {h}])) :
       /\ server' = reply[1]
       /\ believed' = IF reply[2] THEN believed ELSE [believed EXCEPT ![h] = {h}]
       /\ last' = Traced(reply[2])
  /\ UNCHANGED <<wraps, closed, doubtful, told>>

\* Rows are read and closed before the next call.
Asks(h, tells) ==
  /\ TxCall
  /\ Innermost(h)
  /\ \E reply \in Through(wraps[h], Statement(server, server)) :
       server' = reply[1] /\ last' = Traced(reply[2] /\ tells)
  /\ TxUnchanged

TxPrepare(h) == Asks(h, TRUE)
TxQuery(h) == Asks(h, TRUE)
TxQueryRow(h) == Asks(h, FALSE)

-----------------------------------------------------------------------------
(* Batches: clickhouse.go and batch.go *)

NoBatch == [state |-> "none", failed |-> FALSE, parent |-> Started]

\* A caller drops the Batch that comes with an error, and its span with it.
NewBatchInsert ==
  /\ For("clickhouse", "batch")
  /\ batch.state = "none"
  /\ \E error \in BOOLEAN :
       batch' = IF error
                THEN [state |-> "dropped", failed |-> TRUE, parent |-> RecordError(Started)]
                ELSE [NoBatch EXCEPT !.state = "open"]
  /\ UNCHANGED <<last, postgresVars, insertVars>>

\* The driver refuses to append to a batch that was sent.
AppendStruct ==
  /\ For("clickhouse", "batch")
  /\ batch.state \in {"open", "sent"}
  /\ \E error \in BOOLEAN :
       /\ batch.state = "sent" => error
       /\ batch' = [batch EXCEPT !.parent = IF error THEN RecordError(@) ELSE @,
                                 !.failed = @ \/ (error /\ batch.state = "open")]
  /\ UNCHANGED <<last, postgresVars, insertVars>>

\* (mutant) Send returns its error before the deferred End of the parent span.
AfterSuccessfulSend(parent, error) == IF error THEN parent ELSE End(parent)

AfterSend(parent, error) == End(parent)

Send ==
  /\ For("clickhouse", "batch")
  /\ batch.state \in {"open", "sent"}
  /\ \E error \in BOOLEAN :
       /\ batch.state = "sent" => error
       /\ batch' = [batch EXCEPT !.state = "sent", !.parent = AfterSend(@, error)]
       /\ last' = Traced(error)
  /\ UNCHANGED <<postgresVars, insertVars>>

-----------------------------------------------------------------------------
(* AsyncInsertStruct: clickhouse.go and utils.go *)

NoInfo == [columns |-> << >>, indexes |-> << >>]
NoInsert == [pc |-> "idle", type |-> << >>, info |-> NoInfo, row |-> << >>, error |-> FALSE]

\* Every exported field is tagged, none is embedded.
Reflects(t) == \A i \in DOMAIN t : t[i].kind \notin {"embedded", "untagged"}

\* The fields that are kept, one after the other; kept[i] after the first i.
Kept(t) ==
  LET kept[i \in 0..Len(t)] ==
        IF i = 0 THEN << >>
        ELSE IF t[i].kind = "tagged" THEN Append(kept[i - 1], i) ELSE kept[i - 1]
  IN kept[Len(t)]

\* (mutant) The index of a field is its rank among the columns.
ReflectStructInfoShifted(t) ==
  [columns |-> [j \in DOMAIN Kept(t) |-> t[Kept(t)[j]].name], indexes |-> [j \in DOMAIN Kept(t) |-> j]]

\* reflectStructInfo, of a type that is not in the cache.
ReflectStructInfo(t) ==
  [columns |-> [j \in DOMAIN Kept(t) |-> t[Kept(t)[j]].name], indexes |-> Kept(t)]

Returns(g, t, row, error) ==
  /\ insert' = [insert EXCEPT ![g] = [NoInsert EXCEPT !.type = t, !.row = row, !.error = error]]
  /\ last' = Traced(error)

\* prepareAsyncInsert from the columns on, and Exec.
Inserts(g, t, info) ==
  IF info.columns = << >>
  THEN Returns(g, t, << >>, TRUE)
  ELSE \E error \in BOOLEAN :
         Returns(g, t, [j \in DOMAIN info.columns |-> <<info.columns[j], t[info.indexes[j]].name>>], error)

Cached(t) == {info \in {entry[2] : entry \in cache} : <<t, info>> \in cache}

\* AsyncInsertStruct, up to LoadOrStore if the type is not in the cache.  A
\* value is a struct or a pointer to one, or neither ("other", a nil pointer too).
AsyncInsertStruct(g, t, shape) ==
  /\ For("clickhouse", "insert")
  /\ insert[g].pc = "idle"
  /\ \/ /\ shape = "other" \/ (Cached(t) = {} /\ ~Reflects(t))
        /\ Returns(g, t, << >>, TRUE)
     \/ /\ shape # "other" /\ Cached(t) = {} /\ Reflects(t)
        /\ insert' = [insert EXCEPT ![g] = [NoInsert EXCEPT !.pc = "reflected", !.type = t,
                                                            !.info = ReflectStructInfo(t)]]
        /\ UNCHANGED last
     \/ /\ shape # "other"
        /\ \E info \in Cached(t) : Inserts(g, t, info)
  /\ UNCHANGED <<postgresVars, batch, cache>>

\* LoadOrStore, and the rest of the call.
LoadsOrStores(g) ==
  /\ For("clickhouse", "insert")
  /\ insert[g].pc = "reflected"
  /\ LET t == insert[g].type
         actual == IF Cached(t) = {} THEN insert[g].info ELSE CHOOSE info \in Cached(t) : TRUE
     IN cache' = cache \cup {<<t, actual>>} /\ Inserts(g, t, actual)
  /\ UNCHANGED <<postgresVars, batch>>

-----------------------------------------------------------------------------
(* The calls that are one request to the driver *)

\* tells: the call returns the error of the driver.
OneRequest(k, tells) ==
  /\ For(k, "requests")
  /\ \E error \in BOOLEAN : last' = Traced(error /\ tells)
  /\ UNCHANGED <<postgresVars, batch, insertVars>>

Exec == OneRequest("postgres", TRUE)
Query == OneRequest("postgres", TRUE)
QueryRow == OneRequest("postgres", FALSE)
Select == OneRequest("clickhouse", TRUE)
Read == OneRequest("bucket", TRUE)
Write == OneRequest("bucket", TRUE)
Delete == OneRequest("bucket", TRUE)
\* A bucket that cannot be asked is told as a key that does not exist.
Exists == OneRequest("bucket", FALSE)

-----------------------------------------------------------------------------

DatabasesInit ==
  /\ use = "none"
  /\ last = Traced(FALSE)
  /\ server = NoSession
  /\ wraps = [h \in Handles |-> "none"]
  /\ closed = {}
  /\ believed = [h \in Handles |-> {}]
  /\ doubtful = {}
  /\ told = "none"
  /\ batch = NoBatch
  /\ cache = {}
  /\ insert = [g \in Goroutines |-> NoInsert]

DatabasesNext ==
  \/ BeginTx \/ Begin
  \/ \E h \in Handles :
       Commit(h) \/ Rollback(h) \/ TxExec(h) \/ TxPrepare(h) \/ TxQuery(h) \/ TxQueryRow(h)
  \/ NewBatchInsert \/ AppendStruct \/ Send
  \/ \E g \in Goroutines : LoadsOrStores(g)
  \/ \E g \in Goroutines, t \in StructTypes, shape \in {"struct", "pointer", "other"} :
       AsyncInsertStruct(g, t, shape)
  \/ Exec \/ Query \/ QueryRow \/ Select \/ Read \/ Write \/ Delete \/ Exists

=============================================================================
