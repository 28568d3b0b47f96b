---------------------------- MODULE StreamingQuery ----------------------------
(***************************************************************************)
(* The streaming SELECT of one chdb connection and the statements that     *)
(* share the connection with it: chdb_stream_query,                        *)
(* chdb_stream_fetch_result, chdb_stream_cancel_query,                     *)
(* chdb_destroy_query_result, chdb_query and chdb_close_conn               *)
(* (programs/local/chdb.cpp), the ChdbClient methods behind them           *)
(* (ChdbClient.cpp), the paths of ClientBase they take (ClientBase.cpp)    *)
(* and the one query LocalConnection holds (LocalConnection.cpp).          *)
(*                                                                         *)
(* Every ChdbClient method holds client_mutex from end to end, so it is    *)
(* one step; a fetch is two methods, hasStreamingQuery and                 *)
(* executeStreamingIterate.  poll() on a connection without a query        *)
(* returns false at once and receiveResult polls until it is true: a       *)
(* method that gets there keeps client_mutex and never returns.            *)
(*                                                                         *)
(* A statement is a model value with the number of result blocks it        *)
(* yields; a Failing one raises after its last block.  Statements that do  *)
(* not parse are a step of their own where they change anything.           *)
(***************************************************************************)
EXTENDS Naturals, Sequences

CONSTANTS
  Threads,     \* application threads
  Handles,     \* streaming result handles; each is used for one stream
  Statements,  \* what an application may run
  Selects,     \* the ones that are SELECTs
  Blocks,      \* the number of result blocks of each
  Failing,     \* the ones whose execution raises after those blocks
  MaxRows,     \* bound: no new fetch once a handle has so many blocks
  UsePython,   \* the build's USE_PYTHON
  NoThread, NoHandle, NoQuery, NoContext

ASSUME QueryAssumption ==
  /\ Selects \subseteq Statements
  /\ Failing \subseteq Statements
  /\ Blocks \in [Statements -> Nat]
  /\ MaxRows \in Nat
  /\ UsePython \in BOOLEAN
  /\ NoThread \notin Threads
  /\ NoHandle \notin Handles
  /\ NoQuery \notin [query : Statements, next : Nat]
  /\ NoContext \notin [result : Handles, streaming : BOOLEAN]

VARIABLES
  exclusive,  \* does the application run one statement at a time?
  alive,      \* the ChdbClient exists
  mutex,      \* the thread that hangs with client_mutex held
  context,    \* streaming_query_context: whose stream, and is_streaming_query
  inserting,  \* streaming_insert_context is set
  engine,     \* LocalConnection's `state': the query, and how far it was read
  handle,     \* per handle: what became of the stream, and what it delivered
  call,       \* where an application thread is
  answer      \* history: what chdb_query last reported as a result

vars ==
  <<exclusive, alive, mutex, context, inserting, engine, handle, call, answer>>

Idle == [pc |-> "idle", on |-> NoHandle]

NewHandle == [status |-> "fresh", query |-> NoQuery, rows |-> <<>>]

Init ==
  /\ exclusive \in BOOLEAN
  /\ alive = TRUE
  /\ mutex = NoThread
  /\ context = NoContext
  /\ inserting = FALSE
  /\ engine = NoQuery
  /\ handle = [h \in Handles |-> NewHandle]
  /\ call = [t \in Threads |-> Idle]
  /\ answer = NoQuery

-----------------------------------------------------------------------------
(* LocalConnection.                                                        *)

\* sendQuery: cancels what was left unfinished and starts q.
Loaded(q) == [query |-> q, next |-> 0]

\* What the next receiveResult meets.
Delivers(e) == e.next < Blocks[e.query]
Raises(e) == e.next = Blocks[e.query] /\ e.query \in Failing

\* resetQueryContext() is compiled in with USE_PYTHON only.
resetQueryContext == engine' = IF UsePython THEN NoQuery ELSE engine

-----------------------------------------------------------------------------
(* The application.  It takes client_mutex only when nobody hangs with it. *)
(* An exclusive one starts a statement only when no stream is open and no  *)
(* fetch is under way, and uses a handle only while its stream is open.    *)

Free(t) == alive /\ mutex = NoThread /\ call[t].pc = "idle"

Quiet == \A t \in Threads : call[t].pc = "idle"

MayStart(t) ==
  /\ Free(t)
  /\ exclusive => Quiet /\ \A h \in Handles : handle[h].status # "open"

MayUse(t, h) ==
  /\ Free(t)
  /\ handle[h].status \in {"open", "ended", "error", "cancelled"}
  /\ exclusive => handle[h].status = "open"

\* The caller is told of an error.
Broken(h) ==
  handle' = [handle EXCEPT ![h].status = IF @ = "open" THEN "error" ELSE @]

\* poll() never becomes true: this thread keeps client_mutex.
Hang(t) ==
  /\ mutex' = t
  /\ call' = [call EXCEPT ![t].pc = "hung"]
  /\ UNCHANGED <<exclusive, alive, context, inserting, engine, handle, answer>>

Hung(t) == call[t].pc = "hung" /\ UNCHANGED vars

-----------------------------------------------------------------------------
(* chdb_stream_query: executeStreamingInit.                                *)

\* Refused while an insert stream is open.
StreamInitRefused(t, h) ==
  /\ MayStart(t)
  /\ handle[h].status = "fresh"
  /\ inserting
  /\ handle' = [handle EXCEPT ![h].status = "failed"]
  /\ UNCHANGED <<exclusive, alive, mutex, context, inserting, engine, call, answer>>

\* Mutant: the context of the rejected statement is not reset.
StreamInitRejectedKeeps(t, h) ==
  /\ MayStart(t)
  /\ handle[h].status = "fresh"
  /\ ~inserting
  /\ handle' = [handle EXCEPT ![h].status = "failed"]
  /\ context' = [result |-> NoHandle, streaming |-> TRUE]
  /\ UNCHANGED <<exclusive, alive, mutex, inserting, engine, call, answer>>

\* The text does not parse, is several statements or is no SELECT: the new
\* context, which has replaced the previous one, is reset.
StreamInitRejected(t, h) ==
  /\ MayStart(t)
  /\ handle[h].status = "fresh"
  /\ ~inserting
  /\ handle' = [handle EXCEPT ![h].status = "failed"]
  /\ context' = NoContext
  /\ UNCHANGED <<exclusive, alive, mutex, inserting, engine, call, answer>>

\* A SELECT is sent and nothing is received; an error of executeQuery is kept
\* in the connection and met by the first fetch.
StreamInit(t, h, q) ==
  /\ MayStart(t)
  /\ handle[h].status = "fresh"
  /\ ~inserting
  /\ q \in Selects
  /\ context' = [result |-> h, streaming |-> TRUE]
  /\ engine' = Loaded(q)
  /\ handle' = [handle EXCEPT ![h] = [@ EXCEPT !.status = "open", !.query = q]]
  /\ UNCHANGED <<exclusive, alive, mutex, inserting, call, answer>>

-----------------------------------------------------------------------------
(* chdb_stream_fetch_result.                                               *)

\* hasStreamingQuery, under client_mutex.
FetchCall(t, h) ==
  /\ MayUse(t, h)
  /\ Len(handle[h].rows) < MaxRows
  /\ \/ /\ context = NoContext
        /\ Broken(h)
        /\ UNCHANGED call
     \/ /\ context # NoContext
        /\ call' = [call EXCEPT ![t] = [pc |-> "fetch", on |-> h]]
        /\ UNCHANGED handle
  /\ UNCHANGED <<exclusive, alive, mutex, context, inserting, engine, answer>>

Fetching(t) == alive /\ mutex = NoThread /\ call[t].pc = "fetch"

Return(t) == call' = [call EXCEPT ![t] = Idle]

\* executeStreamingIterate, when the context went away meanwhile ...
FetchNoContext(t) ==
  /\ Fetching(t)
  /\ context = NoContext
  /\ Broken(call[t].on)
  /\ Return(t)
  /\ UNCHANGED <<exclusive, alive, mutex, context, inserting, engine, answer>>

\* ... when it is another handle's: an error, and the context is dropped ...
FetchMismatch(t) ==
  /\ Fetching(t)
  /\ context # NoContext
  /\ context.result # call[t].on
  /\ Broken(call[t].on)
  /\ context' = NoContext
  /\ resetQueryContext
  /\ Return(t)
  /\ UNCHANGED <<exclusive, alive, mutex, inserting, answer>>

FetchOwn(t) ==
  /\ Fetching(t)
  /\ context # NoContext
  /\ context.result = call[t].on

\* ... and when it is this one's: the connection has no query to poll,
FetchHang(t) == FetchOwn(t) /\ engine = NoQuery /\ Hang(t)

Deliver(t) ==
  /\ engine' = [engine EXCEPT !.next = @ + 1]
  /\ handle' = [handle EXCEPT ![call[t].on].rows = Append(@, <<engine.query, engine.next + 1>>)]
  /\ Return(t)
  /\ UNCHANGED <<exclusive, alive, mutex, context, inserting, answer>>

\* Mutant: receiveResult does not stop at a block, and only the last is kept.
FetchBlockLast(t) ==
  /\ FetchOwn(t)
  /\ engine # NoQuery /\ Delivers(engine)
  /\ LET n == Blocks[engine.query] IN
     /\ engine' = [engine EXCEPT !.next = n]
     /\ handle' = [handle EXCEPT ![call[t].on].rows = Append(@, <<engine.query, n>>)]
  /\ Return(t)
  /\ UNCHANGED <<exclusive, alive, mutex, context, inserting, answer>>

\* or yields a block,
FetchBlock(t) ==
  /\ FetchOwn(t)
  /\ engine # NoQuery /\ Delivers(engine)
  /\ Deliver(t)

\* Mutant: the exception is taken for the end of the stream.
FetchErrorAsEnd(t) ==
  /\ FetchOwn(t)
  /\ engine # NoQuery /\ Raises(engine)
  /\ handle' = [handle EXCEPT ![call[t].on].status = IF @ = "open" THEN "ended" ELSE @]
  /\ context' = NoContext
  /\ resetQueryContext
  /\ Return(t)
  /\ UNCHANGED <<exclusive, alive, mutex, inserting, answer>>

\* or raises: the context is dropped, the connection keeps its exception
\* unless resetQueryContext clears it,
FetchError(t) ==
  /\ FetchOwn(t)
  /\ engine # NoQuery /\ Raises(engine)
  /\ Broken(call[t].on)
  /\ context' = NoContext
  /\ resetQueryContext
  /\ Return(t)
  /\ UNCHANGED <<exclusive, alive, mutex, inserting, answer>>

\* Mutant: the empty last result does not drop the context.
FetchEndKeeps(t) ==
  /\ FetchOwn(t)
  /\ engine # NoQuery /\ ~Delivers(engine) /\ ~Raises(engine)
  /\ handle' = [handle EXCEPT ![call[t].on].status = IF @ = "open" THEN "ended" ELSE @]
  /\ engine' = NoQuery
  /\ Return(t)
  /\ UNCHANGED <<exclusive, alive, mutex, context, inserting, answer>>

\* or is at its end: finishQuery, an empty result, and the context is dropped.
FetchEnd(t) ==
  /\ FetchOwn(t)
  /\ engine # NoQuery /\ ~Delivers(engine) /\ ~Raises(engine)
  /\ handle' = [handle EXCEPT ![call[t].on].status = IF @ = "open" THEN "ended" ELSE @]
  /\ context' = NoContext
  /\ engine' = NoQuery
  /\ Return(t)
  /\ UNCHANGED <<exclusive, alive, mutex, inserting, answer>>

-----------------------------------------------------------------------------
(* chdb_stream_cancel_query: cancelStreamingQueryWithoutLock.              *)

Cancelled(h) ==
  handle' = [handle EXCEPT ![h].status = IF @ = "open" THEN "cancelled" ELSE @]

MayCancel(t, h) == MayUse(t, h) /\ (exclusive => Quiet)

\* With no context it does nothing.
CancelNothing(t, h) ==
  /\ MayCancel(t, h)
  /\ context = NoContext
  /\ Cancelled(h)
  /\ UNCHANGED <<exclusive, alive, mutex, context, inserting, engine, call, answer>>

\* The mismatch is thrown, swallowed, and the context dropped all the same.
CancelMismatch(t, h) ==
  /\ MayCancel(t, h)
  /\ context # NoContext
  /\ context.result # h
  /\ Cancelled(h)
  /\ context' = NoContext
  /\ resetQueryContext
  /\ UNCHANGED <<exclusive, alive, mutex, inserting, call, answer>>

\* sendCancel, then receive until the connection is through with the query;
\* a stored exception is swallowed and stays, as in a fetch.
CancelOwn(t, h) ==
  /\ MayCancel(t, h)
  /\ context # NoContext
  /\ context.result = h
  /\ engine # NoQuery
  /\ Cancelled(h)
  /\ context' = NoContext
  /\ IF Raises(engine) THEN resetQueryContext ELSE engine' = NoQuery
  /\ UNCHANGED <<exclusive, alive, mutex, inserting, call, answer>>

\* sendCancel on a connection without a query is undefined; then poll() hangs.
CancelHang(t, h) ==
  /\ MayCancel(t, h)
  /\ context # NoContext
  /\ context.result = h
  /\ engine = NoQuery
  /\ Hang(t)

\* chdb_destroy_query_result only deletes the handle, which no thread is using.
Destroy(t, h) ==
  /\ call[t].pc = "idle"
  /\ handle[h].status \notin {"fresh", "destroyed"}
  /\ exclusive => handle[h].status # "open"
  /\ \A u \in Threads : call[u].on # h
  /\ handle' = [handle EXCEPT ![h] = [NewHandle EXCEPT !.status = "destroyed"]]
  /\ UNCHANGED <<exclusive, alive, mutex, context, inserting, engine, call, answer>>

-----------------------------------------------------------------------------
(* chdb_query: executeMaterializedQuery.  It is refused, with no effect,   *)
(* while an insert stream is open; a text that does not parse has no       *)
(* effect either.                                                          *)

Rows(q) == [i \in 1..Blocks[q] |-> <<q, i>>]

Streaming == context # NoContext /\ context.streaming

\* processQueryText takes the streaming path of processTextAsSingleQuery: the
\* query is sent, nothing is received and the (empty) output is the result.
QueryIntoStream(t, q) ==
  /\ MayStart(t)
  /\ ~inserting
  /\ Streaming
  /\ q \in Selects
  /\ engine' = Loaded(q)
  /\ answer' = [query |-> q, rows |-> <<>>]
  /\ UNCHANGED <<exclusive, alive, mutex, context, inserting, handle, call>>

\* Another kind of statement is refused, but clears is_streaming_query first.
QueryNotSelect(t, q) ==
  /\ MayStart(t)
  /\ ~inserting
  /\ Streaming
  /\ q \notin Selects
  /\ context' = [context EXCEPT !.streaming = FALSE]
  /\ UNCHANGED <<exclusive, alive, mutex, inserting, engine, handle, call, answer>>

\* executeMultiQuery runs the statement to its end; one that raises leaves its
\* exception in the connection.
Query(t, q) ==
  /\ MayStart(t)
  /\ ~inserting
  /\ ~Streaming
  /\ \/ /\ q \in Failing
        /\ engine' = [query |-> q, next |-> Blocks[q]]
        /\ UNCHANGED answer
     \/ /\ q \notin Failing
        /\ engine' = NoQuery
        /\ answer' = [query |-> q, rows |-> Rows(q)]
  /\ UNCHANGED <<exclusive, alive, mutex, context, inserting, handle, call>>

-----------------------------------------------------------------------------
(* chdb_stream_insert as the other statements see it (StreamingInsert has  *)
(* the rest): from its start to its end the worker owns the connection.    *)

\* Mutant: only another insert is looked for.
InsertBeginUnchecked(t) ==
  /\ MayStart(t)
  /\ ~inserting
  /\ inserting' = TRUE
  /\ engine' = NoQuery
  /\ UNCHANGED <<exclusive, alive, mutex, context, handle, call, answer>>

InsertBegin(t) ==
  /\ MayStart(t)
  /\ ~inserting
  /\ context = NoContext
  /\ inserting' = TRUE
  /\ engine' = NoQuery
  /\ UNCHANGED <<exclusive, alive, mutex, context, handle, call, answer>>

InsertEnd(t) ==
  /\ Free(t)
  /\ inserting
  /\ inserting' = FALSE
  /\ UNCHANGED <<exclusive, alive, mutex, context, engine, handle, call, answer>>

-----------------------------------------------------------------------------
(* chdb_close_conn: cleanup() cancels the stream it finds.                 *)

CloseHang(t) ==
  /\ Free(t) /\ Quiet
  /\ context # NoContext /\ context.result # NoHandle
  /\ engine = NoQuery
  /\ Hang(t)

Close(t) ==
  /\ Free(t) /\ Quiet
  /\ context # NoContext /\ context.result # NoHandle => engine # NoQuery
  /\ alive' = FALSE
  /\ context' = NoContext
  /\ inserting' = FALSE
  /\ engine' = NoQuery
  /\ UNCHANGED <<exclusive, mutex, handle, call, answer>>

Quiescent == ~alive /\ UNCHANGED vars

-----------------------------------------------------------------------------
OnHandle(t, h) ==
  \/ StreamInitRefused(t, h)
  \/ StreamInitRejected(t, h)
  \/ \E q \in Statements : StreamInit(t, h, q)
  \/ FetchCall(t, h)
  \/ CancelNothing(t, h)
  \/ CancelMismatch(t, h)
  \/ CancelOwn(t, h)
  \/ CancelHang(t, h)
  \/ Destroy(t, h)

Iterate(t) ==
  \/ FetchNoContext(t)
  \/ FetchMismatch(t)
  \/ FetchHang(t)
  \/ FetchBlock(t)
  \/ FetchError(t)
  \/ FetchEnd(t)

Next ==
  \/ \E t \in Threads :
       \/ \E h \in Handles : OnHandle(t, h)
       \/ Iterate(t)
       \/ \E q \in Statements :
            QueryIntoStream(t, q) \/ QueryNotSelect(t, q) \/ Query(t, q)
       \/ InsertBegin(t)
       \/ InsertEnd(t)
       \/ Close(t)
       \/ CloseHang(t)
       \/ Hung(t)
  \/ Quiescent

Spec == Init /\ [][Next]_vars

-----------------------------------------------------------------------------
(* Properties.                                                             *)

\* At most one statement has the connection: executeInsertStreamingInit and
\* executeStreamingInit keep each other out (the single-active-statement rule).
OneStatement == ~(inserting /\ context # NoContext)

\* Whatever a handle is given, blocks come in order: each one continues the
\* query of the one before it or is the first of another query
\* (executeStreamingIterate over the connection's one query).
RowsInOrder ==
  \A h \in Handles : \A i \in 1..Len(handle[h].rows) :
    LET r == handle[h].rows IN
    r[i][2] = 1 \/ (i > 1 /\ r[i - 1] = <<r[i][1], r[i][2] - 1>>)

\* A stream that ended, failed or was cancelled delivers nothing more, however
\* long its handle is still fetched from (the context is dropped every time).
EndedGetsNothing ==
  [][\A h \in Handles :
       handle[h].status # "open" /\ handle'[h].rows # handle[h].rows =>
         handle'[h].status = "destroyed"]_vars

\* An application that runs one statement at a time gets from each stream the
\* blocks of its own query, in order; the stream ends when it has delivered all
\* of them and fails only if its query does (executeStreamingIterate).
StreamsOwnRows ==
  exclusive =>
    \A h \in Handles :
      LET s == handle[h] IN
      /\ s.status \notin {"fresh", "failed", "destroyed"} =>
           /\ Len(s.rows) <= Blocks[s.query]
           /\ \A i \in 1..Len(s.rows) : s.rows[i] = <<s.query, i>>
      /\ s.status = "ended" => Len(s.rows) = Blocks[s.query] /\ s.query \notin Failing
      /\ s.status = "error" => s.query \in Failing

\* No method polls a connection that has no query with client_mutex held
\* (the loop in receiveResult).
NoHang == \A t \in Threads : call[t].pc # "hung"

\* An application that runs one statement at a time is never left hanging in
\* that loop, and what chdb_query (executeMaterializedQuery) reports as the
\* result of a statement is its whole result.
ExclusiveIsServed ==
  exclusive => NoHang /\ (answer # NoQuery => answer.rows = Rows(answer.query))

=============================================================================
