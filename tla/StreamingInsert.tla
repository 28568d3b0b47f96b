--------------------------- MODULE StreamingInsert ---------------------------
(***************************************************************************)
(* The streaming INSERT of one chdb connection: chdb_stream_insert,        *)
(* chdb_stream_append, chdb_stream_done, chdb_stream_cancel_insert,        *)
(* chdb_destroy_insert_stream and close_conn (programs/local/chdb.cpp),    *)
(* the ChdbClient methods they call (ChdbClient.cpp), the chunk queue      *)
(* (StreamingInsert.h over Common/ConcurrentBoundedQueue.h), the worker    *)
(* thread runInsertStreamWorker, the part of LocalConnection the worker    *)
(* drives, and the INSERT pipeline, which commits the parts of earlier     *)
(* blocks while later ones still stream (MergeTreeSink.cpp).               *)
(*                                                                         *)
(* Application threads and one worker per stream interleave between their  *)
(* synchronisation points: client_mutex, the queue, the atomics of         *)
(* InsertStreamContext, the init promise and the join of the worker.       *)
(* A section under client_mutex that waits for nothing is one step.        *)
(***************************************************************************)
EXTENDS Naturals, Sequences, FiniteSets

CONSTANTS
  Threads,         \* application threads
  Streams,         \* insert handles; each is used for one stream
  Chunks,          \* what an application may append
  BadChunks,       \* chunks the input format refuses
  EndChunks,       \* chunks that end the format (Arrow's end-of-stream mark)
  MaxFill,         \* QueueReadBuffer's max_chunks
  MaxAppends,      \* bound: no new append() once so many chunks are accepted in all
  ConcurrentClose, \* may a thread close while another is inside a call?
  UsePython,       \* the build's USE_PYTHON
  NoStream, NoThread, NoChunk

ASSUME InsertAssumption ==
  /\ MaxFill \in Nat \ {0}
  /\ MaxAppends \in Nat
  /\ BadChunks \subseteq Chunks
  /\ EndChunks \subseteq Chunks
  /\ ConcurrentClose \in BOOLEAN
  /\ UsePython \in BOOLEAN
  /\ NoStream \notin Streams
  /\ NoThread \notin Threads
  /\ NoChunk \notin Chunks

VARIABLES
  \* ChdbClient
  alive,       \* the client object exists
  mutex,       \* the thread that holds client_mutex from one step to the next
  active,      \* streaming_insert_context
  settings,    \* NoStream: the connection's own; s: those of s's INSERT
  saved,       \* insert_stream_saved_settings is set
  \* LocalConnection
  engaged,     \* the optional `state' holds a query
  stopped,     \* state->is_cancelled, its executors cancelled
  pipeline,    \* the stream whose pushing pipeline the state holds
  deadCancel,  \* the streams whose sendCancel() used a disengaged state
  \* one record per stream or thread
  ctx,         \* InsertStreamContext, and what became of the handle
  work,        \* the worker thread and the INSERT pipeline it drives
  call,        \* where an application thread is
  \* history
  accepted,    \* the chunks the queue took, in order
  outcome      \* what the stream's finaliser reported

client == <<alive, mutex, active, settings, saved>>
conn   == <<engaged, stopped, pipeline, deadCancel>>
seen   == <<accepted, outcome>>
vars   == <<client, conn, ctx, work, call, seen>>

NewContext ==
  [handle |-> "fresh", queue |-> <<>>, finished |-> FALSE, cancelled |-> FALSE,
   finalized |-> FALSE, errorSet |-> FALSE, workerDone |-> FALSE,
   init |-> "none", joinable |-> FALSE]

\* Of the chunks parsed, the first `sent' went into the pipeline; the rows of
\* those in `stored' are in parts that are committed.
NewWorker ==
  [pc |-> "none", parsed |-> <<>>, sent |-> 0, stored |-> {}, committed |-> FALSE]

Idle == [pc |-> "idle", on |-> NoStream, chunk |-> NoChunk, freeing |-> FALSE]

Init ==
  /\ alive = TRUE
  /\ mutex = NoThread
  /\ active = NoStream
  /\ settings = NoStream
  /\ saved = FALSE
  /\ engaged = FALSE
  /\ stopped = FALSE
  /\ pipeline = NoStream
  /\ deadCancel = {}
  /\ ctx = [s \in Streams |-> NewContext]
  /\ work = [s \in Streams |-> NewWorker]
  /\ call = [t \in Threads |-> Idle]
  /\ accepted = [s \in Streams |-> <<>>]
  /\ outcome = [s \in Streams |-> "none"]

-----------------------------------------------------------------------------
(* Pieces shared by the methods.                                           *)

Goto(t, from, to) ==
  /\ call[t].pc = from
  /\ call' = [call EXCEPT ![t].pc = to]

Begin(t, s, to) == call' = [call EXCEPT ![t] = [@ EXCEPT !.pc = to, !.on = s]]

Leave(t) == call' = [call EXCEPT ![t] = Idle]

restoreSettings ==
  /\ settings' = IF saved THEN NoStream ELSE settings
  /\ saved' = FALSE

\* resetQueryContext() is compiled in with USE_PYTHON only; with the state goes
\* its pipeline, whose destructor cancels and joins it.
resetQueryContext ==
  /\ engaged' = (engaged /\ ~UsePython)
  /\ pipeline' = IF UsePython THEN NoStream ELSE pipeline

\* connection->sendCancel(); state->... on a disengaged optional is undefined,
\* which deadCancel records.
SendCancel(t, from, to) ==
  /\ Goto(t, from, to)
  /\ stopped' = (stopped \/ engaged)
  /\ deadCancel' = IF engaged THEN deadCancel ELSE deadCancel \cup {call[t].on}
  /\ UNCHANGED <<client, engaged, pipeline, ctx, work, seen>>

SetCancelled(t, from, to) ==
  /\ Goto(t, from, to)
  /\ ctx' = [ctx EXCEPT ![call[t].on].cancelled = TRUE]
  /\ UNCHANGED <<client, conn, work, seen>>

FinishQueue(t, from, to) ==
  /\ Goto(t, from, to)
  /\ ctx' = [ctx EXCEPT ![call[t].on].finished = TRUE]
  /\ UNCHANGED <<client, conn, work, seen>>

\* if (worker.joinable()) worker.join()
Join(s) == ctx[s].joinable => work[s].pc = "exited"

-----------------------------------------------------------------------------
(* chdb_stream_insert: executeInsertStreamingInit.                         *)

\* Another stream is active, or the statement does not parse, is no INSERT or
\* is an INSERT SELECT, or applying its settings throws (and is undone).
InsertInitRejected(t, s) ==
  /\ alive /\ mutex = NoThread
  /\ call[t].pc = "idle"
  /\ ctx[s].handle = "fresh"
  /\ ctx' = [ctx EXCEPT ![s].handle = "failed"]
  /\ UNCHANGED <<client, conn, work, call, seen>>

\* Settings are snapshotted and applied, the worker is started and the thread
\* waits for its promise with client_mutex held.
InsertInit(t, s) ==
  /\ alive /\ mutex = NoThread
  /\ call[t].pc = "idle"
  /\ ctx[s].handle = "fresh"
  /\ active = NoStream
  /\ mutex' = t
  /\ active' = s
  /\ saved' = TRUE
  /\ settings' = s
  /\ ctx' = [ctx EXCEPT ![s] = [@ EXCEPT !.handle = "init", !.joinable = TRUE]]
  /\ work' = [work EXCEPT ![s].pc = "start"]
  /\ Begin(t, s, "init_wait")
  /\ UNCHANGED <<alive, conn, seen>>

InsertInitOk(t) ==
  LET s == call[t].on IN
  /\ call[t].pc = "init_wait"
  /\ ctx[s].init = "ok"
  /\ ctx' = [ctx EXCEPT ![s].handle = "open"]
  /\ mutex' = NoThread
  /\ Leave(t)
  /\ UNCHANGED <<alive, active, settings, saved, conn, work, seen>>

\* The worker reported an error: join it, restore and drop the context.
InsertInitError(t) ==
  LET s == call[t].on IN
  /\ call[t].pc = "init_wait"
  /\ ctx[s].init = "error"
  /\ Join(s)
  /\ ctx' = [ctx EXCEPT ![s] = [@ EXCEPT !.handle = "failed", !.joinable = FALSE]]
  /\ restoreSettings
  /\ active' = NoStream
  /\ mutex' = NoThread
  /\ Leave(t)
  /\ UNCHANGED <<alive, conn, work, seen>>

-----------------------------------------------------------------------------
(* runInsertStreamWorker.  It never takes client_mutex.                    *)

WorkerGoto(s, from, to) ==
  /\ work[s].pc = from
  /\ work' = [work EXCEPT ![s].pc = to]

\* connection->sendQuery: a fresh LocalConnection state.  A failure of
\* executeQuery is kept in the state and delivered by receiveSampleBlock.
WorkerSendQuery(s) ==
  /\ WorkerGoto(s, "start", "sample")
  /\ engaged' = TRUE
  /\ stopped' = FALSE
  /\ pipeline' = s
  /\ UNCHANGED <<client, deadCancel, ctx, call, seen>>

\* receiveSampleBlock got an Exception packet: report it and return early,
\* past the code that closes the queue.
WorkerNoSample(s) ==
  /\ WorkerGoto(s, "sample", "exited")
  /\ ctx' = [ctx EXCEPT ![s] = [@ EXCEPT !.init = "error", !.workerDone = TRUE]]
  /\ UNCHANGED <<client, conn, call, seen>>

\* The sample block came and the input pipeline is built: signal_init("").
WorkerReady(s) ==
  /\ WorkerGoto(s, "sample", "pull")
  /\ ctx' = [ctx EXCEPT ![s].init = "ok"]
  /\ UNCHANGED <<client, conn, call, seen>>

\* An exception while the pipeline is built (no such format), while parsing,
\* in sendData (memory limit, a cancelled pipeline) or in the final commit.
WorkerThrow(s) ==
  /\ work[s].pc \in {"sample", "pull", "block", "commit"}
  /\ work' = [work EXCEPT ![s].pc = "catch"]
  /\ UNCHANGED <<client, conn, ctx, call, seen>>

\* The format met its own end mark.
Ended(s) ==
  LET p == work[s].parsed IN p # <<>> /\ p[Len(p)] \in EndChunks

\* Mutant: the chunk is read but stays in the queue.
WorkerPeek(s) ==
  LET q == ctx[s].queue IN
  /\ work[s].pc = "pull"
  /\ ~Ended(s)
  /\ q # <<>>
  /\ Len(work[s].parsed) <= MaxAppends
  /\ work' = [work EXCEPT ![s].parsed = Append(@, Head(q))]
  /\ UNCHANGED <<client, conn, ctx, call, seen>>

\* nextImpl pops a chunk: the parser refuses it, or it joins the block being
\* built.
WorkerPop(s) ==
  LET q == ctx[s].queue IN
  /\ work[s].pc = "pull"
  /\ ~Ended(s)
  /\ q # <<>>
  /\ ctx' = [ctx EXCEPT ![s].queue = Tail(q)]
  /\ \/ /\ Head(q) \in BadChunks
        /\ work' = [work EXCEPT ![s].pc = "catch"]
     \/ /\ Head(q) \notin BadChunks
        /\ work' = [work EXCEPT ![s].parsed = Append(@, Head(q))]
  /\ UNCHANGED <<client, conn, call, seen>>

\* executor.pull yields a block: it is full, or the input is exhausted.
WorkerBlock(s) ==
  /\ WorkerGoto(s, "pull", "block")
  /\ work[s].sent < Len(work[s].parsed)
  /\ UNCHANGED <<client, conn, ctx, call, seen>>

\* The block is dropped when the stream was cancelled, else pushed.
WorkerSendData(s) ==
  /\ \/ /\ ctx[s].cancelled
        /\ WorkerGoto(s, "block", "exit")
     \/ /\ ~ctx[s].cancelled
        /\ work[s].pc = "block"
        /\ work' = [work EXCEPT ![s] = [@ EXCEPT
                         !.pc = "pull", !.sent = Len(work[s].parsed)]]
  /\ UNCHANGED <<client, conn, ctx, call, seen>>

\* executor.pull returns false: the queue is finished and drained.
WorkerEof(s) ==
  /\ WorkerGoto(s, "pull", "eof")
  /\ ~Ended(s)
  /\ work[s].sent = Len(work[s].parsed)
  /\ ctx[s].queue = <<>> /\ ctx[s].finished
  /\ UNCHANGED <<client, conn, ctx, call, seen>>

\* executor.pull returns false after the format's end mark.  The format still
\* asks its buffer for EOF, which takes one more chunk off the queue (or waits
\* for one, or for the end); what that chunk holds is not parsed.
WorkerEndMark(s) ==
  /\ WorkerGoto(s, "pull", "eof")
  /\ Ended(s)
  /\ work[s].sent = Len(work[s].parsed)
  /\ \/ /\ ctx[s].queue # <<>>
        /\ ctx' = [ctx EXCEPT ![s].queue = Tail(@)]
     \/ /\ ctx[s].queue = <<>> /\ ctx[s].finished
        /\ UNCHANGED ctx
  /\ UNCHANGED <<client, conn, call, seen>>

\* if (!ctx->cancelled): only then is the query brought to its end.
WorkerCheckCancelled(s) ==
  /\ \/ ctx[s].cancelled /\ WorkerGoto(s, "eof", "exit")
     \/ ~ctx[s].cancelled /\ WorkerGoto(s, "eof", "commit")
  /\ UNCHANGED <<client, conn, ctx, call, seen>>

\* Mutant: the end of the query is awaited, the sink's last parts are not.
WorkerCommitNoFlush(s) ==
  /\ work[s].pc = "commit"
  /\ work' = [work EXCEPT ![s] = [@ EXCEPT !.pc = "endquery", !.committed = ~stopped]]
  /\ UNCHANGED <<client, conn, ctx, call, seen>>

\* receiveEndOfQueryForInsert polls the connection, which finishes the pushing
\* executor: all it was given is stored.  A pipeline that sendCancel stopped
\* finishes without the rest of its data.
WorkerCommit(s) ==
  /\ work[s].pc = "commit"
  /\ work' = [work EXCEPT ![s] = [@ EXCEPT
                 !.pc = "endquery", !.committed = ~stopped,
                 !.stored = IF stopped THEN work[s].stored ELSE 1..work[s].sent]]
  /\ UNCHANGED <<client, conn, ctx, call, seen>>

\* finishQuery resets the connection's state and EndOfStream is delivered.
WorkerEndQuery(s) ==
  /\ WorkerGoto(s, "endquery", "exit")
  /\ engaged' = FALSE
  /\ pipeline' = NoStream
  /\ UNCHANGED <<client, stopped, deadCancel, ctx, call, seen>>

\* catch (...): the error is recorded and released; the init promise gets it
\* unless it was signalled before.
WorkerCatch(s) ==
  /\ WorkerGoto(s, "catch", "exit")
  /\ ctx' = [ctx EXCEPT ![s] = [@ EXCEPT
       !.errorSet = TRUE,
       !.init = IF ctx[s].init = "none" THEN "error" ELSE ctx[s].init]]
  /\ UNCHANGED <<client, conn, call, seen>>


\* Close the queue on the way out, so that no append stays blocked on it.
WorkerCloseQueue(s) ==
  /\ WorkerGoto(s, "exit", "flag")
  /\ ctx' = [ctx EXCEPT ![s].finished = TRUE]
  /\ UNCHANGED <<client, conn, call, seen>>

WorkerExit(s) ==
  /\ WorkerGoto(s, "flag", "exited")
  /\ ctx' = [ctx EXCEPT ![s].workerDone = TRUE]
  /\ UNCHANGED <<client, conn, call, seen>>

\* The pipeline of s may commit parts: from its own threads until sendCancel()
\* has joined them, or, with one thread, inside the worker's push() or finish(),
\* which end with the part that sendCancel() met half-way.
CanStore(s) ==
  /\ pipeline = s
  /\ stopped => work[s].pc \in {"pull", "commit"}

\* The sink commits the delayed part of an earlier block, in no fixed order
\* when several sinks write; nothing rolls it back.
PipelineStore(s) ==
  /\ CanStore(s)
  /\ \E i \in (1..work[s].sent) \ work[s].stored :
       work' = [work EXCEPT ![s].stored = @ \cup {i}]
  /\ UNCHANGED <<client, conn, ctx, call, seen>>

WorkerStep(s) ==
  \/ WorkerSendQuery(s)
  \/ WorkerNoSample(s)
  \/ WorkerReady(s)
  \/ WorkerThrow(s)
  \/ WorkerPop(s)
  \/ WorkerBlock(s)
  \/ WorkerSendData(s)
  \/ WorkerEof(s)
  \/ WorkerEndMark(s)
  \/ WorkerCheckCancelled(s)
  \/ WorkerCommit(s)
  \/ WorkerEndQuery(s)
  \/ WorkerCatch(s)
  \/ WorkerCloseQueue(s)
  \/ WorkerExit(s)

-----------------------------------------------------------------------------
(* The C entry points on a handle.  A null or finalized handle is an error *)
(* return with no effect; otherwise the call goes on with the handle's     *)
(* owner.  The application does not use a handle it is freeing nor, unless *)
(* ConcurrentClose, one whose connection it is closing.                    *)

ClosePcs == {"close_flag", "close_send", "close_finish", "close_join", "close_free"}

Usable(t, s) ==
  /\ call[t].pc = "idle"
  /\ ctx[s].handle = "open"
  /\ ~ctx[s].finalized
  /\ \A u \in Threads : call[u].on = s => ~call[u].freeing
  /\ ConcurrentClose \/ \A u \in Threads : call[u].pc \notin ClosePcs

Enter(t, s, to) ==
  /\ Usable(t, s)
  /\ Begin(t, s, to)
  /\ UNCHANGED <<client, conn, ctx, work, seen>>

-----------------------------------------------------------------------------
(* chdb_stream_append and executeInsertStreamingAppend.                    *)

MoreAppends ==
  Cardinality(UNION {{s} \X (1..Len(accepted[s])) : s \in Streams}) < MaxAppends

\* Mutant: the caller's bytes are not copied.
AppendCallNoCopy(t, s, c) ==
  /\ Usable(t, s)
  /\ MoreAppends
  /\ Begin(t, s, "append_lock")
  /\ UNCHANGED <<client, conn, ctx, work, seen>>

AppendCall(t, s, c) ==
  /\ Usable(t, s)
  /\ MoreAppends
  /\ call' = [call EXCEPT ![t] = [@ EXCEPT !.pc = "append_lock", !.on = s, !.chunk = c]]
  /\ UNCHANGED <<client, conn, ctx, work, seen>>

\* Under client_mutex: the stream failed or its worker is gone, else push.
AppendCheck(t) ==
  LET c == ctx[call[t].on] IN
  /\ call[t].pc = "append_lock"
  /\ mutex = NoThread
  /\ \/ (c.errorSet \/ c.workerDone) /\ Leave(t)
     \/ ~(c.errorSet \/ c.workerDone) /\ Goto(t, "append_lock", "append_push")
  /\ UNCHANGED <<client, conn, ctx, work, seen>>

\* queue.push outside the lock: it waits while the queue is full and open.
AppendPush(t) ==
  LET s == call[t].on IN
  /\ call[t].pc = "append_push"
  /\ ~ctx[s].finished
  /\ Len(ctx[s].queue) < MaxFill
  /\ ctx' = [ctx EXCEPT ![s].queue = Append(@, call[t].chunk)]
  /\ accepted' = [accepted EXCEPT ![s] = Append(@, call[t].chunk)]
  /\ Leave(t)
  /\ UNCHANGED <<client, conn, work, outcome>>

\* The queue was closed: CHDBError.
AppendClosed(t) ==
  /\ call[t].pc = "append_push"
  /\ ctx[call[t].on].finished
  /\ Leave(t)
  /\ UNCHANGED <<client, conn, ctx, work, seen>>

-----------------------------------------------------------------------------
(* chdb_stream_done and executeInsertStreamingDone.                        *)

DoneCall(t, s) == Enter(t, s, "done_claim")

\* finalized.exchange(true): the loser returns "already finalized".
DoneClaim(t) ==
  LET s == call[t].on IN
  /\ call[t].pc = "done_claim"
  /\ \/ ctx[s].finalized /\ Leave(t)
     \/ ~ctx[s].finalized /\ Goto(t, "done_claim", "done_finish")
  /\ ctx' = [ctx EXCEPT ![s].finalized = TRUE]
  /\ UNCHANGED <<client, conn, work, seen>>

\* Mutant: clearAndFinish() in place of finish().
DoneClearAndFinish(t) ==
  /\ Goto(t, "done_finish", "done_join")
  /\ ctx' = [ctx EXCEPT ![call[t].on] = [@ EXCEPT !.finished = TRUE, !.queue = <<>>]]
  /\ UNCHANGED <<client, conn, work, seen>>

DoneFinish(t) == FinishQueue(t, "done_finish", "done_join")

\* Joins without client_mutex.
DoneJoin(t) ==
  /\ Goto(t, "done_join", "done_lock")
  /\ Join(call[t].on)
  /\ ctx' = [ctx EXCEPT ![call[t].on].joinable = FALSE]
  /\ UNCHANGED <<client, conn, work, seen>>

\* Mutant: the worker's error is not looked at.
DoneReportBlind(t) ==
  /\ call[t].pc = "done_lock"
  /\ mutex = NoThread
  /\ restoreSettings
  /\ active' = NoStream
  /\ resetQueryContext
  /\ outcome' = [outcome EXCEPT ![call[t].on] = "ok"]
  /\ Leave(t)
  /\ UNCHANGED <<alive, mutex, stopped, deadCancel, ctx, work, accepted>>

\* Under client_mutex: restore settings, drop the context, report.
DoneReport(t) ==
  LET s == call[t].on IN
  /\ call[t].pc = "done_lock"
  /\ mutex = NoThread
  /\ restoreSettings
  /\ active' = NoStream
  /\ resetQueryContext
  /\ outcome' = [outcome EXCEPT ![s] = IF ctx[s].errorSet THEN "error" ELSE "ok"]
  /\ Leave(t)
  /\ UNCHANGED <<alive, mutex, stopped, deadCancel, ctx, work, accepted>>

-----------------------------------------------------------------------------
(* chdb_stream_cancel_insert and chdb_destroy_insert_stream; both reach    *)
(* cancelInsertStream.                                                     *)

CancelCall(t, s) == Enter(t, s, "cancel_claim")

\* The application frees a handle no thread is using.
Unused(s) == \A u \in Threads : call[u].on # s

DestroyOpen(t, s) ==
  /\ Unused(s)
  /\ Usable(t, s)
  /\ call' = [call EXCEPT ![t] = [@ EXCEPT !.pc = "cancel_claim", !.on = s, !.freeing = TRUE]]
  /\ UNCHANGED <<client, conn, ctx, work, seen>>

DestroyFinal(t, s) ==
  /\ Unused(s)
  /\ call[t].pc = "idle"
  /\ \/ ctx[s].handle = "failed"
     \/ ctx[s].handle = "open" /\ ctx[s].finalized
  /\ ctx' = [ctx EXCEPT ![s].handle = "destroyed"]
  /\ UNCHANGED <<client, conn, work, call, seen>>

\* Back from cancelInsertStream, chdb_destroy_insert_stream deletes the handle.
HandleAfterCancel(t) ==
  IF call[t].freeing THEN "destroyed" ELSE ctx[call[t].on].handle

\* Mutant: a plain store in place of the exchange.
CancelClaimStore(t) ==
  /\ Goto(t, "cancel_claim", "cancel_flag")
  /\ ctx' = [ctx EXCEPT ![call[t].on].finalized = TRUE]
  /\ UNCHANGED <<client, conn, work, seen>>

CancelClaim(t) ==
  LET s == call[t].on IN
  /\ call[t].pc = "cancel_claim"
  /\ \/ /\ ctx[s].finalized
        /\ ctx' = [ctx EXCEPT ![s].handle = HandleAfterCancel(t)]
        /\ Leave(t)
     \/ /\ ~ctx[s].finalized
        /\ ctx' = [ctx EXCEPT ![s].finalized = TRUE]
        /\ Goto(t, "cancel_claim", "cancel_flag")
  /\ UNCHANGED <<client, conn, work, seen>>

CancelFlag(t) == SetCancelled(t, "cancel_flag", "cancel_send")

\* Without client_mutex.
CancelSend(t) == SendCancel(t, "cancel_send", "cancel_finish")

CancelFinish(t) == FinishQueue(t, "cancel_finish", "cancel_join")

CancelJoin(t) ==
  /\ Goto(t, "cancel_join", "cancel_lock")
  /\ Join(call[t].on)
  /\ ctx' = [ctx EXCEPT ![call[t].on].joinable = FALSE]
  /\ UNCHANGED <<client, conn, work, seen>>

\* Mutant: settings are not restored on cancel.
CancelReleaseNoRestore(t) ==
  LET s == call[t].on IN
  /\ call[t].pc = "cancel_lock"
  /\ mutex = NoThread
  /\ active' = NoStream
  /\ resetQueryContext
  /\ outcome' = [outcome EXCEPT ![s] = "cancelled"]
  /\ ctx' = [ctx EXCEPT ![s].handle = HandleAfterCancel(t)]
  /\ Leave(t)
  /\ UNCHANGED <<alive, mutex, settings, saved, stopped, deadCancel, work, accepted>>

\* Under client_mutex: restore settings and cancelInsertStreamWithoutLock.
CancelRelease(t) ==
  LET s == call[t].on IN
  /\ call[t].pc = "cancel_lock"
  /\ mutex = NoThread
  /\ restoreSettings
  /\ active' = NoStream
  /\ IF active # NoStream THEN resetQueryContext ELSE UNCHANGED <<engaged, pipeline>>
  /\ outcome' = [outcome EXCEPT ![s] = "cancelled"]
  /\ ctx' = [ctx EXCEPT ![s].handle = HandleAfterCancel(t)]
  /\ Leave(t)
  /\ UNCHANGED <<alive, mutex, stopped, deadCancel, work, accepted>>

-----------------------------------------------------------------------------
(* close_conn: ~ChdbClient takes client_mutex for the whole of cleanup(),  *)
(* which tears an open insert stream down; then the client is gone.        *)

CloseCall(t) ==
  /\ alive /\ mutex = NoThread
  /\ call[t].pc = "idle"
  /\ ConcurrentClose \/ \A u \in Threads : call[u].pc = "idle"
  /\ mutex' = t
  /\ Begin(t, active, IF active = NoStream THEN "close_free" ELSE "close_flag")
  /\ UNCHANGED <<alive, active, settings, saved, conn, ctx, work, seen>>

CloseFlag(t) == SetCancelled(t, "close_flag", "close_send")

CloseSend(t) == SendCancel(t, "close_send", "close_finish")

CloseFinish(t) == FinishQueue(t, "close_finish", "close_join")

\* Mutant: teardown does not wait for the worker.
CloseNoJoin(t) ==
  LET s == call[t].on IN
  /\ Goto(t, "close_join", "close_free")
  /\ ctx' = [ctx EXCEPT ![s] = [@ EXCEPT !.joinable = FALSE, !.finalized = TRUE]]
  /\ restoreSettings
  /\ active' = NoStream
  /\ outcome' = [outcome EXCEPT ![s] = "closed"]
  /\ UNCHANGED <<alive, mutex, conn, work, accepted>>

\* Mutant: the torn-down stream is not marked finalized.
CloseJoinNotFinal(t) ==
  LET s == call[t].on IN
  /\ Goto(t, "close_join", "close_free")
  /\ Join(s)
  /\ ctx' = [ctx EXCEPT ![s].joinable = FALSE]
  /\ restoreSettings
  /\ active' = NoStream
  /\ outcome' = [outcome EXCEPT ![s] = "closed"]
  /\ UNCHANGED <<alive, mutex, conn, work, accepted>>

\* Join the worker, then mark the stream finalized, restore, drop the context.
CloseJoin(t) ==
  LET s == call[t].on IN
  /\ Goto(t, "close_join", "close_free")
  /\ Join(s)
  /\ ctx' = [ctx EXCEPT ![s] = [@ EXCEPT !.joinable = FALSE, !.finalized = TRUE]]
  /\ restoreSettings
  /\ active' = NoStream
  /\ outcome' = [outcome EXCEPT ![s] = "closed"]
  /\ UNCHANGED <<alive, mutex, conn, work, accepted>>

\* connection.reset() and the end of the client object, mutex included.
CloseFree(t) ==
  /\ call[t].pc = "close_free"
  /\ Leave(t)
  /\ alive' = FALSE
  /\ mutex' = NoThread
  /\ engaged' = FALSE
  /\ pipeline' = NoStream
  /\ UNCHANGED <<active, settings, saved, stopped, deadCancel, ctx, work, seen>>

-----------------------------------------------------------------------------
\* executeMaterializedQuery, whole under client_mutex: refused while an insert
\* stream is open; otherwise the connection's state is replaced, and is left
\* engaged when the query failed.
MaterializedQuery(t) ==
  /\ alive /\ mutex = NoThread
  /\ call[t].pc = "idle"
  /\ active = NoStream
  /\ engaged' \in BOOLEAN
  /\ stopped' = FALSE
  /\ pipeline' = NoStream
  /\ UNCHANGED <<client, deadCancel, ctx, work, call, seen>>

CallStep(t) ==
  \/ InsertInitOk(t)
  \/ InsertInitError(t)
  \/ AppendCheck(t)
  \/ AppendPush(t)
  \/ AppendClosed(t)
  \/ DoneClaim(t)
  \/ DoneFinish(t)
  \/ DoneJoin(t)
  \/ DoneReport(t)
  \/ CancelClaim(t)
  \/ CancelFlag(t)
  \/ CancelSend(t)
  \/ CancelFinish(t)
  \/ CancelJoin(t)
  \/ CancelRelease(t)
  \/ CloseFlag(t)
  \/ CloseSend(t)
  \/ CloseFinish(t)
  \/ CloseJoin(t)
  \/ CloseFree(t)

NewCall(t) ==
  \/ CloseCall(t)
  \/ MaterializedQuery(t)
  \/ \E s \in Streams :
       \/ InsertInitRejected(t, s)
       \/ InsertInit(t, s)
       \/ DoneCall(t, s)
       \/ CancelCall(t, s)
       \/ DestroyOpen(t, s)
       \/ DestroyFinal(t, s)
       \/ \E c \in Chunks : AppendCall(t, s, c)

\* The application is through: the connection is closed, its handles freed.
Quiescent ==
  /\ ~alive
  /\ \A t \in Threads : call[t].pc = "idle"
  /\ \A s \in Streams : ctx[s].handle \in {"fresh", "destroyed"}
  /\ UNCHANGED vars

Next ==
  \/ \E t \in Threads : NewCall(t) \/ CallStep(t)
  \/ \E s \in Streams : WorkerStep(s) \/ PipelineStore(s)
  \/ Quiescent

\* Threads that are inside a call and workers are scheduled; the application
\* need not call anything.
Fairness ==
  /\ \A t \in Threads : WF_vars(CallStep(t))
  /\ \A s \in Streams : WF_vars(WorkerStep(s))

Spec == Init /\ [][Next]_vars
FairSpec == Spec /\ Fairness

-----------------------------------------------------------------------------
(* Properties.                                                             *)

ContextType ==
  [handle : {"fresh", "init", "open", "failed", "destroyed"},
   queue : Seq(Chunks), finished : BOOLEAN, cancelled : BOOLEAN,
   finalized : BOOLEAN, errorSet : BOOLEAN, workerDone : BOOLEAN,
   init : {"none", "ok", "error"}, joinable : BOOLEAN]

WorkerPcs ==
  {"none", "start", "sample", "pull", "block", "eof", "commit", "endquery",
   "catch", "exit", "flag", "exited"}

WorkerType ==
  [pc : WorkerPcs, parsed : Seq(Chunks), sent : Nat, stored : SUBSET Nat,
   committed : BOOLEAN]

CallPcs ==
  {"idle", "init_wait", "append_lock", "append_push",
   "done_claim", "done_finish", "done_join", "done_lock",
   "cancel_claim", "cancel_flag", "cancel_send", "cancel_finish",
   "cancel_join", "cancel_lock"} \cup ClosePcs

CallType ==
  [pc : CallPcs, on : Streams \cup {NoStream}, chunk : Chunks \cup {NoChunk},
   freeing : BOOLEAN]

\* Every variable keeps its type: among others, only chunks reach the queue.
TypeOK ==
  /\ alive \in BOOLEAN
  /\ mutex \in Threads \cup {NoThread}
  /\ active \in Streams \cup {NoStream}
  /\ settings \in Streams \cup {NoStream}
  /\ saved \in BOOLEAN
  /\ engaged \in BOOLEAN
  /\ stopped \in BOOLEAN
  /\ pipeline \in Streams \cup {NoStream}
  /\ deadCancel \subseteq Streams
  /\ ctx \in [Streams -> ContextType]
  /\ work \in [Streams -> WorkerType]
  /\ call \in [Threads -> CallType]
  /\ accepted \in [Streams -> Seq(Chunks)]
  /\ outcome \in [Streams -> {"none", "ok", "error", "cancelled", "closed"}]

\* The application appended the format's own end mark.
Marked(s) == \E i \in 1..Len(accepted[s]) : accepted[s][i] \in EndChunks

\* The outcome is final: it is success or a cancel, or an error in a build that
\* drops the query with it.
Final(s) ==
  \/ outcome[s] \in {"ok", "cancelled", "closed"}
  \/ outcome[s] = "error" /\ UsePython

\* What the caller is told is what happened.  A successful done() has stored
\* every chunk that append() accepted, up to the format's own end if it came
\* first; once the outcome is told the pipeline stores no more, although what
\* it had stored remains; a stream that was cancelled, or torn down with its
\* connection, never had its pipeline finished, unless its format ended.
OutcomeTrue ==
  \A s \in Streams :
    /\ outcome[s] = "ok" =>
         /\ work[s].parsed = accepted[s] \/ Ended(s)
         /\ work[s].stored = 1..Len(work[s].parsed)
    /\ Final(s) => ~CanStore(s)
    /\ outcome[s] \in {"cancelled", "closed"} /\ work[s].committed => Marked(s)

\* Whenever no insert stream is open and client_mutex is free, the connection
\* has its own settings back (restoreSettingsAfterInsertStream on every path).
SettingsRestored ==
  mutex = NoThread /\ active = NoStream => settings = NoStream /\ ~saved

Working(s) == work[s].pc \notin {"none", "exited"}

\* A running worker has the client, the connection's state and the settings to
\* itself: it is the active stream's, and the client is not freed under it.
WorkerOwnsConnection ==
  \A s \in Streams : Working(s) =>
    /\ alive /\ active = s /\ settings = s
    /\ work[s].pc \in {"pull", "block", "eof", "commit", "endquery"} => engaged

\* A done() or cancel() that claimed its stream still owns the connection's
\* slot: dropping streaming_insert_context cannot drop somebody else's stream.
Finalising(t) ==
  call[t].pc \in {"done_finish", "done_join", "done_lock", "cancel_flag",
                  "cancel_send", "cancel_finish", "cancel_join", "cancel_lock"}

FinaliserOwnsSlot == \A t \in Threads : Finalising(t) => active = call[t].on

\* No thread is inside a client method once the client is freed, and a handle
\* that outlives the connection is finalized, so the C ABI's check stops at it.
NoUseAfterFree ==
  ~alive =>
    /\ \A t \in Threads : call[t].pc = "idle"
    /\ \A s \in Streams : ctx[s].handle = "open" => ctx[s].finalized

\* sendCancel() is only ever sent to a query that has not finished: the
\* finalized flag makes a later cancel() or destroy() a no-op.  Only a format
\* that ends before its stream does finishes the query behind the stream's back.
NeverCancelFinished == \A s \in deadCancel : Marked(s)

\* What the engine is given is, in order and without repetition, a prefix of
\* what append() accepted, even when the format ends before the stream does,
\* and only what it was given is stored.
AcceptedInOrder ==
  \A s \in Streams :
    LET p == work[s].parsed IN
    /\ work[s].sent <= Len(p) /\ Len(p) <= Len(accepted[s])
    /\ work[s].stored \subseteq 1..work[s].sent
    /\ \A i \in 1..Len(p) : p[i] = accepted[s][i]

\* The stream as the caller of the C API sees it.
ContractPhase ==
  [s \in Streams |->
     IF outcome[s] # "none" THEN outcome[s]
     ELSE IF ctx[s].handle \in {"fresh", "init"} THEN "new"
     ELSE IF ctx[s].handle = "open" THEN "open" ELSE "refused"]

Contract == INSTANCE InsertContract
              WITH phase <- ContractPhase, given <- accepted,
                   kept <- [s \in Streams |-> work[s].stored]

\* The protocol of threads, queue, worker and pipeline implements the contract
\* of chdb.h (InsertContract): one stream open, success only for data that is
\* all stored, nothing stored after a cancel or a close, one ending.
ImplementsContract == Contract!ContractSpec


=============================================================================
