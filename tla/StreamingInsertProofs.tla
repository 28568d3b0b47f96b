------------------------ MODULE StreamingInsertProofs ------------------------
(***************************************************************************)
(* Theorems about StreamingInsert, for every value of its constants: types *)
(* (TypeInv), then who owns the connection (OwnershipInv).                 *)
(***************************************************************************)
EXTENDS StreamingInsert, SequenceTheorems, TLAPS

USE InsertAssumption

-----------------------------------------------------------------------------
(* Records: which updates keep a record in its type.                       *)

LEMMA ContextUpdate ==
  ASSUME NEW c \in ContextType
  PROVE  /\ [c EXCEPT !.handle = "open"] \in ContextType
         /\ [c EXCEPT !.handle = "failed"] \in ContextType
         /\ [c EXCEPT !.handle = "destroyed"] \in ContextType
         /\ [c EXCEPT !.handle = c.handle] \in ContextType
         /\ [c EXCEPT !.finished = TRUE] \in ContextType
         /\ [c EXCEPT !.cancelled = TRUE] \in ContextType
         /\ [c EXCEPT !.finalized = TRUE] \in ContextType
         /\ [c EXCEPT !.workerDone = TRUE] \in ContextType
         /\ [c EXCEPT !.init = "ok"] \in ContextType
         /\ [c EXCEPT !.joinable = FALSE] \in ContextType
         /\ \A q \in Seq(Chunks) : [c EXCEPT !.queue = q] \in ContextType
<1>1. /\ [c EXCEPT !.handle = "open"] \in ContextType
      /\ [c EXCEPT !.handle = "failed"] \in ContextType
      /\ [c EXCEPT !.handle = "destroyed"] \in ContextType
      /\ [c EXCEPT !.handle = c.handle] \in ContextType
  BY DEF ContextType
<1>2. /\ [c EXCEPT !.finished = TRUE] \in ContextType
      /\ [c EXCEPT !.cancelled = TRUE] \in ContextType
      /\ [c EXCEPT !.finalized = TRUE] \in ContextType
  BY DEF ContextType
<1>3. /\ [c EXCEPT !.workerDone = TRUE] \in ContextType
      /\ [c EXCEPT !.init = "ok"] \in ContextType
      /\ [c EXCEPT !.joinable = FALSE] \in ContextType
  BY DEF ContextType
<1>4. \A q \in Seq(Chunks) : [c EXCEPT !.queue = q] \in ContextType
  BY DEF ContextType
<1>5. QED
  BY <1>1, <1>2, <1>3, <1>4

LEMMA WorkerUpdate ==
  ASSUME NEW w \in WorkerType
  PROVE  /\ \A to \in WorkerPcs : [w EXCEPT !.pc = to] \in WorkerType
         /\ \A q \in Seq(Chunks) : [w EXCEPT !.parsed = q] \in WorkerType
         /\ \A n \in Nat : [w EXCEPT !.pc = "pull", !.sent = n] \in WorkerType
         /\ \A b \in BOOLEAN, d \in SUBSET Nat :
              [w EXCEPT !.pc = "endquery", !.committed = b, !.stored = d] \in WorkerType
         /\ \A d \in SUBSET Nat : [w EXCEPT !.stored = d] \in WorkerType
BY DEF WorkerType, WorkerPcs

LEMMA ContextUpdateTwo ==
  ASSUME NEW c \in ContextType
  PROVE  /\ [c EXCEPT !.handle = "init", !.joinable = TRUE] \in ContextType
         /\ [c EXCEPT !.handle = "failed", !.joinable = FALSE] \in ContextType
         /\ [c EXCEPT !.init = "error", !.workerDone = TRUE] \in ContextType
         /\ [c EXCEPT !.joinable = FALSE, !.finalized = TRUE] \in ContextType
         /\ [c EXCEPT !.errorSet = TRUE,
                      !.init = IF c.init = "none" THEN "error" ELSE c.init]
              \in ContextType
<1>1. /\ [c EXCEPT !.handle = "init", !.joinable = TRUE] \in ContextType
      /\ [c EXCEPT !.handle = "failed", !.joinable = FALSE] \in ContextType
  BY DEF ContextType
<1>2. /\ [c EXCEPT !.init = "error", !.workerDone = TRUE] \in ContextType
      /\ [c EXCEPT !.joinable = FALSE, !.finalized = TRUE] \in ContextType
  BY DEF ContextType
<1>3. [c EXCEPT !.errorSet = TRUE,
                !.init = IF c.init = "none" THEN "error" ELSE c.init]
        \in ContextType
  BY DEF ContextType
<1>4. QED
  BY <1>1, <1>2, <1>3

\* The records of the initial state.
LEMMA InitialRecords ==
  /\ NewContext \in ContextType
  /\ NewWorker \in WorkerType
  /\ Idle \in CallType
<1>1. NewContext \in ContextType
  BY DEF NewContext, ContextType
<1>2. NewWorker \in WorkerType
  BY DEF NewWorker, WorkerType, WorkerPcs
<1>3. Idle \in CallType
  BY DEF Idle, CallType, CallPcs
<1>4. QED
  BY <1>1, <1>2, <1>3

\* What Goto and Leave do to the thread that takes the step and to others.
LEMMA GotoEffect ==
  ASSUME TypeOK, NEW t \in Threads, NEW from, NEW to \in CallPcs, Goto(t, from, to)
  PROVE  /\ call' \in [Threads -> CallType]
         /\ call[t].pc = from
         /\ call'[t].pc = to
         /\ call'[t].on = call[t].on
         /\ call'[t].chunk = call[t].chunk
         /\ call'[t].freeing = call[t].freeing
         /\ \A u \in Threads \ {t} : call'[u] = call[u]
BY ZenonT(40) DEF TypeOK, Goto, CallType

LEMMA LeaveEffect ==
  ASSUME TypeOK, NEW t \in Threads, Leave(t)
  PROVE  /\ call' \in [Threads -> CallType]
         /\ call'[t] = Idle
         /\ \A u \in Threads \ {t} : call'[u] = call[u]
BY InitialRecords DEF TypeOK, Leave

-----------------------------------------------------------------------------
(* Type correctness.  TypeOK alone is not inductive: that AppendPush puts  *)
(* a chunk into the queue rests on the thread having one.                  *)

LocalsOK ==
  \A t \in Threads :
    /\ call[t].pc \notin {"idle", "close_free"} => call[t].on \in Streams
    /\ call[t].pc \in {"append_lock", "append_push"} => call[t].chunk \in Chunks

TypeInv == TypeOK /\ LocalsOK

LEMMA TypeInvInit == Init => TypeInv
<1> SUFFICES ASSUME Init PROVE TypeInv
  OBVIOUS
<1>1. TypeOK
  <2>1. <<>> \in Seq(Chunks)
    OBVIOUS
  <2>2. /\ ctx \in [Streams -> ContextType]
        /\ work \in [Streams -> WorkerType]
        /\ call \in [Threads -> CallType]
    BY InitialRecords DEF Init
  <2>3. /\ alive \in BOOLEAN /\ saved \in BOOLEAN /\ engaged \in BOOLEAN
        /\ stopped \in BOOLEAN /\ deadCancel \subseteq Streams
        /\ pipeline \in Streams \cup {NoStream}
    BY DEF Init
  <2>4. /\ mutex \in Threads \cup {NoThread}
        /\ active \in Streams \cup {NoStream}
        /\ settings \in Streams \cup {NoStream}
        /\ accepted \in [Streams -> Seq(Chunks)]
        /\ outcome \in [Streams -> {"none", "ok", "error", "cancelled", "closed"}]
    BY <2>1 DEF Init
  <2>5. QED
    BY <2>2, <2>3, <2>4 DEF TypeOK
<1>2. LocalsOK
  BY DEF Init, LocalsOK, Idle
<1>3. QED
  BY <1>1, <1>2 DEF TypeInv

LEMMA TypeInvWorker ==
  ASSUME TypeInv, NEW s \in Streams, WorkerStep(s)
  PROVE  TypeInv'
<1> USE DEF WorkerGoto
<1>1. /\ ctx[s] \in ContextType
      /\ ctx[s].queue \in Seq(Chunks)
      /\ work[s] \in WorkerType
      /\ work[s].parsed \in Seq(Chunks)
  BY DEF TypeInv, TypeOK, ContextType, WorkerType
<1>2. LocalsOK' /\ UNCHANGED <<client, call, seen>>
  BY DEF TypeInv, LocalsOK, WorkerStep, WorkerSendQuery, WorkerNoSample,
    WorkerReady, WorkerThrow, WorkerPop, WorkerBlock, WorkerSendData, WorkerEof,
    WorkerEndMark, WorkerCheckCancelled, WorkerCommit, WorkerEndQuery,
    WorkerCatch, WorkerCloseQueue, WorkerExit
<1>3. ASSUME engaged' \in BOOLEAN, stopped' \in BOOLEAN, deadCancel' \subseteq Streams,
             pipeline' \in Streams \cup {NoStream},
             ctx' \in [Streams -> ContextType], work' \in [Streams -> WorkerType]
      PROVE  TypeInv'
  BY <1>2, <1>3 DEF TypeInv, TypeOK, client, seen
<1>4. CASE UNCHANGED conn
  <2>1. /\ engaged' \in BOOLEAN /\ stopped' \in BOOLEAN
        /\ deadCancel' \subseteq Streams /\ pipeline' \in Streams \cup {NoStream}
    BY <1>4 DEF TypeInv, TypeOK, conn
  <2>2. ctx' \in [Streams -> ContextType]
    <3>1. ctx \in [Streams -> ContextType]
      BY DEF TypeInv, TypeOK
    <3>2. CASE WorkerNoSample(s)
      BY <1>1, <3>1, <3>2, ContextUpdateTwo DEF WorkerNoSample
    <3>3. CASE WorkerReady(s)
      BY <1>1, <3>1, <3>3, ContextUpdate DEF WorkerReady
    <3>4. CASE WorkerPop(s)
      <4>1. Tail(ctx[s].queue) \in Seq(Chunks)
        BY <1>1, <3>4 DEF WorkerPop
      <4>2. [ctx[s] EXCEPT !.queue = Tail(ctx[s].queue)] \in ContextType
        BY <1>1, <4>1, ContextUpdate
      <4>3. ctx' = [ctx EXCEPT ![s] = [ctx[s] EXCEPT !.queue = Tail(ctx[s].queue)]]
        BY <3>4 DEF WorkerPop
      <4>4. QED
        BY <3>1, <4>2, <4>3
    <3>5. CASE WorkerEndMark(s)
      <4>1. ctx[s].queue # <<>> => Tail(ctx[s].queue) \in Seq(Chunks)
        BY <1>1
      <4>2. ctx[s].queue # <<>>
              => [ctx[s] EXCEPT !.queue = Tail(ctx[s].queue)] \in ContextType
        BY <1>1, <4>1, ContextUpdate
      <4>3. \/ /\ ctx[s].queue # <<>>
               /\ ctx' = [ctx EXCEPT ![s] = [ctx[s] EXCEPT !.queue = Tail(ctx[s].queue)]]
            \/ ctx' = ctx
        BY <3>5 DEF WorkerEndMark
      <4>4. QED
        BY <3>1, <4>2, <4>3
    <3>6. CASE WorkerCatch(s)
      BY <1>1, <3>1, <3>6, ContextUpdateTwo DEF WorkerCatch
    <3>7. CASE WorkerCloseQueue(s)
      BY <1>1, <3>1, <3>7, ContextUpdate DEF WorkerCloseQueue
    <3>8. CASE WorkerExit(s)
      BY <1>1, <3>1, <3>8, ContextUpdate DEF WorkerExit
    <3>9. CASE UNCHANGED ctx
      BY <3>1, <3>9
    <3>10. QED
      BY <3>2, <3>3, <3>4, <3>5, <3>6, <3>7, <3>8, <3>9 DEF WorkerStep,
        WorkerSendQuery, WorkerThrow, WorkerBlock, WorkerSendData, WorkerEof,
        WorkerCheckCancelled, WorkerCommit, WorkerEndQuery
  <2>3. work' \in [Streams -> WorkerType]
    <3>1. work \in [Streams -> WorkerType] /\ stopped \in BOOLEAN
      BY DEF TypeInv, TypeOK
    <3>2. CASE WorkerPop(s)
      <4>1. ctx[s].queue # <<>> => Append(work[s].parsed, Head(ctx[s].queue)) \in Seq(Chunks)
        BY <1>1
      <4>2. /\ [work[s] EXCEPT !.pc = "catch"] \in WorkerType
            /\ ctx[s].queue # <<>> =>
                 [work[s] EXCEPT !.parsed = Append(work[s].parsed, Head(ctx[s].queue))]
                   \in WorkerType
        BY <1>1, <4>1, WorkerUpdate DEF WorkerPcs
      <4>3. \/ work' = [work EXCEPT ![s] = [work[s] EXCEPT !.pc = "catch"]]
            \/ /\ ctx[s].queue # <<>>
               /\ work' = [work EXCEPT ![s] =
                    [work[s] EXCEPT !.parsed = Append(work[s].parsed, Head(ctx[s].queue))]]
        BY <3>2 DEF WorkerPop
      <4>4. QED
        BY <3>1, <4>2, <4>3
    <3>3. CASE WorkerSendData(s)
      <4>1. Len(work[s].parsed) \in Nat
        BY <1>1
      <4>2. /\ [work[s] EXCEPT !.pc = "exit"] \in WorkerType
            /\ [work[s] EXCEPT !.pc = "pull", !.sent = Len(work[s].parsed)] \in WorkerType
        BY <1>1, <4>1, WorkerUpdate DEF WorkerPcs
      <4>3. \/ work' = [work EXCEPT ![s] = [work[s] EXCEPT !.pc = "exit"]]
            \/ work' = [work EXCEPT ![s] =
                    [work[s] EXCEPT !.pc = "pull", !.sent = Len(work[s].parsed)]]
        BY <3>3 DEF WorkerSendData
      <4>4. QED
        BY <3>1, <4>2, <4>3
    <3>4. CASE WorkerCommit(s)
      <4> DEFINE d == IF stopped THEN work[s].stored ELSE 1..work[s].sent
      <4>1. d \in SUBSET Nat
        BY <1>1, <3>1 DEF WorkerType
      <4>2. work' = [work EXCEPT ![s] =
              [work[s] EXCEPT !.pc = "endquery", !.committed = ~stopped, !.stored = d]]
        BY <3>4 DEF WorkerCommit
      <4> HIDE DEF d
      <4>3. [work[s] EXCEPT !.pc = "endquery", !.committed = ~stopped, !.stored = d]
              \in WorkerType
        BY <1>1, <3>1, <4>1, WorkerUpdate
      <4>4. QED
        BY <3>1, <4>2, <4>3
    <3>5. CASE \E from, to \in WorkerPcs : WorkerGoto(s, from, to)
      BY <3>1, <3>5, ZenonT(40) DEF WorkerType
    <3>6. QED
      BY <3>2, <3>3, <3>4, <3>5 DEF WorkerStep, WorkerSendQuery, WorkerNoSample,
        WorkerReady, WorkerThrow, WorkerBlock, WorkerEof, WorkerEndMark,
        WorkerCheckCancelled, WorkerEndQuery, WorkerCatch, WorkerCloseQueue,
        WorkerExit, WorkerPcs
  <2>4. QED
    BY <1>3, <2>1, <2>2, <2>3
<1>5. CASE WorkerSendQuery(s)
  <2>1. /\ engaged' \in BOOLEAN /\ stopped' \in BOOLEAN
        /\ deadCancel' \subseteq Streams /\ pipeline' \in Streams \cup {NoStream}
    BY <1>5 DEF WorkerSendQuery, TypeInv, TypeOK
  <2>2. ctx' \in [Streams -> ContextType] /\ work' \in [Streams -> WorkerType]
    BY <1>5, ZenonT(40) DEF WorkerSendQuery, TypeInv, TypeOK, WorkerType, WorkerPcs
  <2>3. QED
    BY <1>3, <2>1, <2>2
<1>6. CASE WorkerEndQuery(s)
  <2>1. /\ engaged' \in BOOLEAN /\ stopped' \in BOOLEAN
        /\ deadCancel' \subseteq Streams /\ pipeline' \in Streams \cup {NoStream}
    BY <1>6 DEF WorkerEndQuery, TypeInv, TypeOK
  <2>2. ctx' \in [Streams -> ContextType] /\ work' \in [Streams -> WorkerType]
    <3>1. [work[s] EXCEPT !.pc = "exit"] \in WorkerType
      BY <1>1, WorkerUpdate DEF WorkerPcs
    <3>2. QED
      BY <1>6, <3>1 DEF WorkerEndQuery, TypeInv, TypeOK
  <2>3. QED
    BY <1>3, <2>1, <2>2
<1>7. QED
  BY <1>4, <1>5, <1>6 DEF WorkerStep, WorkerNoSample, WorkerReady, WorkerThrow,
    WorkerPop, WorkerBlock, WorkerSendData, WorkerEof, WorkerEndMark,
    WorkerCheckCancelled, WorkerCommit, WorkerCatch, WorkerCloseQueue, WorkerExit

\* TypeOK by groups of variables, and the steps that leave a group alone.
ClientOK ==
  /\ alive \in BOOLEAN
  /\ mutex \in Threads \cup {NoThread}
  /\ active \in Streams \cup {NoStream}
  /\ settings \in Streams \cup {NoStream}
  /\ saved \in BOOLEAN
ConnOK ==
  /\ engaged \in BOOLEAN /\ stopped \in BOOLEAN
  /\ deadCancel \subseteq Streams
  /\ pipeline \in Streams \cup {NoStream}
CtxOK == ctx \in [Streams -> ContextType]
WorkOK == work \in [Streams -> WorkerType]
CallOK == call \in [Threads -> CallType] /\ LocalsOK
SeenOK ==
  /\ accepted \in [Streams -> Seq(Chunks)]
  /\ outcome \in [Streams -> {"none", "ok", "error", "cancelled", "closed"}]

LEMMA TypeInvParts ==
  /\ TypeInv <=> ClientOK /\ ConnOK /\ CtxOK /\ WorkOK /\ CallOK /\ SeenOK
  /\ TypeInv' <=> ClientOK' /\ ConnOK' /\ CtxOK' /\ WorkOK' /\ CallOK' /\ SeenOK'
BY DEF TypeInv, TypeOK, ClientOK, ConnOK, CtxOK, WorkOK, CallOK, SeenOK

LEMMA Frames ==
  ASSUME TypeInv
  PROVE  /\ UNCHANGED client => ClientOK'
         /\ UNCHANGED conn => ConnOK'
         /\ UNCHANGED ctx => CtxOK'
         /\ UNCHANGED work => WorkOK'
         /\ UNCHANGED call => CallOK'
         /\ UNCHANGED seen => SeenOK'
<1>1. ClientOK /\ ConnOK /\ CtxOK /\ WorkOK /\ CallOK /\ SeenOK
  BY TypeInvParts
<1>2. UNCHANGED client => ClientOK'
  BY <1>1 DEF ClientOK, client
<1>3. UNCHANGED conn => ConnOK'
  BY <1>1 DEF ConnOK, conn
<1>4. (UNCHANGED ctx => CtxOK') /\ (UNCHANGED work => WorkOK')
  BY <1>1 DEF CtxOK, WorkOK
<1>5. UNCHANGED call => CallOK'
  BY <1>1 DEF CallOK, LocalsOK
<1>6. UNCHANGED seen => SeenOK'
  BY <1>1 DEF SeenOK, seen
<1>7. QED
  BY <1>2, <1>3, <1>4, <1>5, <1>6

LEMMA GotoCallOK ==
  ASSUME TypeInv, NEW t \in Threads, NEW from \in CallPcs, NEW to \in CallPcs,
         Goto(t, from, to),
         from \notin {"idle", "close_free"},
         to \in {"append_lock", "append_push"} => from \in {"append_lock", "append_push"}
  PROVE  CallOK'
BY GotoEffect DEF TypeInv, CallOK, LocalsOK

LEMMA LeaveCallOK ==
  ASSUME TypeInv, NEW t \in Threads, Leave(t)
  PROVE  CallOK'
BY LeaveEffect DEF TypeInv, CallOK, LocalsOK, Idle

LEMMA BeginEffect ==
  ASSUME TypeOK, NEW t \in Threads, NEW to \in CallPcs,
         NEW s \in Streams \cup {NoStream}, Begin(t, s, to)
  PROVE  /\ call' \in [Threads -> CallType]
         /\ call'[t].pc = to
         /\ call'[t].on = s
         /\ call'[t].chunk = call[t].chunk
         /\ call'[t].freeing = call[t].freeing
         /\ \A u \in Threads \ {t} : call'[u] = call[u]
<1> DEFINE r == [call[t] EXCEPT !.pc = to, !.on = s]
<1>1. call \in [Threads -> CallType]
  BY DEF TypeOK
<1>2. call[t] \in CallType
  BY <1>1
<1>3. /\ r \in CallType
      /\ r.pc = to /\ r.on = s
      /\ r.chunk = call[t].chunk /\ r.freeing = call[t].freeing
  BY <1>2 DEF CallType
<1>4. call' = [call EXCEPT ![t] = r]
  BY DEF Begin
<1> HIDE DEF r
<1>5. QED
  BY <1>1, <1>3, <1>4

LEMMA BeginCallOK ==
  ASSUME TypeInv, NEW t \in Threads, NEW to \in CallPcs,
         NEW s \in Streams \cup {NoStream}, Begin(t, s, to),
         to # "close_free" => s \in Streams,
         to \notin {"append_lock", "append_push"}
  PROVE  CallOK'
BY BeginEffect DEF TypeInv, CallOK, LocalsOK

\* restoreSettings and resetQueryContext keep the types.
LEMMA RestoreTypes ==
  ASSUME TypeInv
  PROVE  /\ restoreSettings => settings' \in Streams \cup {NoStream} /\ saved' \in BOOLEAN
         /\ resetQueryContext =>
              engaged' \in BOOLEAN /\ pipeline' \in Streams \cup {NoStream}
BY DEF TypeInv, TypeOK, restoreSettings, resetQueryContext

LEMMA TypeInvCall ==
  ASSUME TypeInv, NEW t \in Threads, CallStep(t)
  PROVE  TypeInv'
<1> DEFINE s == call[t].on
<1> USE TypeInvParts, Frames
<1>1. ctx \in [Streams -> ContextType]
  BY DEF CtxOK
<1>2. ASSUME call[t].pc \notin {"idle", "close_free"}
      PROVE  s \in Streams /\ ctx[s] \in ContextType /\ ctx[s].queue \in Seq(Chunks)
  <2>1. s \in Streams
    BY <1>2 DEF CallOK, LocalsOK
  <2>2. QED
    BY <1>1, <2>1 DEF ContextType
<1>3. CASE InsertInitOk(t)
  <2>1. CtxOK'
    BY <1>1, <1>2, <1>3, ContextUpdate DEF InsertInitOk, CtxOK
  <2>2. ClientOK'
    BY <1>3 DEF InsertInitOk, ClientOK
  <2>3. QED
    BY <1>3, <2>1, <2>2, LeaveCallOK DEF InsertInitOk
<1>4. CASE InsertInitError(t)
  <2>1. CtxOK'
    BY <1>1, <1>2, <1>4, ContextUpdateTwo DEF InsertInitError, CtxOK
  <2>2. ClientOK'
    BY <1>4, RestoreTypes DEF InsertInitError, ClientOK
  <2>3. QED
    BY <1>4, <2>1, <2>2, LeaveCallOK DEF InsertInitError
<1>5. CASE AppendCheck(t)
  <2>1. CallOK'
    BY <1>5, GotoCallOK, LeaveCallOK DEF AppendCheck, CallPcs
  <2>2. QED
    BY <1>5, <2>1 DEF AppendCheck
<1>6. CASE AppendPush(t)
  <2>1. /\ s \in Streams /\ call[t].chunk \in Chunks
        /\ ctx[s].queue \in Seq(Chunks) /\ ctx[s] \in ContextType
    BY <1>2, <1>6 DEF AppendPush, CallOK, LocalsOK
  <2>2. Append(ctx[s].queue, call[t].chunk) \in Seq(Chunks)
    BY <2>1
  <2>3. [ctx[s] EXCEPT !.queue = Append(ctx[s].queue, call[t].chunk)] \in ContextType
    BY <2>1, <2>2, ContextUpdate
  <2>4. ctx' = [ctx EXCEPT ![s] =
                 [ctx[s] EXCEPT !.queue = Append(ctx[s].queue, call[t].chunk)]]
    BY <1>6 DEF AppendPush
  <2>5. CtxOK'
    BY <1>1, <2>1, <2>3, <2>4 DEF CtxOK
  <2>6. SeenOK'
    <3>1. accepted[s] \in Seq(Chunks)
      BY <2>1 DEF SeenOK
    <3>2. Append(accepted[s], call[t].chunk) \in Seq(Chunks)
      BY <2>1, <3>1
    <3>3. accepted' \in [Streams -> Seq(Chunks)]
      BY <1>6, <3>2 DEF AppendPush, SeenOK
    <3>4. QED
      BY <1>6, <3>3 DEF AppendPush, SeenOK
  <2>7. QED
    BY <1>6, <2>5, <2>6, LeaveCallOK DEF AppendPush
<1>7. CASE AppendClosed(t)
  BY <1>7, LeaveCallOK DEF AppendClosed
<1>8. CASE DoneClaim(t)
  <2>1. CtxOK'
    BY <1>1, <1>2, <1>8, ContextUpdate DEF DoneClaim, CtxOK
  <2>2. CallOK'
    BY <1>8, GotoCallOK, LeaveCallOK DEF DoneClaim, CallPcs
  <2>3. QED
    BY <1>8, <2>1, <2>2 DEF DoneClaim
<1>9. CASE \E from, to \in CallPcs :
             /\ from \notin {"idle", "close_free", "append_lock"}
             /\ to \notin {"append_lock", "append_push"}
             /\ SetCancelled(t, from, to) \/ FinishQueue(t, from, to)
                  \/ SendCancel(t, from, to)
  <2>1. PICK from \in CallPcs, to \in CallPcs :
          /\ from \notin {"idle", "close_free", "append_lock"}
          /\ to \notin {"append_lock", "append_push"}
          /\ SetCancelled(t, from, to) \/ FinishQueue(t, from, to)
               \/ SendCancel(t, from, to)
    BY <1>9
  <2>2. Goto(t, from, to)
    BY <2>1 DEF SetCancelled, FinishQueue, SendCancel
  <2>3. call[t].pc = from /\ CallOK'
    BY <2>1, <2>2, GotoEffect, GotoCallOK DEF Goto
  <2>4. CASE SetCancelled(t, from, to)
    BY <1>1, <1>2, <2>1, <2>3, <2>4, ContextUpdate DEF SetCancelled, CtxOK
  <2>5. CASE FinishQueue(t, from, to)
    BY <1>1, <1>2, <2>1, <2>3, <2>5, ContextUpdate DEF FinishQueue, CtxOK
  <2>6. CASE SendCancel(t, from, to)
    <3>1. ConnOK'
      BY <1>2, <2>1, <2>3, <2>6 DEF SendCancel, ConnOK
    <3>2. QED
      BY <2>3, <2>6, <3>1 DEF SendCancel
  <2>7. QED
    BY <2>1, <2>4, <2>5, <2>6
<1>10. CASE DoneJoin(t) \/ CancelJoin(t)
  <2>1. CtxOK'
    BY <1>1, <1>2, <1>10, ContextUpdate DEF DoneJoin, CancelJoin, Goto, CtxOK
  <2>2. CallOK'
    BY <1>10, GotoCallOK DEF DoneJoin, CancelJoin, CallPcs
  <2>3. QED
    BY <1>10, <2>1, <2>2 DEF DoneJoin, CancelJoin
<1>11. CASE DoneReport(t)
  <2>1. ClientOK'
    BY <1>11, RestoreTypes DEF DoneReport, ClientOK
  <2>2. ConnOK'
    BY <1>11, RestoreTypes DEF DoneReport, ConnOK
  <2>3. SeenOK'
    BY <1>11 DEF DoneReport, SeenOK
  <2>4. QED
    BY <1>11, <2>1, <2>2, <2>3, LeaveCallOK DEF DoneReport
<1>12. CASE CancelClaim(t)
  <2>1. CtxOK'
    BY <1>1, <1>2, <1>12, ContextUpdate DEF CancelClaim, CtxOK, HandleAfterCancel
  <2>2. CallOK'
    BY <1>12, GotoCallOK, LeaveCallOK DEF CancelClaim, CallPcs
  <2>3. QED
    BY <1>12, <2>1, <2>2 DEF CancelClaim
<1>13. CASE CancelRelease(t)
  <2>1. ClientOK'
    BY <1>13, RestoreTypes DEF CancelRelease, ClientOK
  <2>2. ConnOK'
    BY <1>13, RestoreTypes DEF CancelRelease, ConnOK
  <2>3. SeenOK'
    BY <1>13 DEF CancelRelease, SeenOK
  <2>4. CtxOK'
    BY <1>1, <1>2, <1>13, ContextUpdate DEF CancelRelease, CtxOK, HandleAfterCancel
  <2>5. QED
    BY <1>13, <2>1, <2>2, <2>3, <2>4, LeaveCallOK DEF CancelRelease
<1>14. CASE CloseJoin(t)
  <2>1. ClientOK'
    BY <1>14, RestoreTypes DEF CloseJoin, ClientOK
  <2>2. CtxOK'
    BY <1>1, <1>2, <1>14, ContextUpdateTwo DEF CloseJoin, Goto, CtxOK
  <2>3. SeenOK'
    BY <1>14 DEF CloseJoin, SeenOK
  <2>4. CallOK'
    BY <1>14, GotoCallOK DEF CloseJoin, CallPcs, ClosePcs
  <2>5. QED
    BY <1>14, <2>1, <2>2, <2>3, <2>4 DEF CloseJoin
<1>15. CASE CloseFree(t)
  <2>1. ClientOK'
    BY <1>15 DEF CloseFree, ClientOK
  <2>2. ConnOK'
    BY <1>15 DEF CloseFree, ConnOK
  <2>3. QED
    BY <1>15, <2>1, <2>2, LeaveCallOK DEF CloseFree
<1>16. QED
  BY <1>3, <1>4, <1>5, <1>6, <1>7, <1>8, <1>9, <1>10, <1>11, <1>12, <1>13, <1>14, <1>15
  DEF CallStep, DoneFinish, CancelFlag, CancelSend, CancelFinish, CloseFlag,
    CloseSend, CloseFinish, CallPcs, ClosePcs

LEMMA TypeInvNewCall ==
  ASSUME TypeInv, NEW t \in Threads, NewCall(t)
  PROVE  TypeInv'
<1> USE TypeInvParts, Frames
<1>1. /\ ctx \in [Streams -> ContextType] /\ work \in [Streams -> WorkerType]
      /\ call \in [Threads -> CallType] /\ LocalsOK
  BY DEF CtxOK, WorkOK, CallOK
<1>2. CASE CloseCall(t)
  <2>1. ClientOK'
    BY <1>2 DEF CloseCall, ClientOK
  <2>2. CallOK'
    <3>1. active \in Streams \cup {NoStream}
      BY DEF ClientOK
    <3>2. CASE active = NoStream
      BY <1>2, <3>1, <3>2, BeginCallOK DEF CloseCall, CallPcs, ClosePcs
    <3>3. CASE active # NoStream
      BY <1>2, <3>1, <3>3, BeginCallOK DEF CloseCall, CallPcs, ClosePcs
    <3>4. QED
      BY <3>2, <3>3
  <2>3. QED
    BY <1>2, <2>1, <2>2 DEF CloseCall
<1>3. CASE MaterializedQuery(t)
  <2>1. ConnOK'
    BY <1>3 DEF MaterializedQuery, ConnOK
  <2>2. QED
    BY <1>3, <2>1 DEF MaterializedQuery
<1>4. ASSUME NEW s \in Streams, InsertInitRejected(t, s)
      PROVE  TypeInv'
  BY <1>1, <1>4, ContextUpdate DEF InsertInitRejected, CtxOK
<1>5. ASSUME NEW s \in Streams, InsertInit(t, s)
      PROVE  TypeInv'
  <2>1. ClientOK'
    BY <1>5 DEF InsertInit, ClientOK
  <2>2. CtxOK'
    BY <1>1, <1>5, ContextUpdateTwo DEF InsertInit, CtxOK
  <2>3. WorkOK'
    BY <1>1, <1>5, WorkerUpdate DEF InsertInit, WorkOK, WorkerPcs
  <2>4. CallOK'
    BY <1>1, <1>5, BeginCallOK DEF InsertInit, CallPcs
  <2>5. QED
    BY <1>5, <2>1, <2>2, <2>3, <2>4 DEF InsertInit
<1>6. ASSUME NEW s \in Streams, DoneCall(t, s) \/ CancelCall(t, s)
      PROVE  TypeInv'
  <2>1. CallOK'
    BY <1>1, <1>6, BeginCallOK DEF DoneCall, CancelCall, Enter, CallPcs
  <2>2. QED
    BY <1>6, <2>1 DEF DoneCall, CancelCall, Enter
<1>7. ASSUME NEW s \in Streams, DestroyOpen(t, s)
      PROVE  TypeInv'
  <2> DEFINE r == [call[t] EXCEPT !.pc = "cancel_claim", !.on = s, !.freeing = TRUE]
  <2>1. call[t] \in CallType /\ "cancel_claim" \in CallPcs
    BY <1>1 DEF CallOK, CallPcs
  <2>2. /\ r \in CallType
        /\ r.pc = "cancel_claim" /\ r.on = s
    BY <2>1 DEF CallType
  <2>3. call' = [call EXCEPT ![t] = r]
    BY <1>7 DEF DestroyOpen
  <2>4. CallOK'
    <3> HIDE DEF r
    <3>1. QED BY <1>1, <2>2, <2>3 DEF CallOK, LocalsOK
  <2>5. QED
    BY <1>7, <2>4 DEF DestroyOpen
<1>8. ASSUME NEW s \in Streams, DestroyFinal(t, s)
      PROVE  TypeInv'
  BY <1>1, <1>8, ContextUpdate DEF DestroyFinal, CtxOK
<1>9. ASSUME NEW s \in Streams, NEW c \in Chunks, AppendCall(t, s, c)
      PROVE  TypeInv'
  <2> DEFINE r == [call[t] EXCEPT !.pc = "append_lock", !.on = s, !.chunk = c]
  <2>1. call[t] \in CallType /\ "append_lock" \in CallPcs
    BY <1>1 DEF CallOK, CallPcs
  <2>2. /\ r \in CallType
        /\ r.on = s /\ r.chunk = c
    BY <2>1 DEF CallType
  <2>3. call' = [call EXCEPT ![t] = r]
    BY <1>9 DEF AppendCall
  <2>4. CallOK'
    <3> HIDE DEF r
    <3>1. QED BY <1>1, <2>2, <2>3 DEF CallOK, LocalsOK
  <2>5. QED
    BY <1>9, <2>4 DEF AppendCall
<1>10. QED
  BY <1>2, <1>3, <1>4, <1>5, <1>6, <1>7, <1>8, <1>9 DEF NewCall

LEMMA TypeInvStore ==
  ASSUME TypeInv, NEW s \in Streams, PipelineStore(s)
  PROVE  TypeInv'
<1>1. PICK i \in 1..work[s].sent : work' = [work EXCEPT ![s].stored = @ \cup {i}]
  BY DEF PipelineStore
<1>2. work \in [Streams -> WorkerType] /\ work[s] \in WorkerType
  BY DEF TypeInv, TypeOK
<1>3. work[s].stored \cup {i} \in SUBSET Nat
  BY <1>1, <1>2 DEF WorkerType
<1>4. [work[s] EXCEPT !.stored = work[s].stored \cup {i}] \in WorkerType
  BY <1>2, <1>3, WorkerUpdate
<1>5. work' = [work EXCEPT ![s] = [work[s] EXCEPT !.stored = work[s].stored \cup {i}]]
  BY <1>1
<1>6. WorkOK'
  BY <1>2, <1>4, <1>5 DEF WorkOK
<1>7. QED
  BY <1>6, TypeInvParts, Frames DEF PipelineStore

LEMMA TypeInvNext == TypeInv /\ [Next]_vars => TypeInv'
<1> SUFFICES ASSUME TypeInv, [Next]_vars PROVE TypeInv'
  OBVIOUS
<1>1. CASE \E t \in Threads : NewCall(t) \/ CallStep(t)
  BY <1>1, TypeInvCall, TypeInvNewCall
<1>2. CASE \E s \in Streams : WorkerStep(s) \/ PipelineStore(s)
  BY <1>2, TypeInvWorker, TypeInvStore
<1>3. CASE UNCHANGED vars
  BY <1>3, TypeInvParts, Frames DEF vars
<1>4. QED
  BY <1>1, <1>2, <1>3 DEF Next, Quiescent

\* Every variable keeps its type in every behaviour, for any number of threads,
\* streams and chunks and with or without a concurrent close: what append()
\* queues, the worker parses and the history records are chunks.
THEOREM TypeCorrect == Spec => []TypeOK
<1>1. Spec => []TypeInv
  BY TypeInvInit, TypeInvNext, PTL DEF Spec
<1>2. TypeInv => TypeOK
  BY DEF TypeInv
<1>3. QED
  BY <1>1, <1>2, PTL

-----------------------------------------------------------------------------
(* Who owns the connection: the inductive invariant behind                 *)
(* SettingsRestored, WorkerOwnsConnection, FinaliserOwnsSlot and           *)
(* NoUseAfterFree, for an application that does not close a connection     *)
(* another thread is using (ConcurrentClose = FALSE).                      *)

Claiming(t) == call[t].pc \in {"append_lock", "append_push", "done_claim", "cancel_claim"}

CancelPcs ==
  {"cancel_claim", "cancel_flag", "cancel_send", "cancel_finish", "cancel_join",
   "cancel_lock"}

\* The slot streaming_insert_context decides whose settings are in force.
SlotInv ==
  /\ active = NoStream => settings = NoStream /\ ~saved
  /\ active # NoStream => settings = active /\ saved /\ alive

Querying == {"sample", "pull", "block", "eof", "commit", "endquery"}

\* A running worker belongs to the slot and has not been joined.
WorkerInv ==
  \A s \in Streams : Working(s) =>
    /\ active = s /\ ctx[s].joinable
    /\ work[s].pc \in Querying => engaged

\* A handle that is open and not finalized is the slot's.
HandleInv ==
  \A s \in Streams : ctx[s].handle = "open" /\ ~ctx[s].finalized => active = s

\* What a thread relies on at each stage of its call.
InitCallInv ==
  \A t \in Threads : call[t].pc = "init_wait" =>
    mutex = t /\ active = call[t].on /\ ctx[call[t].on].handle = "init"

ClaimCallInv ==
  \A t \in Threads : Claiming(t) => alive /\ ctx[call[t].on].handle = "open"

FinalCallInv ==
  \A t \in Threads : Finalising(t) =>
    /\ active = call[t].on
    /\ ctx[call[t].on].finalized /\ ctx[call[t].on].handle = "open"
    /\ call[t].pc \in {"done_lock", "cancel_lock"} => ~Working(call[t].on)

OneFinaliser ==
  \A t, u \in Threads : Finalising(t) /\ Finalising(u) => t = u

CloseCallInv ==
  \A t \in Threads : call[t].pc \in ClosePcs =>
    /\ mutex = t /\ alive
    /\ call[t].pc = "close_free" => active = NoStream
    /\ call[t].pc # "close_free" => active = call[t].on
    /\ \A u \in Threads \ {t} : call[u].pc = "idle"

\* chdb_destroy_insert_stream is alone on its handle.
FreeCallInv ==
  \A t \in Threads :
    /\ call[t].pc = "idle" => call[t].on = NoStream /\ ~call[t].freeing
    /\ call[t].freeing =>
         /\ call[t].pc \in CancelPcs
         /\ call[t].pc = "cancel_claim" => ~ctx[call[t].on].finalized
         /\ \A u \in Threads \ {t} : call[u].on # call[t].on

OwnershipInv ==
  /\ SlotInv
  /\ WorkerInv
  /\ HandleInv
  /\ InitCallInv
  /\ ClaimCallInv
  /\ FinalCallInv
  /\ OneFinaliser
  /\ CloseCallInv
  /\ FreeCallInv

-----------------------------------------------------------------------------
(* Steps that keep every handle where it is.                               *)

SameHandles ==
  \A s \in Streams : /\ ctx'[s].handle = ctx[s].handle
                     /\ ctx'[s].finalized = ctx[s].finalized
                     /\ ctx'[s].joinable = ctx[s].joinable

\* A worker's step, seen from outside.
WorkerEffects(s) ==
  /\ Working(s)
  /\ UNCHANGED <<client, call>>
  /\ SameHandles
  /\ \A r \in Streams \ {s} : work'[r] = work[r]
  /\ work'[s].pc \in Querying => engaged'

LEMMA WorkerEffect ==
  ASSUME TypeInv, NEW s \in Streams, WorkerStep(s),
         work[s].pc \in Querying => engaged
  PROVE  WorkerEffects(s)
<1>1. /\ ctx \in [Streams -> ContextType] /\ work \in [Streams -> WorkerType]
      /\ ctx[s] \in ContextType /\ work[s] \in WorkerType
  BY DEF TypeInv, TypeOK
<1>2. UNCHANGED <<client, call>>
  BY DEF WorkerStep, WorkerSendQuery, WorkerNoSample, WorkerReady, WorkerThrow,
    WorkerPop, WorkerBlock, WorkerSendData, WorkerEof, WorkerEndMark,
    WorkerCheckCancelled, WorkerCommit, WorkerEndQuery, WorkerCatch,
    WorkerCloseQueue, WorkerExit
<1>3. SameHandles
  <2>2. CASE UNCHANGED ctx
    BY <2>2 DEF SameHandles
  <2>3. CASE WorkerNoSample(s)
    BY <1>1, <2>3 DEF WorkerNoSample, SameHandles, ContextType
  <2>4. CASE WorkerReady(s)
    BY <1>1, <2>4 DEF WorkerReady, SameHandles, ContextType
  <2>5. CASE WorkerPop(s)
    BY <1>1, <2>5 DEF WorkerPop, SameHandles, ContextType
  <2>6. CASE WorkerEndMark(s)
    <3>1. \/ UNCHANGED ctx
          \/ \E q : ctx' = [ctx EXCEPT ![s].queue = q]
      BY <2>6 DEF WorkerEndMark
    <3>2. QED
      BY <1>1, <3>1, SMTT(20) DEF SameHandles, ContextType
  <2>7. CASE WorkerCatch(s)
    BY <1>1, <2>7 DEF WorkerCatch, SameHandles, ContextType
  <2>8. CASE WorkerCloseQueue(s) \/ WorkerExit(s)
    <3>1. \/ ctx' = [ctx EXCEPT ![s].finished = TRUE]
          \/ ctx' = [ctx EXCEPT ![s].workerDone = TRUE]
      BY <2>8 DEF WorkerCloseQueue, WorkerExit
    <3>2. QED
      BY <1>1, <3>1 DEF SameHandles, ContextType
  <2>9. QED
    BY <2>2, <2>3, <2>4, <2>5, <2>6, <2>7, <2>8 DEF WorkerStep, WorkerSendQuery,
      WorkerThrow, WorkerBlock, WorkerSendData, WorkerEof, WorkerCheckCancelled,
      WorkerCommit, WorkerEndQuery
<1>4. /\ Working(s)
      /\ \A r \in Streams \ {s} : work'[r] = work[r]
  BY <1>1 DEF Working, WorkerGoto, WorkerStep, WorkerSendQuery, WorkerNoSample,
    WorkerReady, WorkerThrow, WorkerPop, WorkerBlock, WorkerSendData, WorkerEof,
    WorkerEndMark, WorkerCheckCancelled, WorkerCommit, WorkerEndQuery,
    WorkerCatch, WorkerCloseQueue, WorkerExit
<1>5. work'[s].pc \in Querying => engaged'
  <2>1. CASE WorkerSendQuery(s)
    BY <1>1, <2>1 DEF WorkerSendQuery, WorkerGoto
  <2>2. CASE WorkerEndQuery(s)
    BY <1>1, <2>2 DEF WorkerEndQuery, WorkerGoto, WorkerType, Querying
  <2>3. CASE UNCHANGED conn /\ ~WorkerSendQuery(s)
    <3>1. work'[s].pc \in Querying => work[s].pc \in Querying
      BY <1>1, <2>3 DEF WorkerGoto, WorkerType, Querying, WorkerStep, WorkerNoSample,
        WorkerReady, WorkerThrow, WorkerPop, WorkerBlock, WorkerSendData, WorkerEof,
        WorkerEndMark, WorkerCheckCancelled, WorkerCommit, WorkerEndQuery,
        WorkerCatch, WorkerCloseQueue, WorkerExit
    <3>2. QED
      BY <2>3, <3>1 DEF conn
  <2>4. QED
    BY <2>1, <2>2, <2>3 DEF WorkerStep, WorkerNoSample,
        WorkerReady, WorkerThrow, WorkerPop, WorkerBlock, WorkerSendData, WorkerEof,
        WorkerEndMark, WorkerCheckCancelled, WorkerCommit,
        WorkerCatch, WorkerCloseQueue, WorkerExit
<1>6. QED
  BY <1>2, <1>3, <1>4, <1>5 DEF WorkerEffects

LEMMA OwnershipWorker ==
  ASSUME TypeInv, OwnershipInv, NEW s \in Streams, WorkerStep(s)
  PROVE  OwnershipInv'
<1> USE DEF OwnershipInv
<1>1. WorkerEffects(s)
  BY WorkerEffect DEF WorkerInv, Working, Querying
<1>2. /\ UNCHANGED <<alive, mutex, active, settings, saved, call>>
      /\ SameHandles
      /\ Working(s)
      /\ \A r \in Streams \ {s} : Working(r)' <=> Working(r)
      /\ \A r \in Streams : Working(r)' => Working(r)
  BY <1>1 DEF WorkerEffects, client, Working
<1>3. \A t \in Threads : call[t].pc # "idle" /\ call[t].pc # "close_free"
        => call[t].on \in Streams
  BY DEF TypeInv, LocalsOK
<1>4. \A t \in Threads : Claiming(t) \/ Finalising(t) \/ call[t].pc = "init_wait"
        => call[t].on \in Streams
  BY <1>3 DEF Claiming, Finalising
<1>5. SlotInv'
  BY <1>2 DEF SlotInv
<1>6. WorkerInv'
  BY <1>1, <1>2 DEF WorkerInv, WorkerEffects, SameHandles, Working
<1>7. HandleInv'
  BY <1>2 DEF HandleInv, SameHandles
<1>8. InitCallInv' /\ ClaimCallInv'
  BY <1>2, <1>4 DEF InitCallInv, ClaimCallInv, SameHandles, Claiming
<1>9. FinalCallInv' /\ OneFinaliser'
  BY <1>2, <1>4 DEF FinalCallInv, OneFinaliser, SameHandles, Finalising
<1>10. CloseCallInv'
  BY <1>2 DEF CloseCallInv
<1>11. FreeCallInv'
  BY <1>2, <1>3 DEF FreeCallInv, SameHandles, CancelPcs
<1>12. QED
  BY <1>5, <1>6, <1>7, <1>8, <1>9, <1>10, <1>11

\* The pipeline commits a part: only what is stored changes.
LEMMA StoreEffect ==
  ASSUME TypeInv, NEW s \in Streams, PipelineStore(s)
  PROVE  /\ UNCHANGED <<client, conn, ctx, call, seen>>
         /\ \A r \in Streams : /\ work'[r].pc = work[r].pc
                               /\ work'[r].parsed = work[r].parsed
                               /\ work'[r].sent = work[r].sent
                               /\ work'[r].committed = work[r].committed
                               /\ r # s => work'[r].stored = work[r].stored
         /\ \E i \in 1..work[s].sent : work'[s].stored = work[s].stored \cup {i}
<1>1. work \in [Streams -> WorkerType]
  BY DEF TypeInv, TypeOK
<1>2. PICK i \in 1..work[s].sent : work' = [work EXCEPT ![s].stored = @ \cup {i}]
  BY DEF PipelineStore
<1>3. /\ work'[s] = [work[s] EXCEPT !.stored = work[s].stored \cup {i}]
      /\ \A r \in Streams \ {s} : work'[r] = work[r]
  BY <1>1, <1>2
<1>4. work[s] \in WorkerType
  BY <1>1
<1>5. /\ work'[s].pc = work[s].pc
      /\ work'[s].parsed = work[s].parsed
      /\ work'[s].sent = work[s].sent
      /\ work'[s].committed = work[s].committed
      /\ work'[s].stored = work[s].stored \cup {i}
  BY <1>3, <1>4 DEF WorkerType
<1>6. QED
  BY <1>2, <1>3, <1>5 DEF PipelineStore

LEMMA OwnershipStore ==
  ASSUME TypeInv, OwnershipInv, NEW s \in Streams, PipelineStore(s)
  PROVE  OwnershipInv'
<1>1. /\ UNCHANGED <<alive, mutex, active, settings, saved, engaged, ctx, call>>
      /\ \A r \in Streams : work'[r].pc = work[r].pc
  BY StoreEffect DEF client, conn
<1>2. \A t \in Threads : Finalising(t) => call[t].on \in Streams
  BY DEF TypeInv, LocalsOK, Finalising
<1>3. SlotInv' /\ WorkerInv' /\ HandleInv'
  BY <1>1 DEF OwnershipInv, SlotInv, WorkerInv, HandleInv, Working
<1>4. InitCallInv' /\ ClaimCallInv' /\ OneFinaliser'
  BY <1>1 DEF OwnershipInv, InitCallInv, ClaimCallInv, OneFinaliser, Claiming, Finalising
<1>5. FinalCallInv'
  BY <1>1, <1>2 DEF OwnershipInv, FinalCallInv, Finalising, Working
<1>6. CloseCallInv' /\ FreeCallInv'
  BY <1>1 DEF OwnershipInv, CloseCallInv, FreeCallInv
<1>7. QED
  BY <1>3, <1>4, <1>5, <1>6 DEF OwnershipInv

FinalPcs ==
  {"done_finish", "done_join", "done_lock", "cancel_flag", "cancel_send",
   "cancel_finish", "cancel_join", "cancel_lock"}

\* A step of a call that stays in its stage.
SameStage(from, to) ==
  \/ from = "append_lock" /\ to = "append_push"
  \/ from = "done_finish" /\ to = "done_join"
  \/ from = "cancel_flag" /\ to = "cancel_send"
  \/ from = "cancel_send" /\ to = "cancel_finish"
  \/ from = "cancel_finish" /\ to = "cancel_join"
  \/ from = "close_flag" /\ to = "close_send"
  \/ from = "close_send" /\ to = "close_finish"
  \/ from = "close_finish" /\ to = "close_join"

LEMMA StageFacts ==
  ASSUME NEW from, NEW to, SameStage(from, to)
  PROVE  /\ from \in CallPcs /\ to \in CallPcs
         /\ to \notin {"idle", "init_wait", "close_free", "done_lock", "cancel_lock", "cancel_claim"}
         /\ from \notin {"idle", "init_wait", "close_free"}
         /\ to \in {"append_lock", "append_push", "done_claim", "cancel_claim"}
              <=> from \in {"append_lock", "append_push", "done_claim", "cancel_claim"}
         /\ to \in FinalPcs <=> from \in FinalPcs
         /\ to \in ClosePcs <=> from \in ClosePcs
         /\ to \in CancelPcs <=> from \in CancelPcs
BY DEF SameStage, CallPcs, FinalPcs, ClosePcs, CancelPcs

LEMMA OwnershipQuietGoto ==
  ASSUME TypeInv, OwnershipInv, NEW t \in Threads, NEW from, NEW to,
         Goto(t, from, to), SameStage(from, to),
         UNCHANGED <<client, engaged, work>>, SameHandles
  PROVE  OwnershipInv'
<1> USE DEF OwnershipInv
<1>1. /\ UNCHANGED <<alive, mutex, active, settings, saved, engaged, work>>
      /\ call[t].pc = from /\ call'[t].pc = to
      /\ call'[t].on = call[t].on
      /\ call'[t].freeing = call[t].freeing
      /\ \A u \in Threads \ {t} : call'[u] = call[u]
  BY StageFacts, GotoEffect DEF TypeInv, client
<1>2. \A u \in Threads : call'[u].on = call[u].on /\ call'[u].freeing = call[u].freeing
  BY <1>1
<1>3. \A u \in Threads : call[u].pc \notin {"idle", "close_free"} => call[u].on \in Streams
  BY DEF TypeInv, LocalsOK
<1>4. \A u \in Threads :
        /\ Claiming(u)' <=> Claiming(u)
        /\ Finalising(u)' <=> Finalising(u)
        /\ call'[u].pc \in ClosePcs <=> call[u].pc \in ClosePcs
        /\ call'[u].pc \in CancelPcs <=> call[u].pc \in CancelPcs
        /\ call'[u].pc \in {"idle", "init_wait", "close_free", "done_lock", "cancel_lock",
                            "cancel_claim"}
             => call'[u].pc = call[u].pc
        /\ call[u].pc \in {"idle", "init_wait", "close_free"} => call'[u].pc = call[u].pc
        /\ Claiming(u) \/ Finalising(u) \/ call[u].pc = "init_wait" => call[u].on \in Streams
  BY <1>1, <1>3, StageFacts DEF Claiming, Finalising, FinalPcs
<1>5. SlotInv' /\ WorkerInv' /\ HandleInv'
  BY <1>1 DEF SlotInv, WorkerInv, HandleInv, SameHandles, Working
<1>6. InitCallInv' /\ ClaimCallInv'
  BY <1>1, <1>2, <1>4 DEF InitCallInv, ClaimCallInv, SameHandles
<1>7. FinalCallInv'
  BY <1>1, <1>2, <1>4 DEF FinalCallInv, SameHandles, Working
<1>8. OneFinaliser'
  BY <1>4 DEF OneFinaliser
<1>9. CloseCallInv'
  BY <1>1, <1>2, <1>4 DEF CloseCallInv
<1>10. FreeCallInv'
  BY <1>1, <1>2, <1>3, <1>4 DEF FreeCallInv, SameHandles
<1>11. QED
  BY <1>5, <1>6, <1>7, <1>8, <1>9, <1>10

LEMMA OwnershipQuietLeave ==
  ASSUME TypeInv, OwnershipInv, NEW t \in Threads, Leave(t),
         UNCHANGED <<client, engaged, work>>, SameHandles
  PROVE  OwnershipInv'
<1> USE DEF OwnershipInv
<1>1. /\ UNCHANGED <<alive, mutex, active, settings, saved, engaged, work>>
      /\ call'[t] = Idle
      /\ \A u \in Threads \ {t} : call'[u] = call[u]
  BY LeaveEffect DEF TypeInv, client
<1>2. call'[t].pc = "idle" /\ call'[t].on = NoStream /\ ~call'[t].freeing
  BY <1>1 DEF Idle
<1>3. \A u \in Threads : call[u].pc \notin {"idle", "close_free"} => call[u].on \in Streams
  BY DEF TypeInv, LocalsOK
<1>4. /\ ~Claiming(t)' /\ ~Finalising(t)'
      /\ \A u \in Threads \ {t} :
           (Claiming(u)' <=> Claiming(u)) /\ (Finalising(u)' <=> Finalising(u))
  BY <1>1, <1>2 DEF Claiming, Finalising
<1>5. SlotInv' /\ WorkerInv' /\ HandleInv'
  BY <1>1 DEF SlotInv, WorkerInv, HandleInv, SameHandles, Working
<1>6. InitCallInv' /\ ClaimCallInv'
  BY <1>1, <1>2, <1>3, <1>4 DEF InitCallInv, ClaimCallInv, SameHandles, Claiming
<1>7. FinalCallInv'
  BY <1>1, <1>2, <1>3, <1>4 DEF FinalCallInv, SameHandles, Working, Finalising
<1>8. OneFinaliser'
  BY <1>4 DEF OneFinaliser
<1>9. CloseCallInv'
  BY <1>1, <1>2 DEF CloseCallInv, ClosePcs
<1>10. FreeCallInv'
  <2>1. ASSUME NEW u \in Threads, call'[u].freeing
        PROVE  /\ call[u].freeing /\ u # t /\ call'[u] = call[u]
               /\ call[u].on \in Streams
    BY <1>1, <1>2, <1>3, <2>1 DEF FreeCallInv, CancelPcs
  <2>2. QED
    BY <1>1, <1>2, <2>1, InsertAssumption DEF FreeCallInv, SameHandles
<1>11. QED
  BY <1>5, <1>6, <1>7, <1>8, <1>9, <1>10

-----------------------------------------------------------------------------
(* Steps that claim, join or release a stream.                             *)

LEMMA CallFacts ==
  ASSUME TypeInv, NEW t \in Threads
  PROVE  /\ ctx \in [Streams -> ContextType]
         /\ call[t].pc \notin {"idle", "close_free"} =>
              call[t].on \in Streams /\ ctx[call[t].on] \in ContextType
         /\ Claiming(t) \/ Finalising(t) \/ call[t].pc = "init_wait" =>
              call[t].on \in Streams /\ ctx[call[t].on] \in ContextType
BY DEF TypeInv, TypeOK, LocalsOK, Claiming, Finalising

\* finalized.exchange(true) by the thread that wins it.
LEMMA OwnershipClaim ==
  ASSUME TypeInv, OwnershipInv, NEW t \in Threads, NEW from, NEW to,
         Goto(t, from, to),
         \/ from = "done_claim" /\ to = "done_finish"
         \/ from = "cancel_claim" /\ to = "cancel_flag",
         ~ctx[call[t].on].finalized,
         ctx' = [ctx EXCEPT ![call[t].on].finalized = TRUE],
         UNCHANGED <<client, engaged, work>>
  PROVE  OwnershipInv'
<1> DEFINE s == call[t].on
<1> USE DEF OwnershipInv
<1>1. /\ UNCHANGED <<alive, mutex, active, settings, saved, engaged, work>>
      /\ call[t].pc = from /\ call'[t].pc = to
      /\ call'[t].on = call[t].on
      /\ call'[t].freeing = call[t].freeing
      /\ \A u \in Threads \ {t} : call'[u] = call[u]
  BY GotoEffect DEF TypeInv, client, CallPcs
<1>2. Claiming(t) /\ s \in Streams /\ ctx[s] \in ContextType
  BY <1>1, CallFacts DEF Claiming
<1>3. /\ ctx'[s].finalized
      /\ \A r \in Streams : /\ ctx'[r].handle = ctx[r].handle
                            /\ ctx'[r].joinable = ctx[r].joinable
                            /\ r # s => ctx'[r].finalized = ctx[r].finalized
  BY <1>2, CallFacts DEF ContextType
<1>4. /\ active = s /\ ctx[s].handle = "open"
      /\ \A u \in Threads : ~Finalising(u)
  BY <1>2, CallFacts DEF ClaimCallInv, HandleInv, FinalCallInv
<1>5. /\ ~Claiming(t)' /\ Finalising(t)'
      /\ call'[t].pc \notin ClosePcs \cup {"idle", "init_wait", "cancel_claim", "done_lock", "cancel_lock"}
      /\ call[t].pc \notin ClosePcs
      /\ call'[t].pc \in CancelPcs <=> call[t].pc \in CancelPcs
      /\ \A u \in Threads \ {t} :
           (Claiming(u)' <=> Claiming(u)) /\ (Finalising(u)' <=> Finalising(u))
  BY <1>1 DEF Claiming, Finalising, ClosePcs, CancelPcs
<1>6. SlotInv' /\ WorkerInv' /\ HandleInv'
  BY <1>1, <1>3 DEF SlotInv, WorkerInv, HandleInv, Working
<1>7. InitCallInv' /\ ClaimCallInv'
  <2>1. \A u \in Threads : Claiming(u) \/ call[u].pc = "init_wait" => call[u].on \in Streams
    BY CallFacts
  <2>2. QED
    BY <1>1, <1>3, <1>5, <2>1 DEF InitCallInv, ClaimCallInv
<1>8. FinalCallInv' /\ OneFinaliser'
  BY <1>1, <1>2, <1>3, <1>4, <1>5 DEF FinalCallInv, OneFinaliser
<1>9. CloseCallInv'
  BY <1>1, <1>5 DEF CloseCallInv, ClosePcs
<1>10. FreeCallInv'
  <2>1. \A u \in Threads : call[u].freeing => call[u].on \in Streams
    BY CallFacts DEF FreeCallInv, CancelPcs
  <2>2. QED
    BY <1>1, <1>3, <1>5, <2>1 DEF FreeCallInv
<1>11. QED
  BY <1>6, <1>7, <1>8, <1>9, <1>10

LEMMA OwnershipJoin ==
  ASSUME TypeInv, OwnershipInv, NEW t \in Threads, DoneJoin(t) \/ CancelJoin(t)
  PROVE  OwnershipInv'
<1> DEFINE s == call[t].on
<1> USE DEF OwnershipInv
<1>1. PICK from, to :
        /\ \/ from = "done_join" /\ to = "done_lock"
           \/ from = "cancel_join" /\ to = "cancel_lock"
        /\ Goto(t, from, to)
  BY DEF DoneJoin, CancelJoin
<1>2. /\ UNCHANGED <<alive, mutex, active, settings, saved, engaged, work>>
      /\ ctx' = [ctx EXCEPT ![s].joinable = FALSE]
      /\ Join(s)
  BY DEF DoneJoin, CancelJoin, client, conn
<1>3. /\ call[t].pc = from /\ call'[t].pc = to
      /\ call'[t].on = call[t].on
      /\ call'[t].freeing = call[t].freeing
      /\ \A u \in Threads \ {t} : call'[u] = call[u]
  BY <1>1, GotoEffect DEF TypeInv, CallPcs
<1>4. Finalising(t) /\ s \in Streams /\ ctx[s] \in ContextType
  BY <1>1, <1>3, CallFacts DEF Finalising
<1>5. \A r \in Streams : /\ ctx'[r].handle = ctx[r].handle
                         /\ ctx'[r].finalized = ctx[r].finalized
                         /\ r # s => ctx'[r].joinable = ctx[r].joinable
  BY <1>2, <1>4, CallFacts DEF ContextType
<1>6. ~Working(s)
  BY <1>2, <1>4 DEF WorkerInv, Join, Working
<1>7. /\ ~Claiming(t)' /\ Finalising(t)' /\ ~Claiming(t)
      /\ call'[t].pc \notin ClosePcs \cup {"idle", "init_wait", "cancel_claim"}
      /\ call[t].pc \notin ClosePcs \cup {"idle", "init_wait", "cancel_claim"}
      /\ call'[t].pc \in CancelPcs <=> call[t].pc \in CancelPcs
      /\ \A u \in Threads \ {t} :
           (Claiming(u)' <=> Claiming(u)) /\ (Finalising(u)' <=> Finalising(u))
  BY <1>1, <1>3 DEF Claiming, Finalising, ClosePcs, CancelPcs
<1>8. SlotInv' /\ WorkerInv' /\ HandleInv'
  BY <1>2, <1>5, <1>6 DEF SlotInv, WorkerInv, HandleInv, Working
<1>9. InitCallInv' /\ ClaimCallInv'
  <2>1. \A u \in Threads : Claiming(u) \/ call[u].pc = "init_wait" => call[u].on \in Streams
    BY CallFacts
  <2>2. QED
    BY <1>2, <1>3, <1>5, <1>7, <2>1 DEF InitCallInv, ClaimCallInv
<1>10. FinalCallInv' /\ OneFinaliser'
  <2>1. \A u \in Threads : Finalising(u) => u = t
    BY <1>4 DEF OneFinaliser
  <2>2. \A u \in Threads : Finalising(u)' => u = t
    BY <1>7, <2>1
  <2>3. ~Working(s)'
    BY <1>2, <1>3, <1>6 DEF Working
  <2>4. QED
    BY <1>2, <1>3, <1>4, <1>5, <2>2, <2>3 DEF FinalCallInv, OneFinaliser
<1>11. CloseCallInv'
  BY <1>2, <1>3, <1>7 DEF CloseCallInv
<1>12. FreeCallInv'
  <2>1. \A u \in Threads : call[u].freeing => call[u].on \in Streams
    BY CallFacts DEF FreeCallInv, CancelPcs
  <2>2. \A u \in Threads : call'[u].on = call[u].on /\ call'[u].freeing = call[u].freeing
    BY <1>3
  <2>3. \A u \in Threads :
          /\ call'[u].pc \in CancelPcs <=> call[u].pc \in CancelPcs
          /\ call'[u].pc = "idle" <=> call[u].pc = "idle"
          /\ call'[u].pc = "cancel_claim" <=> call[u].pc = "cancel_claim"
    BY <1>3, <1>7
  <2>4. QED
    BY <1>5, <2>1, <2>2, <2>3 DEF FreeCallInv
<1>13. QED
  BY <1>8, <1>9, <1>10, <1>11, <1>12

\* DoneReport and CancelRelease: the stream's finaliser gives the slot back.
LEMMA OwnershipRelease ==
  ASSUME TypeInv, OwnershipInv, NEW t \in Threads, DoneReport(t) \/ CancelRelease(t)
  PROVE  OwnershipInv'
<1> DEFINE s == call[t].on
<1> USE DEF OwnershipInv
<1>1. /\ call[t].pc \in {"done_lock", "cancel_lock"} /\ mutex = NoThread
      /\ UNCHANGED <<alive, mutex, work>>
      /\ restoreSettings /\ active' = NoStream
      /\ Leave(t)
  BY DEF DoneReport, CancelRelease
<1>2. Finalising(t) /\ s \in Streams /\ ctx[s] \in ContextType
  BY <1>1, CallFacts DEF Finalising
<1>3. /\ call'[t] = Idle
      /\ \A u \in Threads \ {t} : call'[u] = call[u]
  BY <1>1, LeaveEffect DEF TypeInv
<1>4. call'[t].pc = "idle" /\ call'[t].on = NoStream /\ ~call'[t].freeing
  BY <1>3 DEF Idle
<1>5. /\ \A r \in Streams : /\ ctx'[r].finalized = ctx[r].finalized
                            /\ r # s => ctx'[r].handle = ctx[r].handle
      /\ ~call[t].freeing => ctx'[s].handle = ctx[s].handle
  <2>1. CASE DoneReport(t)
    BY <2>1 DEF DoneReport
  <2>2. CASE CancelRelease(t)
    BY <1>2, <2>2, CallFacts DEF CancelRelease, HandleAfterCancel, ContextType
  <2>3. QED
    BY <2>1, <2>2
<1>6. /\ active = s /\ ctx[s].finalized /\ ~Working(s)
      /\ \A u \in Threads : Finalising(u) => u = t
      /\ \A u \in Threads : call[u].pc # "init_wait" /\ call[u].pc \notin ClosePcs
  BY <1>1, <1>2, InsertAssumption
  DEF FinalCallInv, OneFinaliser, InitCallInv, CloseCallInv
<1>7. /\ ~Claiming(t)' /\ ~Finalising(t)'
      /\ \A u \in Threads \ {t} :
           (Claiming(u)' <=> Claiming(u)) /\ (Finalising(u)' <=> Finalising(u))
  BY <1>3, <1>4 DEF Claiming, Finalising
<1>8. SlotInv'
  BY <1>1, <1>2, <1>6, InsertAssumption DEF SlotInv, restoreSettings
<1>9. WorkerInv'
  BY <1>1, <1>6 DEF WorkerInv, Working
<1>10. HandleInv'
  <2>1. ASSUME NEW r \in Streams, ctx'[r].handle = "open", ~ctx'[r].finalized
        PROVE  FALSE
    <3>1. r # s /\ ctx[r].handle = "open" /\ ~ctx[r].finalized
      BY <1>2, <1>5, <1>6, <2>1
    <3>2. QED
      BY <1>6, <3>1 DEF HandleInv
  <2>2. QED
    BY <2>1 DEF HandleInv
<1>11. InitCallInv' /\ CloseCallInv'
  BY <1>3, <1>4, <1>6 DEF InitCallInv, CloseCallInv, ClosePcs
<1>12. ClaimCallInv'
  <2>1. \A u \in Threads \ {t} : Claiming(u) => call[u].on \in Streams
    BY CallFacts
  <2>2. \A u \in Threads \ {t} : call[t].freeing => call[u].on # s
    BY DEF FreeCallInv
  <2>3. QED
    BY <1>1, <1>3, <1>5, <1>7, <2>1, <2>2 DEF ClaimCallInv
<1>13. FinalCallInv' /\ OneFinaliser'
  BY <1>6, <1>7 DEF FinalCallInv, OneFinaliser
<1>14. FreeCallInv'
  <2>1. \A u \in Threads : call[u].freeing => call[u].on \in Streams
    BY CallFacts DEF FreeCallInv, CancelPcs
  <2>2. QED
    BY <1>3, <1>4, <1>5, <2>1, InsertAssumption DEF FreeCallInv
<1>15. QED
  BY <1>8, <1>9, <1>10, <1>11, <1>12, <1>13, <1>14

\* The thread that waits for init ends its wait, with or without a stream.
LEMMA OwnershipInitEnd ==
  ASSUME TypeInv, OwnershipInv, NEW t \in Threads, InsertInitOk(t) \/ InsertInitError(t)
  PROVE  OwnershipInv'
<1> DEFINE s == call[t].on
<1> USE DEF OwnershipInv
<1>1. /\ call[t].pc = "init_wait"
      /\ UNCHANGED <<alive, engaged, work>>
      /\ mutex' = NoThread
      /\ Leave(t)
  BY DEF InsertInitOk, InsertInitError, conn
<1>2. s \in Streams /\ ctx[s] \in ContextType /\ call[t].pc # "idle"
  BY <1>1, CallFacts
<1>3. /\ call'[t] = Idle
      /\ \A u \in Threads \ {t} : call'[u] = call[u]
  BY <1>1, LeaveEffect DEF TypeInv
<1>4. call'[t].pc = "idle" /\ call'[t].on = NoStream /\ ~call'[t].freeing
  BY <1>3 DEF Idle
<1>5. /\ \A r \in Streams :
           /\ ctx'[r].finalized = ctx[r].finalized
           /\ r # s => ctx'[r].handle = ctx[r].handle /\ ctx'[r].joinable = ctx[r].joinable
      /\ \/ /\ UNCHANGED <<active, settings, saved>>
            /\ ctx'[s].joinable = ctx[s].joinable
         \/ restoreSettings /\ active' = NoStream /\ Join(s) /\ ctx'[s].handle = "failed"
  <2>1. CASE InsertInitOk(t)
    BY <1>2, <2>1, CallFacts DEF InsertInitOk, ContextType
  <2>2. CASE InsertInitError(t)
    BY <1>2, <2>2, CallFacts DEF InsertInitError, ContextType
  <2>3. QED
    BY <2>1, <2>2
<1>6. /\ active = s /\ ctx[s].handle = "init" /\ mutex = t
      /\ \A u \in Threads : ~Finalising(u)
      /\ \A u \in Threads \ {t} : call[u].pc # "init_wait"
      /\ \A u \in Threads : call[u].pc \notin ClosePcs
  <2>1. active = s /\ ctx[s].handle = "init" /\ mutex = t
    BY <1>1 DEF InitCallInv
  <2>2. \A u \in Threads \ {t} : call[u].pc \notin ClosePcs
    BY <1>1, <2>1 DEF CloseCallInv
  <2>3. QED
    BY <1>1, <2>1, <2>2 DEF InitCallInv, FinalCallInv, ClosePcs
<1>7. /\ ~Claiming(t)' /\ ~Finalising(t)'
      /\ \A u \in Threads \ {t} :
           (Claiming(u)' <=> Claiming(u)) /\ (Finalising(u)' <=> Finalising(u))
  BY <1>3, <1>4 DEF Claiming, Finalising
<1>8. SlotInv'
  BY <1>1, <1>2, <1>5, <1>6, InsertAssumption DEF SlotInv, restoreSettings
<1>9. WorkerInv'
  BY <1>1, <1>5, <1>6 DEF WorkerInv, Working, Join
<1>10. HandleInv'
  BY <1>5, <1>6 DEF HandleInv
<1>11. InitCallInv' /\ CloseCallInv'
  BY <1>3, <1>4, <1>6 DEF InitCallInv, CloseCallInv, ClosePcs
<1>12. ClaimCallInv'
  <2>1. \A u \in Threads \ {t} : Claiming(u) => call[u].on \in Streams /\ call[u].on # s
    BY <1>6, CallFacts DEF ClaimCallInv
  <2>2. QED
    BY <1>1, <1>3, <1>5, <1>7, <2>1 DEF ClaimCallInv
<1>13. FinalCallInv' /\ OneFinaliser'
  BY <1>6, <1>7 DEF FinalCallInv, OneFinaliser
<1>14. FreeCallInv'
  <2>1. \A u \in Threads : call[u].freeing => call[u].on \in Streams
    BY CallFacts DEF FreeCallInv, CancelPcs
  <2>2. QED
    BY <1>3, <1>4, <1>5, <2>1, InsertAssumption DEF FreeCallInv
<1>15. QED
  BY <1>8, <1>9, <1>10, <1>11, <1>12, <1>13, <1>14

\* The teardown's last two steps; every other thread is idle.
LEMMA OwnershipClose ==
  ASSUME TypeInv, OwnershipInv, NEW t \in Threads, CloseJoin(t) \/ CloseFree(t)
  PROVE  OwnershipInv'
<1> USE DEF OwnershipInv
<1>1. /\ call[t].pc \in ClosePcs
      /\ \A u \in Threads \ {t} : call[u].pc = "idle"
      /\ mutex = t /\ alive
  BY DEF CloseJoin, CloseFree, Goto, CloseCallInv, ClosePcs
<1>2. CASE CloseJoin(t)
  <2> DEFINE s == call[t].on
  <2>1. /\ Goto(t, "close_join", "close_free") /\ Join(s)
        /\ UNCHANGED <<alive, mutex, engaged, work>>
        /\ restoreSettings /\ active' = NoStream
    BY <1>2 DEF CloseJoin, conn
  <2>2. /\ call[t].pc = "close_join" /\ call'[t].pc = "close_free"
        /\ call'[t].freeing = call[t].freeing
        /\ \A u \in Threads \ {t} : call'[u] = call[u]
    BY <2>1, GotoEffect DEF TypeInv, CallPcs, ClosePcs
  <2>3. s \in Streams /\ ctx[s] \in ContextType /\ active = s
    BY <2>2, CallFacts DEF CloseCallInv, ClosePcs
  <2>4. /\ ctx'[s].finalized
        /\ \A r \in Streams \ {s} : ctx'[r] = ctx[r]
    BY <1>2, <2>3, CallFacts DEF CloseJoin, ContextType
  <2>5. ~call[t].freeing
    BY <2>2 DEF FreeCallInv, CancelPcs
  <2>6. SlotInv'
    BY <2>1, <2>3, InsertAssumption DEF SlotInv, restoreSettings
  <2>7. WorkerInv'
    BY <2>1, <2>3 DEF WorkerInv, Join, Working
  <2>8. HandleInv'
    BY <2>3, <2>4 DEF HandleInv
  <2>9. \A u \in Threads : ~Claiming(u)' /\ ~Finalising(u)' /\ call'[u].pc # "init_wait"
    BY <1>1, <2>2 DEF Claiming, Finalising
  <2>10. InitCallInv' /\ ClaimCallInv' /\ FinalCallInv' /\ OneFinaliser'
    BY <2>9 DEF InitCallInv, ClaimCallInv, FinalCallInv, OneFinaliser
  <2>11. CloseCallInv'
    BY <1>1, <2>1, <2>2 DEF CloseCallInv, ClosePcs
  <2>12. FreeCallInv'
    BY <1>1, <2>2, <2>5 DEF FreeCallInv
  <2>13. QED
    BY <2>6, <2>7, <2>8, <2>10, <2>11, <2>12
<1>3. CASE CloseFree(t)
  <2>1. /\ call[t].pc = "close_free" /\ Leave(t)
        /\ UNCHANGED <<active, settings, saved, ctx, work>>
    BY <1>3 DEF CloseFree
  <2>2. call'[t] = Idle /\ \A u \in Threads \ {t} : call'[u] = call[u]
    BY <2>1, LeaveEffect DEF TypeInv
  <2>3. \A u \in Threads :
          call'[u].pc = "idle" /\ call'[u].on = NoStream /\ ~call'[u].freeing
    BY <1>1, <2>2 DEF Idle, FreeCallInv
  <2>4. active = NoStream
    BY <2>1 DEF CloseCallInv, ClosePcs
  <2>5. SlotInv'
    BY <2>1, <2>4 DEF SlotInv
  <2>6. WorkerInv' /\ HandleInv'
    BY <2>1, <2>4, InsertAssumption DEF WorkerInv, HandleInv, Working
  <2>7. InitCallInv' /\ ClaimCallInv' /\ FinalCallInv' /\ OneFinaliser'
    BY <2>3 DEF InitCallInv, ClaimCallInv, FinalCallInv, OneFinaliser, Claiming, Finalising
  <2>8. CloseCallInv' /\ FreeCallInv'
    BY <2>3 DEF CloseCallInv, FreeCallInv, ClosePcs
  <2>9. QED
    BY <2>5, <2>6, <2>7, <2>8
<1>4. QED
  BY <1>2, <1>3

LEMMA OwnershipCall ==
  ASSUME TypeInv, OwnershipInv, NEW t \in Threads, CallStep(t)
  PROVE  OwnershipInv'
<1>1. ctx \in [Streams -> ContextType]
  BY DEF TypeInv, TypeOK
<1>2. ASSUME NEW from, NEW to, SameStage(from, to),
             SetCancelled(t, from, to) \/ FinishQueue(t, from, to) \/ SendCancel(t, from, to)
      PROVE  OwnershipInv'
  <2>1. Goto(t, from, to) /\ UNCHANGED <<client, engaged, work>>
    BY <1>2 DEF SetCancelled, FinishQueue, SendCancel, conn
  <2>2. SameHandles
    <3>1. call[t].on \in Streams /\ ctx[call[t].on] \in ContextType
      BY <1>2, <2>1, StageFacts, CallFacts DEF Goto
    <3>2. CASE SetCancelled(t, from, to)
      BY <1>1, <3>1, <3>2 DEF SetCancelled, SameHandles, ContextType
    <3>3. CASE FinishQueue(t, from, to)
      BY <1>1, <3>1, <3>3 DEF FinishQueue, SameHandles, ContextType
    <3>4. CASE SendCancel(t, from, to)
      BY <3>4 DEF SendCancel, SameHandles
    <3>5. QED
      BY <1>2, <3>2, <3>3, <3>4
  <2>3. QED
    BY <1>2, <2>1, <2>2, OwnershipQuietGoto
<1>3. CASE DoneFinish(t) \/ CancelFlag(t) \/ CancelSend(t) \/ CancelFinish(t)
        \/ CloseFlag(t) \/ CloseSend(t) \/ CloseFinish(t)
  BY <1>2, <1>3 DEF DoneFinish, CancelFlag, CancelSend, CancelFinish, CloseFlag,
    CloseSend, CloseFinish, SameStage
<1>4. CASE AppendCheck(t)
  <2>1. UNCHANGED <<client, engaged, work>> /\ SameHandles
    BY <1>4 DEF AppendCheck, conn, SameHandles
  <2>2. QED
    BY <1>4, <2>1, OwnershipQuietGoto, OwnershipQuietLeave DEF AppendCheck, SameStage
<1>5. CASE AppendPush(t)
  <2>1. UNCHANGED <<client, engaged, work>> /\ Leave(t)
    BY <1>5 DEF AppendPush, conn
  <2>2. SameHandles
    <3>1. call[t].on \in Streams /\ ctx[call[t].on] \in ContextType
      BY <1>5, CallFacts DEF AppendPush
    <3>2. QED
      BY <1>1, <1>5, <3>1 DEF AppendPush, SameHandles, ContextType
  <2>3. QED
    BY <2>1, <2>2, OwnershipQuietLeave
<1>6. CASE AppendClosed(t)
  <2>1. UNCHANGED <<client, engaged, work>> /\ Leave(t) /\ SameHandles
    BY <1>6 DEF AppendClosed, conn, SameHandles
  <2>2. QED
    BY <2>1, OwnershipQuietLeave
<1>7. ASSUME call[t].pc \in {"done_claim", "cancel_claim"}
      PROVE  call[t].on \in Streams /\ ctx[call[t].on] \in ContextType
  BY <1>7, CallFacts
<1>8. CASE DoneClaim(t)
  <2>1. UNCHANGED <<client, engaged, work>>
    BY <1>8 DEF DoneClaim, conn
  <2>2. CASE ctx[call[t].on].finalized
    <3>1. SameHandles
      <4>1. ctx[call[t].on] \in ContextType /\ ctx[call[t].on].finalized = TRUE
        BY <1>7, <1>8, <2>2 DEF DoneClaim, ContextType
      <4>2. ctx' = [ctx EXCEPT ![call[t].on].finalized = TRUE]
        BY <1>8 DEF DoneClaim
      <4>3. QED
        BY <1>1, <4>1, <4>2 DEF SameHandles, ContextType
    <3>2. Leave(t)
      BY <1>8, <2>2 DEF DoneClaim
    <3>3. QED
      BY <2>1, <3>1, <3>2, OwnershipQuietLeave
  <2>3. CASE ~ctx[call[t].on].finalized
    BY <1>8, <2>1, <2>3, OwnershipClaim DEF DoneClaim
  <2>4. QED
    BY <2>2, <2>3
<1>9. CASE CancelClaim(t)
  <2>1. UNCHANGED <<client, engaged, work>>
    BY <1>9 DEF CancelClaim, conn
  <2>2. CASE ctx[call[t].on].finalized
    <3>1. ~call[t].freeing
      BY <1>9, <2>2 DEF OwnershipInv, FreeCallInv, CancelClaim
    <3>2. SameHandles
      BY <1>1, <1>7, <1>9, <2>2, <3>1 DEF CancelClaim, SameHandles, ContextType, HandleAfterCancel
    <3>3. Leave(t)
      BY <1>9, <2>2 DEF CancelClaim
    <3>4. QED
      BY <2>1, <3>2, <3>3, OwnershipQuietLeave
  <2>3. CASE ~ctx[call[t].on].finalized
    BY <1>9, <2>1, <2>3, OwnershipClaim DEF CancelClaim
  <2>4. QED
    BY <2>2, <2>3
<1>10. QED
  BY <1>3, <1>4, <1>5, <1>6, <1>8, <1>9, OwnershipJoin, OwnershipRelease,
    OwnershipInitEnd, OwnershipClose DEF CallStep

-----------------------------------------------------------------------------
(* Calls that begin.                                                       *)

\* A thread enters a call on a handle it may use, or starts to free it.
LEMMA OwnershipEnter ==
  ASSUME TypeInv, OwnershipInv, ~ConcurrentClose,
         NEW t \in Threads, NEW s \in Streams, Usable(t, s),
         call'[t].pc \in {"append_lock", "done_claim", "cancel_claim"},
         call'[t].on = s,
         \A u \in Threads \ {t} : call'[u] = call[u],
         call'[t].freeing => call'[t].pc = "cancel_claim" /\ Unused(s),
         UNCHANGED <<client, conn, ctx, work>>
  PROVE  OwnershipInv'
<1> USE DEF OwnershipInv
<1>1. /\ UNCHANGED <<alive, mutex, active, settings, saved, engaged, ctx, work>>
      /\ call[t].pc = "idle"
      /\ ctx[s].handle = "open" /\ ~ctx[s].finalized
      /\ \A u \in Threads : call[u].on = s => ~call[u].freeing
      /\ \A u \in Threads : call[u].pc \notin ClosePcs
  BY DEF Usable, client, conn
<1>2. active = s /\ alive
  BY <1>1, InsertAssumption DEF HandleInv, SlotInv
<1>3. /\ Claiming(t)' /\ ~Finalising(t)'
      /\ call'[t].pc \notin ClosePcs \cup {"idle", "init_wait"}
      /\ \A u \in Threads \ {t} :
           (Claiming(u)' <=> Claiming(u)) /\ (Finalising(u)' <=> Finalising(u))
  BY DEF Claiming, Finalising, ClosePcs
<1>4. SlotInv' /\ WorkerInv' /\ HandleInv'
  BY <1>1 DEF SlotInv, WorkerInv, HandleInv, Working
<1>5. InitCallInv' /\ ClaimCallInv'
  BY <1>1, <1>2, <1>3 DEF InitCallInv, ClaimCallInv
<1>6. FinalCallInv' /\ OneFinaliser'
  BY <1>1, <1>3 DEF FinalCallInv, OneFinaliser, Working
<1>7. CloseCallInv'
  BY <1>1, <1>3 DEF CloseCallInv
<1>8. FreeCallInv'
  BY <1>1, <1>3 DEF FreeCallInv, CancelPcs, Unused
<1>9. QED
  BY <1>4, <1>5, <1>6, <1>7, <1>8

LEMMA OwnershipNewCall ==
  ASSUME TypeInv, OwnershipInv, ~ConcurrentClose, NEW t \in Threads, NewCall(t)
  PROVE  OwnershipInv'
<1> USE DEF OwnershipInv
<1>1. /\ ctx \in [Streams -> ContextType] /\ call \in [Threads -> CallType]
      /\ work \in [Streams -> WorkerType]
      /\ active \in Streams \cup {NoStream}
  BY DEF TypeInv, TypeOK
<1>2. \A u \in Threads : /\ Claiming(u) \/ Finalising(u) => call[u].on \in Streams
                         /\ call[u].freeing => call[u].on \in Streams
  BY CallFacts DEF FreeCallInv, CancelPcs
<1>3. CASE CloseCall(t)
  <2> DEFINE to == IF active = NoStream THEN "close_free" ELSE "close_flag"
  <2>1. /\ alive /\ mutex' = t
        /\ UNCHANGED <<alive, active, settings, saved, engaged, ctx, work>>
        /\ \A u \in Threads : call[u].pc = "idle"
        /\ Begin(t, active, to)
    BY <1>3 DEF CloseCall, conn
  <2>2. to \in CallPcs /\ to \in {"close_free", "close_flag"} /\ to \in ClosePcs
        /\ (to = "close_free" <=> active = NoStream)
    BY DEF CallPcs, ClosePcs
  <2>3. /\ call'[t].pc = to /\ call'[t].on = active
        /\ call'[t].freeing = call[t].freeing
        /\ \A u \in Threads \ {t} : call'[u] = call[u]
    BY <1>1, <2>1, <2>2, BeginEffect DEF TypeInv
  <2> HIDE DEF to
  <2>4. \A u \in Threads : ~Claiming(u)' /\ ~Finalising(u)' /\ call'[u].pc # "init_wait"
    BY <2>1, <2>2, <2>3 DEF Claiming, Finalising
  <2>5. SlotInv' /\ WorkerInv' /\ HandleInv'
    BY <2>1 DEF SlotInv, WorkerInv, HandleInv, Working
  <2>6. InitCallInv' /\ ClaimCallInv' /\ FinalCallInv' /\ OneFinaliser'
    BY <2>4 DEF InitCallInv, ClaimCallInv, FinalCallInv, OneFinaliser
  <2>7. CloseCallInv'
    BY <2>1, <2>2, <2>3 DEF CloseCallInv, ClosePcs
  <2>8. FreeCallInv'
    BY <2>1, <2>2, <2>3 DEF FreeCallInv
  <2>9. QED
    BY <2>5, <2>6, <2>7, <2>8
<1>4. CASE MaterializedQuery(t)
  <2>1. active = NoStream /\ UNCHANGED <<alive, mutex, active, settings, saved, ctx, work, call>>
    BY <1>4 DEF MaterializedQuery, client
  <2>2. WorkerInv'
    BY <2>1, InsertAssumption DEF WorkerInv, Working
  <2>3. SlotInv' /\ HandleInv'
    BY <2>1 DEF SlotInv, HandleInv
  <2>4. InitCallInv' /\ ClaimCallInv' /\ FinalCallInv' /\ OneFinaliser'
    BY <2>1 DEF InitCallInv, ClaimCallInv, FinalCallInv, OneFinaliser, Claiming, Finalising, Working
  <2>5. CloseCallInv' /\ FreeCallInv'
    BY <2>1 DEF CloseCallInv, FreeCallInv
  <2>6. QED
    BY <2>2, <2>3, <2>4, <2>5
<1>5. ASSUME NEW s \in Streams, InsertInitRejected(t, s) \/ DestroyFinal(t, s)
      PROVE  OwnershipInv'
  <2>1. /\ UNCHANGED <<alive, mutex, active, settings, saved, engaged, work, call>>
        /\ ctx' = [ctx EXCEPT ![s].handle = "failed"]
             \/ ctx' = [ctx EXCEPT ![s].handle = "destroyed"]
    BY <1>5 DEF InsertInitRejected, DestroyFinal, client, conn
  <2>2. /\ ctx'[s].handle \notin {"open", "init"}
        /\ \A r \in Streams : /\ ctx'[r].finalized = ctx[r].finalized
                              /\ ctx'[r].joinable = ctx[r].joinable
                              /\ r # s => ctx'[r].handle = ctx[r].handle
    BY <1>1, <2>1 DEF ContextType
  <2>3. \A u \in Threads : Claiming(u) \/ Finalising(u) \/ call[u].pc = "init_wait"
          => call[u].on # s
    BY <1>5 DEF InsertInitRejected, DestroyFinal, Unused, ClaimCallInv, FinalCallInv, InitCallInv
  <2>4. SlotInv' /\ WorkerInv' /\ HandleInv'
    BY <2>1, <2>2 DEF SlotInv, WorkerInv, HandleInv, Working
  <2>5. InitCallInv' /\ ClaimCallInv'
    <3>1. \A u \in Threads : call[u].pc = "init_wait" => call[u].on \in Streams
      BY CallFacts
    <3>2. QED
      BY <1>2, <2>1, <2>2, <2>3, <3>1 DEF InitCallInv, ClaimCallInv, Claiming
  <2>6. FinalCallInv' /\ OneFinaliser'
    BY <1>2, <2>1, <2>2, <2>3 DEF FinalCallInv, OneFinaliser, Finalising, Working
  <2>7. CloseCallInv'
    BY <2>1 DEF CloseCallInv
  <2>8. FreeCallInv'
    BY <1>2, <2>1, <2>2 DEF FreeCallInv
  <2>9. QED
    BY <2>4, <2>5, <2>6, <2>7, <2>8
<1>6. ASSUME NEW s \in Streams, InsertInit(t, s)
      PROVE  OwnershipInv'
  <2>1. /\ alive /\ mutex = NoThread /\ call[t].pc = "idle"
        /\ ctx[s].handle = "fresh" /\ active = NoStream
        /\ UNCHANGED <<alive, engaged>>
        /\ mutex' = t /\ active' = s /\ saved' = TRUE /\ settings' = s
        /\ Begin(t, s, "init_wait")
    BY <1>6 DEF InsertInit, conn
  <2>2. /\ call'[t].pc = "init_wait" /\ call'[t].on = s
        /\ call'[t].freeing = call[t].freeing
        /\ \A u \in Threads \ {t} : call'[u] = call[u]
    BY <2>1, BeginEffect DEF TypeInv, CallPcs
  <2>3. /\ ctx'[s].handle = "init" /\ ctx'[s].joinable
        /\ \A r \in Streams \ {s} : ctx'[r] = ctx[r]
        /\ \A r \in Streams : ctx'[r].finalized = ctx[r].finalized
        /\ work'[s].pc = "start"
        /\ \A r \in Streams \ {s} : work'[r] = work[r]
    BY <1>1, <1>6 DEF InsertInit, ContextType, WorkerType
  <2>4. /\ \A u \in Threads : call[u].pc \notin ClosePcs /\ call[u].pc # "init_wait"
        /\ \A u \in Threads : ~Finalising(u)
        /\ \A u \in Threads : Claiming(u) => call[u].on # s
        /\ \A u \in Threads : ~call[u].freeing \/ call[u].on # s
        /\ \A r \in Streams : ~Working(r)
    <3>1. \A u \in Threads : call[u].pc \notin ClosePcs /\ call[u].pc # "init_wait"
      BY <2>1, InsertAssumption DEF CloseCallInv, InitCallInv
    <3>2. \A u \in Threads : ~Finalising(u)
      BY <1>2, <2>1, InsertAssumption DEF FinalCallInv
    <3>3. \A u \in Threads : Claiming(u) => call[u].on # s
      BY <2>1 DEF ClaimCallInv
    <3>4. \A u \in Threads : ~call[u].freeing \/ call[u].on # s
      BY <3>2, <3>3 DEF FreeCallInv, CancelPcs, Claiming, Finalising
    <3>5. \A r \in Streams : ~Working(r)
      BY <2>1, InsertAssumption DEF WorkerInv
    <3>6. QED
      BY <3>1, <3>2, <3>3, <3>4, <3>5
  <2>5. /\ ~Claiming(t)' /\ ~Finalising(t)'
        /\ \A u \in Threads \ {t} :
             (Claiming(u)' <=> Claiming(u)) /\ (Finalising(u)' <=> Finalising(u))
    BY <2>2 DEF Claiming, Finalising
  <2>6. SlotInv'
    BY <2>1, InsertAssumption DEF SlotInv
  <2>7. WorkerInv'
    BY <2>1, <2>3, <2>4 DEF WorkerInv, Working, Querying
  <2>8. HandleInv'
    BY <2>1, <2>3, InsertAssumption DEF HandleInv
  <2>9. InitCallInv' /\ ClaimCallInv'
    BY <1>2, <2>1, <2>2, <2>3, <2>4, <2>5 DEF InitCallInv, ClaimCallInv
  <2>10. FinalCallInv' /\ OneFinaliser'
    BY <2>4, <2>5 DEF FinalCallInv, OneFinaliser
  <2>11. CloseCallInv'
    BY <2>2, <2>4 DEF CloseCallInv, ClosePcs
  <2>12. FreeCallInv'
    BY <1>2, <2>1, <2>2, <2>3, <2>4 DEF FreeCallInv
  <2>13. QED
    BY <2>6, <2>7, <2>8, <2>9, <2>10, <2>11, <2>12
<1>7. ASSUME NEW s \in Streams, DoneCall(t, s) \/ CancelCall(t, s)
      PROVE  OwnershipInv'
  <2>1. PICK to \in {"done_claim", "cancel_claim"} : Enter(t, s, to)
    BY <1>7 DEF DoneCall, CancelCall
  <2>2. /\ Begin(t, s, to) /\ Usable(t, s)
        /\ UNCHANGED <<client, conn, ctx, work>> /\ call[t].pc = "idle"
    BY <2>1 DEF Enter, Usable
  <2>3. /\ call'[t].pc = to /\ call'[t].on = s
        /\ call'[t].freeing = call[t].freeing
        /\ \A u \in Threads \ {t} : call'[u] = call[u]
    BY <2>1, <2>2, BeginEffect DEF TypeInv, CallPcs
  <2>4. ~call'[t].freeing
    BY <2>2, <2>3 DEF FreeCallInv
  <2>5. QED
    BY <2>1, <2>2, <2>3, <2>4, OwnershipEnter
<1>8. ASSUME NEW s \in Streams, DestroyOpen(t, s)
      PROVE  OwnershipInv'
  <2>1. Usable(t, s) /\ Unused(s) /\ UNCHANGED <<client, conn, ctx, work>>
    BY <1>8 DEF DestroyOpen
  <2>2. /\ call'[t].pc = "cancel_claim" /\ call'[t].on = s
        /\ \A u \in Threads \ {t} : call'[u] = call[u]
    BY <1>1, <1>8 DEF DestroyOpen, CallType
  <2>3. QED
    BY <2>1, <2>2, OwnershipEnter
<1>9. ASSUME NEW s \in Streams, NEW c \in Chunks, AppendCall(t, s, c)
      PROVE  OwnershipInv'
  <2>1. Usable(t, s) /\ UNCHANGED <<client, conn, ctx, work>> /\ call[t].pc = "idle"
    BY <1>9 DEF AppendCall, Usable
  <2>2. /\ call'[t].pc = "append_lock" /\ call'[t].on = s
        /\ call'[t].freeing = call[t].freeing
        /\ \A u \in Threads \ {t} : call'[u] = call[u]
    BY <1>1, <1>9 DEF AppendCall, CallType
  <2>3. ~call'[t].freeing
    BY <2>1, <2>2 DEF FreeCallInv
  <2>4. QED
    BY <2>1, <2>2, <2>3, OwnershipEnter
<1>10. QED
  BY <1>3, <1>4, <1>5, <1>6, <1>7, <1>8, <1>9 DEF NewCall

-----------------------------------------------------------------------------
LEMMA OwnershipInit == Init => OwnershipInv
<1> SUFFICES ASSUME Init PROVE OwnershipInv
  OBVIOUS
<1>1. /\ \A t \in Threads :
           /\ call[t].pc = "idle" /\ call[t].on = NoStream /\ ~call[t].freeing
           /\ ~Claiming(t) /\ ~Finalising(t)
      /\ \A s \in Streams : ctx[s].handle = "fresh" /\ ~Working(s)
  BY DEF Init, Idle, NewContext, NewWorker, Claiming, Finalising, Working
<1>2. SlotInv /\ WorkerInv /\ HandleInv
  BY <1>1 DEF Init, SlotInv, WorkerInv, HandleInv
<1>3. InitCallInv /\ ClaimCallInv /\ FinalCallInv /\ OneFinaliser
  BY <1>1 DEF InitCallInv, ClaimCallInv, FinalCallInv, OneFinaliser
<1>4. CloseCallInv /\ FreeCallInv
  BY <1>1 DEF CloseCallInv, FreeCallInv, ClosePcs
<1>5. QED
  BY <1>2, <1>3, <1>4 DEF OwnershipInv

LEMMA OwnershipNext ==
  ASSUME ~ConcurrentClose, TypeInv, OwnershipInv, [Next]_vars
  PROVE  OwnershipInv'
<1>1. CASE \E t \in Threads : NewCall(t) \/ CallStep(t)
  BY <1>1, OwnershipCall, OwnershipNewCall
<1>2. CASE \E s \in Streams : WorkerStep(s) \/ PipelineStore(s)
  BY <1>2, OwnershipWorker, OwnershipStore
<1>3. CASE UNCHANGED vars
  <2>1. UNCHANGED <<alive, mutex, active, settings, saved, engaged, ctx, work, call>>
    BY <1>3 DEF vars, client, conn
  <2>2. SlotInv' /\ WorkerInv' /\ HandleInv'
    BY <2>1 DEF OwnershipInv, SlotInv, WorkerInv, HandleInv, Working
  <2>3. InitCallInv' /\ ClaimCallInv' /\ FinalCallInv' /\ OneFinaliser'
    BY <2>1 DEF OwnershipInv, InitCallInv, ClaimCallInv, FinalCallInv, OneFinaliser,
      Claiming, Finalising, Working
  <2>4. CloseCallInv' /\ FreeCallInv'
    BY <2>1 DEF OwnershipInv, CloseCallInv, FreeCallInv
  <2>5. QED
    BY <2>2, <2>3, <2>4 DEF OwnershipInv
<1>4. QED
  BY <1>1, <1>2, <1>3 DEF Next, Quiescent

LEMMA OwnershipAlways ==
  ASSUME ~ConcurrentClose
  PROVE  Spec => [](TypeInv /\ OwnershipInv)
<1>1. Init => TypeInv /\ OwnershipInv
  BY TypeInvInit, OwnershipInit
<1>2. TypeInv /\ OwnershipInv /\ [Next]_vars => (TypeInv /\ OwnershipInv)'
  BY TypeInvNext, OwnershipNext
<1>3. QED
  BY <1>1, <1>2, PTL DEF Spec

\* However many streams come and go and whichever threads finalise them, a
\* connection with no open stream and a free client_mutex has its own settings
\* back (restoreSettingsAfterInsertStream), unless it is closed under a call.
THEOREM SettingsAlwaysRestored ==
  ASSUME ~ConcurrentClose
  PROVE  Spec => []SettingsRestored
<1>1. TypeInv /\ OwnershipInv => SettingsRestored
  BY DEF OwnershipInv, SlotInv, SettingsRestored
<1>2. QED
  BY <1>1, OwnershipAlways, PTL

\* A running worker thread has the connection to itself: the client is alive,
\* the slot and the settings are its stream's, and the query it drives is there.
THEOREM WorkerAlwaysOwnsConnection ==
  ASSUME ~ConcurrentClose
  PROVE  Spec => []WorkerOwnsConnection
<1>1. TypeInv /\ OwnershipInv => WorkerOwnsConnection
  BY InsertAssumption DEF OwnershipInv, WorkerInv, SlotInv, WorkerOwnsConnection, Querying
<1>2. QED
  BY <1>1, OwnershipAlways, PTL

\* A done() or cancel() that won the exchange on finalized still owns
\* streaming_insert_context when it drops it.
THEOREM FinaliserAlwaysOwnsSlot ==
  ASSUME ~ConcurrentClose
  PROVE  Spec => []FinaliserOwnsSlot
<1>1. TypeInv /\ OwnershipInv => FinaliserOwnsSlot
  BY DEF OwnershipInv, FinalCallInv, FinaliserOwnsSlot
<1>2. QED
  BY <1>1, OwnershipAlways, PTL

\* An application that does not close a connection in use never has a thread in
\* a client method, nor an unfinalized handle, once the client is freed.
THEOREM NeverUseAfterFree ==
  ASSUME ~ConcurrentClose
  PROVE  Spec => []NoUseAfterFree
<1>1. TypeInv /\ OwnershipInv => NoUseAfterFree
  <2> SUFFICES ASSUME TypeInv, OwnershipInv, ~alive PROVE
        /\ \A t \in Threads : call[t].pc = "idle"
        /\ \A s \in Streams : ctx[s].handle = "open" => ctx[s].finalized
    BY DEF NoUseAfterFree
  <2>1. active = NoStream
    BY DEF OwnershipInv, SlotInv
  <2>2. ASSUME NEW t \in Threads PROVE call[t].pc = "idle"
    <3>1. call[t].pc \in CallPcs
      BY DEF TypeInv, TypeOK, CallType
    <3>2. ~Claiming(t) /\ call[t].pc \notin ClosePcs
      BY DEF OwnershipInv, ClaimCallInv, CloseCallInv
    <3>3. ~Finalising(t) /\ call[t].pc # "init_wait"
      BY <2>1, CallFacts, InsertAssumption DEF OwnershipInv, FinalCallInv, InitCallInv
    <3>4. QED
      BY <3>1, <3>2, <3>3 DEF CallPcs, Claiming, Finalising
  <2>3. \A s \in Streams : ctx[s].handle = "open" => ctx[s].finalized
    BY <2>1, InsertAssumption DEF OwnershipInv, HandleInv
  <2>4. QED
    BY <2>2, <2>3
<1>2. QED
  BY <1>1, OwnershipAlways, PTL
=============================================================================
