----------------------- MODULE StreamingInsertOutcome -----------------------
(***************************************************************************)
(* What becomes of the data of an insert stream: the chunks reach the      *)
(* engine in order whatever the application does, and, for an application  *)
(* that does not close a connection another thread is using, the outcome a *)
(* caller is told is true and the protocol implements InsertContract.      *)
(***************************************************************************)
EXTENDS StreamingInsertProofs

-----------------------------------------------------------------------------
(* The order of the data, with no premise on the application.              *)

\* While the worker may still read the queue, what it has parsed followed by
\* what is queued is what was accepted; it parses nothing after an end mark.
Reading == {"none", "start", "sample", "pull", "block"}

FlowInv ==
  \A s \in Streams :
    LET p == work[s].parsed
        q == ctx[s].queue
    IN /\ ctx[s].handle = "fresh" => work[s].pc = "none"
       /\ work[s].pc \in Reading =>
            /\ Len(accepted[s]) = Len(p) + Len(q)
            /\ \A i \in 1..Len(q) : accepted[s][Len(p) + i] = q[i]
       /\ \A i \in 1..Len(p) : i < Len(p) => p[i] \notin EndChunks

OrderInv == FlowInv /\ AcceptedInOrder

\* A chunk that is pushed joins the end of both sequences.
LEMMA FlowPush ==
  ASSUME NEW a \in Seq(Chunks), NEW q \in Seq(Chunks), NEW n \in Nat, NEW c \in Chunks,
         Len(a) = n + Len(q), \A i \in 1..Len(q) : a[n + i] = q[i]
  PROVE  /\ Len(Append(a, c)) = n + Len(Append(q, c))
         /\ \A i \in 1..Len(Append(q, c)) : Append(a, c)[n + i] = Append(q, c)[i]
OBVIOUS

\* A chunk that is popped and parsed moves from one sequence to the other.
LEMMA FlowPop ==
  ASSUME NEW a \in Seq(Chunks), NEW p \in Seq(Chunks), NEW q \in Seq(Chunks),
         q # <<>>, Len(a) = Len(p) + Len(q),
         \A i \in 1..Len(q) : a[Len(p) + i] = q[i],
         \A i \in 1..Len(p) : p[i] = a[i]
  PROVE  /\ Len(Append(p, Head(q))) = Len(p) + 1
         /\ Len(a) = Len(Append(p, Head(q))) + Len(Tail(q))
         /\ \A i \in 1..Len(Tail(q)) : a[Len(Append(p, Head(q))) + i] = Tail(q)[i]
         /\ \A i \in 1..Len(Append(p, Head(q))) : Append(p, Head(q))[i] = a[i]
<1>1. /\ Head(q) \in Chunks /\ Tail(q) \in Seq(Chunks)
      /\ Len(Tail(q)) = Len(q) - 1 /\ Len(q) \in Nat \ {0} /\ Len(p) \in Nat
      /\ \A i \in 1..Len(Tail(q)) : Tail(q)[i] = q[i + 1]
      /\ Head(q) = q[1]
  OBVIOUS
<1>2. /\ Len(Append(p, Head(q))) = Len(p) + 1
      /\ \A i \in 1..Len(p) : Append(p, Head(q))[i] = p[i]
      /\ Append(p, Head(q))[Len(p) + 1] = Head(q)
  BY <1>1
<1>3. \A i \in 1..Len(Tail(q)) : a[Len(p) + 1 + i] = Tail(q)[i]
  <2> TAKE i \in 1..Len(Tail(q))
  <2>1. i + 1 \in 1..Len(q) /\ Len(p) + (i + 1) = Len(p) + 1 + i
    BY <1>1
  <2>2. QED
    BY <1>1, <2>1
<1>4. \A i \in 1..Len(p) + 1 : Append(p, Head(q))[i] = a[i]
  <2>1. a[Len(p) + 1] = q[1]
    BY <1>1
  <2>2. QED
    BY <1>1, <1>2, <2>1
<1>5. QED
  BY <1>1, <1>2, <1>3, <1>4

\* The worker parses one more chunk only when it has not met an end mark.
LEMMA NoEndBefore ==
  ASSUME NEW p \in Seq(Chunks), NEW c \in Chunks,
         ~(p # <<>> /\ p[Len(p)] \in EndChunks),
         \A i \in 1..Len(p) : i < Len(p) => p[i] \notin EndChunks
  PROVE  \A i \in 1..Len(Append(p, c)) :
           i < Len(Append(p, c)) => Append(p, c)[i] \notin EndChunks
<1>1. /\ Len(Append(p, c)) = Len(p) + 1 /\ Len(p) \in Nat
      /\ \A i \in 1..Len(p) : Append(p, c)[i] = p[i]
  OBVIOUS
<1>2. Len(p) # 0 => p[Len(p)] \notin EndChunks
  OBVIOUS
<1>3. \A i \in 1..Len(p) : p[i] \notin EndChunks
  BY <1>1, <1>2
<1>4. QED
  BY <1>1, <1>3

\* More is sent: what is stored is still within it.
LEMMA StoredGrows ==
  ASSUME NEW d, NEW m \in Nat, NEW n \in Nat, d \subseteq 1..m, m <= n
  PROVE  d \subseteq 1..n
OBVIOUS

LEMMA Between ==
  ASSUME NEW sent \in Nat, NEW p \in Nat, NEW n \in Nat, NEW a \in Nat, NEW q \in Nat,
         n = p + 1, a = n + q, sent <= p
  PROVE  sent <= n /\ n <= a
OBVIOUS

\* The part of OrderInv about one stream.
StreamOrder(s) ==
  LET p == work[s].parsed
      q == ctx[s].queue
  IN /\ ctx[s].handle = "fresh" => work[s].pc = "none"
     /\ work[s].pc \in Reading =>
          /\ Len(accepted[s]) = Len(p) + Len(q)
          /\ \A i \in 1..Len(q) : accepted[s][Len(p) + i] = q[i]
     /\ \A i \in 1..Len(p) : i < Len(p) => p[i] \notin EndChunks
     /\ work[s].sent <= Len(p) /\ Len(p) <= Len(accepted[s])
     /\ work[s].stored \subseteq 1..work[s].sent
     /\ \A i \in 1..Len(p) : p[i] = accepted[s][i]

LEMMA OrderByStream ==
  /\ OrderInv <=> \A s \in Streams : StreamOrder(s)
  /\ OrderInv' <=> \A s \in Streams : StreamOrder(s)'
BY DEF OrderInv, FlowInv, AcceptedInOrder, StreamOrder

\* A step that leaves a stream's data alone, and does not renew its handle.
LEMMA OrderSame ==
  ASSUME NEW s \in Streams, StreamOrder(s),
         ctx'[s].queue = ctx[s].queue, work'[s] = work[s], accepted'[s] = accepted[s],
         ctx'[s].handle = "fresh" => ctx[s].handle = "fresh"
  PROVE  StreamOrder(s)'
BY DEF StreamOrder

LEMMA OrderTypes ==
  ASSUME TypeInv, NEW s \in Streams
  PROVE  /\ ctx \in [Streams -> ContextType] /\ work \in [Streams -> WorkerType]
         /\ accepted \in [Streams -> Seq(Chunks)]
         /\ ctx[s] \in ContextType /\ work[s] \in WorkerType
         /\ ctx[s].queue \in Seq(Chunks) /\ work[s].parsed \in Seq(Chunks)
         /\ accepted[s] \in Seq(Chunks)
         /\ work[s].sent \in Nat /\ Len(work[s].parsed) \in Nat
         /\ Len(accepted[s]) \in Nat /\ Len(ctx[s].queue) \in Nat
<1>1. /\ ctx \in [Streams -> ContextType] /\ work \in [Streams -> WorkerType]
      /\ accepted \in [Streams -> Seq(Chunks)]
  BY DEF TypeInv, TypeOK
<1>2. ctx[s] \in ContextType /\ work[s] \in WorkerType /\ accepted[s] \in Seq(Chunks)
  BY <1>1
<1>3. ctx[s].queue \in Seq(Chunks) /\ work[s].parsed \in Seq(Chunks) /\ work[s].sent \in Nat
  BY <1>2 DEF ContextType, WorkerType
<1>4. QED
  BY <1>1, <1>2, <1>3

LEMMA OrderWorker ==
  ASSUME TypeInv, OrderInv, NEW s \in Streams, WorkerStep(s)
  PROVE  OrderInv'
<1> SUFFICES \A r \in Streams : StreamOrder(r)'
  BY OrderByStream
<1>0. \A r \in Streams : StreamOrder(r)
  BY OrderByStream
<1>s. StreamOrder(s)
  BY <1>0
<1>1. /\ ctx \in [Streams -> ContextType] /\ work \in [Streams -> WorkerType]
      /\ ctx[s] \in ContextType /\ work[s] \in WorkerType
      /\ Len(work[s].parsed) \in Nat /\ Len(accepted[s]) \in Nat /\ work[s].sent \in Nat
  BY OrderTypes
<1>2. /\ UNCHANGED accepted
      /\ \A r \in Streams \ {s} : ctx'[r] = ctx[r] /\ work'[r] = work[r]
  BY <1>1 DEF WorkerStep, WorkerGoto, WorkerSendQuery, WorkerNoSample, WorkerReady,
    WorkerThrow, WorkerPop, WorkerBlock, WorkerSendData, WorkerEof, WorkerEndMark,
    WorkerCheckCancelled, WorkerCommit, WorkerEndQuery, WorkerCatch,
    WorkerCloseQueue, WorkerExit, seen
<1>3. \A r \in Streams \ {s} : StreamOrder(r)'
  BY <1>0, <1>2, OrderSame
<1>4. work[s].pc # "none" /\ ctx[s].handle # "fresh"
  <2>1. work[s].pc # "none"
    BY DEF WorkerStep, WorkerGoto, WorkerSendQuery, WorkerNoSample, WorkerReady,
      WorkerThrow, WorkerPop, WorkerBlock, WorkerSendData, WorkerEof, WorkerEndMark,
      WorkerCheckCancelled, WorkerCommit, WorkerEndQuery, WorkerCatch,
      WorkerCloseQueue, WorkerExit
  <2>2. QED
    BY <1>s, <2>1 DEF StreamOrder
<1>5. CASE WorkerPop(s)
  <2> DEFINE q == ctx[s].queue
             p == work[s].parsed
  <2>1. /\ work[s].pc = "pull" /\ q # <<>>
        /\ ctx' = [ctx EXCEPT ![s].queue = Tail(q)]
        /\ \/ work' = [work EXCEPT ![s].pc = "catch"]
           \/ work' = [work EXCEPT ![s].parsed = Append(p, Head(q))]
    BY <1>5 DEF WorkerPop
  <2>2. /\ Len(accepted[s]) = Len(p) + Len(q)
        /\ \A i \in 1..Len(q) : accepted[s][Len(p) + i] = q[i]
        /\ \A i \in 1..Len(p) : p[i] = accepted[s][i]
        /\ \A i \in 1..Len(p) : i < Len(p) => p[i] \notin EndChunks
        /\ work[s].sent <= Len(p) /\ Len(p) <= Len(accepted[s])
        /\ work[s].stored \subseteq 1..work[s].sent
    BY <1>s, <2>1 DEF StreamOrder, Reading
  <2>3. ctx'[s].queue = Tail(q) /\ ctx'[s].handle = ctx[s].handle
    BY <1>1, <2>1 DEF ContextType
  <2>4. CASE work' = [work EXCEPT ![s].pc = "catch"]
    <3>1. /\ work'[s].pc = "catch" /\ work'[s].parsed = p
          /\ work'[s].sent = work[s].sent /\ work'[s].stored = work[s].stored
      BY <1>1, <2>4 DEF WorkerType
    <3>2. StreamOrder(s)'
      BY <1>2, <1>4, <2>2, <2>3, <3>1 DEF StreamOrder, Reading
    <3>3. QED
      BY <1>3, <3>2
  <2>5. CASE work' = [work EXCEPT ![s].parsed = Append(p, Head(q))]
    <3>1. /\ work'[s].pc = "pull" /\ work'[s].parsed = Append(p, Head(q))
          /\ work'[s].sent = work[s].sent /\ work'[s].stored = work[s].stored
      BY <1>1, <2>1, <2>5 DEF WorkerType
    <3>2. /\ q \in Seq(Chunks) /\ p \in Seq(Chunks) /\ accepted[s] \in Seq(Chunks)
      BY OrderTypes
    <3> DEFINE np == Append(p, Head(q))
    <3>3. /\ Len(np) = Len(p) + 1
          /\ Len(accepted[s]) = Len(np) + Len(Tail(q))
          /\ \A i \in 1..Len(Tail(q)) : accepted[s][Len(np) + i] = Tail(q)[i]
          /\ \A i \in 1..Len(np) : np[i] = accepted[s][i]
      BY <2>1, <2>2, <3>2, FlowPop
    <3>4. Len(Tail(q)) \in Nat /\ Head(q) \in Chunks
      BY <2>1, <3>2
    <3>n. \A i \in 1..Len(np) : i < Len(np) => np[i] \notin EndChunks
      <4>1. ~(p # <<>> /\ p[Len(p)] \in EndChunks)
        BY <1>5 DEF WorkerPop, Ended
      <4>2. QED
        BY <2>2, <3>2, <3>4, <4>1, NoEndBefore
    <3> HIDE DEF np
    <3>5. work'[s].parsed = np
      BY <3>1 DEF np
    <3>6. work'[s].sent <= Len(np) /\ Len(np) <= Len(accepted[s])
      <4>1. /\ Len(np) = Len(p) + 1 /\ Len(accepted[s]) = Len(np) + Len(Tail(q))
            /\ work[s].sent <= Len(p) /\ work'[s].sent = work[s].sent
            /\ Len(p) \in Nat /\ work[s].sent \in Nat /\ Len(accepted[s]) \in Nat
        BY <1>1, <2>2, <3>1, <3>3
      <4>2. Len(np) \in Nat
        BY <4>1
      <4> HIDE DEF p, q
      <4>3. QED
        BY <3>4, <4>1, <4>2, Between
    <3>7. StreamOrder(s)'
      BY <1>2, <1>4, <2>2, <2>3, <3>1, <3>3, <3>5, <3>6, <3>n DEF StreamOrder
    <3>8. QED
      BY <1>3, <3>7
  <2>6. QED
    BY <2>1, <2>4, <2>5
<1>6. CASE WorkerSendData(s)
  <2>1. UNCHANGED ctx
    BY <1>6 DEF WorkerSendData
  <2>2. /\ work[s].pc = "block" /\ work'[s].pc \in {"exit", "pull"}
        /\ work'[s].parsed = work[s].parsed /\ work'[s].stored = work[s].stored
        /\ work'[s].sent \in {work[s].sent, Len(work[s].parsed)}
    <3>1. CASE work[s].pc = "block" /\ work' = [work EXCEPT ![s].pc = "exit"]
      BY <1>1, <3>1 DEF WorkerType
    <3>2. CASE /\ work[s].pc = "block"
               /\ work' = [work EXCEPT ![s] = [@ EXCEPT
                              !.pc = "pull", !.sent = Len(work[s].parsed)]]
      BY <1>1, <3>2 DEF WorkerType
    <3>3. QED
      BY <1>6, <3>1, <3>2 DEF WorkerSendData, WorkerGoto
  <2>3. StreamOrder(s)'
    <3>1. work'[s].sent <= Len(work[s].parsed)
      BY <1>s, <1>1, <2>2 DEF StreamOrder
    <3>2. work[s].pc \in Reading
      BY <2>2 DEF Reading
    <3>3. work'[s].stored \subseteq 1..work'[s].sent
      <4>1. /\ work[s].stored \subseteq 1..work[s].sent
            /\ work[s].sent <= work'[s].sent /\ work'[s].sent \in Nat
        BY <1>s, <1>1, <2>2 DEF StreamOrder
      <4>2. QED
        BY <1>1, <2>2, <4>1, StoredGrows
    <3>4. QED
      BY <1>s, <1>2, <1>4, <2>1, <2>2, <3>1, <3>2, <3>3 DEF StreamOrder
  <2>4. QED
    BY <1>3, <2>3
<1>7. CASE WorkerEndMark(s)
  <2>1. /\ ctx'[s].handle = ctx[s].handle
        /\ work'[s].pc = "eof" /\ work'[s].parsed = work[s].parsed
        /\ work'[s].sent = work[s].sent /\ work'[s].stored = work[s].stored
    BY <1>1, <1>7 DEF WorkerEndMark, WorkerGoto, ContextType, WorkerType
  <2>2. StreamOrder(s)'
    BY <1>s, <1>2, <1>4, <2>1 DEF StreamOrder, Reading
  <2>3. QED
    BY <1>3, <2>2
<1>8. CASE ~WorkerPop(s) /\ ~WorkerSendData(s) /\ ~WorkerEndMark(s)
  <2>1. /\ ctx'[s].handle = ctx[s].handle /\ ctx'[s].queue = ctx[s].queue
    <3>1. CASE UNCHANGED ctx
      BY <3>1
    <3>2. CASE WorkerNoSample(s) \/ WorkerReady(s)
      BY <1>1, <3>2, ZenonT(40) DEF WorkerNoSample, WorkerReady, ContextType
    <3>3. CASE WorkerCatch(s)
      BY <1>1, <3>3 DEF WorkerCatch, ContextType
    <3>4. CASE WorkerCloseQueue(s) \/ WorkerExit(s)
      BY <1>1, <3>4 DEF WorkerCloseQueue, WorkerExit, ContextType
    <3>5. QED
      BY <1>8, <3>1, <3>2, <3>3, <3>4 DEF WorkerStep, WorkerSendQuery, WorkerThrow,
        WorkerBlock, WorkerEof, WorkerCheckCancelled, WorkerCommit, WorkerEndQuery
  <2>2. /\ work'[s].parsed = work[s].parsed /\ work'[s].sent = work[s].sent
        /\ work'[s].stored \in {work[s].stored, 1..work[s].sent}
        /\ work'[s].pc \in Reading => work[s].pc \in Reading
    <3>1. CASE WorkerCommit(s)
      <4> DEFINE d == IF stopped THEN work[s].stored ELSE 1..work[s].sent
      <4>1. /\ d \in {work[s].stored, 1..work[s].sent}
            /\ work' = [work EXCEPT ![s] = [@ EXCEPT
                 !.pc = "endquery", !.committed = ~stopped, !.stored = d]]
        BY <3>1 DEF WorkerCommit
      <4> HIDE DEF d
      <4>2. QED
        BY <1>1, <4>1 DEF WorkerType, Reading
    <3>2. CASE WorkerThrow(s)
      BY <1>1, <3>2 DEF WorkerThrow, WorkerType, Reading
    <3>3. ASSUME NEW from, NEW to, WorkerGoto(s, from, to),
                 to \in Reading => from \in Reading
          PROVE  /\ work'[s].parsed = work[s].parsed /\ work'[s].sent = work[s].sent
                 /\ work'[s].stored = work[s].stored
                 /\ work'[s].pc \in Reading => work[s].pc \in Reading
      BY <1>1, <3>3 DEF WorkerGoto, WorkerType
    <3>4. CASE WorkerSendQuery(s) \/ WorkerNoSample(s) \/ WorkerReady(s) \/ WorkerBlock(s)
      BY <3>3, <3>4 DEF WorkerSendQuery, WorkerNoSample, WorkerReady, WorkerBlock, Reading
    <3>5. CASE WorkerEof(s) \/ WorkerCheckCancelled(s) \/ WorkerEndQuery(s)
      BY <3>3, <3>5 DEF WorkerEof, WorkerCheckCancelled, WorkerEndQuery, Reading
    <3>6. CASE WorkerCatch(s) \/ WorkerCloseQueue(s) \/ WorkerExit(s)
      BY <3>3, <3>6 DEF WorkerCatch, WorkerCloseQueue, WorkerExit, Reading
    <3>7. QED
      BY <1>8, <3>1, <3>2, <3>4, <3>5, <3>6 DEF WorkerStep
  <2>3. StreamOrder(s)'
    BY <1>s, <1>2, <1>4, <2>1, <2>2 DEF StreamOrder
  <2>4. QED
    BY <1>3, <2>3
<1>9. QED
  BY <1>5, <1>6, <1>7, <1>8

LEMMA OrderStore ==
  ASSUME TypeInv, OrderInv, NEW s \in Streams, PipelineStore(s)
  PROVE  OrderInv'
<1> SUFFICES ASSUME NEW r \in Streams PROVE StreamOrder(r)'
  BY OrderByStream
<1>1. StreamOrder(r)
  BY OrderByStream
<1>2. /\ UNCHANGED <<ctx, accepted>>
      /\ work'[r].pc = work[r].pc /\ work'[r].parsed = work[r].parsed
      /\ work'[r].sent = work[r].sent
  BY StoreEffect DEF seen
<1>3. work'[r].stored \subseteq 1..work[r].sent
  BY <1>1, StoreEffect DEF StreamOrder
<1>4. QED
  BY <1>1, <1>2, <1>3 DEF StreamOrder

\* A step of an application thread other than AppendPush touches no data, and
\* only chdb_stream_insert starts a worker, on a fresh handle.
LEMMA OrderThread ==
  ASSUME TypeInv, OrderInv, NEW t \in Threads, NewCall(t) \/ CallStep(t)
  PROVE  OrderInv'
<1> SUFFICES \A r \in Streams : StreamOrder(r)'
  BY OrderByStream
<1>0. \A r \in Streams : StreamOrder(r)
  BY OrderByStream
<1>1. /\ ctx \in [Streams -> ContextType] /\ work \in [Streams -> WorkerType]
      /\ accepted \in [Streams -> Seq(Chunks)]
  BY DEF TypeInv, TypeOK
<1>2. CASE AppendPush(t)
  <2>1. PICK s \in Streams, c \in Chunks : s = call[t].on /\ c = call[t].chunk
    BY <1>2 DEF AppendPush, TypeInv, LocalsOK
  <2>2. /\ work' = work
        /\ ctx' = [ctx EXCEPT ![s].queue = Append(ctx[s].queue, c)]
        /\ accepted' = [accepted EXCEPT ![s] = Append(accepted[s], c)]
    BY <1>2, <2>1 DEF AppendPush
  <2>3. /\ ctx'[s].queue = Append(ctx[s].queue, c) /\ ctx'[s].handle = ctx[s].handle
        /\ accepted'[s] = Append(accepted[s], c)
        /\ \A r \in Streams \ {s} : ctx'[r] = ctx[r] /\ accepted'[r] = accepted[r]
    BY <1>1, <2>1, <2>2, SMTT(20) DEF ContextType
  <2>4. \A r \in Streams \ {s} : StreamOrder(r)'
    BY <1>0, <2>2, <2>3, OrderSame
  <2>5. /\ accepted[s] \in Seq(Chunks) /\ ctx[s].queue \in Seq(Chunks)
        /\ Len(work[s].parsed) \in Nat /\ Len(accepted[s]) \in Nat /\ work[s].sent \in Nat
    BY <2>1, OrderTypes
  <2>6. StreamOrder(s)
    BY <1>0, <2>1
  <2>7. work[s].pc \in Reading =>
          /\ Len(Append(accepted[s], c)) = Len(work[s].parsed) + Len(Append(ctx[s].queue, c))
          /\ \A i \in 1..Len(Append(ctx[s].queue, c)) :
               Append(accepted[s], c)[Len(work[s].parsed) + i] = Append(ctx[s].queue, c)[i]
    <3>1. SUFFICES ASSUME work[s].pc \in Reading
                   PROVE  /\ Len(Append(accepted[s], c))
                                 = Len(work[s].parsed) + Len(Append(ctx[s].queue, c))
                          /\ \A i \in 1..Len(Append(ctx[s].queue, c)) :
                               Append(accepted[s], c)[Len(work[s].parsed) + i]
                                 = Append(ctx[s].queue, c)[i]
      OBVIOUS
    <3>2. /\ Len(accepted[s]) = Len(work[s].parsed) + Len(ctx[s].queue)
          /\ \A i \in 1..Len(ctx[s].queue) :
               accepted[s][Len(work[s].parsed) + i] = ctx[s].queue[i]
      BY <2>6, <3>1 DEF StreamOrder
    <3>3. QED
      BY <2>5, <3>2, FlowPush
  <2>8. /\ Len(Append(accepted[s], c)) = Len(accepted[s]) + 1
        /\ \A i \in 1..Len(accepted[s]) : Append(accepted[s], c)[i] = accepted[s][i]
    BY <2>1, <2>5
  <2>9. StreamOrder(s)'
    <3>1. Len(work[s].parsed) <= Len(Append(accepted[s], c))
      BY <2>5, <2>6, <2>8 DEF StreamOrder
    <3>2. \A i \in 1..Len(work[s].parsed) : work[s].parsed[i] = Append(accepted[s], c)[i]
      BY <2>5, <2>6, <2>8 DEF StreamOrder
    <3> DEFINE na == Append(accepted[s], c)
               nq == Append(ctx[s].queue, c)
    <3>3. /\ accepted'[s] = na /\ ctx'[s].queue = nq
          /\ work[s].pc \in Reading =>
               /\ Len(na) = Len(work[s].parsed) + Len(nq)
               /\ \A i \in 1..Len(nq) : na[Len(work[s].parsed) + i] = nq[i]
          /\ Len(work[s].parsed) <= Len(na)
          /\ \A i \in 1..Len(work[s].parsed) : work[s].parsed[i] = na[i]
      BY <2>3, <2>7, <3>1, <3>2
    <3> HIDE DEF na, nq
    <3>4. QED
      BY <2>2, <2>3, <2>6, <3>3 DEF StreamOrder
  <2>10. QED
    BY <2>4, <2>9
<1>3. ASSUME NEW s \in Streams, InsertInit(t, s)
      PROVE  \A r \in Streams : StreamOrder(r)'
  <2>1. /\ UNCHANGED accepted /\ ctx[s].handle = "fresh"
        /\ ctx'[s].handle = "init" /\ ctx'[s].queue = ctx[s].queue
        /\ work'[s].pc = "start" /\ work'[s].parsed = work[s].parsed
        /\ work'[s].sent = work[s].sent /\ work'[s].stored = work[s].stored
        /\ \A r \in Streams \ {s} : ctx'[r] = ctx[r] /\ work'[r] = work[r]
    BY <1>1, <1>3 DEF InsertInit, ContextType, WorkerType, seen
  <2>2. \A r \in Streams \ {s} : StreamOrder(r)'
    BY <1>0, <2>1, OrderSame
  <2>3. StreamOrder(s)'
    <3>1. StreamOrder(s)
      BY <1>0
    <3>2. QED
      BY <2>1, <3>1 DEF StreamOrder, Reading
  <2>4. QED
    BY <2>2, <2>3
<1>4. ASSUME UNCHANGED <<work, accepted>>,
             \A s \in Streams : /\ ctx'[s].queue = ctx[s].queue
                                /\ ctx'[s].handle = "fresh" => ctx[s].handle = "fresh"
      PROVE  \A r \in Streams : StreamOrder(r)'
  BY <1>0, <1>4, OrderSame
<1>5. CASE CallStep(t) /\ ~AppendPush(t)
  <2>1. UNCHANGED <<work, accepted>>
    BY <1>5 DEF CallStep, InsertInitOk, InsertInitError, AppendCheck, AppendClosed,
      DoneClaim, DoneFinish, DoneJoin, DoneReport, CancelClaim, CancelFlag, CancelSend,
      CancelFinish, CancelJoin, CancelRelease, CloseFlag, CloseSend, CloseFinish,
      CloseJoin, CloseFree, SetCancelled, FinishQueue, SendCancel, seen
  <2>2. ctx'  = ctx \/ \E s \in Streams, h \in {"open", "failed", "destroyed"} :
          \/ ctx' = [ctx EXCEPT ![s].handle = h]
          \/ ctx' = [ctx EXCEPT ![s] = [@ EXCEPT !.handle = h, !.joinable = FALSE]]
          \/ ctx' = [ctx EXCEPT ![s].handle = ctx[s].handle]
          \/ ctx' = [ctx EXCEPT ![s].finalized = TRUE]
          \/ ctx' = [ctx EXCEPT ![s].finished = TRUE]
          \/ ctx' = [ctx EXCEPT ![s].cancelled = TRUE]
          \/ ctx' = [ctx EXCEPT ![s].joinable = FALSE]
          \/ ctx' = [ctx EXCEPT ![s] = [@ EXCEPT !.joinable = FALSE, !.finalized = TRUE]]
    <3>1. call[t].pc \notin {"idle", "close_free"} => call[t].on \in Streams
      BY DEF TypeInv, LocalsOK
    <3>2. CASE InsertInitOk(t) \/ InsertInitError(t)
      BY <3>1, <3>2 DEF InsertInitOk, InsertInitError
    <3>3. CASE DoneClaim(t) \/ DoneFinish(t) \/ DoneJoin(t)
      BY <3>1, <3>3 DEF DoneClaim, DoneFinish, DoneJoin, FinishQueue, Goto
    <3>4. CASE CancelClaim(t) \/ CancelRelease(t)
      BY <3>1, <3>4 DEF CancelClaim, CancelRelease, HandleAfterCancel
    <3>5. CASE CancelFlag(t) \/ CancelFinish(t) \/ CancelJoin(t)
      BY <3>1, <3>5 DEF CancelFlag, CancelFinish, CancelJoin, SetCancelled, FinishQueue, Goto
    <3>6. CASE CloseFlag(t) \/ CloseFinish(t) \/ CloseJoin(t)
      BY <3>1, <3>6 DEF CloseFlag, CloseFinish, CloseJoin, SetCancelled, FinishQueue, Goto
    <3>7. QED
      BY <1>5, <3>2, <3>3, <3>4, <3>5, <3>6 DEF CallStep, AppendCheck, AppendClosed,
        DoneReport, CancelSend, CloseSend, CloseFree, SendCancel
  <2>3. \A s \in Streams : /\ ctx'[s].queue = ctx[s].queue
                           /\ ctx'[s].handle = "fresh" => ctx[s].handle = "fresh"
    <3>1. ASSUME NEW s \in Streams, NEW h \in {"open", "failed", "destroyed"},
                 ctx' = [ctx EXCEPT ![s].handle = h]
          PROVE  \A r \in Streams : /\ ctx'[r].queue = ctx[r].queue
                                    /\ ctx'[r].handle = "fresh" => ctx[r].handle = "fresh"
      BY <1>1, <3>1 DEF ContextType
    <3>2. ASSUME NEW s \in Streams, NEW h \in {"open", "failed", "destroyed"},
                 ctx' = [ctx EXCEPT ![s] = [@ EXCEPT !.handle = h, !.joinable = FALSE]]
          PROVE  \A r \in Streams : /\ ctx'[r].queue = ctx[r].queue
                                    /\ ctx'[r].handle = "fresh" => ctx[r].handle = "fresh"
      BY <1>1, <3>2 DEF ContextType
    <3>3. ASSUME NEW s \in Streams,
                 \/ ctx' = [ctx EXCEPT ![s].handle = ctx[s].handle]
                 \/ ctx' = [ctx EXCEPT ![s].joinable = FALSE]
          PROVE  \A r \in Streams : /\ ctx'[r].queue = ctx[r].queue
                                    /\ ctx'[r].handle = "fresh" => ctx[r].handle = "fresh"
      <4>1. CASE ctx' = [ctx EXCEPT ![s].handle = ctx[s].handle]
        BY <1>1, <4>1 DEF ContextType
      <4>2. CASE ctx' = [ctx EXCEPT ![s].joinable = FALSE]
        BY <1>1, <4>2 DEF ContextType
      <4>3. QED
        BY <3>3, <4>1, <4>2
    <3>4. ASSUME NEW s \in Streams,
                 \/ ctx' = [ctx EXCEPT ![s].finalized = TRUE]
                 \/ ctx' = [ctx EXCEPT ![s].finished = TRUE]
          PROVE  \A r \in Streams : /\ ctx'[r].queue = ctx[r].queue
                                    /\ ctx'[r].handle = "fresh" => ctx[r].handle = "fresh"
      <4>1. CASE ctx' = [ctx EXCEPT ![s].finalized = TRUE]
        BY <1>1, <4>1 DEF ContextType
      <4>2. CASE ctx' = [ctx EXCEPT ![s].finished = TRUE]
        BY <1>1, <4>2 DEF ContextType
      <4>3. QED
        BY <3>4, <4>1, <4>2
    <3>5. ASSUME NEW s \in Streams,
                 \/ ctx' = [ctx EXCEPT ![s].cancelled = TRUE]
                 \/ ctx' = [ctx EXCEPT ![s] = [@ EXCEPT !.joinable = FALSE, !.finalized = TRUE]]
          PROVE  \A r \in Streams : /\ ctx'[r].queue = ctx[r].queue
                                    /\ ctx'[r].handle = "fresh" => ctx[r].handle = "fresh"
      <4>1. CASE ctx' = [ctx EXCEPT ![s].cancelled = TRUE]
        BY <1>1, <4>1 DEF ContextType
      <4>2. CASE ctx' = [ctx EXCEPT ![s] = [@ EXCEPT !.joinable = FALSE, !.finalized = TRUE]]
        BY <1>1, <4>2 DEF ContextType
      <4>3. QED
        BY <3>5, <4>1, <4>2
    <3>6. QED
      BY <2>2, <3>1, <3>2, <3>3, <3>4, <3>5
  <2>4. QED
    BY <1>4, <2>1, <2>3
<1>6. CASE NewCall(t) /\ ~\E s \in Streams : InsertInit(t, s)
  <2>1. UNCHANGED <<work, accepted>>
    BY <1>6 DEF NewCall, CloseCall, MaterializedQuery, InsertInitRejected, DoneCall,
      CancelCall, Enter, DestroyOpen, DestroyFinal, AppendCall, seen
  <2>2. ctx' = ctx \/ \E s \in Streams, h \in {"failed", "destroyed"} :
                        ctx' = [ctx EXCEPT ![s].handle = h]
    BY <1>6 DEF NewCall, CloseCall, MaterializedQuery, InsertInitRejected, DoneCall,
      CancelCall, Enter, DestroyOpen, DestroyFinal, AppendCall
  <2>3. \A s \in Streams : /\ ctx'[s].queue = ctx[s].queue
                           /\ ctx'[s].handle = "fresh" => ctx[s].handle = "fresh"
    <3>1. CASE ctx' = ctx
      BY <3>1
    <3>2. ASSUME NEW s \in Streams, NEW h \in {"failed", "destroyed"},
                 ctx' = [ctx EXCEPT ![s].handle = h]
          PROVE  \A r \in Streams : /\ ctx'[r].queue = ctx[r].queue
                                    /\ ctx'[r].handle = "fresh" => ctx[r].handle = "fresh"
      BY <1>1, <3>2 DEF ContextType
    <3>3. QED
      BY <2>2, <3>1, <3>2
  <2>4. QED
    BY <1>4, <2>1, <2>3
<1>7. QED
  BY <1>2, <1>3, <1>5, <1>6

LEMMA OrderAtInit == Init => OrderInv
<1> SUFFICES ASSUME Init PROVE \A s \in Streams : StreamOrder(s)
  BY OrderByStream
<1> TAKE s \in Streams
<1>1. /\ ctx[s].handle = "fresh" /\ ctx[s].queue = <<>>
      /\ work[s].pc = "none" /\ work[s].parsed = <<>> /\ work[s].sent = 0
      /\ work[s].stored = {}
      /\ accepted[s] = <<>>
  BY DEF Init, NewContext, NewWorker
<1>2. QED
  BY <1>1 DEF StreamOrder

LEMMA OrderNext ==
  ASSUME TypeInv, OrderInv, [Next]_vars
  PROVE  OrderInv'
<1>1. CASE UNCHANGED vars
  <2>1. UNCHANGED <<ctx, work, accepted>>
    BY <1>1 DEF vars, seen
  <2>2. QED
    BY <2>1, OrderByStream, OrderSame
<1>2. QED
  BY <1>1, OrderWorker, OrderStore, OrderThread DEF Next, Quiescent

\* What the engine is given is always a prefix of what append() accepted, in
\* order: with any number of threads pushing into the queue, a format that ends
\* early, and even a connection that is closed under a call.
THEOREM AlwaysInOrder == Spec => []AcceptedInOrder
<1>1. Init => TypeInv /\ OrderInv
  BY TypeInvInit, OrderAtInit
<1>2. TypeInv /\ OrderInv /\ [Next]_vars => (TypeInv /\ OrderInv)'
  BY TypeInvNext, OrderNext
<1>3. OrderInv => AcceptedInOrder
  BY DEF OrderInv
<1>4. QED
  BY <1>1, <1>2, <1>3, PTL DEF Spec

-----------------------------------------------------------------------------
(* The inductive invariant behind OutcomeTrue.                             *)

CancelledPcs ==
  {"cancel_send", "cancel_finish", "cancel_join", "cancel_lock",
   "close_send", "close_finish", "close_join"}
FinishedPcs == {"done_join", "done_lock", "cancel_join", "cancel_lock", "close_join"}
DonePcs == {"done_finish", "done_join", "done_lock"}
TearPcs == {"close_send", "close_finish", "close_join"}

\* What a finaliser has done to its stream, by the stage it has reached.
StageInv(t) ==
  /\ call[t].pc \in CancelledPcs => ctx[call[t].on].cancelled
  /\ call[t].pc \in FinishedPcs => ctx[call[t].on].finished
  /\ call[t].pc \in DonePcs => ~ctx[call[t].on].cancelled

\* Where the threads that work on s are.
Waited(s) == \E t \in Threads : call[t].on = s /\ call[t].pc = "init_wait"
Claimed(s) == \E t \in Threads : call[t].on = s /\ Finalising(t)
DoneWaits(s) == \E t \in Threads : call[t].on = s /\ call[t].pc \in {"done_join", "done_lock"}
Closing(s) == \E t \in Threads : call[t].on = s /\ call[t].pc \in TearPcs

\* The stream in the slot is open, or a thread waits for it to open; the query
\* of a worker that failed is still there to be cancelled, unless its format had
\* an end mark and the query is over.
SlotStreamInv(s) ==
  active = s =>
    /\ outcome[s] = "none" /\ work[s].pc # "none"
    /\ ctx[s].handle = "open" \/ Waited(s)
    /\ work[s].pc \in {"catch", "exit", "flag", "exited"} /\ ~work[s].committed
         => engaged \/ Marked(s)

\* Before the worker has signalled, its starter waits; an open handle was
\* signalled "ok".
StartInv(s) ==
  /\ work[s].pc \in {"start", "sample"} => Waited(s)
  /\ work[s].pc \in {"none", "start", "sample"} => ctx[s].init = "none"
  /\ ctx[s].handle = "open" => ctx[s].init = "ok"
  /\ ctx[s].handle \in {"fresh", "init"} => ~ctx[s].finalized

\* An open stream without an outcome is the slot's, and if it is finalized its
\* finaliser is at work.
OpenInv(s) ==
  ctx[s].handle = "open" /\ outcome[s] = "none" =>
    /\ active = s
    /\ ctx[s].finalized => Claimed(s)

\* A cancelled stream without an end mark does not reach the end of its query.
CancelledInv(s) ==
  ctx[s].cancelled =>
    /\ Marked(s) \/ (~work[s].committed /\ work[s].pc \notin {"commit", "endquery"})
    /\ ctx[s].finalized \/ Closing(s)

\* A queue is closed by a finaliser, or by a worker that failed or that met the
\* end mark.
ClosedInv(s) ==
  ctx[s].finished /\ outcome[s] = "none" /\ ~ctx[s].cancelled =>
    \/ work[s].pc \in {"flag", "exited"} /\ (work[s].committed => Marked(s))
    \/ DoneWaits(s)

\* The engine has all the data: the queue is closed and drained and everything
\* accepted was sent, or everything up to the end mark was.
Complete(s) ==
  /\ work[s].sent = Len(work[s].parsed)
  /\ \/ Ended(s)
     \/ ctx[s].finished /\ ctx[s].queue = <<>> /\ work[s].parsed = accepted[s]

\* The query is brought to its end only when the data is complete, and the end
\* is reached by committing, failing or being cancelled.
CommitInv(s) ==
  /\ work[s].pc \in {"eof", "commit"} \/ work[s].committed => Complete(s)
  /\ work[s].committed => work[s].pc \in {"endquery", "exit", "flag", "exited"}
  /\ work[s].pc = "endquery" => work[s].committed \/ ctx[s].cancelled
  /\ ctx[s].errorSet => work[s].pc \in {"exit", "flag", "exited"} /\ ~work[s].committed
  /\ work[s].pc \in {"exit", "flag", "exited"} =>
       work[s].committed \/ ctx[s].errorSet \/ ctx[s].cancelled \/ ctx[s].init = "error"
  /\ work[s].pc \in Querying /\ stopped => ctx[s].cancelled

OutcomeInv(s) ==
  /\ outcome[s] # "none" => ctx[s].handle \notin {"fresh", "init"} /\ ctx[s].finished
  /\ outcome[s] = "ok" => work[s].committed
  /\ outcome[s] \in {"cancelled", "closed"} => ctx[s].cancelled

StreamInv(s) ==
  /\ SlotStreamInv(s)
  /\ StartInv(s)
  /\ OpenInv(s)
  /\ CancelledInv(s)
  /\ ClosedInv(s)
  /\ CommitInv(s)
  /\ OutcomeInv(s)

TruthInv ==
  /\ \A s \in deadCancel : Marked(s)
  /\ \A t \in Threads : StageInv(t)
  /\ \A s \in Streams : StreamInv(s)

-----------------------------------------------------------------------------
(* End marks.                                                              *)

LEMMA MarkedStays ==
  ASSUME NEW s \in Streams, accepted'[s] = accepted[s]
  PROVE  Marked(s)' <=> Marked(s)
BY DEF Marked

\* A mark that the worker met had been accepted.
LEMMA EndedMarked ==
  ASSUME TypeInv, OrderInv, NEW s \in Streams, Ended(s)
  PROVE  Marked(s)
<1>1. StreamOrder(s)
  BY OrderByStream
<1> DEFINE n == Len(work[s].parsed)
<1>2. n \in Nat /\ n # 0 /\ Len(accepted[s]) \in Nat /\ work[s].parsed[n] \in EndChunks
  BY OrderTypes DEF Ended
<1>3. n <= Len(accepted[s]) /\ work[s].parsed[n] = accepted[s][n]
  BY <1>1, <1>2 DEF StreamOrder
<1> HIDE DEF n
<1>4. QED
  BY <1>2, <1>3 DEF Marked

\* A step that appends nothing and sends no cancel.
LEMMA MarksStay ==
  ASSUME TypeInv, TruthInv, UNCHANGED <<accepted, deadCancel>>
  PROVE  /\ \A r \in Streams : Marked(r)' <=> Marked(r)
         /\ \A r \in deadCancel' : Marked(r)'
BY MarkedStays DEF TruthInv, TypeInv, TypeOK

-----------------------------------------------------------------------------
(* A stream that a step does not touch.                                    *)

\* The thread u stays where the invariant looks at it.
Stays(u) ==
  /\ call[u].pc \in TearPcs \cup FinalPcs \cup {"init_wait"} => call'[u].on = call[u].on
  /\ call[u].pc = "init_wait" => call'[u].pc = "init_wait"
  /\ Finalising(u) => Finalising(u)'
  /\ call[u].pc \in {"done_join", "done_lock"} => call'[u].pc \in {"done_join", "done_lock"}
  /\ call[u].pc \in TearPcs => call'[u].pc \in TearPcs

LEMMA StaysThere ==
  ASSUME NEW s \in Streams, \A u \in Threads : call[u].on = s => Stays(u)
  PROVE  /\ Waited(s) => Waited(s)'
         /\ Claimed(s) => Claimed(s)'
         /\ DoneWaits(s) => DoneWaits(s)'
         /\ Closing(s) => Closing(s)'
<1>1. Waited(s) => Waited(s)'
  BY DEF Waited, Stays
<1>2. Claimed(s) => Claimed(s)'
  BY DEF Claimed, Stays, Finalising, FinalPcs
<1>3. DoneWaits(s) => DoneWaits(s)'
  BY DEF DoneWaits, Stays, FinalPcs
<1>4. Closing(s) => Closing(s)'
  BY DEF Closing, Stays
<1>5. QED
  BY <1>1, <1>2, <1>3, <1>4

LEMMA StaysSame ==
  ASSUME NEW u \in Threads, call'[u] = call[u]
  PROVE  Stays(u)
BY DEF Stays, Finalising

\* What the invariant looks at in a context.
SameContext(s) ==
  /\ ctx'[s].handle = ctx[s].handle
  /\ ctx'[s].queue = ctx[s].queue
  /\ ctx'[s].finished = ctx[s].finished
  /\ ctx'[s].cancelled = ctx[s].cancelled
  /\ ctx'[s].finalized = ctx[s].finalized
  /\ ctx'[s].errorSet = ctx[s].errorSet
  /\ ctx'[s].init = ctx[s].init

LEMMA TruthOther ==
  ASSUME NEW s \in Streams, StreamInv(s), WorkerInv,
         SameContext(s), work'[s] = work[s], accepted'[s] = accepted[s],
         outcome'[s] = outcome[s],
         \A u \in Threads : call[u].on = s => Stays(u),
         active' = s <=> active = s,
         active = s => engaged' = engaged /\ (stopped' => stopped)
  PROVE  StreamInv(s)'
<1> USE DEF StreamInv, SameContext
<1>0. /\ Waited(s) => Waited(s)'
      /\ Claimed(s) => Claimed(s)'
      /\ DoneWaits(s) => DoneWaits(s)'
      /\ Closing(s) => Closing(s)'
      /\ Marked(s)' <=> Marked(s)
  BY StaysThere, MarkedStays
<1>1. SlotStreamInv(s)'
  BY <1>0 DEF SlotStreamInv
<1>2. StartInv(s)'
  BY <1>0 DEF StartInv
<1>3. OpenInv(s)'
  BY <1>0 DEF OpenInv
<1>4. CancelledInv(s)'
  BY <1>0 DEF CancelledInv
<1>5. ClosedInv(s)'
  BY <1>0 DEF ClosedInv
<1>6. CommitInv(s)'
  <2>1. work[s].pc \in Querying => active = s
    BY DEF WorkerInv, Working, Querying
  <2>2. work'[s].pc \in Querying /\ stopped' => ctx'[s].cancelled
    BY <2>1 DEF CommitInv
  <2>3. Complete(s) => Complete(s)'
    BY DEF Complete, Ended
  <2>4. QED
    BY <2>2, <2>3 DEF CommitInv
<1>7. OutcomeInv(s)'
  BY DEF OutcomeInv
<1>8. QED
  BY <1>1, <1>2, <1>3, <1>4, <1>5, <1>6, <1>7

\* The stage of a thread whose stream keeps its flags.
LEMMA StageSame ==
  ASSUME NEW u \in Threads, StageInv(u), call'[u].on = call[u].on,
         call'[u].pc \in CancelledPcs => call[u].pc \in CancelledPcs,
         call'[u].pc \in FinishedPcs => call[u].pc \in FinishedPcs,
         call'[u].pc \in DonePcs => call[u].pc \in DonePcs,
         ctx[call[u].on].cancelled => ctx'[call[u].on].cancelled,
         ctx[call[u].on].finished => ctx'[call[u].on].finished,
         call[u].pc \in DonePcs =>
           (ctx'[call[u].on].cancelled => ctx[call[u].on].cancelled)
  PROVE  StageInv(u)'
BY DEF StageInv

UnmarkedPcs ==
  {"idle", "append_lock", "append_push", "done_claim", "cancel_claim", "close_flag",
   "close_free"}

LEMMA UnmarkedStage ==
  ASSUME NEW u \in Threads, call'[u].pc \in UnmarkedPcs
  PROVE  StageInv(u)'
BY DEF StageInv, UnmarkedPcs, CancelledPcs, FinishedPcs, DonePcs

LEMMA UnmarkedStays ==
  ASSUME NEW u \in Threads, call[u].pc \in UnmarkedPcs
  PROVE  Stays(u)
BY DEF Stays, UnmarkedPcs, Finalising, FinalPcs, TearPcs

\* A step that changes no stream, by a thread that enters a call, or leaves one
\* or moves on in it where nothing depends on it.
LEMMA TruthQuiet ==
  ASSUME TypeInv, OwnershipInv, TruthInv, NEW t \in Threads,
         UNCHANGED <<work, accepted, outcome, active, deadCancel>>,
         \A s \in Streams : SameContext(s),
         active # NoStream => engaged' = engaged, stopped' => stopped,
         \A u \in Threads \ {t} : call'[u] = call[u],
         \/ call'[t] = call[t]
         \/ call[t].pc \in UnmarkedPcs /\ call'[t].pc \in UnmarkedPcs
         \/ /\ call'[t].on = call[t].on
            /\ \/ call[t].pc = "done_join" /\ call'[t].pc = "done_lock"
               \/ call[t].pc = "cancel_join" /\ call'[t].pc = "cancel_lock"
  PROVE  TruthInv'
<1>1. \A u \in Threads : Stays(u)
  <2>1. Stays(t)
    BY UnmarkedStays, StaysSame DEF Stays, Finalising, FinalPcs, TearPcs
  <2>2. QED
    BY <2>1, StaysSame
<1>2. \A s \in Streams : StreamInv(s)'
  <2> TAKE s \in Streams
  <2>1. StreamInv(s) /\ WorkerInv /\ s # NoStream
    BY InsertAssumption DEF TruthInv, OwnershipInv
  <2>2. QED
    BY <1>1, <2>1, TruthOther
<1>3. ASSUME NEW u \in Threads, call'[u].pc \notin UnmarkedPcs
      PROVE  StageInv(u)'
  <2>1. /\ StageInv(u) /\ call'[u].on = call[u].on
        /\ call'[u].pc \in CancelledPcs => call[u].pc \in CancelledPcs
        /\ call'[u].pc \in FinishedPcs => call[u].pc \in FinishedPcs
        /\ call'[u].pc \in DonePcs => call[u].pc \in DonePcs
    BY <1>3 DEF TruthInv, CancelledPcs, FinishedPcs, DonePcs
  <2>2. call[u].pc \notin {"idle", "close_free"} => call[u].on \in Streams
    BY DEF TypeInv, LocalsOK
  <2>3. call[u].pc \in CancelledPcs \cup FinishedPcs \cup DonePcs => call[u].on \in Streams
    BY <2>2 DEF CancelledPcs, FinishedPcs, DonePcs
  <2>4. call[u].on \in Streams => SameContext(call[u].on)
    OBVIOUS
  <2>5. QED
    BY <2>1, <2>3, <2>4 DEF StageInv, SameContext
<1>4. \A s \in deadCancel' : Marked(s)'
  BY MarkedStays DEF TruthInv, TypeInv, TypeOK
<1>5. QED
  BY <1>2, <1>3, <1>4, UnmarkedStage DEF TruthInv

-----------------------------------------------------------------------------
(* Steps of the worker.                                                    *)

\* A sequence that agrees with another of the same length is that sequence.
LEMMA SameSequence ==
  ASSUME NEW p \in Seq(Chunks), NEW a \in Seq(Chunks), Len(a) = Len(p),
         \A i \in 1..Len(p) : p[i] = a[i]
  PROVE  p = a
BY SeqEqual

\* What a worker's step may rely on.
WorkerFacts(s) ==
  /\ active = s /\ outcome[s] = "none"
  /\ work[s].pc \in Querying => engaged
  /\ work[s].pc \in {"start", "sample"} => ctx[s].handle # "open"
  /\ work[s].pc \in {"catch", "exit", "flag"} /\ ~work[s].committed
       => engaged \/ Marked(s)

LEMMA WorkerRelies ==
  ASSUME TypeInv, OwnershipInv, TruthInv, NEW s \in Streams, Working(s)
  PROVE  WorkerFacts(s)
<1>1. active = s /\ (work[s].pc \in Querying => engaged)
  BY DEF OwnershipInv, WorkerInv
<1>2. SlotStreamInv(s) /\ StartInv(s)
  BY DEF TruthInv, StreamInv
<1>3. work[s].pc \in {"start", "sample"} => ctx[s].handle # "open"
  BY <1>2 DEF StartInv, Waited, OwnershipInv, InitCallInv
<1>4. QED
  BY <1>1, <1>2, <1>3 DEF WorkerFacts, SlotStreamInv

\* A step of the worker of s that leaves the connection's state alone or, at
\* its first and last query steps, replaces it.
LEMMA TruthWorkerFrame ==
  ASSUME TypeInv, OwnershipInv, TruthInv, NEW s \in Streams, Working(s),
         UNCHANGED <<client, call, seen, deadCancel>>,
         \A r \in Streams \ {s} : ctx'[r] = ctx[r] /\ work'[r] = work[r],
         ctx[s].cancelled = ctx'[s].cancelled, ctx[s].finished => ctx'[s].finished,
         ctx'[s].handle = ctx[s].handle, ctx'[s].finalized = ctx[s].finalized,
         work'[s].pc # "none",
         work'[s].pc \in {"catch", "exit", "flag", "exited"} /\ ~work'[s].committed
           => engaged' \/ Marked(s),
         work'[s].pc \in {"start", "sample"} => work[s].pc \in {"start", "sample"},
         work'[s].pc \in {"start", "sample"} => ctx'[s].init = "none",
         ctx[s].handle = "open" => ctx'[s].init = "ok",
         ctx'[s].cancelled =>
           Marked(s) \/ (~work'[s].committed /\ work'[s].pc \notin {"commit", "endquery"}),
         ClosedInv(s)', CommitInv(s)'
  PROVE  TruthInv'
<1>1. /\ UNCHANGED <<active, call, accepted, outcome, deadCancel>>
      /\ WorkerFacts(s) /\ StreamInv(s)
  BY WorkerRelies DEF client, seen, TruthInv
<1>2. /\ Waited(s)' <=> Waited(s)
      /\ Claimed(s)' <=> Claimed(s)
      /\ Closing(s)' <=> Closing(s)
      /\ \A r \in Streams : Marked(r)' <=> Marked(r)
  BY <1>1, MarkedStays DEF Waited, Claimed, Closing, Finalising
<1>3. SlotStreamInv(s)' /\ StartInv(s)' /\ OpenInv(s)'
  BY <1>1, <1>2 DEF SlotStreamInv, StartInv, OpenInv, StreamInv, WorkerFacts
<1>4. CancelledInv(s)' /\ OutcomeInv(s)'
  BY <1>1, <1>2 DEF CancelledInv, OutcomeInv, StreamInv, WorkerFacts
<1>5. StreamInv(s)'
  BY <1>3, <1>4 DEF StreamInv
<1>6. \A r \in Streams \ {s} : StreamInv(r)'
  <2> TAKE r \in Streams \ {s}
  <2>1. StreamInv(r) /\ WorkerInv /\ SameContext(r)
    BY DEF TruthInv, OwnershipInv, SameContext
  <2>2. \A u \in Threads : Stays(u)
    BY <1>1, StaysSame
  <2>3. active # r /\ active' # r
    BY <1>1 DEF WorkerFacts
  <2>4. QED
    BY <1>1, <2>1, <2>2, <2>3, TruthOther
<1>7. ASSUME NEW u \in Threads
      PROVE  StageInv(u)'
  <2>1. StageInv(u)
    BY DEF TruthInv
  <2>2. call[u].pc \notin {"idle", "close_free"} => call[u].on \in Streams
    BY DEF TypeInv, LocalsOK
  <2>3. call[u].pc \in CancelledPcs \cup FinishedPcs \cup DonePcs => call[u].on \in Streams
    BY <2>2 DEF CancelledPcs, FinishedPcs, DonePcs
  <2>4. \A r \in Streams : /\ ctx'[r].cancelled = ctx[r].cancelled
                           /\ ctx[r].finished => ctx'[r].finished
    OBVIOUS
  <2>5. QED
    BY <1>1, <2>1, <2>3, <2>4 DEF StageInv
<1>8. \A r \in deadCancel' : Marked(r)'
  BY <1>1, <1>2 DEF TruthInv, TypeInv, TypeOK
<1>9. QED
  BY <1>5, <1>6, <1>7, <1>8 DEF TruthInv

\* The worker before its format has delivered everything: nothing is committed,
\* and a closed queue was closed by a finaliser.
LEMMA TruthWorkerEarly ==
  ASSUME TypeInv, OwnershipInv, TruthInv, NEW s \in Streams,
         work[s].pc \in {"start", "sample", "pull", "block"},
         UNCHANGED <<client, call, seen, deadCancel>>,
         \A r \in Streams \ {s} : ctx'[r] = ctx[r] /\ work'[r] = work[r],
         ctx[s].cancelled = ctx'[s].cancelled, ctx[s].finished = ctx'[s].finished,
         ctx'[s].handle = ctx[s].handle, ctx'[s].finalized = ctx[s].finalized,
         ctx'[s].errorSet = ctx[s].errorSet, work'[s].committed = work[s].committed,
         work'[s].pc \in {"sample", "pull", "block", "catch", "exit", "eof", "exited"},
         work'[s].pc = "sample" => work[s].pc = "start" /\ ctx'[s].init = ctx[s].init,
         work[s].pc \notin {"start", "sample"} => ctx'[s].init = ctx[s].init,
         work'[s].pc = "exit" => ctx[s].cancelled,
         work'[s].pc = "exited" => ctx'[s].init = "error",
         work'[s].pc = "eof" => Complete(s)',
         work[s].pc = "start" => engaged' /\ ~stopped',
         work[s].pc # "start" => UNCHANGED <<engaged, stopped>>
  PROVE  TruthInv'
<1>1. /\ StreamInv(s) /\ Working(s) /\ WorkerFacts(s)
      /\ UNCHANGED <<active, call, accepted, outcome, deadCancel>>
  BY WorkerRelies DEF TruthInv, Working, client, seen
<1>2. ~work[s].committed /\ ~ctx[s].errorSet /\ ~work'[s].committed
  BY <1>1 DEF StreamInv, CommitInv
<1>3. CommitInv(s)'
  <2>1. work'[s].pc \in Querying /\ stopped' => ctx'[s].cancelled
    BY <1>1 DEF StreamInv, CommitInv, Querying
  <2>2. QED
    BY <1>2, <2>1 DEF CommitInv
<1>4. ClosedInv(s)'
  <2>1. DoneWaits(s)' <=> DoneWaits(s)
    BY <1>1 DEF DoneWaits
  <2>2. QED
    BY <1>1, <1>2, <2>1 DEF StreamInv, ClosedInv
<1>5. /\ work'[s].pc # "none"
      /\ work'[s].pc \in {"catch", "exit", "flag", "exited"} => engaged'
      /\ work'[s].pc \in {"start", "sample"} => work[s].pc \in {"start", "sample"}
  BY <1>1 DEF WorkerFacts, Querying
<1>6. /\ work'[s].pc \in {"start", "sample"} => ctx'[s].init = "none"
      /\ ctx[s].handle = "open" => ctx'[s].init = "ok"
  BY <1>1 DEF StreamInv, StartInv, WorkerFacts
<1>7. ctx'[s].cancelled => ~work'[s].committed /\ work'[s].pc \notin {"commit", "endquery"}
  BY <1>2
<1>8. QED
  BY <1>1, <1>2, <1>3, <1>4, <1>5, <1>6, <1>7, TruthWorkerFrame

LEMMA TruthWorker ==
  ASSUME TypeInv, OrderInv, OwnershipInv, TruthInv, NEW s \in Streams, WorkerStep(s)
  PROVE  TruthInv'
<1>1. /\ ctx \in [Streams -> ContextType] /\ work \in [Streams -> WorkerType]
      /\ ctx[s] \in ContextType /\ work[s] \in WorkerType
  BY OrderTypes
<1>2. StreamInv(s) /\ (UNCHANGED seen => (Marked(s)' <=> Marked(s)))
  BY MarkedStays DEF TruthInv, seen
<1>3. CASE WorkerSendQuery(s)
  <2>1. /\ work[s].pc = "start" /\ work' = [work EXCEPT ![s].pc = "sample"]
        /\ engaged' /\ ~stopped' /\ UNCHANGED <<client, deadCancel, ctx, call, seen>>
    BY <1>3 DEF WorkerSendQuery, WorkerGoto
  <2>2. /\ work'[s].pc = "sample" /\ work'[s].committed = work[s].committed
        /\ \A r \in Streams \ {s} : work'[r] = work[r]
    BY <1>1, <2>1 DEF WorkerType
  <2>3. QED
    BY <2>1, <2>2, TruthWorkerEarly
<1>4. CASE WorkerNoSample(s)
  <2>1. /\ work[s].pc = "sample" /\ work' = [work EXCEPT ![s].pc = "exited"]
        /\ ctx' = [ctx EXCEPT ![s] = [@ EXCEPT !.init = "error", !.workerDone = TRUE]]
        /\ UNCHANGED <<client, engaged, stopped, deadCancel, call, seen>>
    BY <1>4 DEF WorkerNoSample, WorkerGoto, conn
  <2>2. /\ work'[s].pc = "exited" /\ work'[s].committed = work[s].committed
        /\ \A r \in Streams \ {s} : work'[r] = work[r]
    BY <1>1, <2>1 DEF WorkerType
  <2>3. /\ ctx'[s].handle = ctx[s].handle /\ ctx'[s].finished = ctx[s].finished
        /\ ctx'[s].cancelled = ctx[s].cancelled
        /\ ctx'[s].finalized = ctx[s].finalized /\ ctx'[s].errorSet = ctx[s].errorSet
        /\ ctx'[s].init = "error"
        /\ \A r \in Streams \ {s} : ctx'[r] = ctx[r]
    BY <1>1, <2>1 DEF ContextType
  <2>4. QED
    BY <2>1, <2>2, <2>3, TruthWorkerEarly
<1>5. CASE WorkerReady(s)
  <2>1. /\ work[s].pc = "sample" /\ work' = [work EXCEPT ![s].pc = "pull"]
        /\ ctx' = [ctx EXCEPT ![s].init = "ok"]
        /\ UNCHANGED <<client, engaged, stopped, deadCancel, call, seen>>
    BY <1>5 DEF WorkerReady, WorkerGoto, conn
  <2>2. /\ work'[s].pc = "pull" /\ work'[s].committed = work[s].committed
        /\ \A r \in Streams \ {s} : work'[r] = work[r]
    BY <1>1, <2>1 DEF WorkerType
  <2>3. /\ ctx'[s].handle = ctx[s].handle /\ ctx'[s].finished = ctx[s].finished
        /\ ctx'[s].cancelled = ctx[s].cancelled
        /\ ctx'[s].finalized = ctx[s].finalized /\ ctx'[s].errorSet = ctx[s].errorSet
        /\ \A r \in Streams \ {s} : ctx'[r] = ctx[r]
    BY <1>1, <2>1 DEF ContextType
  <2>4. QED
    BY <2>1, <2>2, <2>3, TruthWorkerEarly
<1>6. CASE WorkerThrow(s) \/ WorkerBlock(s)
  <2>1. PICK to \in {"catch", "block"} :
        /\ work[s].pc \in {"sample", "pull", "block", "commit"}
        /\ to = "block" => work[s].pc = "pull"
        /\ work' = [work EXCEPT ![s].pc = to]
        /\ UNCHANGED <<client, engaged, stopped, deadCancel, ctx, call, seen>>
    BY <1>6 DEF WorkerThrow, WorkerBlock, WorkerGoto, conn
  <2>2. /\ work'[s].pc = to /\ work'[s].committed = work[s].committed
        /\ \A r \in Streams \ {s} : work'[r] = work[r]
    BY <1>1, <2>1 DEF WorkerType
  <2>3. CASE work[s].pc # "commit"
    BY <2>1, <2>2, <2>3, TruthWorkerEarly
  <2>4. CASE work[s].pc = "commit"
    <3>1. Working(s) /\ WorkerFacts(s) /\ engaged /\ to = "catch"
      BY <2>1, <2>4, WorkerRelies DEF Working, WorkerFacts, Querying
    <3>2. ~work[s].committed /\ ~ctx[s].errorSet
      BY <1>2, <2>4 DEF StreamInv, CommitInv
    <3>3. CommitInv(s)'
      BY <2>2, <3>1, <3>2, <2>1 DEF CommitInv, Querying
    <3>4. ClosedInv(s)'
      <4>1. DoneWaits(s)' <=> DoneWaits(s)
        BY <2>1 DEF DoneWaits
      <4>2. QED
        BY <1>2, <2>1, <2>2, <2>4, <4>1 DEF StreamInv, ClosedInv, seen
    <3>5. ctx[s].handle = "open" => ctx'[s].init = "ok"
      BY <1>2, <2>1 DEF StreamInv, StartInv
    <3>6. QED
      BY <2>1, <2>2, <3>1, <3>2, <3>3, <3>4, <3>5, TruthWorkerFrame
  <2>5. QED
    BY <2>3, <2>4
<1>7. CASE WorkerPop(s)
  <2>1. /\ work[s].pc = "pull"
        /\ ctx' = [ctx EXCEPT ![s].queue = Tail(ctx[s].queue)]
        /\ \/ work' = [work EXCEPT ![s].pc = "catch"]
           \/ work' = [work EXCEPT ![s].parsed = Append(@, Head(ctx[s].queue))]
        /\ UNCHANGED <<client, engaged, stopped, deadCancel, call, seen>>
    BY <1>7 DEF WorkerPop, conn
  <2>2. /\ work'[s].pc \in {"catch", "pull"} /\ work'[s].committed = work[s].committed
        /\ \A r \in Streams \ {s} : work'[r] = work[r]
    BY <1>1, <2>1 DEF WorkerType
  <2>3. /\ ctx'[s].handle = ctx[s].handle /\ ctx'[s].finished = ctx[s].finished
        /\ ctx'[s].cancelled = ctx[s].cancelled
        /\ ctx'[s].finalized = ctx[s].finalized /\ ctx'[s].errorSet = ctx[s].errorSet
        /\ ctx'[s].init = ctx[s].init
        /\ \A r \in Streams \ {s} : ctx'[r] = ctx[r]
    BY <1>1, <2>1 DEF ContextType
  <2>4. QED
    BY <2>1, <2>2, <2>3, TruthWorkerEarly
<1>8. CASE WorkerSendData(s)
  <2>1. /\ work[s].pc = "block"
        /\ \/ ctx[s].cancelled /\ work' = [work EXCEPT ![s].pc = "exit"]
           \/ work' = [work EXCEPT ![s] = [@ EXCEPT
                            !.pc = "pull", !.sent = Len(work[s].parsed)]]
        /\ UNCHANGED <<client, engaged, stopped, deadCancel, ctx, call, seen>>
    BY <1>8 DEF WorkerSendData, WorkerGoto, conn
  <2>2. /\ work'[s].pc \in {"exit", "pull"} /\ work'[s].committed = work[s].committed
        /\ work'[s].pc = "exit" => ctx[s].cancelled
        /\ \A r \in Streams \ {s} : work'[r] = work[r]
    <3>1. CASE ctx[s].cancelled /\ work' = [work EXCEPT ![s].pc = "exit"]
      BY <1>1, <3>1 DEF WorkerType
    <3>2. CASE work' = [work EXCEPT ![s] = [@ EXCEPT
                            !.pc = "pull", !.sent = Len(work[s].parsed)]]
      BY <1>1, <3>2 DEF WorkerType
    <3>3. QED
      BY <2>1, <3>1, <3>2
  <2>3. QED
    BY <2>1, <2>2, TruthWorkerEarly
<1>9. CASE WorkerEof(s)
  <2>1. /\ work[s].pc = "pull" /\ work' = [work EXCEPT ![s].pc = "eof"]
        /\ work[s].sent = Len(work[s].parsed)
        /\ ctx[s].queue = <<>> /\ ctx[s].finished
        /\ UNCHANGED <<client, engaged, stopped, deadCancel, ctx, call, seen>>
    BY <1>9 DEF WorkerEof, WorkerGoto, conn
  <2>2. /\ work'[s].pc = "eof" /\ work'[s].committed = work[s].committed
        /\ work'[s].parsed = work[s].parsed /\ work'[s].sent = work[s].sent
        /\ \A r \in Streams \ {s} : work'[r] = work[r]
    BY <1>1, <2>1 DEF WorkerType
  <2>3. work[s].parsed = accepted[s]
    <3>1. StreamOrder(s)
      BY OrderByStream
    <3>2. /\ Len(accepted[s]) = Len(work[s].parsed) + Len(ctx[s].queue)
          /\ \A i \in 1..Len(work[s].parsed) : work[s].parsed[i] = accepted[s][i]
      BY <2>1, <3>1 DEF StreamOrder, Reading
    <3>3. Len(ctx[s].queue) = 0 /\ Len(work[s].parsed) \in Nat
      BY <2>1, OrderTypes
    <3>4. Len(accepted[s]) = Len(work[s].parsed)
      BY <3>2, <3>3
    <3>5. QED
      BY <3>2, <3>4, OrderTypes, SameSequence
  <2>4. Complete(s)'
    BY <2>1, <2>2, <2>3 DEF Complete, Ended, seen
  <2>5. QED
    BY <2>1, <2>2, <2>4, TruthWorkerEarly
<1>10. CASE WorkerEndMark(s)
  <2>1. /\ work[s].pc = "pull" /\ work' = [work EXCEPT ![s].pc = "eof"]
        /\ work[s].sent = Len(work[s].parsed) /\ Ended(s)
        /\ UNCHANGED ctx \/ ctx' = [ctx EXCEPT ![s].queue = Tail(@)]
        /\ UNCHANGED <<client, engaged, stopped, deadCancel, call, seen>>
    BY <1>10 DEF WorkerEndMark, WorkerGoto, conn
  <2>2. /\ work'[s].pc = "eof" /\ work'[s].committed = work[s].committed
        /\ work'[s].parsed = work[s].parsed /\ work'[s].sent = work[s].sent
        /\ \A r \in Streams \ {s} : work'[r] = work[r]
    BY <1>1, <2>1 DEF WorkerType
  <2>3. /\ ctx'[s].handle = ctx[s].handle /\ ctx'[s].finished = ctx[s].finished
        /\ ctx'[s].cancelled = ctx[s].cancelled
        /\ ctx'[s].finalized = ctx[s].finalized /\ ctx'[s].errorSet = ctx[s].errorSet
        /\ ctx'[s].init = ctx[s].init
        /\ \A r \in Streams \ {s} : ctx'[r] = ctx[r]
    BY <1>1, <2>1 DEF ContextType
  <2>4. Complete(s)'
    BY <2>1, <2>2 DEF Complete, Ended
  <2>5. QED
    BY <2>1, <2>2, <2>3, <2>4, TruthWorkerEarly
<1>11. CASE WorkerCheckCancelled(s)
  <2>1. PICK to \in {"exit", "commit"} :
        /\ work[s].pc = "eof" /\ work' = [work EXCEPT ![s].pc = to]
        /\ to = "exit" <=> ctx[s].cancelled
        /\ UNCHANGED <<client, engaged, stopped, deadCancel, ctx, call, seen>>
    BY <1>11 DEF WorkerCheckCancelled, WorkerGoto, conn
  <2>2. /\ work'[s].pc = to /\ work'[s].committed = work[s].committed
        /\ work'[s].parsed = work[s].parsed /\ work'[s].sent = work[s].sent
        /\ \A r \in Streams \ {s} : work'[r] = work[r]
    BY <1>1, <2>1 DEF WorkerType
  <2>3. Working(s) /\ WorkerFacts(s) /\ engaged
    BY <2>1, WorkerRelies DEF Working, WorkerFacts, Querying
  <2>4. ~work[s].committed /\ ~ctx[s].errorSet /\ Complete(s)
    BY <1>2, <2>1 DEF StreamInv, CommitInv
  <2>5. CommitInv(s)'
    <3>1. Complete(s)'
      BY <2>1, <2>2, <2>4 DEF Complete, Ended, seen
    <3>2. work'[s].pc \in Querying /\ stopped' => ctx'[s].cancelled
      BY <1>2, <2>1, <2>2 DEF StreamInv, CommitInv, Querying
    <3>3. QED
      BY <2>1, <2>2, <2>4, <3>1, <3>2 DEF CommitInv
  <2>6. ClosedInv(s)'
    <3>1. DoneWaits(s)' <=> DoneWaits(s)
      BY <2>1 DEF DoneWaits
    <3>2. QED
      BY <1>2, <2>1, <2>2, <3>1 DEF StreamInv, ClosedInv, seen
  <2>7. ctx[s].handle = "open" => ctx'[s].init = "ok"
    BY <1>2, <2>1 DEF StreamInv, StartInv
  <2>8. QED
    BY <2>1, <2>2, <2>3, <2>4, <2>5, <2>6, <2>7, TruthWorkerFrame
<1>12. CASE WorkerCommit(s)
  <2>1. /\ work[s].pc = "commit"
        /\ \E d : work' = [work EXCEPT ![s] = [@ EXCEPT
              !.pc = "endquery", !.committed = ~stopped, !.stored = d]]
        /\ UNCHANGED <<client, engaged, stopped, deadCancel, ctx, call, seen>>
    BY <1>12 DEF WorkerCommit, conn
  <2>2. /\ ctx[s].cancelled => Marked(s)
        /\ stopped => ctx[s].cancelled
        /\ ~ctx[s].errorSet /\ Complete(s)
    BY <1>2, <2>1 DEF StreamInv, CancelledInv, CommitInv, Querying
  <2>3. /\ work'[s].pc = "endquery" /\ work'[s].committed = ~stopped
        /\ work'[s].parsed = work[s].parsed /\ work'[s].sent = work[s].sent
        /\ \A r \in Streams \ {s} : work'[r] = work[r]
    BY <1>1, <2>1, <2>2 DEF WorkerType
  <2>4. Working(s) /\ WorkerFacts(s)
    BY <2>1, WorkerRelies DEF Working
  <2>5. CommitInv(s)'
    <3>1. Complete(s)'
      BY <2>1, <2>2, <2>3 DEF Complete, Ended, seen
    <3>2. QED
      BY <2>1, <2>2, <2>3, <3>1 DEF CommitInv
  <2>6. ClosedInv(s)'
    <3>1. DoneWaits(s)' <=> DoneWaits(s)
      BY <2>1 DEF DoneWaits
    <3>2. QED
      BY <1>2, <2>1, <2>3, <3>1 DEF StreamInv, ClosedInv, seen
  <2>7. ctx[s].handle = "open" => ctx'[s].init = "ok"
    BY <1>2, <2>1 DEF StreamInv, StartInv
  <2>8. QED
    BY <2>1, <2>2, <2>3, <2>4, <2>5, <2>6, <2>7, TruthWorkerFrame
<1>13. CASE WorkerEndQuery(s)
  <2>1. /\ work[s].pc = "endquery" /\ work' = [work EXCEPT ![s].pc = "exit"]
        /\ UNCHANGED <<client, stopped, deadCancel, ctx, call, seen>>
    BY <1>13 DEF WorkerEndQuery, WorkerGoto
  <2>2. /\ work[s].committed \/ ctx[s].cancelled
        /\ work[s].committed => Complete(s)
        /\ ~ctx[s].errorSet /\ (ctx[s].cancelled => Marked(s))
    BY <1>2, <2>1 DEF StreamInv, CancelledInv, CommitInv
  <2>3. /\ work'[s].pc = "exit" /\ work'[s].committed = work[s].committed
        /\ work'[s].parsed = work[s].parsed /\ work'[s].sent = work[s].sent
        /\ \A r \in Streams \ {s} : work'[r] = work[r]
    BY <1>1, <2>1 DEF WorkerType
  <2>4. Working(s)
    BY <2>1 DEF Working
  <2>5. CommitInv(s)'
    <3>1. work[s].committed => Complete(s)'
      BY <2>1, <2>2, <2>3 DEF Complete, Ended, seen
    <3>2. QED
      BY <2>1, <2>2, <2>3, <3>1 DEF CommitInv, Querying
  <2>6. ClosedInv(s)'
    <3>1. DoneWaits(s)' <=> DoneWaits(s)
      BY <2>1 DEF DoneWaits
    <3>2. QED
      BY <1>2, <2>1, <2>3, <3>1 DEF StreamInv, ClosedInv, seen
  <2>7. ctx[s].handle = "open" => ctx'[s].init = "ok"
    BY <1>2, <2>1 DEF StreamInv, StartInv
  <2>8. QED
    BY <2>1, <2>2, <2>3, <2>4, <2>5, <2>6, <2>7, TruthWorkerFrame
<1>14. CASE WorkerCatch(s)
  <2> DEFINE i == IF ctx[s].init = "none" THEN "error" ELSE ctx[s].init
  <2>0. ctx[s].init = "ok" => i = "ok"
    OBVIOUS
  <2>1. /\ work[s].pc = "catch" /\ work' = [work EXCEPT ![s].pc = "exit"]
        /\ ctx' = [ctx EXCEPT ![s] = [@ EXCEPT !.errorSet = TRUE, !.init = i]]
        /\ UNCHANGED <<client, engaged, stopped, deadCancel, call, seen>>
    BY <1>14 DEF WorkerCatch, WorkerGoto, conn
  <2> HIDE DEF i
  <2>2. /\ work'[s].pc = "exit" /\ work'[s].committed = work[s].committed
        /\ \A r \in Streams \ {s} : work'[r] = work[r]
    BY <1>1, <2>1 DEF WorkerType
  <2>3. /\ ctx'[s].handle = ctx[s].handle /\ ctx'[s].finished = ctx[s].finished
        /\ ctx'[s].cancelled = ctx[s].cancelled /\ ctx'[s].finalized = ctx[s].finalized
        /\ ctx'[s].init = i /\ ctx'[s].errorSet = TRUE
        /\ \A r \in Streams \ {s} : ctx'[r] = ctx[r]
    BY <1>1, <2>1 DEF ContextType
  <2>4. Working(s) /\ WorkerFacts(s) /\ ~work[s].committed /\ (engaged \/ Marked(s))
    BY <1>2, <2>1, WorkerRelies DEF Working, WorkerFacts, StreamInv, CommitInv
  <2>5. CommitInv(s)'
    BY <2>2, <2>3, <2>4 DEF CommitInv, Querying
  <2>6. ClosedInv(s)'
    <3>1. DoneWaits(s)' <=> DoneWaits(s)
      BY <2>1 DEF DoneWaits
    <3>2. QED
      BY <1>2, <2>1, <2>2, <2>3, <3>1 DEF StreamInv, ClosedInv, seen
  <2>7. ctx[s].handle = "open" => ctx'[s].init = "ok"
    BY <1>2, <2>0, <2>3 DEF StreamInv, StartInv
  <2>8. QED
    BY <2>1, <2>2, <2>3, <2>4, <2>5, <2>6, <2>7, TruthWorkerFrame
<1>15. CASE WorkerCloseQueue(s) \/ WorkerExit(s)
  <2>1. PICK to \in {"flag", "exited"} :
        /\ work[s].pc \in {"exit", "flag"} /\ work' = [work EXCEPT ![s].pc = to]
        /\ UNCHANGED <<client, engaged, stopped, deadCancel, call, seen>>
    BY <1>15 DEF WorkerCloseQueue, WorkerExit, WorkerGoto, conn
  <2>2. /\ work'[s].pc = to /\ work'[s].committed = work[s].committed
        /\ work'[s].parsed = work[s].parsed /\ work'[s].sent = work[s].sent
        /\ \A r \in Streams \ {s} : work'[r] = work[r]
    BY <1>1, <2>1 DEF WorkerType
  <2>3. /\ ctx'[s].handle = ctx[s].handle /\ ctx'[s].queue = ctx[s].queue
        /\ ctx'[s].cancelled = ctx[s].cancelled
        /\ ctx'[s].finalized = ctx[s].finalized /\ ctx'[s].errorSet = ctx[s].errorSet
        /\ ctx'[s].init = ctx[s].init
        /\ ctx[s].finished => ctx'[s].finished
        /\ \A r \in Streams \ {s} : ctx'[r] = ctx[r]
    <3>1. CASE WorkerCloseQueue(s)
      BY <1>1, <3>1 DEF WorkerCloseQueue, ContextType
    <3>2. CASE WorkerExit(s)
      BY <1>1, <3>2 DEF WorkerExit, ContextType
    <3>3. QED
      BY <1>15, <3>1, <3>2
  <2>4. Working(s) /\ WorkerFacts(s) /\ (~work[s].committed => engaged \/ Marked(s))
    BY <2>1, WorkerRelies DEF Working, WorkerFacts
  <2>5. CommitInv(s)'
    <3>1. Complete(s) => Complete(s)'
      BY <2>1, <2>2, <2>3 DEF Complete, Ended, seen
    <3>2. QED
      BY <1>2, <2>1, <2>2, <2>3, <3>1 DEF StreamInv, CommitInv, Querying
  <2>6. ClosedInv(s)'
    <3>1. DoneWaits(s)' <=> DoneWaits(s)
      BY <2>1 DEF DoneWaits
    <3>2. work[s].committed => ctx[s].finished \/ Marked(s)
      BY <1>2, EndedMarked DEF StreamInv, CommitInv, Complete
    <3>3. QED
      BY <1>2, <2>1, <2>2, <2>3, <3>1, <3>2 DEF StreamInv, ClosedInv, seen
  <2>7. /\ ctx[s].handle = "open" => ctx'[s].init = "ok"
        /\ ctx[s].cancelled => Marked(s) \/ ~work[s].committed
    BY <1>2, <2>3 DEF StreamInv, StartInv, CancelledInv
  <2>8. QED
    BY <2>1, <2>2, <2>3, <2>4, <2>5, <2>6, <2>7, TruthWorkerFrame
<1>16. QED
  BY <1>3, <1>4, <1>5, <1>6, <1>7, <1>8, <1>9, <1>10, <1>11, <1>12, <1>13, <1>14, <1>15
  DEF WorkerStep

-----------------------------------------------------------------------------
(* Steps of the application's threads that act on one stream.              *)

\* What is left to show when a thread t acts on stream s: the invariant of s
\* itself, and the stages of the threads on it.
LEMMA TruthThreadFrame ==
  ASSUME TypeInv, OwnershipInv, TruthInv, NEW t \in Threads, NEW s \in Streams,
         call[t].on \in {s, NoStream},
         \A u \in Threads \ {t} : call'[u] = call[u],
         \A r \in Streams \ {s} :
           /\ ctx'[r] = ctx[r] /\ work'[r] = work[r]
           /\ accepted'[r] = accepted[r] /\ outcome'[r] = outcome[r],
         active' = active \/ (active \in {s, NoStream} /\ active' \in {s, NoStream}),
         UNCHANGED <<engaged, stopped>> \/ active = s,
         \A r \in deadCancel' : Marked(r)',
         \A u \in Threads : call'[u].on = s => StageInv(u)',
         call'[t].on = s \/ call'[t].pc \in UnmarkedPcs,
         StreamInv(s)'
  PROVE  TruthInv'
<1>1. \A r \in Streams \ {s} : StreamInv(r)'
  <2> TAKE r \in Streams \ {s}
  <2>1. StreamInv(r) /\ WorkerInv /\ SameContext(r) /\ r # NoStream
    BY InsertAssumption DEF TruthInv, OwnershipInv, SameContext
  <2>2. \A u \in Threads : call[u].on = r => Stays(u)
    BY <2>1, StaysSame
  <2>3. active' = r <=> active = r
    BY <2>1
  <2>4. active = r => engaged' = engaged /\ (stopped' => stopped)
    OBVIOUS
  <2>5. QED
    BY <2>1, <2>2, <2>3, <2>4, TruthOther
<1>2. ASSUME NEW u \in Threads, call'[u].on # s, call'[u].pc \notin UnmarkedPcs
      PROVE  StageInv(u)'
  <2>1. u # t /\ call'[u] = call[u]
    BY <1>2
  <2>2. StageInv(u)
    BY DEF TruthInv
  <2>3. call[u].pc \notin {"idle", "close_free"} => call[u].on \in Streams
    BY DEF TypeInv, LocalsOK
  <2>4. call[u].pc \in CancelledPcs \cup FinishedPcs \cup DonePcs => call[u].on \in Streams
    BY <2>3 DEF CancelledPcs, FinishedPcs, DonePcs
  <2>5. QED
    BY <1>2, <2>1, <2>2, <2>4 DEF StageInv
<1>3. QED
  BY <1>1, <1>2, UnmarkedStage DEF TruthInv

\* The stages of the other threads on s, when s loses no flag and gains
\* `cancelled' only if no done() is at work on it.
LEMMA StageOthers ==
  ASSUME TruthInv, NEW t \in Threads, NEW s \in Streams,
         \A u \in Threads \ {t} : call'[u] = call[u],
         ctx[s].cancelled => ctx'[s].cancelled,
         ctx[s].finished => ctx'[s].finished,
         \/ ctx'[s].cancelled = ctx[s].cancelled
         \/ \A u \in Threads \ {t} : call[u].on = s => call[u].pc \notin DonePcs
  PROVE  \A u \in Threads \ {t} : call'[u].on = s => StageInv(u)'
BY DEF TruthInv, StageInv

\* A handle changes hands: chdb_stream_insert refused or ended, a finished
\* handle deleted.
LEMMA TruthHandle ==
  ASSUME TypeInv, OrderInv, OwnershipInv, TruthInv, NEW t \in Threads, NEW s \in Streams,
         InsertInitRejected(t, s) \/ DestroyFinal(t, s)
  PROVE  TruthInv'
<1>1. /\ ctx \in [Streams -> ContextType] /\ ctx[s] \in ContextType
  BY OrderTypes
<1>2. PICK h \in {"failed", "destroyed"} :
        /\ ctx' = [ctx EXCEPT ![s].handle = h]
        /\ call[t].pc = "idle"
        /\ UNCHANGED <<active, engaged, stopped, deadCancel, work, call, accepted, outcome>>
  BY DEF InsertInitRejected, DestroyFinal, client, conn, seen
<1>3. /\ ctx'[s].handle = h /\ ctx'[s].queue = ctx[s].queue
      /\ ctx'[s].finished = ctx[s].finished /\ ctx'[s].cancelled = ctx[s].cancelled
      /\ ctx'[s].finalized = ctx[s].finalized /\ ctx'[s].errorSet = ctx[s].errorSet
      /\ ctx'[s].init = ctx[s].init
      /\ \A r \in Streams \ {s} : ctx'[r] = ctx[r]
  BY <1>1, <1>2 DEF ContextType
<1>4. StreamInv(s)
  BY DEF TruthInv
<1>5. active # s
  <2>1. CASE InsertInitRejected(t, s)
    <3>1. work[s].pc = "none"
      BY <2>1, OrderByStream DEF InsertInitRejected, StreamOrder
    <3>2. QED
      BY <1>4, <3>1 DEF StreamInv, SlotStreamInv
  <2>2. CASE DestroyFinal(t, s)
    <3>1. ~Waited(s) /\ ~Claimed(s)
      BY <2>2 DEF DestroyFinal, Unused, Waited, Claimed
    <3>2. active = s => ctx[s].handle = "open" /\ ctx[s].finalized /\ outcome[s] = "none"
      BY <1>4, <2>2, <3>1 DEF DestroyFinal, StreamInv, SlotStreamInv
    <3>3. QED
      BY <1>4, <3>1, <3>2 DEF StreamInv, OpenInv
  <2>3. QED
    BY <2>1, <2>2
<1>6. /\ (Waited(s)' <=> Waited(s)) /\ (Claimed(s)' <=> Claimed(s))
      /\ (DoneWaits(s)' <=> DoneWaits(s)) /\ (Closing(s)' <=> Closing(s))
      /\ \A r \in Streams : Marked(r)' <=> Marked(r)
  BY <1>2, MarkedStays DEF Waited, Claimed, DoneWaits, Closing, Finalising
<1>7. SlotStreamInv(s)' /\ StartInv(s)' /\ OpenInv(s)'
  BY <1>2, <1>3, <1>4, <1>5, <1>6 DEF StreamInv, SlotStreamInv, StartInv, OpenInv
<1>8. CancelledInv(s)' /\ ClosedInv(s)' /\ OutcomeInv(s)'
  BY <1>2, <1>3, <1>4, <1>6 DEF StreamInv, CancelledInv, ClosedInv, OutcomeInv
<1>9. CommitInv(s)'
  <2>1. Complete(s)' <=> Complete(s)
    BY <1>2, <1>3 DEF Complete, Ended
  <2>2. QED
    BY <1>2, <1>3, <1>4, <2>1 DEF StreamInv, CommitInv
<1>10. StreamInv(s)'
  BY <1>7, <1>8, <1>9 DEF StreamInv
<1>11. call[t].on = NoStream /\ call[t].pc \in UnmarkedPcs
  BY <1>2 DEF OwnershipInv, FreeCallInv, UnmarkedPcs
<1>12. \A u \in Threads : call'[u].on = s => StageInv(u)'
  <2>1. \A u \in Threads \ {t} : call'[u].on = s => StageInv(u)'
    BY <1>2, <1>3, StageOthers
  <2>2. StageInv(t)'
    BY <1>2, <1>11, UnmarkedStage
  <2>3. QED
    BY <2>1, <2>2
<1>13. \A r \in deadCancel' : Marked(r)'
  BY <1>2, <1>6 DEF TruthInv, TypeInv, TypeOK
<1>14. QED
  BY <1>2, <1>3, <1>10, <1>11, <1>12, <1>13, TruthThreadFrame

LEMMA TruthInitEnd ==
  ASSUME TypeInv, OwnershipInv, TruthInv, NEW t \in Threads,
         InsertInitOk(t) \/ InsertInitError(t)
  PROVE  TruthInv'
<1>1. PICK s \in Streams : s = call[t].on
  BY CallFacts DEF InsertInitOk, InsertInitError
<1>2. /\ ctx \in [Streams -> ContextType] /\ ctx[s] \in ContextType
  BY OrderTypes
<1>3. /\ call[t].pc = "init_wait" /\ Leave(t)
      /\ UNCHANGED <<engaged, stopped, deadCancel, work, accepted, outcome>>
  BY DEF InsertInitOk, InsertInitError, conn, seen
<1>4. /\ call'[t].pc = "idle" /\ call'[t].on = NoStream
      /\ \A u \in Threads \ {t} : call'[u] = call[u]
  BY <1>3, LeaveEffect DEF TypeInv, Idle
<1>5. StreamInv(s) /\ s # NoStream
  BY InsertAssumption DEF TruthInv
<1>6. active = s /\ ctx[s].handle = "init"
  BY <1>1, <1>3 DEF OwnershipInv, InitCallInv
<1>7. /\ ctx'[s].queue = ctx[s].queue
      /\ ctx'[s].finished = ctx[s].finished /\ ctx'[s].cancelled = ctx[s].cancelled
      /\ ctx'[s].finalized = ctx[s].finalized /\ ctx'[s].errorSet = ctx[s].errorSet
      /\ ctx'[s].init = ctx[s].init
      /\ \A r \in Streams \ {s} : ctx'[r] = ctx[r]
      /\ \/ ctx'[s].handle = "open" /\ ctx[s].init = "ok" /\ active' = active
         \/ ctx'[s].handle = "failed" /\ ~Working(s) /\ active' = NoStream
  <2>1. CASE InsertInitOk(t)
    BY <1>1, <1>2, <2>1 DEF InsertInitOk, ContextType
  <2>2. CASE InsertInitError(t)
    <3>1. ~Working(s)
      BY <1>1, <2>2 DEF InsertInitError, Join, OwnershipInv, WorkerInv, Working
    <3>2. QED
      BY <1>1, <1>2, <2>2, <3>1 DEF InsertInitError, ContextType
  <2>3. QED
    BY <2>1, <2>2
<1>8. /\ work[s].pc \notin {"start", "sample"}
      /\ ~ctx[s].finalized
  BY <1>5, <1>6, <1>7 DEF StreamInv, StartInv, Working
<1>9. /\ DoneWaits(s) => DoneWaits(s)'
      /\ Closing(s) => Closing(s)'
  BY <1>3, <1>4 DEF DoneWaits, Closing, TearPcs
<1>10. SlotStreamInv(s)' /\ StartInv(s)' /\ OpenInv(s)'
  BY <1>3, <1>5, <1>6, <1>7, <1>8, MarksStay DEF StreamInv, SlotStreamInv, StartInv, OpenInv
<1>11. CancelledInv(s)' /\ ClosedInv(s)' /\ OutcomeInv(s)'
  BY <1>3, <1>5, <1>6, <1>7, <1>9, MarksStay DEF StreamInv, CancelledInv, ClosedInv, OutcomeInv
<1>12. CommitInv(s)'
  <2>1. Complete(s)' <=> Complete(s)
    BY <1>3, <1>7 DEF Complete, Ended
  <2>2. QED
    BY <1>3, <1>5, <1>7, <2>1 DEF StreamInv, CommitInv
<1>13. StreamInv(s)'
  BY <1>10, <1>11, <1>12 DEF StreamInv
<1>14. \A u \in Threads : call'[u].on = s => StageInv(u)'
  BY <1>4, <1>5, <1>7, StageOthers
<1>15. QED
  BY <1>1, <1>3, <1>4, <1>6, <1>7, <1>13, <1>14, MarksStay, TruthThreadFrame DEF UnmarkedPcs

LEMMA TruthInsertInit ==
  ASSUME TypeInv, OrderInv, OwnershipInv, TruthInv, NEW t \in Threads, NEW s \in Streams,
         InsertInit(t, s)
  PROVE  TruthInv'
<1>1. /\ ctx \in [Streams -> ContextType] /\ ctx[s] \in ContextType
      /\ work \in [Streams -> WorkerType] /\ work[s] \in WorkerType
  BY OrderTypes
<1>2. /\ call[t].pc = "idle" /\ ctx[s].handle = "fresh"
      /\ active = NoStream /\ active' = s /\ Begin(t, s, "init_wait")
      /\ UNCHANGED <<engaged, stopped, deadCancel, accepted, outcome>>
  BY DEF InsertInit, conn, seen
<1>3. /\ call'[t].pc = "init_wait" /\ call'[t].on = s /\ call[t].on = NoStream
      /\ \A u \in Threads \ {t} : call'[u] = call[u]
  BY <1>2, BeginEffect DEF TypeInv, CallPcs, OwnershipInv, FreeCallInv
<1>4. /\ ctx'[s].handle = "init" /\ ctx'[s].queue = ctx[s].queue
      /\ ctx'[s].finished = ctx[s].finished /\ ctx'[s].cancelled = ctx[s].cancelled
      /\ ctx'[s].finalized = ctx[s].finalized /\ ctx'[s].errorSet = ctx[s].errorSet
      /\ ctx'[s].init = ctx[s].init
      /\ \A r \in Streams \ {s} : ctx'[r] = ctx[r] /\ work'[r] = work[r]
      /\ work'[s].pc = "start" /\ work'[s].committed = work[s].committed
  BY <1>1 DEF InsertInit, ContextType, WorkerType
<1>5. StreamInv(s) /\ s # NoStream /\ work[s].pc = "none"
  BY <1>2, InsertAssumption, OrderByStream DEF TruthInv, StreamOrder
<1>6. Waited(s)'
  BY <1>3 DEF Waited
<1>7. /\ DoneWaits(s) => DoneWaits(s)'
      /\ Closing(s) => Closing(s)'
  BY <1>3, <1>5 DEF DoneWaits, Closing
<1>8. SlotStreamInv(s)' /\ StartInv(s)' /\ OpenInv(s)'
  BY <1>2, <1>4, <1>5, <1>6, MarksStay DEF StreamInv, SlotStreamInv, StartInv, OpenInv, OutcomeInv
<1>9. CancelledInv(s)' /\ ClosedInv(s)' /\ OutcomeInv(s)'
  BY <1>2, <1>4, <1>5, <1>7, MarksStay DEF StreamInv, CancelledInv, ClosedInv, OutcomeInv
<1>10. CommitInv(s)'
  BY <1>2, <1>4, <1>5 DEF StreamInv, CommitInv, Querying
<1>11. StreamInv(s)'
  BY <1>8, <1>9, <1>10 DEF StreamInv
<1>12. \A u \in Threads : call'[u].on = s => StageInv(u)'
  <2>1. StageInv(t)'
    BY <1>3 DEF StageInv, CancelledPcs, FinishedPcs, DonePcs
  <2>2. \A u \in Threads \ {t} : call'[u].on = s => StageInv(u)'
    BY <1>3, <1>4, StageOthers
  <2>3. QED
    BY <2>1, <2>2
<1>13. QED
  BY <1>2, <1>3, <1>4, <1>11, <1>12, MarksStay, TruthThreadFrame

LEMMA TruthPush ==
  ASSUME TypeInv, OwnershipInv, TruthInv, NEW t \in Threads, AppendPush(t)
  PROVE  TruthInv'
<1>1. PICK s \in Streams : s = call[t].on
  BY CallFacts DEF AppendPush
<1>2. /\ ctx \in [Streams -> ContextType] /\ ctx[s] \in ContextType
      /\ accepted \in [Streams -> Seq(Chunks)]
  BY OrderTypes
<1>3. /\ call[t].pc = "append_push" /\ Leave(t) /\ ~ctx[s].finished
      /\ UNCHANGED <<active, engaged, stopped, deadCancel, work, outcome>>
      /\ ctx' = [ctx EXCEPT ![s].queue = Append(@, call[t].chunk)]
      /\ accepted' = [accepted EXCEPT ![s] = Append(@, call[t].chunk)]
  BY <1>1 DEF AppendPush, conn, client
<1>4. /\ call'[t].pc = "idle" /\ call'[t].on = NoStream
      /\ \A u \in Threads \ {t} : call'[u] = call[u]
  BY <1>3, LeaveEffect DEF TypeInv, Idle
<1>5. /\ ctx'[s].handle = ctx[s].handle
      /\ ctx'[s].finished = ctx[s].finished /\ ctx'[s].cancelled = ctx[s].cancelled
      /\ ctx'[s].finalized = ctx[s].finalized /\ ctx'[s].errorSet = ctx[s].errorSet
      /\ ctx'[s].init = ctx[s].init
      /\ \A r \in Streams \ {s} : ctx'[r] = ctx[r] /\ accepted'[r] = accepted[r]
  BY <1>2, <1>3 DEF ContextType
<1>6. StreamInv(s) /\ s # NoStream
  BY InsertAssumption DEF TruthInv
<1>7. /\ Waited(s) => Waited(s)'
      /\ Claimed(s) => Claimed(s)'
      /\ DoneWaits(s) => DoneWaits(s)'
      /\ Closing(s) => Closing(s)'
  <2>1. \A u \in Threads : call[u].on = s => Stays(u)
    BY <1>3, <1>4, StaysSame, UnmarkedStays DEF UnmarkedPcs
  <2>2. QED
    BY <2>1, StaysThere
<1>8. Marked(s) => Marked(s)'
  <2>1. accepted[s] \in Seq(Chunks) /\ accepted'[s] = Append(accepted[s], call[t].chunk)
    BY <1>2, <1>3
  <2>2. \A i \in 1..Len(accepted[s]) : i \in 1..Len(accepted'[s]) /\ accepted'[s][i] = accepted[s][i]
    BY <2>1
  <2>3. QED
    BY <2>2 DEF Marked
<1>9. SlotStreamInv(s)' /\ StartInv(s)' /\ OpenInv(s)'
  BY <1>3, <1>5, <1>6, <1>7, <1>8 DEF StreamInv, SlotStreamInv, StartInv, OpenInv
<1>10. CancelledInv(s)' /\ ClosedInv(s)' /\ OutcomeInv(s)'
  BY <1>3, <1>5, <1>6, <1>7, <1>8 DEF StreamInv, CancelledInv, ClosedInv, OutcomeInv
<1>11. CommitInv(s)'
  <2>1. Complete(s) => Complete(s)'
    BY <1>3 DEF Complete, Ended
  <2>2. QED
    BY <1>3, <1>5, <1>6, <2>1 DEF StreamInv, CommitInv
<1>12. StreamInv(s)'
  BY <1>9, <1>10, <1>11 DEF StreamInv
<1>13. \A u \in Threads : call'[u].on = s => StageInv(u)'
  BY <1>4, <1>5, <1>6, StageOthers
<1>14. \A r \in deadCancel' : Marked(r)'
  <2>1. \A r \in deadCancel : r \in Streams /\ Marked(r)
    BY DEF TruthInv, TypeInv, TypeOK
  <2>2. \A r \in Streams \ {s} : Marked(r) => Marked(r)'
    BY <1>5, MarkedStays
  <2>3. QED
    BY <1>3, <1>8, <2>1, <2>2
<1>15. QED
  BY <1>1, <1>3, <1>4, <1>5, <1>12, <1>13, <1>14, TruthThreadFrame DEF UnmarkedPcs

-----------------------------------------------------------------------------
(* Steps that finalise a stream.                                           *)

\* What the finaliser or the teardown of s may rely on: it is alone.
FinalFacts(t, s) ==
  /\ active = s /\ outcome[s] = "none"
  /\ ctx[s].handle = "open"
  /\ \A u \in Threads \ {t} : call[u].on = s => call[u].pc \notin FinalPcs \cup TearPcs
  /\ ~Waited(s)

LEMMA FinalRelies ==
  ASSUME TypeInv, OwnershipInv, TruthInv, NEW t \in Threads, NEW s \in Streams,
         s = call[t].on, Finalising(t) \/ call[t].pc \in {"close_flag"} \cup TearPcs
  PROVE  FinalFacts(t, s)
<1>1. SlotStreamInv(s)
  BY DEF TruthInv, StreamInv
<1>2. CASE Finalising(t)
  <2>1. active = s /\ ctx[s].handle = "open"
    BY <1>2 DEF OwnershipInv, FinalCallInv
  <2>2. \A u \in Threads \ {t} : ~Finalising(u) /\ call[u].pc \notin ClosePcs
    <3>1. call[t].pc # "idle"
      BY <1>2 DEF Finalising
    <3>2. QED
      BY <1>2, <3>1 DEF OwnershipInv, OneFinaliser, CloseCallInv
  <2>3. ~Waited(s)
    BY <2>1 DEF Waited, OwnershipInv, InitCallInv
  <2>4. QED
    BY <1>1, <2>1, <2>2, <2>3 DEF FinalFacts, SlotStreamInv, Finalising, FinalPcs, TearPcs,
      ClosePcs
<1>3. CASE call[t].pc \in {"close_flag"} \cup TearPcs
  <2>1. active = s /\ \A u \in Threads \ {t} : call[u].pc = "idle"
    BY <1>3 DEF OwnershipInv, CloseCallInv, ClosePcs, TearPcs
  <2>2. ~Waited(s)
    BY <1>3, <2>1 DEF Waited, TearPcs
  <2>3. QED
    BY <1>1, <2>1, <2>2 DEF FinalFacts, SlotStreamInv, FinalPcs, TearPcs
<1>4. QED
  BY <1>2, <1>3

\* finalized.exchange(true) by the call that wins it.
LEMMA TruthClaim ==
  ASSUME TypeInv, OwnershipInv, TruthInv, NEW t \in Threads, NEW s \in Streams,
         s = call[t].on, ~ctx[s].finalized,
         \/ Goto(t, "done_claim", "done_finish")
         \/ Goto(t, "cancel_claim", "cancel_flag"),
         ctx' = [ctx EXCEPT ![s].finalized = TRUE],
         UNCHANGED <<client, conn, work, seen>>
  PROVE  TruthInv'
<1>1. /\ ctx \in [Streams -> ContextType] /\ ctx[s] \in ContextType
  BY OrderTypes
<1>2. UNCHANGED <<active, engaged, stopped, deadCancel, work, accepted, outcome>>
  BY DEF client, conn, seen
<1>3. /\ call[t].pc \in {"done_claim", "cancel_claim"}
      /\ call'[t].pc \in {"done_finish", "cancel_flag"}
      /\ call'[t].on = s
      /\ \A u \in Threads \ {t} : call'[u] = call[u]
  BY GotoEffect DEF TypeInv, CallPcs
<1>4. /\ ctx'[s].handle = ctx[s].handle /\ ctx'[s].queue = ctx[s].queue
      /\ ctx'[s].finished = ctx[s].finished /\ ctx'[s].cancelled = ctx[s].cancelled
      /\ ctx'[s].finalized /\ ctx'[s].errorSet = ctx[s].errorSet
      /\ ctx'[s].init = ctx[s].init
      /\ \A r \in Streams \ {s} : ctx'[r] = ctx[r]
  BY <1>1 DEF ContextType
<1>5. StreamInv(s)
  BY DEF TruthInv
<1>6. ctx[s].handle = "open"
  BY <1>3 DEF OwnershipInv, ClaimCallInv, Claiming
<1>7. /\ Waited(s) => Waited(s)'
      /\ DoneWaits(s) => DoneWaits(s)'
      /\ Closing(s) => Closing(s)'
  <2>1. \A u \in Threads : call[u].on = s => Stays(u)
    BY <1>3, StaysSame, UnmarkedStays DEF UnmarkedPcs
  <2>2. QED
    BY <2>1, StaysThere
<1>8. Claimed(s)'
  BY <1>3 DEF Claimed, Finalising
<1>9. SlotStreamInv(s)' /\ StartInv(s)' /\ OpenInv(s)'
  BY <1>2, <1>4, <1>5, <1>6, <1>7, <1>8, MarksStay DEF StreamInv, SlotStreamInv, StartInv, OpenInv
<1>10. CancelledInv(s)' /\ ClosedInv(s)' /\ OutcomeInv(s)'
  BY <1>2, <1>4, <1>5, <1>7, MarksStay DEF StreamInv, CancelledInv, ClosedInv, OutcomeInv
<1>11. CommitInv(s)'
  <2>1. Complete(s)' <=> Complete(s)
    BY <1>2, <1>4 DEF Complete, Ended
  <2>2. QED
    BY <1>2, <1>4, <1>5, <2>1 DEF StreamInv, CommitInv
<1>12. StreamInv(s)'
  BY <1>9, <1>10, <1>11 DEF StreamInv
<1>13. ~ctx[s].cancelled
  <2>1. ~Closing(s)
    BY <1>3 DEF Closing, TearPcs, OwnershipInv, CloseCallInv, ClosePcs
  <2>2. QED
    BY <1>5, <2>1 DEF StreamInv, CancelledInv
<1>14. \A u \in Threads : call'[u].on = s => StageInv(u)'
  <2>1. StageInv(t)'
    BY <1>3, <1>4, <1>13 DEF StageInv, CancelledPcs, FinishedPcs, DonePcs
  <2>2. \A u \in Threads \ {t} : call'[u].on = s => StageInv(u)'
    BY <1>3, <1>4, StageOthers
  <2>3. QED
    BY <2>1, <2>2
<1>15. QED
  BY <1>2, <1>3, <1>4, <1>12, <1>14, MarksStay, TruthThreadFrame

\* CancelFlag and CloseFlag.
LEMMA TruthFlag ==
  ASSUME TypeInv, OrderInv, OwnershipInv, TruthInv, NEW t \in Threads,
         CancelFlag(t) \/ CloseFlag(t)
  PROVE  TruthInv'
<1>1. PICK from, to : /\ \/ from = "cancel_flag" /\ to = "cancel_send"
                         \/ from = "close_flag" /\ to = "close_send"
                      /\ SetCancelled(t, from, to)
  BY DEF CancelFlag, CloseFlag
<1>2. call[t].pc = from
  BY <1>1 DEF SetCancelled, Goto
<1>3. PICK s \in Streams : s = call[t].on
  BY <1>1, <1>2, CallFacts
<1>4. /\ ctx \in [Streams -> ContextType] /\ ctx[s] \in ContextType
  BY OrderTypes
<1>5. /\ ctx' = [ctx EXCEPT ![s].cancelled = TRUE] /\ Goto(t, from, to)
      /\ UNCHANGED <<active, engaged, stopped, deadCancel, work, accepted, outcome>>
  BY <1>1, <1>3 DEF SetCancelled, client, conn, seen
<1>6. /\ call'[t].pc = to /\ call'[t].on = s
      /\ \A u \in Threads \ {t} : call'[u] = call[u]
  BY <1>1, <1>3, <1>5, GotoEffect DEF TypeInv, CallPcs, ClosePcs
<1>7. /\ ctx'[s].handle = ctx[s].handle /\ ctx'[s].queue = ctx[s].queue
      /\ ctx'[s].finished = ctx[s].finished /\ ctx'[s].cancelled
      /\ ctx'[s].finalized = ctx[s].finalized /\ ctx'[s].errorSet = ctx[s].errorSet
      /\ ctx'[s].init = ctx[s].init
      /\ \A r \in Streams \ {s} : ctx'[r] = ctx[r]
  BY <1>4, <1>5 DEF ContextType
<1>8. StreamInv(s) /\ FinalFacts(t, s)
  BY <1>1, <1>2, <1>3, FinalRelies DEF TruthInv, Finalising, FinalPcs
<1>9. /\ Waited(s) => Waited(s)'
      /\ Claimed(s) => Claimed(s)'
      /\ DoneWaits(s) => DoneWaits(s)'
      /\ Closing(s) => Closing(s)'
  <2>1. Stays(t)
    BY <1>1, <1>2, <1>3, <1>6 DEF Stays, Finalising, FinalPcs, TearPcs
  <2>2. \A u \in Threads : call[u].on = s => Stays(u)
    BY <1>6, <2>1, StaysSame
  <2>3. QED
    BY <2>2, StaysThere
<1>10. Marked(s) \/ (~work[s].committed /\ work[s].pc \notin {"commit", "endquery"})
  <2>1. ~DoneWaits(s)
    BY <1>1, <1>2, <1>8 DEF DoneWaits, FinalFacts, FinalPcs
  <2>2. CASE ctx[s].cancelled
    BY <1>8, <2>2 DEF StreamInv, CancelledInv
  <2>3. CASE ~ctx[s].cancelled
    <3>1. ctx[s].finished =>
            work[s].pc \in {"flag", "exited"} /\ (work[s].committed => Marked(s))
      BY <1>8, <2>1, <2>3 DEF StreamInv, ClosedInv, FinalFacts
    <3>2. work[s].committed \/ work[s].pc = "commit" => ctx[s].finished \/ Marked(s)
      BY <1>8, EndedMarked DEF StreamInv, CommitInv, Complete
    <3>3. work[s].pc = "endquery" => work[s].committed
      BY <1>8, <2>3 DEF StreamInv, CommitInv
    <3>4. QED
      BY <3>1, <3>2, <3>3
  <2>4. QED
    BY <2>2, <2>3
<1>11. ctx[s].finalized \/ Closing(s)'
  <2>1. CASE from = "cancel_flag"
    BY <1>2, <1>3, <2>1 DEF OwnershipInv, FinalCallInv, Finalising
  <2>2. CASE to = "close_send"
    BY <1>6, <2>2 DEF Closing, TearPcs
  <2>3. QED
    BY <1>1, <2>1, <2>2
<1>12. SlotStreamInv(s)' /\ StartInv(s)' /\ OpenInv(s)'
  BY <1>5, <1>7, <1>8, <1>9, MarksStay DEF StreamInv, SlotStreamInv, StartInv, OpenInv
<1>13. CancelledInv(s)' /\ ClosedInv(s)' /\ OutcomeInv(s)'
  BY <1>5, <1>7, <1>8, <1>10, <1>11, MarksStay DEF StreamInv, CancelledInv, ClosedInv, OutcomeInv
<1>14. CommitInv(s)'
  <2>1. Complete(s)' <=> Complete(s)
    BY <1>5, <1>7 DEF Complete, Ended
  <2>2. QED
    BY <1>5, <1>7, <1>8, <2>1 DEF StreamInv, CommitInv
<1>15. StreamInv(s)'
  BY <1>12, <1>13, <1>14 DEF StreamInv
<1>16. \A u \in Threads : call'[u].on = s => StageInv(u)'
  <2>1. StageInv(t)'
    BY <1>1, <1>6, <1>7 DEF StageInv, CancelledPcs, FinishedPcs, DonePcs
  <2>2. \A u \in Threads \ {t} : call[u].on = s => call[u].pc \notin DonePcs
    BY <1>8 DEF FinalFacts, FinalPcs, DonePcs
  <2>3. \A u \in Threads \ {t} : call'[u].on = s => StageInv(u)'
    BY <1>6, <1>7, <2>2, StageOthers
  <2>4. QED
    BY <2>1, <2>3
<1>17. QED
  BY <1>3, <1>5, <1>6, <1>7, <1>15, <1>16, MarksStay, TruthThreadFrame

\* CancelSend and CloseSend: the query they cancel is there, or its format had
\* ended it.
LEMMA TruthSend ==
  ASSUME TypeInv, OwnershipInv, TruthInv, NEW t \in Threads,
         CancelSend(t) \/ CloseSend(t)
  PROVE  TruthInv'
<1>1. PICK from, to : /\ \/ from = "cancel_send" /\ to = "cancel_finish"
                         \/ from = "close_send" /\ to = "close_finish"
                      /\ SendCancel(t, from, to)
  BY DEF CancelSend, CloseSend
<1>2. call[t].pc = from
  BY <1>1 DEF SendCancel, Goto
<1>3. PICK s \in Streams : s = call[t].on
  BY <1>1, <1>2, CallFacts
<1>4. /\ Goto(t, from, to)
      /\ deadCancel' = IF engaged THEN deadCancel ELSE deadCancel \cup {s}
      /\ UNCHANGED <<active, engaged, ctx, work, accepted, outcome>>
  BY <1>1, <1>3 DEF SendCancel, client, seen
<1>5. /\ call'[t].pc = to /\ call'[t].on = s
      /\ \A u \in Threads \ {t} : call'[u] = call[u]
  BY <1>1, <1>3, <1>4, GotoEffect DEF TypeInv, CallPcs, ClosePcs
<1>6. StreamInv(s) /\ FinalFacts(t, s) /\ ctx[s].cancelled
  BY <1>1, <1>2, <1>3, FinalRelies
  DEF TruthInv, Finalising, FinalPcs, TearPcs, StageInv, CancelledPcs
<1>7. engaged \/ Marked(s)
  <2>1. SUFFICES ASSUME ~Marked(s) PROVE engaged
    OBVIOUS
  <2>2. ~work[s].committed /\ work[s].pc \notin {"none", "start", "sample"}
    BY <1>6, <2>1 DEF StreamInv, CancelledInv, SlotStreamInv, StartInv, FinalFacts
  <2>3. work[s].pc \in WorkerPcs
    BY OrderTypes DEF WorkerType
  <2>4. work[s].pc \in Querying => engaged
    BY DEF OwnershipInv, WorkerInv, Working, Querying
  <2>5. work[s].pc \in {"catch", "exit", "flag", "exited"} => engaged
    BY <1>6, <2>1, <2>2 DEF StreamInv, SlotStreamInv, FinalFacts
  <2>6. QED
    BY <2>2, <2>3, <2>4, <2>5 DEF WorkerPcs, Querying
<1>8. /\ \A r \in Streams : Marked(r)' <=> Marked(r)
      /\ \A r \in deadCancel' : Marked(r)'
  <2>1. \A r \in Streams : Marked(r)' <=> Marked(r)
    BY <1>4, MarkedStays
  <2>2. \A r \in deadCancel' : r \in Streams /\ Marked(r)
    BY <1>4, <1>7 DEF TruthInv, TypeInv, TypeOK
  <2>3. QED
    BY <2>1, <2>2
<1>9. /\ Waited(s) => Waited(s)'
      /\ Claimed(s) => Claimed(s)'
      /\ DoneWaits(s) => DoneWaits(s)'
      /\ Closing(s) => Closing(s)'
  <2>1. Stays(t)
    BY <1>1, <1>2, <1>3, <1>5 DEF Stays, Finalising, FinalPcs, TearPcs
  <2>2. \A u \in Threads : call[u].on = s => Stays(u)
    BY <1>5, <2>1, StaysSame
  <2>3. QED
    BY <2>2, StaysThere
<1>10. SlotStreamInv(s)' /\ StartInv(s)' /\ OpenInv(s)'
  BY <1>4, <1>6, <1>8, <1>9 DEF StreamInv, SlotStreamInv, StartInv, OpenInv
<1>11. CancelledInv(s)' /\ ClosedInv(s)' /\ OutcomeInv(s)'
  BY <1>4, <1>6, <1>8, <1>9 DEF StreamInv, CancelledInv, ClosedInv, OutcomeInv
<1>12. CommitInv(s)'
  <2>1. Complete(s)' <=> Complete(s)
    BY <1>4 DEF Complete, Ended
  <2>2. QED
    BY <1>4, <1>6, <2>1 DEF StreamInv, CommitInv
<1>13. StreamInv(s)'
  BY <1>10, <1>11, <1>12 DEF StreamInv
<1>14. \A u \in Threads : call'[u].on = s => StageInv(u)'
  <2>1. StageInv(t)'
    BY <1>1, <1>4, <1>5, <1>6 DEF StageInv, CancelledPcs, FinishedPcs, DonePcs
  <2>2. \A u \in Threads \ {t} : call'[u].on = s => StageInv(u)'
    BY <1>4, <1>5, StageOthers
  <2>3. QED
    BY <2>1, <2>2
<1>15. active = s
  BY <1>6 DEF FinalFacts
<1>16. QED
  BY <1>3, <1>4, <1>5, <1>8, <1>13, <1>14, <1>15, TruthThreadFrame

\* DoneFinish, CancelFinish and CloseFinish.
LEMMA TruthFinish ==
  ASSUME TypeInv, OwnershipInv, TruthInv, NEW t \in Threads,
         DoneFinish(t) \/ CancelFinish(t) \/ CloseFinish(t)
  PROVE  TruthInv'
<1>1. PICK from, to : /\ \/ from = "done_finish" /\ to = "done_join"
                         \/ from = "cancel_finish" /\ to = "cancel_join"
                         \/ from = "close_finish" /\ to = "close_join"
                      /\ FinishQueue(t, from, to)
  BY DEF DoneFinish, CancelFinish, CloseFinish
<1>2. call[t].pc = from
  BY <1>1 DEF FinishQueue, Goto
<1>3. PICK s \in Streams : s = call[t].on
  BY <1>1, <1>2, CallFacts
<1>4. /\ ctx \in [Streams -> ContextType] /\ ctx[s] \in ContextType
  BY OrderTypes
<1>5. /\ ctx' = [ctx EXCEPT ![s].finished = TRUE] /\ Goto(t, from, to)
      /\ UNCHANGED <<active, engaged, stopped, deadCancel, work, accepted, outcome>>
  BY <1>1, <1>3 DEF FinishQueue, client, conn, seen
<1>6. /\ call'[t].pc = to /\ call'[t].on = s
      /\ \A u \in Threads \ {t} : call'[u] = call[u]
  BY <1>1, <1>3, <1>5, GotoEffect DEF TypeInv, CallPcs, ClosePcs
<1>7. /\ ctx'[s].handle = ctx[s].handle /\ ctx'[s].queue = ctx[s].queue
      /\ ctx'[s].finished /\ ctx'[s].cancelled = ctx[s].cancelled
      /\ ctx'[s].finalized = ctx[s].finalized /\ ctx'[s].errorSet = ctx[s].errorSet
      /\ ctx'[s].init = ctx[s].init
      /\ \A r \in Streams \ {s} : ctx'[r] = ctx[r]
  BY <1>4, <1>5 DEF ContextType
<1>8. StreamInv(s) /\ StageInv(t)
  BY DEF TruthInv
<1>9. /\ Waited(s) => Waited(s)'
      /\ Claimed(s) => Claimed(s)'
      /\ DoneWaits(s) => DoneWaits(s)'
      /\ Closing(s) => Closing(s)'
  <2>1. Stays(t)
    BY <1>1, <1>2, <1>3, <1>6 DEF Stays, Finalising, FinalPcs, TearPcs
  <2>2. \A u \in Threads : call[u].on = s => Stays(u)
    BY <1>6, <2>1, StaysSame
  <2>3. QED
    BY <2>2, StaysThere
<1>10. ctx'[s].cancelled \/ DoneWaits(s)'
  <2>1. CASE to = "done_join"
    BY <1>6, <2>1 DEF DoneWaits
  <2>2. CASE from \in {"cancel_finish", "close_finish"}
    BY <1>2, <1>3, <1>7, <1>8, <2>2 DEF StageInv, CancelledPcs
  <2>3. QED
    BY <1>1, <2>1, <2>2
<1>11. SlotStreamInv(s)' /\ StartInv(s)' /\ OpenInv(s)'
  BY <1>5, <1>7, <1>8, <1>9, MarksStay DEF StreamInv, SlotStreamInv, StartInv, OpenInv
<1>12. CancelledInv(s)' /\ ClosedInv(s)' /\ OutcomeInv(s)'
  BY <1>5, <1>7, <1>8, <1>9, <1>10, MarksStay DEF StreamInv, CancelledInv, ClosedInv, OutcomeInv
<1>13. CommitInv(s)'
  <2>1. Complete(s) => Complete(s)'
    BY <1>5, <1>7 DEF Complete, Ended
  <2>2. QED
    BY <1>5, <1>7, <1>8, <2>1 DEF StreamInv, CommitInv
<1>14. StreamInv(s)'
  BY <1>11, <1>12, <1>13 DEF StreamInv
<1>15. \A u \in Threads : call'[u].on = s => StageInv(u)'
  <2>1. StageInv(t)'
    BY <1>1, <1>2, <1>3, <1>6, <1>7, <1>8 DEF StageInv, CancelledPcs, FinishedPcs, DonePcs
  <2>2. \A u \in Threads \ {t} : call'[u].on = s => StageInv(u)'
    BY <1>6, <1>7, StageOthers
  <2>3. QED
    BY <2>1, <2>2
<1>16. QED
  BY <1>3, <1>5, <1>6, <1>7, <1>14, <1>15, MarksStay, TruthThreadFrame

\* DoneReport, CancelRelease and CloseJoin: the stream gets its outcome.
LEMMA TruthRelease ==
  ASSUME TypeInv, OwnershipInv, TruthInv, NEW t \in Threads,
         DoneReport(t) \/ CancelRelease(t) \/ CloseJoin(t)
  PROVE  TruthInv'
<1>1. call[t].pc \in {"done_lock", "cancel_lock", "close_join"}
  BY DEF DoneReport, CancelRelease, CloseJoin, Goto
<1>2. PICK s \in Streams : s = call[t].on
  BY <1>1, CallFacts
<1>3. /\ ctx \in [Streams -> ContextType] /\ ctx[s] \in ContextType
      /\ outcome \in [Streams -> {"none", "ok", "error", "cancelled", "closed"}]
  BY OrderTypes DEF TypeInv, TypeOK
<1>4. /\ active' = NoStream
      /\ UNCHANGED <<stopped, deadCancel, work, accepted>>
  BY DEF DoneReport, CancelRelease, CloseJoin, conn
<1>5. /\ call'[t].pc \in {"idle", "close_free"}
      /\ \A u \in Threads \ {t} : call'[u] = call[u]
  <2>1. CASE DoneReport(t) \/ CancelRelease(t)
    BY <2>1, LeaveEffect DEF DoneReport, CancelRelease, TypeInv, Idle
  <2>2. CASE CloseJoin(t)
    BY <2>2, GotoEffect DEF CloseJoin, TypeInv, CallPcs, ClosePcs
  <2>3. QED
    BY <2>1, <2>2
<1>6. /\ StreamInv(s) /\ StageInv(t) /\ FinalFacts(t, s) /\ s # NoStream
  BY <1>1, <1>2, FinalRelies, InsertAssumption DEF TruthInv, Finalising, TearPcs
<1>7. /\ ctx'[s].queue = ctx[s].queue
      /\ ctx'[s].finished = ctx[s].finished /\ ctx'[s].cancelled = ctx[s].cancelled
      /\ ctx[s].finalized => ctx'[s].finalized
      /\ ctx'[s].errorSet = ctx[s].errorSet /\ ctx'[s].init = ctx[s].init
      /\ ctx'[s].handle \in {"open", "destroyed"}
      /\ \A r \in Streams \ {s} : ctx'[r] = ctx[r]
  <2>1. CASE DoneReport(t)
    BY <1>6, <2>1 DEF DoneReport, FinalFacts
  <2>2. CASE CancelRelease(t)
    <3> DEFINE h == HandleAfterCancel(t)
    <3>1. h \in {"open", "destroyed"} /\ ctx' = [ctx EXCEPT ![s].handle = h]
      BY <1>2, <1>6, <2>2 DEF CancelRelease, HandleAfterCancel, FinalFacts
    <3> HIDE DEF h
    <3>2. QED
      BY <1>3, <3>1 DEF ContextType
  <2>3. CASE CloseJoin(t)
    BY <1>2, <1>3, <1>6, <2>3 DEF CloseJoin, ContextType, FinalFacts
  <2>4. QED
    BY <2>1, <2>2, <2>3
<1>8. ctx[s].finished
  BY <1>1, <1>2, <1>6 DEF StageInv, FinishedPcs
<1>9. /\ \A r \in Streams \ {s} : outcome'[r] = outcome[r]
      /\ outcome'[s] \in {"ok", "error", "cancelled", "closed"}
      /\ outcome'[s] = "ok" => work[s].committed
      /\ outcome'[s] \in {"cancelled", "closed"} => ctx[s].cancelled
  <2>1. CASE DoneReport(t)
    <3> DEFINE o == IF ctx[s].errorSet THEN "error" ELSE "ok"
    <3>1. outcome' = [outcome EXCEPT ![s] = o] /\ call[t].pc = "done_lock"
      BY <1>2, <2>1 DEF DoneReport
    <3>2. o = "ok" => work[s].committed
      <4>1. ~ctx[s].cancelled /\ ctx[s].init = "ok"
        BY <1>2, <1>6, <3>1 DEF StageInv, DonePcs, StreamInv, StartInv, FinalFacts
      <4>2. work[s].pc = "exited"
        BY <1>2, <1>6, <3>1
        DEF OwnershipInv, FinalCallInv, Finalising, Working, StreamInv, SlotStreamInv,
          FinalFacts
      <4>3. QED
        BY <1>6, <4>1, <4>2 DEF StreamInv, CommitInv
    <3>3. o \in {"ok", "error"}
      OBVIOUS
    <3> HIDE DEF o
    <3>4. QED
      BY <1>3, <3>1, <3>2, <3>3
  <2>2. CASE CancelRelease(t)
    <3>1. ctx[s].cancelled /\ outcome' = [outcome EXCEPT ![s] = "cancelled"]
      BY <1>2, <1>6, <2>2 DEF CancelRelease, StageInv, CancelledPcs
    <3>2. QED
      BY <1>3, <3>1
  <2>3. CASE CloseJoin(t)
    <3>1. ctx[s].cancelled /\ outcome' = [outcome EXCEPT ![s] = "closed"]
      BY <1>2, <1>6, <2>3 DEF CloseJoin, Goto, StageInv, CancelledPcs
    <3>2. QED
      BY <1>3, <3>1
  <2>4. QED
    BY <2>1, <2>2, <2>3
<1>10. ctx'[s].cancelled => ctx'[s].finalized
  <2>1. CASE CloseJoin(t)
    BY <1>2, <1>3, <2>1 DEF CloseJoin, ContextType
  <2>2. CASE DoneReport(t) \/ CancelRelease(t)
    BY <1>2, <1>7, <2>2
    DEF DoneReport, CancelRelease, OwnershipInv, FinalCallInv, Finalising
  <2>3. QED
    BY <2>1, <2>2
<1>11. SlotStreamInv(s)' /\ OpenInv(s)' /\ ClosedInv(s)'
  BY <1>4, <1>6, <1>9 DEF SlotStreamInv, OpenInv, ClosedInv
<1>12. StartInv(s)'
  BY <1>4, <1>6, <1>7 DEF StreamInv, StartInv, FinalFacts
<1>13. CancelledInv(s)' /\ OutcomeInv(s)'
  BY <1>4, <1>6, <1>7, <1>8, <1>9, <1>10, MarksStay DEF StreamInv, CancelledInv, OutcomeInv
<1>14. CommitInv(s)'
  <2>1. Complete(s) => Complete(s)'
    BY <1>4, <1>7 DEF Complete, Ended
  <2>2. QED
    BY <1>4, <1>6, <1>7, <2>1 DEF StreamInv, CommitInv
<1>15. StreamInv(s)'
  BY <1>11, <1>12, <1>13, <1>14 DEF StreamInv
<1>16. \A u \in Threads : call'[u].on = s => StageInv(u)'
  <2>1. StageInv(t)'
    BY <1>5, UnmarkedStage DEF UnmarkedPcs
  <2>2. \A u \in Threads \ {t} : call'[u].on = s => StageInv(u)'
    BY <1>5, <1>6, <1>7, StageOthers
  <2>3. QED
    BY <2>1, <2>2
<1>17. active = s
  BY <1>6 DEF FinalFacts
<1>18. QED
  BY <1>2, <1>4, <1>5, <1>7, <1>9, <1>15, <1>16, <1>17, MarksStay, TruthThreadFrame
  DEF UnmarkedPcs

\* Steps that change no stream's data.
LEMMA TruthCall ==
  ASSUME TypeInv, OrderInv, OwnershipInv, TruthInv, NEW t \in Threads, CallStep(t)
  PROVE  TruthInv'
<1>1. ctx \in [Streams -> ContextType]
  BY DEF TypeInv, TypeOK
<1>2. ASSUME Leave(t), call[t].pc \in UnmarkedPcs,
             UNCHANGED <<work, accepted, outcome, active, deadCancel, stopped>>,
             \A s \in Streams : SameContext(s),
             active # NoStream => engaged' = engaged
      PROVE  TruthInv'
  <2>1. call'[t].pc = "idle" /\ \A u \in Threads \ {t} : call'[u] = call[u]
    BY <1>2, LeaveEffect DEF TypeInv, Idle
  <2>2. call'[t].pc \in UnmarkedPcs
    BY <2>1 DEF UnmarkedPcs
  <2>3. QED
    BY <1>2, <2>1, <2>2, TruthQuiet
<1>3. CASE AppendCheck(t)
  <2>1. /\ UNCHANGED <<work, accepted, outcome, active, deadCancel, stopped, engaged>>
        /\ \A s \in Streams : SameContext(s)
    BY <1>3 DEF AppendCheck, client, conn, seen, SameContext
  <2>2. CASE Leave(t)
    BY <1>2, <1>3, <2>1, <2>2 DEF AppendCheck, UnmarkedPcs
  <2>3. CASE Goto(t, "append_lock", "append_push")
    <3>1. /\ call[t].pc = "append_lock" /\ call'[t].pc = "append_push"
          /\ \A u \in Threads \ {t} : call'[u] = call[u]
      BY <2>3, GotoEffect DEF TypeInv, CallPcs
    <3>2. call[t].pc \in UnmarkedPcs /\ call'[t].pc \in UnmarkedPcs
      BY <3>1 DEF UnmarkedPcs
    <3>3. QED
      BY <2>1, <3>1, <3>2, TruthQuiet
  <2>4. QED
    BY <1>3, <2>2, <2>3 DEF AppendCheck
<1>4. CASE AppendClosed(t)
  BY <1>2, <1>4 DEF AppendClosed, UnmarkedPcs, client, conn, seen, SameContext
<1>5. CASE DoneClaim(t)
  <2>1. PICK s \in Streams : s = call[t].on
    BY <1>5, CallFacts DEF DoneClaim
  <2>2. CASE ~ctx[s].finalized
    BY <1>5, <2>1, <2>2, TruthClaim DEF DoneClaim
  <2>3. CASE ctx[s].finalized
    <3>1. /\ Leave(t) /\ call[t].pc \in UnmarkedPcs
          /\ UNCHANGED <<work, accepted, outcome, active, deadCancel, stopped, engaged>>
          /\ ctx' = [ctx EXCEPT ![s].finalized = TRUE]
      BY <1>5, <2>1, <2>3 DEF DoneClaim, UnmarkedPcs, client, conn, seen
    <3>2. ctx[s] \in ContextType /\ ctx[s].finalized = TRUE
      BY <1>1, <2>3 DEF ContextType
    <3>3. \A r \in Streams : SameContext(r)
      BY <1>1, <3>1, <3>2 DEF SameContext, ContextType
    <3>4. QED
      BY <1>2, <3>1, <3>3
  <2>4. QED
    BY <2>2, <2>3
<1>6. CASE CancelClaim(t)
  <2>1. PICK s \in Streams : s = call[t].on
    BY <1>6, CallFacts DEF CancelClaim
  <2>2. CASE ~ctx[s].finalized
    BY <1>6, <2>1, <2>2, TruthClaim DEF CancelClaim
  <2>3. CASE ctx[s].finalized
    <3>1. ~call[t].freeing
      BY <1>6, <2>1, <2>3 DEF OwnershipInv, FreeCallInv, CancelClaim
    <3>2. /\ Leave(t) /\ call[t].pc \in UnmarkedPcs
          /\ UNCHANGED <<work, accepted, outcome, active, deadCancel, stopped, engaged>>
          /\ ctx' = [ctx EXCEPT ![s].handle = ctx[s].handle]
      BY <1>6, <2>1, <2>3, <3>1
      DEF CancelClaim, HandleAfterCancel, UnmarkedPcs, client, conn, seen
    <3>3. \A r \in Streams : SameContext(r)
      BY <1>1, <3>2 DEF SameContext, ContextType
    <3>4. QED
      BY <1>2, <3>2, <3>3
  <2>4. QED
    BY <2>2, <2>3
<1>7. CASE DoneJoin(t) \/ CancelJoin(t)
  <2>1. PICK from, to : /\ \/ from = "done_join" /\ to = "done_lock"
                           \/ from = "cancel_join" /\ to = "cancel_lock"
                        /\ Goto(t, from, to)
    BY <1>7 DEF DoneJoin, CancelJoin
  <2>2. /\ call[t].pc = from /\ call'[t].pc = to /\ call'[t].on = call[t].on
        /\ \A u \in Threads \ {t} : call'[u] = call[u]
    BY <2>1, GotoEffect DEF TypeInv, CallPcs
  <2>3. PICK s \in Streams : s = call[t].on
    BY <2>1, <2>2, CallFacts
  <2>4. /\ UNCHANGED <<work, accepted, outcome, active, deadCancel, stopped, engaged>>
        /\ ctx' = [ctx EXCEPT ![s].joinable = FALSE]
    BY <1>7, <2>3 DEF DoneJoin, CancelJoin, client, conn, seen
  <2>5. \A r \in Streams : SameContext(r)
    BY <1>1, <2>4 DEF SameContext, ContextType
  <2>6. QED
    BY <2>1, <2>2, <2>4, <2>5, TruthQuiet
<1>8. CASE CloseFree(t)
  <2>1. /\ call[t].pc = "close_free" /\ Leave(t)
        /\ UNCHANGED <<work, accepted, outcome, active, deadCancel, stopped, ctx>>
    BY <1>8 DEF CloseFree, seen
  <2>2. active = NoStream
    BY <2>1 DEF OwnershipInv, CloseCallInv, ClosePcs
  <2>3. QED
    BY <1>2, <2>1, <2>2 DEF UnmarkedPcs, SameContext
<1>9. QED
  BY <1>3, <1>4, <1>5, <1>6, <1>7, <1>8, TruthInitEnd, TruthPush, TruthFlag, TruthSend,
    TruthFinish, TruthRelease DEF CallStep

LEMMA TruthNewCall ==
  ASSUME TypeInv, OrderInv, OwnershipInv, TruthInv, NEW t \in Threads, NewCall(t)
  PROVE  TruthInv'
<1>0. call \in [Threads -> CallType]
  BY DEF TypeInv, TypeOK
<1>1. ASSUME call[t].pc = "idle",
             UNCHANGED <<work, accepted, outcome, active, deadCancel, ctx>>,
             stopped' => stopped, active # NoStream => engaged' = engaged,
             \A u \in Threads \ {t} : call'[u] = call[u],
             call'[t].pc \in UnmarkedPcs
      PROVE  TruthInv'
  <2>1. call[t].pc \in UnmarkedPcs /\ \A s \in Streams : SameContext(s)
    BY <1>1 DEF UnmarkedPcs, SameContext
  <2>2. QED
    BY <1>1, <2>1, TruthQuiet
<1>2. CASE CloseCall(t)
  <2> DEFINE to == IF active = NoStream THEN "close_free" ELSE "close_flag"
  <2>1. /\ call[t].pc = "idle" /\ Begin(t, active, to)
        /\ UNCHANGED <<work, accepted, outcome, active, deadCancel, stopped, engaged, ctx>>
    BY <1>2 DEF CloseCall, conn, seen
  <2>2. to \in CallPcs /\ to \in UnmarkedPcs /\ active \in Streams \cup {NoStream}
    BY DEF CallPcs, ClosePcs, UnmarkedPcs, TypeInv, TypeOK
  <2> HIDE DEF to
  <2>3. call'[t].pc = to /\ \A u \in Threads \ {t} : call'[u] = call[u]
    BY <2>1, <2>2, BeginEffect DEF TypeInv
  <2>4. QED
    BY <1>1, <2>1, <2>2, <2>3
<1>3. CASE MaterializedQuery(t)
  <2>1. /\ call[t].pc = "idle" /\ active = NoStream /\ stopped' = FALSE
        /\ UNCHANGED <<work, accepted, outcome, active, deadCancel, ctx, call>>
    BY <1>3 DEF MaterializedQuery, client, seen
  <2>2. QED
    BY <1>1, <2>1 DEF UnmarkedPcs
<1>4. ASSUME NEW s \in Streams, DoneCall(t, s) \/ CancelCall(t, s)
      PROVE  TruthInv'
  <2>1. PICK to \in {"done_claim", "cancel_claim"} : Enter(t, s, to)
    BY <1>4 DEF DoneCall, CancelCall
  <2>2. /\ call[t].pc = "idle" /\ Begin(t, s, to)
        /\ UNCHANGED <<work, accepted, outcome, active, deadCancel, stopped, engaged, ctx>>
    BY <2>1 DEF Enter, Usable, client, conn, seen
  <2>3. call'[t].pc = to /\ \A u \in Threads \ {t} : call'[u] = call[u]
    BY <2>1, <2>2, BeginEffect DEF TypeInv, CallPcs
  <2>4. call'[t].pc \in UnmarkedPcs
    BY <2>1, <2>3 DEF UnmarkedPcs
  <2>5. QED
    BY <1>1, <2>2, <2>3, <2>4
<1>5. ASSUME NEW s \in Streams, DestroyOpen(t, s)
      PROVE  TruthInv'
  <2>1. /\ call[t].pc = "idle"
        /\ UNCHANGED <<work, accepted, outcome, active, deadCancel, stopped, engaged, ctx>>
    BY <1>5 DEF DestroyOpen, Usable, client, conn, seen
  <2>2. call'[t].pc = "cancel_claim" /\ \A u \in Threads \ {t} : call'[u] = call[u]
    BY <1>0, <1>5 DEF DestroyOpen, CallType
  <2>3. call'[t].pc \in UnmarkedPcs
    BY <2>2 DEF UnmarkedPcs
  <2>4. QED
    BY <1>1, <2>1, <2>2, <2>3
<1>6. ASSUME NEW s \in Streams, NEW c \in Chunks, AppendCall(t, s, c)
      PROVE  TruthInv'
  <2>1. /\ call[t].pc = "idle"
        /\ UNCHANGED <<work, accepted, outcome, active, deadCancel, stopped, engaged, ctx>>
    BY <1>6 DEF AppendCall, Usable, client, conn, seen
  <2>2. call'[t].pc = "append_lock" /\ \A u \in Threads \ {t} : call'[u] = call[u]
    BY <1>0, <1>6 DEF AppendCall, CallType
  <2>3. call'[t].pc \in UnmarkedPcs
    BY <2>2 DEF UnmarkedPcs
  <2>4. QED
    BY <1>1, <2>1, <2>2, <2>3
<1>7. QED
  BY <1>2, <1>3, <1>4, <1>5, <1>6, TruthHandle, TruthInsertInit DEF NewCall

LEMMA TruthInit == Init => TruthInv
<1> SUFFICES ASSUME Init PROVE TruthInv
  OBVIOUS
<1>1. \A t \in Threads : StageInv(t)
  BY DEF Init, Idle, StageInv, CancelledPcs, FinishedPcs, DonePcs
<1>2. ASSUME NEW s \in Streams PROVE StreamInv(s)
  <2>1. /\ ctx[s].handle = "fresh" /\ ~ctx[s].finished /\ ~ctx[s].cancelled
        /\ ~ctx[s].finalized /\ ~ctx[s].errorSet /\ ctx[s].init = "none"
        /\ work[s].pc = "none" /\ ~work[s].committed /\ outcome[s] = "none"
        /\ active = NoStream /\ s # NoStream
    BY InsertAssumption DEF Init, NewContext, NewWorker
  <2>2. SlotStreamInv(s) /\ StartInv(s) /\ OpenInv(s)
    BY <2>1 DEF SlotStreamInv, StartInv, OpenInv
  <2>3. CancelledInv(s) /\ ClosedInv(s) /\ CommitInv(s) /\ OutcomeInv(s)
    BY <2>1 DEF CancelledInv, ClosedInv, CommitInv, OutcomeInv, Querying
  <2>4. QED
    BY <2>2, <2>3 DEF StreamInv
<1>3. deadCancel = {}
  BY DEF Init
<1>4. QED
  BY <1>1, <1>2, <1>3 DEF TruthInv

\* A commit by the pipeline touches nothing the invariant looks at.
LEMMA TruthStore ==
  ASSUME TypeInv, OwnershipInv, TruthInv, NEW s \in Streams, PipelineStore(s)
  PROVE  TruthInv'
<1>1. /\ UNCHANGED <<call, accepted, outcome, active, engaged, stopped, deadCancel, ctx>>
      /\ \A r \in Streams : /\ work'[r].pc = work[r].pc
                            /\ work'[r].parsed = work[r].parsed
                            /\ work'[r].sent = work[r].sent
                            /\ work'[r].committed = work[r].committed
  BY StoreEffect DEF client, conn, seen
<1>2. ASSUME NEW r \in Streams PROVE StreamInv(r)'
  <2>1. /\ StreamInv(r)
        /\ (Waited(r)' <=> Waited(r)) /\ (Claimed(r)' <=> Claimed(r))
        /\ (DoneWaits(r)' <=> DoneWaits(r)) /\ (Closing(r)' <=> Closing(r))
        /\ (Marked(r)' <=> Marked(r))
    BY <1>1, MarksStay
    DEF TruthInv, Waited, Claimed, DoneWaits, Closing, Finalising
  <2>2. SlotStreamInv(r)' /\ StartInv(r)' /\ OpenInv(r)'
    BY <1>1, <2>1 DEF StreamInv, SlotStreamInv, StartInv, OpenInv
  <2>3. CancelledInv(r)' /\ ClosedInv(r)' /\ OutcomeInv(r)'
    BY <1>1, <2>1 DEF StreamInv, CancelledInv, ClosedInv, OutcomeInv
  <2>4. Complete(r) => Complete(r)'
    BY <1>1 DEF Complete, Ended
  <2>5. CommitInv(r)'
    BY <1>1, <2>1, <2>4 DEF StreamInv, CommitInv
  <2>6. QED
    BY <2>2, <2>3, <2>5 DEF StreamInv
<1>3. \A u \in Threads : StageInv(u)'
  BY <1>1 DEF TruthInv, StageInv
<1>4. QED
  BY <1>1, <1>2, <1>3, MarksStay DEF TruthInv

LEMMA TruthNext ==
  ASSUME TypeInv, OrderInv, OwnershipInv, TruthInv, [Next]_vars
  PROVE  TruthInv'
<1>1. CASE \E t \in Threads : NewCall(t) \/ CallStep(t)
  BY <1>1, TruthCall, TruthNewCall
<1>2. CASE \E s \in Streams : WorkerStep(s) \/ PipelineStore(s)
  BY <1>2, TruthWorker, TruthStore
<1>3. CASE UNCHANGED vars
  <2>1. UNCHANGED <<work, accepted, outcome, active, deadCancel, engaged, stopped, ctx, call>>
    BY <1>3 DEF vars, client, conn, seen
  <2>2. \A s \in Streams : StreamInv(s)'
    <3> TAKE s \in Streams
    <3>1. StreamInv(s) /\ WorkerInv /\ SameContext(s)
      BY <2>1 DEF TruthInv, OwnershipInv, SameContext
    <3>2. \A u \in Threads : Stays(u)
      BY <2>1, StaysSame
    <3>3. QED
      BY <2>1, <3>1, <3>2, TruthOther
  <2>3. \A u \in Threads : StageInv(u)'
    BY <2>1 DEF TruthInv, StageInv
  <2>4. QED
    BY <2>1, <2>2, <2>3, MarksStay DEF TruthInv
<1>4. QED
  BY <1>1, <1>2, <1>3 DEF Next, Quiescent

-----------------------------------------------------------------------------
(* What is stored.                                                         *)

\* The finaliser has sent its cancel.
SentPcs ==
  {"cancel_finish", "cancel_join", "cancel_lock", "close_finish", "close_join"}

\* A finished pipeline has stored all it was given; data is accepted by an open
\* stream; the pipeline the connection still holds is unfinished, and stopped if
\* its stream was cancelled.
StoredInv(s) ==
  /\ work[s].committed => work[s].stored = 1..work[s].sent
  /\ accepted[s] # <<>> => ctx[s].handle = "open" \/ outcome[s] # "none"
  /\ pipeline = s =>
       /\ engaged
       /\ work[s].committed => work[s].pc = "endquery"
       /\ outcome[s] \in {"cancelled", "closed"} => stopped
       /\ outcome[s] = "error" => ~UsePython

SentInv(t) == call[t].pc \in SentPcs /\ pipeline = call[t].on => stopped

StoreInv ==
  /\ \A s \in Streams : StoredInv(s)
  /\ \A t \in Threads : SentInv(t)

\* A stream whose finaliser has just told its outcome.
Told(s) ==
  /\ outcome'[s] # "none"
  /\ pipeline' = s =>
       /\ outcome'[s] \in {"cancelled", "closed"} => stopped'
       /\ outcome'[s] = "error" => ~UsePython

\* A step of a thread: the worker's data stays, and the connection keeps its
\* query or drops it.
LEMMA StoreFrame ==
  ASSUME StoreInv,
         \A s \in Streams :
           /\ work'[s].committed = work[s].committed /\ work'[s].stored = work[s].stored
           /\ work'[s].sent = work[s].sent
           /\ work[s].pc = "endquery" => work'[s].pc = "endquery"
           /\ accepted'[s] = accepted[s] \/ ctx'[s].handle = "open"
           /\ ctx[s].handle = "open" => ctx'[s].handle = "open" \/ outcome'[s] # "none"
           /\ outcome'[s] = outcome[s] \/ Told(s),
         \/ pipeline' = NoStream
         \/ pipeline' = pipeline /\ engaged' = engaged /\ (stopped => stopped'),
         \A t \in Threads :
           \/ SentInv(t)'
           \/ /\ call'[t].on = call[t].on
              /\ call'[t].pc \in SentPcs => call[t].pc \in SentPcs,
         \A t \in Threads : call'[t].pc \in SentPcs => call'[t].on \in Streams
  PROVE  StoreInv'
<1>1. ASSUME NEW s \in Streams PROVE StoredInv(s)'
  <2>1. StoredInv(s) /\ s # NoStream
    BY InsertAssumption DEF StoreInv
  <2>2. /\ work'[s].committed = work[s].committed /\ work'[s].stored = work[s].stored
        /\ work'[s].sent = work[s].sent
        /\ work[s].pc = "endquery" => work'[s].pc = "endquery"
        /\ accepted'[s] = accepted[s] \/ ctx'[s].handle = "open"
        /\ ctx[s].handle = "open" => ctx'[s].handle = "open" \/ outcome'[s] # "none"
        /\ outcome'[s] = outcome[s] \/ Told(s)
    OBVIOUS
  <2>3. accepted'[s] # <<>> => ctx'[s].handle = "open" \/ outcome'[s] # "none"
    BY <2>1, <2>2 DEF StoredInv, Told
  <2>4. QED
    BY <2>1, <2>2, <2>3 DEF StoredInv, Told
<1>2. ASSUME NEW t \in Threads PROVE SentInv(t)'
  BY InsertAssumption DEF StoreInv, SentInv
<1>3. QED
  BY <1>1, <1>2 DEF StoreInv

\* A step that keeps the connection's query, the outcomes and the data.
LEMMA StoreQuiet ==
  ASSUME TypeInv', StoreInv, UNCHANGED <<pipeline, engaged, stopped, work, accepted, outcome>>,
         NEW t \in Threads, \A u \in Threads \ {t} : call'[u] = call[u],
         \/ call'[t].pc \notin SentPcs
         \/ call'[t].on = call[t].on /\ call[t].pc \in SentPcs,
         \A s \in Streams :
           ctx[s].handle = "open" => ctx'[s].handle = "open" \/ outcome[s] # "none"
  PROVE  StoreInv'
<1>1. \A u \in Threads : call'[u].pc \in SentPcs => call'[u].on \in Streams
  BY DEF TypeInv, LocalsOK, SentPcs
<1>2. \A u \in Threads :
        \/ SentInv(u)'
        \/ /\ call'[u].on = call[u].on
           /\ call'[u].pc \in SentPcs => call[u].pc \in SentPcs
  BY DEF SentInv
<1>3. QED
  BY <1>1, <1>2, StoreFrame

\* A step of a thread that is in a call.
LEMMA StoreCall ==
  ASSUME TypeInv, TypeInv', OrderInv, OwnershipInv, TruthInv, StoreInv,
         NEW t \in Threads, CallStep(t)
  PROVE  StoreInv'
<1>1. ctx \in [Streams -> ContextType]
  BY DEF TypeInv, TypeOK
<1>2. \A u \in Threads : call'[u].pc \in SentPcs => call'[u].on \in Streams
  BY DEF TypeInv, LocalsOK, SentPcs
<1>3. CASE DoneClaim(t) \/ DoneFinish(t) \/ DoneJoin(t) \/ CancelFlag(t)
           \/ CancelFinish(t) \/ CancelJoin(t) \/ CloseFlag(t) \/ CloseFinish(t)
  <2>1. call[t].pc \in {"done_claim", "done_finish", "done_join", "cancel_flag",
                        "cancel_finish", "cancel_join", "close_flag", "close_finish"}
    BY <1>3 DEF DoneClaim, DoneFinish, DoneJoin, CancelFlag, CancelFinish, CancelJoin,
      CloseFlag, CloseFinish, SetCancelled, FinishQueue, Goto
  <2>2. call[t].on \in Streams /\ ctx[call[t].on] \in ContextType
    BY <2>1, CallFacts
  <2>3. /\ UNCHANGED <<pipeline, engaged, stopped, work, accepted, outcome>>
        /\ \/ ctx' = [ctx EXCEPT ![call[t].on].finalized = TRUE]
           \/ ctx' = [ctx EXCEPT ![call[t].on].finished = TRUE]
           \/ ctx' = [ctx EXCEPT ![call[t].on].cancelled = TRUE]
           \/ ctx' = [ctx EXCEPT ![call[t].on].joinable = FALSE]
    BY <1>3 DEF DoneClaim, DoneFinish, DoneJoin, CancelFlag, CancelFinish, CancelJoin,
      CloseFlag, CloseFinish, SetCancelled, FinishQueue, conn, seen
  <2>4. \A s \in Streams : ctx'[s].handle = ctx[s].handle
    BY <1>1, <2>2, <2>3 DEF ContextType
  <2>5. PICK from, to \in CallPcs :
          /\ to \in SentPcs => from \in SentPcs
          /\ Leave(t) \/ Goto(t, from, to)
    <3>1. \/ Leave(t) \/ Goto(t, "done_claim", "done_finish") \/ Goto(t, "done_finish", "done_join")
          \/ Goto(t, "done_join", "done_lock") \/ Goto(t, "cancel_flag", "cancel_send")
          \/ Goto(t, "cancel_finish", "cancel_join") \/ Goto(t, "cancel_join", "cancel_lock")
          \/ Goto(t, "close_flag", "close_send") \/ Goto(t, "close_finish", "close_join")
      BY <1>3 DEF DoneClaim, DoneFinish, DoneJoin, CancelFlag, CancelFinish, CancelJoin,
        CloseFlag, CloseFinish, SetCancelled, FinishQueue
    <3>2. QED
      BY <3>1 DEF CallPcs, ClosePcs, SentPcs
  <2>6. CASE Leave(t)
    <3>1. call'[t].pc \notin SentPcs /\ \A u \in Threads \ {t} : call'[u] = call[u]
      BY <2>6, LeaveEffect DEF TypeInv, Idle, SentPcs
    <3>2. QED
      BY <2>3, <2>4, <3>1, StoreQuiet
  <2>7. CASE Goto(t, from, to)
    <3>1. /\ call[t].pc = from /\ call'[t].pc = to /\ call'[t].on = call[t].on
          /\ \A u \in Threads \ {t} : call'[u] = call[u]
      BY <2>7, GotoEffect DEF TypeInv
    <3>2. QED
      BY <2>3, <2>4, <2>5, <3>1, StoreQuiet
  <2>8. QED
    BY <2>5, <2>6, <2>7
<1>4. CASE CancelClaim(t)
  <2>1. PICK s \in Streams : s = call[t].on
    BY <1>4, CallFacts DEF CancelClaim
  <2>2. /\ ctx[s] \in ContextType
        /\ UNCHANGED <<pipeline, engaged, stopped, work, accepted, outcome>>
    BY <1>1, <1>4 DEF CancelClaim, conn, seen
  <2>3. ctx[s].finalized => ~call[t].freeing
    BY <1>4, <2>1 DEF OwnershipInv, FreeCallInv, CancelClaim
  <2>4. \/ ctx' = [ctx EXCEPT ![s].handle = ctx[s].handle]
        \/ ctx' = [ctx EXCEPT ![s].finalized = TRUE]
    BY <1>4, <2>1, <2>3 DEF CancelClaim, HandleAfterCancel
  <2>5. \A r \in Streams : ctx'[r].handle = ctx[r].handle
    BY <1>1, <2>2, <2>4 DEF ContextType
  <2>6. Leave(t) \/ Goto(t, "cancel_claim", "cancel_flag")
    BY <1>4 DEF CancelClaim
  <2>7. call'[t].pc \notin SentPcs /\ \A u \in Threads \ {t} : call'[u] = call[u]
    BY <2>6, LeaveEffect, GotoEffect DEF TypeInv, Idle, SentPcs, CallPcs
  <2>8. QED
    BY <2>2, <2>5, <2>7, StoreQuiet
<1>5. CASE AppendCheck(t) \/ AppendClosed(t)
  <2>1. /\ UNCHANGED <<pipeline, engaged, stopped, ctx, work, accepted, outcome>>
        /\ Leave(t) \/ Goto(t, "append_lock", "append_push")
    BY <1>5 DEF AppendCheck, AppendClosed, conn, seen
  <2>2. call'[t].pc \notin SentPcs /\ \A u \in Threads \ {t} : call'[u] = call[u]
    BY <2>1, LeaveEffect, GotoEffect DEF TypeInv, Idle, SentPcs, CallPcs
  <2>3. QED
    BY <2>1, <2>2, StoreQuiet
<1>6. CASE InsertInitOk(t) \/ InsertInitError(t)
  <2>1. /\ call[t].pc = "init_wait" /\ Leave(t)
        /\ UNCHANGED <<pipeline, engaged, stopped, work, accepted, outcome>>
    BY <1>6 DEF InsertInitOk, InsertInitError, conn, seen
  <2>2. PICK s \in Streams : s = call[t].on
    BY <2>1, CallFacts
  <2>3. ctx[s].handle = "init" /\ \A r \in Streams \ {s} : ctx'[r] = ctx[r]
    BY <1>1, <1>6, <2>1, <2>2 DEF InsertInitOk, InsertInitError, OwnershipInv, InitCallInv
  <2>4. call'[t].pc \notin SentPcs /\ \A u \in Threads \ {t} : call'[u] = call[u]
    BY <2>1, LeaveEffect DEF TypeInv, Idle, SentPcs
  <2>5. QED
    BY <2>1, <2>3, <2>4, StoreQuiet
<1>7. CASE CancelSend(t) \/ CloseSend(t)
  <2>1. PICK from, to : to \in {"cancel_finish", "close_finish"} /\ SendCancel(t, from, to)
    BY <1>7 DEF CancelSend, CloseSend
  <2>2. /\ Goto(t, from, to) /\ stopped' = (stopped \/ engaged)
        /\ UNCHANGED <<pipeline, engaged, ctx, work, accepted, outcome>>
    BY <2>1 DEF SendCancel, seen
  <2>3. \A u \in Threads \ {t} : call'[u] = call[u]
    BY <2>1, <2>2, GotoEffect DEF TypeInv, CallPcs, ClosePcs
  <2>4. SentInv(t)'
    <3>1. \A s \in Streams : pipeline = s => engaged
      BY DEF StoreInv, StoredInv
    <3>2. QED
      BY <1>2, <2>2, <3>1 DEF SentInv
  <2>5. QED
    BY <1>2, <2>2, <2>3, <2>4, StoreFrame
<1>8. CASE AppendPush(t)
  <2>1. PICK s \in Streams : s = call[t].on
    BY <1>8, CallFacts DEF AppendPush
  <2>2. /\ Leave(t) /\ UNCHANGED <<pipeline, engaged, stopped, work, outcome>>
        /\ ctx' = [ctx EXCEPT ![s].queue = Append(@, call[t].chunk)]
        /\ accepted' = [accepted EXCEPT ![s] = Append(@, call[t].chunk)]
        /\ accepted \in [Streams -> Seq(Chunks)]
    BY <1>8, <2>1 DEF AppendPush, conn, TypeInv, TypeOK
  <2>3. ctx[s].handle = "open"
    BY <1>8, <2>1 DEF AppendPush, OwnershipInv, ClaimCallInv, Claiming
  <2>4. \A r \in Streams : ctx'[r].handle = ctx[r].handle
    BY <1>1, <2>2 DEF ContextType
  <2>5. call'[t].pc \notin SentPcs /\ \A u \in Threads \ {t} : call'[u] = call[u]
    BY <2>2, LeaveEffect DEF TypeInv, Idle, SentPcs
  <2>6. \A r \in Streams : accepted'[r] = accepted[r] \/ ctx'[r].handle = "open"
    BY <2>2, <2>3, <2>4
  <2>7. SentInv(t)'
    BY <2>5 DEF SentInv
  <2>8. QED
    BY <1>2, <2>2, <2>4, <2>5, <2>6, <2>7, StoreFrame
<1>9. CASE DoneReport(t) \/ CancelRelease(t) \/ CloseJoin(t)
  <2>1. call[t].pc \in {"done_lock", "cancel_lock", "close_join"}
    BY <1>9 DEF DoneReport, CancelRelease, CloseJoin, Goto
  <2>2. PICK s \in Streams : s = call[t].on
    BY <2>1, CallFacts
  <2>3. /\ UNCHANGED <<stopped, work, accepted>>
        /\ outcome \in [Streams -> {"none", "ok", "error", "cancelled", "closed"}]
    BY <1>9 DEF DoneReport, CancelRelease, CloseJoin, conn, TypeInv, TypeOK
  <2>4. /\ call'[t].pc \notin SentPcs
        /\ \A u \in Threads \ {t} : call'[u] = call[u]
    <3>1. CASE DoneReport(t) \/ CancelRelease(t)
      BY <3>1, LeaveEffect DEF DoneReport, CancelRelease, TypeInv, Idle, SentPcs
    <3>2. CASE CloseJoin(t)
      BY <3>2, GotoEffect DEF CloseJoin, TypeInv, CallPcs, ClosePcs, SentPcs
    <3>3. QED
      BY <1>9, <3>1, <3>2
  <2>5. \/ pipeline' = NoStream
        \/ pipeline' = pipeline /\ engaged' = engaged
    <3>1. UsePython \in BOOLEAN /\ engaged \in BOOLEAN
      BY InsertAssumption DEF TypeInv, TypeOK
    <3>2. QED
      BY <1>9, <3>1 DEF DoneReport, CancelRelease, CloseJoin, resetQueryContext, conn
  <2>6. \A r \in Streams \ {s} : ctx'[r] = ctx[r] /\ outcome'[r] = outcome[r]
    BY <1>1, <1>9, <2>2, <2>3 DEF DoneReport, CancelRelease, CloseJoin
  <2>7. Told(s)
    <3>1. CASE DoneReport(t)
      <4>1. outcome'[s] \in {"ok", "error"}
        BY <2>2, <2>3, <3>1 DEF DoneReport
      <4>2. pipeline' = s => ~UsePython
        BY <3>1, InsertAssumption DEF DoneReport, resetQueryContext
      <4>3. QED
        BY <4>1, <4>2 DEF Told
    <3>2. CASE CancelRelease(t) \/ CloseJoin(t)
      <4>1. outcome'[s] \in {"cancelled", "closed"}
        BY <2>2, <2>3, <3>2 DEF CancelRelease, CloseJoin
      <4>2. call[t].pc \in SentPcs
        BY <3>2 DEF CancelRelease, CloseJoin, Goto, SentPcs
      <4>3. pipeline = s => stopped
        BY <2>2, <4>2 DEF StoreInv, SentInv
      <4>4. pipeline' = s => pipeline = s
        BY <2>5, InsertAssumption
      <4>5. QED
        BY <2>3, <4>1, <4>3, <4>4 DEF Told
    <3>3. QED
      BY <1>9, <3>1, <3>2
  <2>8. SentInv(t)'
    BY <2>4 DEF SentInv
  <2>9. \A r \in Streams :
          /\ ctx[r].handle = "open" => ctx'[r].handle = "open" \/ outcome'[r] # "none"
          /\ outcome'[r] = outcome[r] \/ Told(r)
    BY <2>6, <2>7 DEF Told
  <2>10. QED
    BY <1>2, <2>3, <2>4, <2>5, <2>8, <2>9, StoreFrame
<1>10. CASE CloseFree(t)
  <2>1. /\ Leave(t) /\ pipeline' = NoStream /\ UNCHANGED <<ctx, work, accepted, outcome>>
    BY <1>10 DEF CloseFree, seen
  <2>2. call'[t].pc \notin SentPcs /\ \A u \in Threads \ {t} : call'[u] = call[u]
    BY <2>1, LeaveEffect DEF TypeInv, Idle, SentPcs
  <2>3. SentInv(t)'
    BY <2>2 DEF SentInv
  <2>4. QED
    BY <1>2, <2>1, <2>2, <2>3, StoreFrame
<1>11. QED
  BY <1>3, <1>4, <1>5, <1>6, <1>7, <1>8, <1>9, <1>10 DEF CallStep

LEMMA StoreNewCall ==
  ASSUME TypeInv, TypeInv', OrderInv, OwnershipInv, TruthInv, StoreInv,
         NEW t \in Threads, NewCall(t)
  PROVE  StoreInv'
<1>1. ctx \in [Streams -> ContextType] /\ call \in [Threads -> CallType]
  BY DEF TypeInv, TypeOK
<1>2. CASE CloseCall(t)
  <2> DEFINE to == IF active = NoStream THEN "close_free" ELSE "close_flag"
  <2>1. /\ Begin(t, active, to)
        /\ UNCHANGED <<pipeline, engaged, stopped, ctx, work, accepted, outcome>>
    BY <1>2 DEF CloseCall, conn, seen
  <2>2. to \in CallPcs /\ to \notin SentPcs /\ active \in Streams \cup {NoStream}
    BY DEF CallPcs, ClosePcs, SentPcs, TypeInv, TypeOK
  <2> HIDE DEF to
  <2>3. call'[t].pc = to /\ \A u \in Threads \ {t} : call'[u] = call[u]
    BY <2>1, <2>2, BeginEffect DEF TypeInv
  <2>4. QED
    BY <2>1, <2>2, <2>3, StoreQuiet
<1>3. CASE MaterializedQuery(t)
  <2>1. pipeline' = NoStream /\ UNCHANGED <<ctx, work, call, accepted, outcome>>
    BY <1>3 DEF MaterializedQuery, seen
  <2>2. \A u \in Threads : call'[u].pc \in SentPcs => call'[u].on \in Streams
    BY DEF TypeInv, LocalsOK, SentPcs
  <2>3. QED
    BY <2>1, <2>2, StoreFrame
<1>4. ASSUME NEW s \in Streams,
             \/ DoneCall(t, s) \/ CancelCall(t, s) \/ DestroyOpen(t, s)
             \/ \E c \in Chunks : AppendCall(t, s, c)
      PROVE  StoreInv'
  <2>1. UNCHANGED <<pipeline, engaged, stopped, ctx, work, accepted, outcome>>
    BY <1>4 DEF DoneCall, CancelCall, Enter, DestroyOpen, AppendCall, conn, seen
  <2>2. /\ call'[t].pc \in {"done_claim", "cancel_claim", "append_lock"}
        /\ \A u \in Threads \ {t} : call'[u] = call[u]
    <3>1. CASE DoneCall(t, s)
      BY <1>1, <3>1 DEF DoneCall, Enter, Begin, CallType
    <3>2. CASE CancelCall(t, s)
      BY <1>1, <3>2 DEF CancelCall, Enter, Begin, CallType
    <3>3. CASE DestroyOpen(t, s)
      BY <1>1, <3>3 DEF DestroyOpen, CallType
    <3>4. ASSUME NEW c \in Chunks, AppendCall(t, s, c)
          PROVE  /\ call'[t].pc = "append_lock"
                 /\ \A u \in Threads \ {t} : call'[u] = call[u]
      BY <1>1, <3>4 DEF AppendCall, CallType
    <3>5. QED
      BY <1>4, <3>1, <3>2, <3>3, <3>4
  <2>3. QED
    BY <2>1, <2>2, StoreQuiet DEF SentPcs
<1>5. ASSUME NEW s \in Streams, InsertInitRejected(t, s) \/ DestroyFinal(t, s)
      PROVE  StoreInv'
  <2>1. /\ UNCHANGED <<pipeline, engaged, stopped, work, call, accepted, outcome>>
        /\ call[t].pc = "idle" /\ \A r \in Streams \ {s} : ctx'[r] = ctx[r]
    BY <1>1, <1>5 DEF InsertInitRejected, DestroyFinal, conn, seen
  <2>2. ctx[s].handle = "open" => outcome[s] # "none"
    BY <1>5 DEF InsertInitRejected, DestroyFinal, Unused, TruthInv, StreamInv, OpenInv, Claimed
  <2>3. QED
    BY <2>1, <2>2, StoreQuiet DEF SentPcs
<1>6. ASSUME NEW s \in Streams, InsertInit(t, s)
      PROVE  StoreInv'
  <2>1. /\ UNCHANGED <<pipeline, engaged, stopped, accepted, outcome>>
        /\ ctx[s].handle = "fresh" /\ Begin(t, s, "init_wait")
        /\ work' = [work EXCEPT ![s].pc = "start"]
        /\ \A r \in Streams \ {s} : ctx'[r] = ctx[r]
    BY <1>1, <1>6 DEF InsertInit, conn, seen
  <2>2. work[s].pc = "none" /\ work \in [Streams -> WorkerType]
    BY <2>1, OrderByStream, OrderTypes DEF StreamOrder
  <2>3. \A r \in Streams :
          /\ work'[r].committed = work[r].committed /\ work'[r].stored = work[r].stored
          /\ work'[r].sent = work[r].sent
          /\ work[r].pc = "endquery" => work'[r].pc = "endquery"
    BY <2>1, <2>2 DEF WorkerType
  <2>4. call'[t].pc = "init_wait" /\ \A u \in Threads \ {t} : call'[u] = call[u]
    BY <2>1, BeginEffect DEF TypeInv, CallPcs
  <2>5. SentInv(t)' /\ \A u \in Threads : call'[u].pc \in SentPcs => call'[u].on \in Streams
    BY <2>4 DEF SentInv, SentPcs, TypeInv, LocalsOK
  <2>6. QED
    BY <2>1, <2>3, <2>4, <2>5, StoreFrame
<1>7. QED
  BY <1>2, <1>3, <1>4, <1>5, <1>6 DEF NewCall

\* The worker's steps on the pipeline: it takes over the connection, gives it
\* data, finishes it and drops it.
LEMMA StoreWorker ==
  ASSUME TypeInv, TypeInv', OrderInv, OwnershipInv, TruthInv, StoreInv,
         NEW s \in Streams, WorkerStep(s)
  PROVE  StoreInv'
<1>1. /\ work \in [Streams -> WorkerType] /\ work[s] \in WorkerType
  BY OrderTypes
<1>2. WorkerEffects(s)
  BY WorkerEffect DEF WorkerEffects, Working, OwnershipInv, WorkerInv, Querying
<1>3. /\ UNCHANGED <<call, accepted, outcome>>
      /\ \A r \in Streams : ctx'[r].handle = ctx[r].handle
      /\ \A r \in Streams \ {s} : work'[r] = work[r]
  <2>1. UNCHANGED seen
    BY DEF WorkerStep, WorkerSendQuery, WorkerNoSample, WorkerReady, WorkerThrow,
      WorkerPop, WorkerBlock, WorkerSendData, WorkerEof, WorkerEndMark,
      WorkerCheckCancelled, WorkerCommit, WorkerEndQuery, WorkerCatch,
      WorkerCloseQueue, WorkerExit
  <2>2. QED
    BY <1>2, <2>1 DEF WorkerEffects, SameHandles, seen
<1>4. StreamInv(s) /\ StoredInv(s) /\ WorkerFacts(s) /\ s # NoStream
  BY <1>2, WorkerRelies, InsertAssumption DEF WorkerEffects, TruthInv, StoreInv
<1>5. \A u \in Threads : call'[u].pc \in SentPcs => call'[u].on \in Streams
  BY DEF TypeInv, LocalsOK, SentPcs
<1>6. ASSUME \/ UNCHANGED conn
             \/ pipeline' = NoStream,
             work'[s].committed = work[s].committed, work'[s].stored = work[s].stored,
             work[s].committed => work'[s].sent = work[s].sent,
             work[s].pc = "endquery" => pipeline' = NoStream
      PROVE  StoreInv'
  <2>1. /\ StoredInv(s)'
    BY <1>3, <1>4, <1>6 DEF StoredInv, conn
  <2>2. \A r \in Streams \ {s} : StoredInv(r)'
    BY <1>3, <1>6, InsertAssumption DEF StoreInv, StoredInv, conn
  <2>3. \A u \in Threads : SentInv(u)'
    BY <1>3, <1>5, <1>6, InsertAssumption DEF StoreInv, SentInv, conn
  <2>4. QED
    BY <2>1, <2>2, <2>3 DEF StoreInv
<1>7. CASE WorkerSendQuery(s)
  <2>1. /\ work[s].pc = "start" /\ pipeline' = s /\ engaged'
        /\ work' = [work EXCEPT ![s].pc = "sample"]
    BY <1>7 DEF WorkerSendQuery, WorkerGoto
  <2>2. Waited(s) /\ ~work[s].committed /\ outcome[s] = "none"
    BY <1>4, <2>1 DEF StreamInv, StartInv, CommitInv, WorkerFacts
  <2>3. ASSUME NEW u \in Threads, call[u].pc \in SentPcs, call[u].on = s PROVE FALSE
    <3>1. Finalising(u) \/ call[u].pc \in {"close_flag"} \cup TearPcs
      BY <2>3 DEF SentPcs, Finalising, TearPcs
    <3>2. FinalFacts(u, s)
      BY <2>3, <3>1, FinalRelies
    <3>3. QED
      BY <2>2, <3>2 DEF FinalFacts
  <2>4. StoredInv(s)'
    <3>1. ~work'[s].committed
      BY <1>1, <2>1, <2>2 DEF WorkerType
    <3>2. QED
      BY <1>3, <1>4, <2>1, <2>2, <3>1 DEF StoredInv
  <2>5. \A r \in Streams \ {s} : StoredInv(r)'
    BY <1>3, <2>1 DEF StoreInv, StoredInv
  <2>6. \A u \in Threads : SentInv(u)'
    BY <1>3, <2>1, <2>3 DEF SentInv
  <2>7. QED
    BY <2>4, <2>5, <2>6 DEF StoreInv
<1>8. CASE WorkerCommit(s)
  <2> DEFINE d == IF stopped THEN work[s].stored ELSE 1..work[s].sent
  <2>1. /\ work' = [work EXCEPT ![s] = [@ EXCEPT !.pc = "endquery", !.committed = ~stopped,
                                                 !.stored = d]]
        /\ UNCHANGED conn /\ work[s].pc = "commit"
    BY <1>8 DEF WorkerCommit
  <2>2. ~stopped => d = 1..work[s].sent
    OBVIOUS
  <2> HIDE DEF d
  <2>3. /\ work'[s].pc = "endquery" /\ work'[s].committed = ~stopped
        /\ work'[s].stored = d /\ work'[s].sent = work[s].sent
    BY <1>1, <2>1 DEF WorkerType
  <2>4. StoredInv(s)'
    BY <1>3, <1>4, <2>1, <2>2, <2>3 DEF StoredInv, conn
  <2>5. \A r \in Streams \ {s} : StoredInv(r)'
    BY <1>3, <2>1 DEF StoreInv, StoredInv, conn
  <2>6. \A u \in Threads : SentInv(u)'
    BY <1>3, <2>1 DEF StoreInv, SentInv, conn
  <2>7. QED
    BY <2>4, <2>5, <2>6 DEF StoreInv
<1>9. CASE WorkerEndQuery(s)
  <2>1. /\ pipeline' = NoStream /\ work' = [work EXCEPT ![s].pc = "exit"]
    BY <1>9 DEF WorkerEndQuery, WorkerGoto
  <2>2. /\ work'[s].committed = work[s].committed /\ work'[s].stored = work[s].stored
        /\ work'[s].sent = work[s].sent
    BY <1>1, <2>1 DEF WorkerType
  <2>3. QED
    BY <1>6, <2>1, <2>2
<1>10. CASE WorkerSendData(s)
  <2> DEFINE n == Len(work[s].parsed)
  <2>1. /\ work[s].pc = "block" /\ UNCHANGED conn
        /\ \/ work' = [work EXCEPT ![s].pc = "exit"]
           \/ work' = [work EXCEPT ![s] = [@ EXCEPT !.pc = "pull", !.sent = n]]
    BY <1>10 DEF WorkerSendData, WorkerGoto
  <2> HIDE DEF n
  <2>2. work'[s].committed = work[s].committed /\ work'[s].stored = work[s].stored
    <3>1. CASE work' = [work EXCEPT ![s].pc = "exit"]
      BY <1>1, <3>1 DEF WorkerType
    <3>2. CASE work' = [work EXCEPT ![s] = [@ EXCEPT !.pc = "pull", !.sent = n]]
      BY <1>1, <3>2 DEF WorkerType
    <3>3. QED
      BY <2>1, <3>1, <3>2
  <2>3. ~work[s].committed
    BY <1>4, <2>1 DEF StreamInv, CommitInv
  <2>4. QED
    BY <1>6, <2>1, <2>2, <2>3
<1>11. CASE \/ WorkerNoSample(s) \/ WorkerReady(s) \/ WorkerThrow(s) \/ WorkerPop(s)
            \/ WorkerBlock(s) \/ WorkerEof(s) \/ WorkerEndMark(s)
            \/ WorkerCheckCancelled(s) \/ WorkerCatch(s) \/ WorkerCloseQueue(s)
            \/ WorkerExit(s)
  <2>1. /\ UNCHANGED conn /\ work[s].pc # "endquery"
        /\ \/ \E to : work' = [work EXCEPT ![s].pc = to]
           \/ \E p : work' = [work EXCEPT ![s].parsed = p]
    <3>1. CASE WorkerPop(s)
      BY <3>1 DEF WorkerPop
    <3>2. CASE ~WorkerPop(s)
      BY <1>11, <3>2 DEF WorkerNoSample, WorkerReady, WorkerThrow, WorkerBlock, WorkerEof,
        WorkerEndMark, WorkerCheckCancelled, WorkerCatch, WorkerCloseQueue, WorkerExit,
        WorkerGoto
    <3>3. QED
      BY <3>1, <3>2
  <2>2. /\ work'[s].committed = work[s].committed /\ work'[s].stored = work[s].stored
        /\ work'[s].sent = work[s].sent
    BY <1>1, <2>1 DEF WorkerType
  <2>3. QED
    BY <1>6, <2>1, <2>2
<1>12. QED
  BY <1>7, <1>8, <1>9, <1>10, <1>11 DEF WorkerStep

\* The pipeline stores one more of the chunks it was given.
LEMMA StoreStored ==
  ASSUME TypeInv, StoreInv, NEW s \in Streams, PipelineStore(s)
  PROVE  StoreInv'
<1>1. /\ UNCHANGED <<call, accepted, outcome, pipeline, engaged, stopped, ctx>>
      /\ \A r \in Streams : /\ work'[r].pc = work[r].pc
                            /\ work'[r].sent = work[r].sent
                            /\ work'[r].committed = work[r].committed
                            /\ r # s => work'[r].stored = work[r].stored
      /\ \E i \in 1..work[s].sent : work'[s].stored = work[s].stored \cup {i}
  BY StoreEffect DEF conn, seen
<1>2. ASSUME NEW r \in Streams PROVE StoredInv(r)'
  <2>1. StoredInv(r)
    BY DEF StoreInv
  <2>2. work'[r].committed => work'[r].stored = 1..work'[r].sent
    BY <1>1, <2>1 DEF StoredInv
  <2>3. QED
    BY <1>1, <2>1, <2>2 DEF StoredInv
<1>3. \A t \in Threads : SentInv(t)'
  BY <1>1 DEF StoreInv, SentInv
<1>4. QED
  BY <1>2, <1>3 DEF StoreInv

LEMMA StoreInit == Init => StoreInv
<1> SUFFICES ASSUME Init PROVE StoreInv
  OBVIOUS
<1>1. \A s \in Streams : StoredInv(s)
  BY InsertAssumption DEF Init, NewWorker, NewContext, StoredInv
<1>2. \A t \in Threads : SentInv(t)
  BY DEF Init, Idle, SentInv, SentPcs
<1>3. QED
  BY <1>1, <1>2 DEF StoreInv

LEMMA StoreNext ==
  ASSUME TypeInv, OrderInv, OwnershipInv, TruthInv, StoreInv, [Next]_vars
  PROVE  StoreInv'
<1>1. TypeInv'
  BY TypeInvNext
<1>2. CASE \E t \in Threads : NewCall(t) \/ CallStep(t)
  BY <1>1, <1>2, StoreCall, StoreNewCall
<1>3. CASE \E s \in Streams : WorkerStep(s) \/ PipelineStore(s)
  BY <1>1, <1>3, StoreWorker, StoreStored
<1>4. CASE UNCHANGED vars
  BY <1>4 DEF vars, conn, seen, StoreInv, StoredInv, SentInv
<1>5. QED
  BY <1>2, <1>3, <1>4 DEF Next, Quiescent

DataInv == TypeInv /\ OrderInv /\ OwnershipInv /\ TruthInv /\ StoreInv

LEMMA TruthAlways ==
  ASSUME ~ConcurrentClose
  PROVE  Spec => []DataInv
<1>1. Init => OrderInv
  BY OrderAtInit
<1>2. Init => DataInv
  BY <1>1, TypeInvInit, OwnershipInit, TruthInit, StoreInit DEF DataInv
<1>3. DataInv /\ [Next]_vars => DataInv'
  BY TypeInvNext, OwnershipNext, OrderNext, TruthNext, StoreNext DEF DataInv
<1>4. QED
  BY <1>2, <1>3, PTL DEF Spec

\* A told outcome that is final stops the pipeline.
LEMMA FinalStops ==
  ASSUME DataInv, NEW s \in Streams, Final(s)
  PROVE  ~CanStore(s)
<1>1. StreamInv(s) /\ StoredInv(s)
  BY DEF DataInv, TruthInv, StoreInv
<1>2. outcome[s] # "none"
  BY DEF Final
<1>3. ~Working(s)
  BY <1>1, <1>2 DEF StreamInv, SlotStreamInv, DataInv, OwnershipInv, WorkerInv
<1>4. work[s].pc \notin {"pull", "commit", "endquery"}
  BY <1>3 DEF Working
<1>5. QED
  BY <1>1, <1>4 DEF Final, CanStore, StoredInv, StreamInv, OutcomeInv

\* Success is told of whole data.
LEMMA OkIsWhole ==
  ASSUME DataInv, NEW s \in Streams, work[s].committed
  PROVE  /\ work[s].parsed = accepted[s] \/ Ended(s)
         /\ work[s].stored = 1..Len(work[s].parsed)
BY DEF DataInv, TruthInv, StoreInv, StreamInv, CommitInv, Complete, StoredInv

\* What a caller is told is what happened: a done() that reports success has
\* stored every chunk that append() accepted, up to the end of the format; once
\* the outcome is told nothing more is stored; a cancelled or closed stream did
\* not have its pipeline finished, unless its format ended by itself.
THEOREM OutcomeAlwaysTrue ==
  ASSUME ~ConcurrentClose
  PROVE  Spec => []OutcomeTrue
<1>1. DataInv => OutcomeTrue
  <2> SUFFICES ASSUME DataInv, NEW s \in Streams
               PROVE  /\ outcome[s] = "ok" =>
                           /\ work[s].parsed = accepted[s] \/ Ended(s)
                           /\ work[s].stored = 1..Len(work[s].parsed)
                      /\ Final(s) => ~CanStore(s)
                      /\ outcome[s] \in {"cancelled", "closed"} /\ work[s].committed => Marked(s)
    BY DEF OutcomeTrue
  <2>1. OutcomeInv(s) /\ CancelledInv(s)
    BY DEF DataInv, TruthInv, StreamInv
  <2>2. outcome[s] = "ok" => work[s].committed
    BY <2>1 DEF OutcomeInv
  <2>3. outcome[s] \in {"cancelled", "closed"} /\ work[s].committed => Marked(s)
    BY <2>1 DEF OutcomeInv, CancelledInv
  <2>4. QED
    BY <2>2, <2>3, FinalStops, OkIsWhole
<1>2. QED
  BY <1>1, TruthAlways, PTL

\* sendCancel() always finds the query it cancels, unless the application had
\* appended an end mark: a worker whose query is over leaves nothing for a later
\* cancel(), destroy or close to send it to.
THEOREM CancelAlwaysFindsQuery ==
  ASSUME ~ConcurrentClose
  PROVE  Spec => []NeverCancelFinished
<1>1. DataInv => NeverCancelFinished
  BY DEF DataInv, TruthInv, NeverCancelFinished
<1>2. QED
  BY <1>1, TruthAlways, PTL

-----------------------------------------------------------------------------
(* The contract of chdb.h.  Every step is a step of InsertContract, or one *)
(* its caller cannot see.                                                  *)

\* What the caller of the C API sees of a stream.
SameView(s) ==
  /\ ctx'[s].handle = ctx[s].handle
  /\ outcome'[s] = outcome[s]

LEMMA PhaseIs ==
  ASSUME NEW s \in Streams
  PROVE  /\ outcome[s] # "none" => ContractPhase[s] = outcome[s]
         /\ outcome[s] = "none" =>
              /\ ctx[s].handle \in {"fresh", "init"} => ContractPhase[s] = "new"
              /\ ctx[s].handle = "open" => ContractPhase[s] = "open"
              /\ ctx[s].handle \in {"failed", "destroyed"} => ContractPhase[s] = "refused"
BY DEF ContractPhase

LEMMA PhaseIsNext ==
  ASSUME NEW s \in Streams
  PROVE  /\ outcome'[s] # "none" => ContractPhase'[s] = outcome'[s]
         /\ outcome'[s] = "none" =>
              /\ ctx'[s].handle \in {"fresh", "init"} => ContractPhase'[s] = "new"
              /\ ctx'[s].handle = "open" => ContractPhase'[s] = "open"
              /\ ctx'[s].handle \in {"failed", "destroyed"} => ContractPhase'[s] = "refused"
BY DEF ContractPhase

LEMMA PhaseMoves ==
  ASSUME NEW s \in Streams, \A r \in Streams \ {s} : SameView(r)
  PROVE  ContractPhase' = [ContractPhase EXCEPT ![s] = ContractPhase'[s]]
<1>1. ContractPhase = [r \in Streams |-> ContractPhase[r]]
  BY DEF ContractPhase
<1>2. ContractPhase' = [r \in Streams |-> ContractPhase'[r]]
  BY DEF ContractPhase
<1>3. \A r \in Streams \ {s} : ContractPhase'[r] = ContractPhase[r]
  BY DEF ContractPhase, SameView
<1>4. QED
  BY <1>1, <1>2, <1>3

LEMMA PhaseStays ==
  ASSUME \A r \in Streams : ContractPhase'[r] = ContractPhase[r]
  PROVE  ContractPhase' = ContractPhase
<1>1. ContractPhase = [r \in Streams |-> ContractPhase[r]]
  BY DEF ContractPhase
<1>2. ContractPhase' = [r \in Streams |-> ContractPhase'[r]]
  BY DEF ContractPhase
<1>3. QED
  BY <1>1, <1>2

\* A step that the caller cannot see.
LEMMA Unseen ==
  ASSUME accepted' = accepted, \A s \in Streams : SameView(s),
         \A s \in Streams : work'[s].stored = work[s].stored
  PROVE  [Contract!ContractNext]_(Contract!contractVars)
<1>1. \A r \in Streams : ContractPhase'[r] = ContractPhase[r]
  BY DEF ContractPhase, SameView
<1>2. ContractPhase' = ContractPhase
  BY <1>1, PhaseStays
<1>3. [s \in Streams |-> work[s].stored]' = [s \in Streams |-> work[s].stored]
  OBVIOUS
<1>4. QED
  BY <1>2, <1>3 DEF Contract!contractVars

\* More of what was sent is stored, before the outcome is final.
LEMMA ContractKeeps ==
  ASSUME DataInv, NEW s \in Streams, accepted' = accepted,
         \A r \in Streams : SameView(r),
         \A r \in Streams \ {s} : work'[r].stored = work[r].stored,
         NEW more \in SUBSET (1..work[s].sent),
         work'[s].stored = work[s].stored \cup more,
         work[s].sent # 0, outcome[s] \in {"none", "error"}
  PROVE  Contract!ContractNext
<1>1. /\ StreamOrder(s) /\ StoredInv(s)
      /\ work[s].sent \in Nat /\ Len(work[s].parsed) \in Nat /\ Len(accepted[s]) \in Nat
  BY OrderByStream, OrderTypes DEF DataInv, StoreInv
<1>2. work[s].sent <= Len(accepted[s]) /\ Len(accepted[s]) # 0
  BY <1>1 DEF StreamOrder
<1>3. ContractPhase[s] \in {"open", "error"}
  BY <1>1, <1>2, PhaseIs DEF StoredInv
<1>4. ContractPhase' = ContractPhase
  <2>1. \A r \in Streams : ContractPhase'[r] = ContractPhase[r]
    BY DEF ContractPhase, SameView
  <2>2. QED
    BY <2>1, PhaseStays
<1>5. more \in SUBSET (1..Len(accepted[s]))
  BY <1>1, <1>2
<1>6. [r \in Streams |-> work'[r].stored]
        = [[r \in Streams |-> work[r].stored] EXCEPT ![s] = @ \cup more]
  OBVIOUS
<1>7. Contract!Store(s)
  BY <1>3, <1>4, <1>5, <1>6 DEF Contract!Store
<1>8. QED
  BY <1>7 DEF Contract!ContractNext

LEMMA ContractStore ==
  ASSUME DataInv, NEW s \in Streams, PipelineStore(s)
  PROVE  Contract!ContractNext
<1>1. /\ accepted' = accepted /\ \A r \in Streams : SameView(r)
      /\ \A r \in Streams \ {s} : work'[r].stored = work[r].stored
  BY StoreEffect DEF DataInv, seen, SameView
<1>2. PICK i \in 1..work[s].sent : work'[s].stored = work[s].stored \cup {i}
  BY StoreEffect DEF DataInv
<1>3. work[s].sent # 0 /\ {i} \in SUBSET (1..work[s].sent)
  BY OrderTypes DEF DataInv
<1>4. outcome[s] \in {"none", "error"}
  BY FinalStops DEF PipelineStore, Final, DataInv, TypeInv, TypeOK
<1>5. QED
  BY <1>1, <1>2, <1>3, <1>4, ContractKeeps

\* Of the worker's steps only its commit changes what is kept; a worker never
\* changes what the caller sees.
LEMMA ContractWorker ==
  ASSUME DataInv, NEW s \in Streams, WorkerStep(s)
  PROVE  [Contract!ContractNext]_(Contract!contractVars)
<1>1. /\ TypeInv /\ OwnershipInv /\ TruthInv
      /\ work \in [Streams -> WorkerType] /\ work[s] \in WorkerType
  BY DEF DataInv, TypeInv, TypeOK
<1>2. WorkerEffects(s)
  BY <1>1, WorkerEffect DEF WorkerEffects, Working, OwnershipInv, WorkerInv, Querying
<1>3. accepted' = accepted /\ outcome' = outcome
  BY DEF WorkerStep, WorkerSendQuery, WorkerNoSample, WorkerReady, WorkerThrow,
    WorkerPop, WorkerBlock, WorkerSendData, WorkerEof, WorkerEndMark,
    WorkerCheckCancelled, WorkerCommit, WorkerEndQuery, WorkerCatch,
    WorkerCloseQueue, WorkerExit, seen
<1>4. \A r \in Streams : SameView(r)
  BY <1>2, <1>3 DEF WorkerEffects, SameHandles, SameView
<1>5. \A r \in Streams \ {s} : work'[r] = work[r]
  BY <1>2 DEF WorkerEffects
<1>6. CASE ~WorkerCommit(s)
  <2>1. work'[s].stored = work[s].stored
    <3>1. CASE \E from, to : WorkerGoto(s, from, to)
      BY <1>1, <3>1 DEF WorkerType, WorkerGoto
    <3>2. CASE WorkerPop(s) \/ WorkerThrow(s)
      BY <1>1, <3>2 DEF WorkerType, WorkerPop, WorkerThrow
    <3>3. CASE WorkerSendData(s)
      <4>1. CASE WorkerGoto(s, "block", "exit")
        BY <3>1, <4>1
      <4>2. CASE ~WorkerGoto(s, "block", "exit")
        <5> DEFINE n == Len(work[s].parsed)
        <5>1. work' = [work EXCEPT ![s] = [@ EXCEPT !.pc = "pull", !.sent = n]]
          BY <3>3, <4>2 DEF WorkerSendData
        <5> HIDE DEF n
        <5>2. QED
          BY <1>1, <5>1 DEF WorkerType
      <4>3. QED
        BY <4>1, <4>2
    <3>4. QED
      BY <1>6, <3>1, <3>2, <3>3 DEF WorkerStep, WorkerSendQuery, WorkerNoSample,
        WorkerReady, WorkerBlock, WorkerEof, WorkerEndMark, WorkerCheckCancelled,
        WorkerEndQuery, WorkerCatch, WorkerCloseQueue, WorkerExit
  <2>2. QED
    BY <1>3, <1>4, <1>5, <2>1, Unseen
<1>7. CASE WorkerCommit(s)
  <2> DEFINE d == IF stopped THEN work[s].stored ELSE 1..work[s].sent
  <2>1. /\ work' = [work EXCEPT ![s] = [@ EXCEPT !.pc = "endquery", !.committed = ~stopped,
                                                 !.stored = d]]
        /\ work[s].pc = "commit"
    BY <1>7 DEF WorkerCommit
  <2>2. /\ work[s].stored \subseteq 1..work[s].sent /\ work[s].sent \in Nat
        /\ outcome[s] = "none"
    BY <1>1, <1>2, OrderByStream, OrderTypes, WorkerRelies
    DEF DataInv, StreamOrder, WorkerEffects, WorkerFacts
  <2>3. d = work[s].stored \/ (d = work[s].stored \cup (1..work[s].sent) /\ work[s].sent # 0)
    <3>1. work[s].sent = 0 => 1..work[s].sent = {} /\ work[s].stored = {}
      BY <2>2
    <3>2. work[s].stored \cup (1..work[s].sent) = 1..work[s].sent
      BY <2>2
    <3>3. QED
      BY <3>1, <3>2
  <2> HIDE DEF d
  <2>4. work'[s].stored = d
    BY <1>1, <2>1 DEF WorkerType
  <2>5. CASE d = work[s].stored
    BY <1>3, <1>4, <1>5, <2>4, <2>5, Unseen
  <2>6. CASE d = work[s].stored \cup (1..work[s].sent) /\ work[s].sent # 0
    BY <1>3, <1>4, <1>5, <2>2, <2>4, <2>6, ContractKeeps
  <2>7. QED
    BY <2>3, <2>5, <2>6
<1>8. QED
  BY <1>6, <1>7

\* A step that ends, opens or refuses one stream.
LEMMA ContractEnds ==
  ASSUME NEW s \in Streams, NEW how, accepted' = accepted,
         \A r \in Streams : work'[r].stored = work[r].stored,
         \A r \in Streams \ {s} : SameView(r),
         ContractPhase'[s] = how,
         \/ /\ ContractPhase[s] = "new" /\ how = "refused"
         \/ /\ ContractPhase[s] = "new" /\ how = "open"
            /\ \A r \in Streams : ContractPhase[r] # "open"
         \/ /\ ContractPhase[s] = "open" /\ how = "ok"
            /\ \E n \in 0..Len(accepted[s]) : Contract!Whole(s, n) /\ work[s].stored = 1..n
         \/ ContractPhase[s] = "open" /\ how \in {"error", "cancelled", "closed"}
  PROVE  Contract!ContractNext
<1>1. ContractPhase' = [ContractPhase EXCEPT ![s] = how]
  BY PhaseMoves
<1>2. [r \in Streams |-> work'[r].stored] = [r \in Streams |-> work[r].stored]
  OBVIOUS
<1>3. \/ Contract!Refuse(s) \/ Contract!Open(s) \/ Contract!Succeed(s)
      \/ how \in {"error", "cancelled", "closed"} /\ Contract!Abort(s, how)
  BY <1>1, <1>2 DEF Contract!Refuse, Contract!Open, Contract!Succeed, Contract!Abort
<1>4. QED
  BY <1>3 DEF Contract!ContractNext

\* The end of chdb_stream_insert, and a call refused at its start.
LEMMA ContractOpening ==
  ASSUME DataInv, NEW t \in Threads,
         \/ InsertInitOk(t) \/ InsertInitError(t)
         \/ \E s \in Streams : InsertInitRejected(t, s)
  PROVE  Contract!ContractNext
<1>1. /\ TypeInv /\ OwnershipInv /\ TruthInv
      /\ ctx \in [Streams -> ContextType]
      /\ accepted' = accepted /\ work' = work /\ outcome' = outcome
  BY DEF DataInv, TypeInv, TypeOK, InsertInitOk, InsertInitError, InsertInitRejected, seen
<1>2. CASE InsertInitOk(t) \/ InsertInitError(t)
  <2>1. PICK s \in Streams : s = call[t].on
    BY <1>1, <1>2, CallFacts DEF InsertInitOk, InsertInitError
  <2>2. call[t].pc = "init_wait" /\ ctx[s] \in ContextType
    BY <1>1, <1>2 DEF InsertInitOk, InsertInitError
  <2>3. active = s /\ ctx[s].handle = "init"
    BY <1>1, <2>1, <2>2 DEF OwnershipInv, InitCallInv
  <2>4. outcome[s] = "none" /\ StreamInv(s)
    BY <1>1, <2>3 DEF TruthInv, StreamInv, SlotStreamInv
  <2>5. /\ ctx'[s].handle \in {"open", "failed"}
        /\ \A r \in Streams \ {s} : SameView(r)
    BY <1>1, <1>2, <2>1, <2>2, ZenonT(40) DEF InsertInitOk, InsertInitError, SameView, ContextType
  <2>6. \A r \in Streams : ContractPhase[r] # "open"
    <3> SUFFICES ASSUME NEW r \in Streams, ContractPhase[r] = "open" PROVE FALSE
      OBVIOUS
    <3>1. outcome[r] = "none" /\ ctx[r].handle = "open"
      <4>1. outcome[r] # "open"
        BY <1>1 DEF TypeInv, TypeOK
      <4>2. QED
        BY <4>1 DEF ContractPhase
    <3>2. active = r
      BY <1>1, <3>1 DEF TruthInv, StreamInv, OpenInv
    <3>3. QED
      BY <2>3, <3>1, <3>2
  <2>7. ContractPhase[s] = "new"
    BY <2>3, <2>4, PhaseIs
  <2>8. ContractPhase'[s] \in {"open", "refused"}
    BY <1>1, <2>4, <2>5, PhaseIsNext
  <2>9. QED
    BY <1>1, <2>5, <2>6, <2>7, <2>8, ContractEnds
<1>3. ASSUME NEW s \in Streams, InsertInitRejected(t, s)
      PROVE  Contract!ContractNext
  <2>1. /\ ctx[s].handle = "fresh" /\ ctx[s] \in ContextType
        /\ outcome[s] = "none"
    BY <1>1, <1>3 DEF InsertInitRejected, TruthInv, StreamInv, OutcomeInv
  <2>2. ctx'[s].handle = "failed" /\ \A r \in Streams \ {s} : SameView(r)
    BY <1>1, <1>3, <2>1 DEF InsertInitRejected, SameView, ContextType
  <2>3. ContractPhase[s] = "new" /\ ContractPhase'[s] = "refused"
    BY <1>1, <2>1, <2>2, PhaseIs, PhaseIsNext
  <2>4. QED
    BY <1>1, <2>2, <2>3, ContractEnds
<1>4. QED
  BY <1>2, <1>3

\* What a finished pipeline has stored is all the data.
LEMMA CommittedIsWhole ==
  ASSUME DataInv, NEW s \in Streams, work[s].committed
  PROVE  \E n \in 0..Len(accepted[s]) : Contract!Whole(s, n) /\ work[s].stored = 1..n
<1> DEFINE n == Len(work[s].parsed)
<1>1. StreamOrder(s) /\ n \in Nat /\ Len(accepted[s]) \in Nat
  BY OrderByStream, OrderTypes DEF DataInv
<1>2. work[s].parsed = accepted[s] \/ Ended(s)
  BY OkIsWhole
<1>3. work[s].stored = 1..n
  BY OkIsWhole
<1>4. n \in 0..Len(accepted[s])
  BY <1>1 DEF StreamOrder
<1>5. n = Len(accepted[s]) \/ (n > 0 /\ accepted[s][n] \in EndChunks)
  <2>1. CASE Ended(s)
    <3>1. n # 0 /\ work[s].parsed[n] \in EndChunks
      BY <2>1, OrderTypes DEF Ended, DataInv
    <3>2. QED
      BY <1>1, <3>1 DEF StreamOrder
  <2>2. QED
    BY <1>2, <2>1
<1>6. \A i \in 1..n : i < n => accepted[s][i] \notin EndChunks
  BY <1>1 DEF StreamOrder
<1> HIDE DEF n
<1>7. Contract!Whole(s, n)
  BY <1>4, <1>5, <1>6 DEF Contract!Whole
<1>8. QED
  BY <1>3, <1>4, <1>7

\* The end of done(), cancel(), destroy or close.
LEMMA ContractRelease ==
  ASSUME DataInv, NEW t \in Threads,
         DoneReport(t) \/ CancelRelease(t) \/ CloseJoin(t)
  PROVE  Contract!ContractNext
<1>1. /\ TypeInv /\ OwnershipInv /\ TruthInv
      /\ ctx \in [Streams -> ContextType]
      /\ outcome \in [Streams -> {"none", "ok", "error", "cancelled", "closed"}]
      /\ accepted' = accepted /\ work' = work
      /\ call[t].pc \in {"done_lock", "cancel_lock", "close_join"}
  BY DEF DataInv, TypeInv, TypeOK, DoneReport, CancelRelease, CloseJoin, Goto
<1>2. PICK s \in Streams : s = call[t].on
  BY <1>1, CallFacts
<1>3. /\ StreamInv(s) /\ StageInv(t) /\ FinalFacts(t, s) /\ ctx[s] \in ContextType
  BY <1>1, <1>2, FinalRelies DEF TruthInv, Finalising, TearPcs
<1>4. \A r \in Streams \ {s} : SameView(r)
  <2>1. CASE DoneReport(t)
    BY <1>1, <1>2, <2>1 DEF DoneReport, SameView
  <2>2. CASE CancelRelease(t)
    BY <1>1, <1>2, <2>2 DEF CancelRelease, SameView
  <2>3. CASE CloseJoin(t)
    BY <1>1, <1>2, <2>3 DEF CloseJoin, SameView
  <2>4. QED
    BY <2>1, <2>2, <2>3
<1>5. /\ outcome'[s] \in {"ok", "error", "cancelled", "closed"}
      /\ outcome'[s] = "ok" =>
           \E n \in 0..Len(accepted[s]) : Contract!Whole(s, n) /\ work[s].stored = 1..n
  <2>1. TruthInv'
    BY <1>1, TruthRelease
  <2>2. OutcomeInv(s)'
    BY <2>1 DEF TruthInv, StreamInv
  <2>3. outcome'[s] = "ok" => work[s].committed
    BY <1>1, <2>2 DEF OutcomeInv
  <2>4. outcome'[s] \in {"ok", "error", "cancelled", "closed"}
    <3>1. CASE DoneReport(t)
      BY <1>1, <1>2, <3>1 DEF DoneReport
    <3>2. CASE CancelRelease(t) \/ CloseJoin(t)
      BY <1>1, <1>2, <3>2 DEF CancelRelease, CloseJoin
    <3>3. QED
      BY <3>1, <3>2
  <2>5. QED
    BY <2>3, <2>4, CommittedIsWhole
<1>6. ContractPhase[s] = "open" /\ ContractPhase'[s] = outcome'[s]
  BY <1>3, <1>5, PhaseIs, PhaseIsNext DEF FinalFacts
<1>7. QED
  BY <1>1, <1>4, <1>5, <1>6, ContractEnds

\* append() puts a chunk in the queue of an open stream.
LEMMA ContractPush ==
  ASSUME DataInv, NEW t \in Threads, AppendPush(t)
  PROVE  Contract!ContractNext
<1>1. /\ TypeInv /\ OwnershipInv /\ TruthInv
      /\ ctx \in [Streams -> ContextType]
      /\ accepted \in [Streams -> Seq(Chunks)]
      /\ work' = work /\ outcome' = outcome /\ call[t].pc = "append_push"
  BY DEF DataInv, TypeInv, TypeOK, AppendPush
<1>2. PICK s \in Streams : s = call[t].on
  BY <1>1, CallFacts
<1>3. PICK c \in Chunks : c = call[t].chunk
  BY <1>1 DEF TypeInv, LocalsOK
<1>4. ~ctx[s].finished /\ StreamInv(s) /\ ctx[s] \in ContextType
  BY <1>1, <1>2 DEF AppendPush, TruthInv
<1>5. outcome[s] = "none"
  BY <1>4 DEF StreamInv, OutcomeInv
<1>6. ctx[s].handle = "open"
  BY <1>1, <1>2 DEF OwnershipInv, ClaimCallInv, Claiming
<1>7. ContractPhase[s] = "open" /\ ContractPhase' = ContractPhase
  <2>1. \A r \in Streams : ctx'[r].handle = ctx[r].handle
    BY <1>1, <1>2, <1>4 DEF AppendPush, ContextType
  <2>2. \A r \in Streams : ContractPhase'[r] = ContractPhase[r]
    BY <1>1, <2>1 DEF ContractPhase
  <2>3. QED
    BY <1>5, <1>6, <2>2, PhaseIs, PhaseStays
<1>8. accepted' = [accepted EXCEPT ![s] = Append(@, c)]
  BY <1>2, <1>3 DEF AppendPush
<1>9. Contract!Give(s, c)
  BY <1>1, <1>5, <1>7, <1>8 DEF Contract!Give
<1>10. QED
  BY <1>9 DEF Contract!ContractNext

\* A stream that starts its worker is not open yet; a handle that is freed was
\* refused, or has its outcome.
LEMMA ContractHandle ==
  ASSUME DataInv, NEW t \in Threads, NEW s \in Streams,
         InsertInit(t, s) \/ DestroyFinal(t, s)
  PROVE  [Contract!ContractNext]_(Contract!contractVars)
<1>1. /\ TypeInv /\ OwnershipInv /\ TruthInv
      /\ ctx \in [Streams -> ContextType] /\ ctx[s] \in ContextType
      /\ work \in [Streams -> WorkerType]
      /\ accepted' = accepted /\ outcome' = outcome
  BY DEF DataInv, TypeInv, TypeOK, InsertInit, DestroyFinal, seen
<1>2. \A r \in Streams \ {s} : SameView(r)
  BY <1>1 DEF InsertInit, DestroyFinal, SameView
<1>3. \A r \in Streams : work'[r].stored = work[r].stored
  <2>1. CASE InsertInit(t, s)
    <3>1. work[s] \in WorkerType /\ work' = [work EXCEPT ![s].pc = "start"]
      BY <1>1, <2>1 DEF InsertInit
    <3>2. QED
      BY <1>1, <3>1 DEF WorkerType
  <2>2. CASE DestroyFinal(t, s)
    BY <2>2 DEF DestroyFinal
  <2>3. QED
    BY <2>1, <2>2
<1>4. ContractPhase'[s] = ContractPhase[s]
  <2>1. CASE InsertInit(t, s)
    <3>1. ctx[s].handle = "fresh" /\ ctx'[s].handle = "init"
      BY <1>1, <2>1 DEF InsertInit, ContextType
    <3>2. QED
      BY <1>1, <3>1, PhaseIs, PhaseIsNext
  <2>2. CASE DestroyFinal(t, s)
    <3>1. /\ ctx'[s].handle = "destroyed" /\ Unused(s)
          /\ ctx[s].handle = "failed" \/ (ctx[s].handle = "open" /\ ctx[s].finalized)
      <4>1. ctx' = [ctx EXCEPT ![s].handle = "destroyed"]
        BY <2>2 DEF DestroyFinal
      <4>2. ctx'[s].handle = "destroyed"
        BY <1>1, <4>1 DEF ContextType
      <4>3. Unused(s)
        BY <2>2 DEF DestroyFinal
      <4>4. ctx[s].handle = "failed" \/ (ctx[s].handle = "open" /\ ctx[s].finalized)
        BY <2>2 DEF DestroyFinal
      <4>5. QED
        BY <4>2, <4>3, <4>4
    <3>2. ctx[s].handle = "open" => outcome[s] # "none"
      BY <1>1, <3>1 DEF Unused, TruthInv, StreamInv, OpenInv, Claimed
    <3>3. QED
      BY <1>1, <3>1, <3>2, PhaseIs, PhaseIsNext
  <2>3. QED
    BY <2>1, <2>2
<1>5. ContractPhase' = ContractPhase
  <2>1. \A r \in Streams \ {s} : ContractPhase'[r] = ContractPhase[r]
    BY <1>2 DEF ContractPhase, SameView
  <2>2. QED
    BY <1>4, <2>1, PhaseStays
<1>6. [r \in Streams |-> work'[r].stored] = [r \in Streams |-> work[r].stored]
  BY <1>3
<1>7. QED
  BY <1>1, <1>5, <1>6 DEF Contract!contractVars

LEMMA ContractThread ==
  ASSUME DataInv, NEW t \in Threads, NewCall(t) \/ CallStep(t)
  PROVE  [Contract!ContractNext]_(Contract!contractVars)
<1>1. /\ TypeInv /\ OwnershipInv /\ ctx \in [Streams -> ContextType]
  BY DEF DataInv, TypeInv, TypeOK
<1>2. CASE UNCHANGED <<ctx, work, seen>>
  BY <1>2, Unseen DEF seen, SameView
<1>3. ASSUME call[t].on \in Streams, UNCHANGED <<work, seen>>,
             \A r \in Streams \ {call[t].on} : ctx'[r] = ctx[r],
             ctx'[call[t].on].handle = ctx[call[t].on].handle
      PROVE  [Contract!ContractNext]_(Contract!contractVars)
  BY <1>3, Unseen DEF seen, SameView
<1>4. CASE DoneClaim(t) \/ DoneFinish(t) \/ DoneJoin(t) \/ CancelFlag(t)
           \/ CancelFinish(t) \/ CancelJoin(t) \/ CloseFlag(t) \/ CloseFinish(t)
  <2>1. call[t].pc \in {"done_claim", "done_finish", "done_join", "cancel_flag",
                        "cancel_finish", "cancel_join", "close_flag", "close_finish"}
    BY <1>4 DEF DoneClaim, DoneFinish, DoneJoin, CancelFlag, CancelFinish, CancelJoin,
      CloseFlag, CloseFinish, SetCancelled, FinishQueue, Goto
  <2>2. call[t].on \in Streams /\ ctx[call[t].on] \in ContextType
    BY <1>1, <2>1, CallFacts
  <2>3. /\ UNCHANGED <<work, seen>>
        /\ \/ ctx' = [ctx EXCEPT ![call[t].on].finalized = TRUE]
           \/ ctx' = [ctx EXCEPT ![call[t].on].finished = TRUE]
           \/ ctx' = [ctx EXCEPT ![call[t].on].cancelled = TRUE]
           \/ ctx' = [ctx EXCEPT ![call[t].on].joinable = FALSE]
    BY <1>4 DEF DoneClaim, DoneFinish, DoneJoin, CancelFlag, CancelFinish, CancelJoin,
      CloseFlag, CloseFinish, SetCancelled, FinishQueue
  <2>4. /\ \A r \in Streams \ {call[t].on} : ctx'[r] = ctx[r]
        /\ ctx'[call[t].on].handle = ctx[call[t].on].handle
    BY <1>1, <2>2, <2>3 DEF ContextType
  <2>5. QED
    BY <1>3, <2>2, <2>3, <2>4
<1>5. CASE CancelClaim(t)
  <2>1. PICK s \in Streams : s = call[t].on
    BY <1>1, <1>5, CallFacts DEF CancelClaim
  <2>2. ctx[s] \in ContextType /\ UNCHANGED <<work, seen>>
    BY <1>1, <1>5 DEF CancelClaim
  <2>3. ctx[s].finalized => ~call[t].freeing
    BY <1>1, <1>5, <2>1 DEF OwnershipInv, FreeCallInv, CancelClaim
  <2>4. \/ ctx' = [ctx EXCEPT ![s].handle = ctx[s].handle]
        \/ ctx' = [ctx EXCEPT ![s].finalized = TRUE]
    BY <1>5, <2>1, <2>3 DEF CancelClaim, HandleAfterCancel
  <2>5. /\ \A r \in Streams \ {s} : ctx'[r] = ctx[r]
        /\ ctx'[s].handle = ctx[s].handle
    BY <1>1, <2>2, <2>4 DEF ContextType
  <2>6. QED
    BY <1>3, <2>1, <2>2, <2>5
<1>6. CASE AppendCheck(t) \/ AppendClosed(t) \/ CancelSend(t) \/ CloseSend(t) \/ CloseFree(t)
  BY <1>2, <1>6 DEF AppendCheck, AppendClosed, CancelSend, CloseSend, SendCancel, CloseFree
<1>7. CASE CallStep(t)
  BY <1>4, <1>5, <1>6, <1>7, ContractOpening, ContractRelease, ContractPush DEF CallStep
<1>8. CASE NewCall(t)
  <2>1. CASE CloseCall(t) \/ MaterializedQuery(t)
    BY <1>2, <2>1 DEF CloseCall, MaterializedQuery
  <2>2. ASSUME NEW s \in Streams,
               \/ DoneCall(t, s) \/ CancelCall(t, s) \/ DestroyOpen(t, s)
               \/ \E c \in Chunks : AppendCall(t, s, c)
        PROVE  [Contract!ContractNext]_(Contract!contractVars)
    BY <1>2, <2>2 DEF DoneCall, CancelCall, Enter, DestroyOpen, AppendCall
  <2>3. QED
    BY <1>8, <2>1, <2>2, ContractOpening, ContractHandle DEF NewCall
<1>9. QED
  BY <1>7, <1>8

\* The protocol of threads, queue, worker and pipeline implements the contract
\* of chdb.h: one stream open, data taken only while it is and stored only until
\* a cancel or a close, all of it stored when done() reports "ok", what was stored
\* never taken back, and one ending per stream.
THEOREM InsertImplementsContract ==
  ASSUME ~ConcurrentClose
  PROVE  Spec => ImplementsContract
<1>1. Init => Contract!ContractInit
  <2> SUFFICES ASSUME Init PROVE Contract!ContractInit
    OBVIOUS
  <2>1. \A s \in Streams : ContractPhase[s] = "new"
    BY PhaseIs DEF Init, NewContext
  <2>2. ContractPhase = [s \in Streams |-> "new"]
    BY <2>1 DEF ContractPhase
  <2>3. [s \in Streams |-> work[s].stored] = [s \in Streams |-> {}]
    BY DEF Init, NewWorker
  <2>4. QED
    BY <2>2, <2>3 DEF Init, Contract!ContractInit
<1>2. DataInv /\ [Next]_vars => [Contract!ContractNext]_(Contract!contractVars)
  <2> SUFFICES ASSUME DataInv, [Next]_vars
               PROVE  [Contract!ContractNext]_(Contract!contractVars)
    OBVIOUS
  <2>1. CASE UNCHANGED vars
    BY <2>1, Unseen DEF vars, seen, SameView
  <2>2. QED
    BY <2>1, ContractThread, ContractWorker, ContractStore DEF Next, Quiescent
<1>3. QED
  BY <1>1, <1>2, TruthAlways, PTL DEF Spec, ImplementsContract, Contract!ContractSpec
=============================================================================
