------------------------- MODULE StreamingQueryProofs -------------------------
(***************************************************************************)
(* Streams and statements on one connection, for any number of threads,    *)
(* handles and statements.  QueryInv is what holds of every application;   *)
(* ExclusiveInv is what one that runs a statement at a time can count on.  *)
(***************************************************************************)
EXTENDS StreamingQuery, TLAPS

Statuses == {"fresh", "failed", "open", "ended", "error", "cancelled", "destroyed"}

EngineType == [query : Statements, next : Nat]
ContextType == [result : Handles, streaming : BOOLEAN]
HandleType ==
  [status : Statuses, query : Statements \cup {NoQuery}, rows : Seq(Statements \X Nat)]
CallType == [pc : {"idle", "fetch", "hung"}, on : Handles \cup {NoHandle}]

TypeInv ==
  /\ context \in ContextType \cup {NoContext}
  /\ engine \in EngineType \cup {NoQuery}
  /\ handle \in [Handles -> HandleType]
  /\ call \in [Threads -> CallType]

\* The stream in the context is open, unless its handle was destroyed; a thread
\* that fetches has a handle which nobody destroys meanwhile.
ContextInv ==
  /\ context # NoContext => handle[context.result].status \in {"open", "destroyed"}
  /\ \A t \in Threads : call[t].pc = "fetch" =>
       /\ call[t].on \in Handles
       /\ handle[call[t].on].status \in {"open", "ended", "error", "cancelled"}

\* The next block that the connection yields continues what the stream in the
\* context was given last, or begins another query.
NextBlockInv ==
  context # NoContext /\ engine # NoQuery =>
    LET r == handle[context.result].rows IN
    \/ engine.next = 0
    \/ engine.next >= Blocks[engine.query]
    \/ handle[context.result].status = "destroyed"
    \/ Len(r) > 0 /\ r[Len(r)] = <<engine.query, engine.next>>

QueryInv == TypeInv /\ OneStatement /\ ContextInv /\ NextBlockInv /\ RowsInOrder

\* One statement at a time: the context, the open handle and the connection's
\* query are one and the same stream, and no thread fetches from another one.
ExclusiveInv ==
  /\ engine # NoQuery => engine.next <= Blocks[engine.query]
  /\ context # NoContext =>
       /\ engine # NoQuery
       /\ context.streaming
       /\ handle[context.result].status = "open"
       /\ handle[context.result].query = engine.query
       /\ Len(handle[context.result].rows) = engine.next
  /\ \A h \in Handles :
       /\ handle[h].status = "fresh" => handle[h].rows = <<>>
       /\ handle[h].status = "open" /\ alive => context # NoContext /\ context.result = h
  /\ \A t \in Threads :
       call[t].pc = "fetch" /\ context # NoContext => context.result = call[t].on

StreamInv == exclusive => ExclusiveInv /\ StreamsOwnRows /\ ExclusiveIsServed

-----------------------------------------------------------------------------
LEMMA QueryInit ==
  Init => QueryInv /\ StreamInv
BY DEF Init, QueryInv, TypeInv, EngineType, ContextType, HandleType, CallType, Statuses,
  NewHandle, Idle, OneStatement, ContextInv, NextBlockInv, RowsInOrder, StreamInv,
  ExclusiveInv, StreamsOwnRows, ExclusiveIsServed, NoHang

(* What the actions do to handles and calls.                               *)

LEMMA StatusSet ==
  ASSUME TypeInv, NEW h \in Handles, NEW st \in Statuses,
         handle' = [handle EXCEPT ![h].status = st]
  PROVE  /\ handle' \in [Handles -> HandleType]
         /\ \A g \in Handles : handle'[g].rows = handle[g].rows /\ handle'[g].query = handle[g].query
         /\ \A g \in Handles \ {h} : handle'[g] = handle[g]
         /\ handle'[h].status = st
<1>1. handle \in [Handles -> HandleType] /\ handle[h] \in HandleType
  BY DEF TypeInv
<1>2. QED
  BY <1>1 DEF HandleType

\* Broken, Cancelled and FetchEnd end a stream that is still open.
LEMMA HandleEnds ==
  ASSUME TypeInv, NEW h \in Handles, NEW st \in Statuses,
         handle' = [handle EXCEPT ![h].status = IF @ = "open" THEN st ELSE @]
  PROVE  /\ handle' \in [Handles -> HandleType]
         /\ \A g \in Handles : handle'[g].rows = handle[g].rows /\ handle'[g].query = handle[g].query
         /\ \A g \in Handles \ {h} : handle'[g] = handle[g]
         /\ handle'[h].status = IF handle[h].status = "open" THEN st ELSE handle[h].status
<1>1. handle[h].status \in Statuses
  BY DEF TypeInv, HandleType
<1>2. CASE handle[h].status = "open"
  <2>1. handle' = [handle EXCEPT ![h].status = st]
    BY <1>2
  <2>2. QED
    BY <1>2, <2>1, StatusSet
<1>3. CASE handle[h].status # "open"
  <2>1. handle' = [handle EXCEPT ![h].status = handle[h].status]
    BY <1>3
  <2>2. QED
    BY <1>1, <1>3, <2>1, StatusSet
<1>4. QED
  BY <1>2, <1>3

LEMMA CallReturns ==
  ASSUME TypeInv, NEW t \in Threads, Return(t)
  PROVE  /\ call' \in [Threads -> CallType]
         /\ call'[t].pc = "idle"
         /\ \A u \in Threads \ {t} : call'[u] = call[u]
BY DEF TypeInv, Return, Idle, CallType

LEMMA CallHangs ==
  ASSUME TypeInv, NEW t \in Threads, Hang(t)
  PROVE  /\ call' \in [Threads -> CallType]
         /\ call'[t].pc = "hung"
         /\ \A u \in Threads \ {t} : call'[u] = call[u]
<1>1. call \in [Threads -> CallType] /\ call[t] \in CallType
  BY DEF TypeInv
<1>2. QED
  BY <1>1 DEF Hang, CallType

LEMMA EngineReset ==
  ASSUME TypeInv, resetQueryContext
  PROVE  engine' \in EngineType \cup {NoQuery}
BY DEF TypeInv, resetQueryContext

\* Blocks that were delivered stay as they are.
LEMMA RowsKept ==
  ASSUME RowsInOrder, \A h \in Handles : handle'[h].rows = handle[h].rows
  PROVE  RowsInOrder'
BY DEF RowsInOrder

LEMMA RowsAppended ==
  ASSUME TypeInv, NEW h \in Handles, NEW q \in Statements, NEW n \in Nat,
         handle' = [handle EXCEPT ![h].rows = Append(@, <<q, n>>)]
  PROVE  /\ handle' \in [Handles -> HandleType]
         /\ \A g \in Handles \ {h} : handle'[g] = handle[g]
         /\ handle'[h].status = handle[h].status /\ handle'[h].query = handle[h].query
         /\ handle[h].rows \in Seq(Statements \X Nat)
         /\ handle'[h].rows = Append(handle[h].rows, <<q, n>>)
<1>1. handle \in [Handles -> HandleType] /\ handle[h] \in HandleType
  BY DEF TypeInv
<1>2. handle[h].rows \in Seq(Statements \X Nat) /\ <<q, n>> \in Statements \X Nat
  BY <1>1 DEF HandleType
<1>3. Append(handle[h].rows, <<q, n>>) \in Seq(Statements \X Nat)
  BY <1>2
<1>4. QED
  BY <1>1, <1>2, <1>3 DEF HandleType

-----------------------------------------------------------------------------
(* QueryInv is kept by every step.                                         *)

LEMMA RefusedStep ==
  ASSUME QueryInv, NEW t \in Threads, NEW h \in Handles, StreamInitRefused(t, h) \/ StreamInitRejected(t, h)
  PROVE  QueryInv'
<1> USE DEF QueryInv
<1>1. /\ handle' \in [Handles -> HandleType]
      /\ \A g \in Handles : handle'[g].rows = handle[g].rows
      /\ \A g \in Handles \ {h} : handle'[g] = handle[g]
      /\ handle[h].status = "fresh"
  BY StatusSet DEF StreamInitRefused, StreamInitRejected, Statuses
<1>2. TypeInv' /\ OneStatement'
  BY <1>1 DEF StreamInitRefused, StreamInitRejected, TypeInv, OneStatement
<1>3. ContextInv' /\ NextBlockInv'
  BY <1>1 DEF StreamInitRefused, StreamInitRejected, ContextInv, NextBlockInv, TypeInv, ContextType
<1>4. RowsInOrder'
  BY <1>1, RowsKept
<1>5. QED
  BY <1>2, <1>3, <1>4

LEMMA StreamStep ==
  ASSUME QueryInv, NEW t \in Threads, NEW h \in Handles, NEW q \in Statements, StreamInit(t, h, q)
  PROVE  QueryInv'
<1> USE DEF QueryInv
<1>1. handle \in [Handles -> HandleType] /\ handle[h] \in HandleType
  BY DEF TypeInv
<1>2. /\ handle' \in [Handles -> HandleType]
      /\ \A g \in Handles : handle'[g].rows = handle[g].rows
      /\ \A g \in Handles \ {h} : handle'[g] = handle[g]
      /\ handle[h].status = "fresh" /\ handle'[h].status = "open"
  BY <1>1 DEF StreamInit, HandleType, Statuses
<1>3. TypeInv' /\ OneStatement'
  BY <1>2 DEF StreamInit, Loaded, TypeInv, OneStatement, EngineType, ContextType
<1>4. ContextInv' /\ NextBlockInv'
  BY <1>2 DEF StreamInit, Loaded, ContextInv, NextBlockInv, TypeInv, ContextType
<1>5. RowsInOrder'
  BY <1>2, RowsKept
<1>6. QED
  BY <1>3, <1>4, <1>5

LEMMA FetchCallStep ==
  ASSUME QueryInv, NEW t \in Threads, NEW h \in Handles, FetchCall(t, h)
  PROVE  QueryInv'
<1> USE DEF QueryInv
<1>1. handle' = [handle EXCEPT ![h].status = IF @ = "open" THEN "error" ELSE @] \/ UNCHANGED handle
  BY DEF FetchCall, Broken
<1>2. /\ handle' \in [Handles -> HandleType]
      /\ \A g \in Handles : handle'[g].rows = handle[g].rows
      /\ \A g \in Handles : handle'[g].status = handle[g].status \/ handle'[g].status = "error"
  BY <1>1, HandleEnds DEF Statuses, TypeInv
<1>3. context # NoContext => UNCHANGED handle
  BY DEF FetchCall
<1>4. UNCHANGED call \/ call' = [call EXCEPT ![t] = [pc |-> "fetch", on |-> h]]
  BY DEF FetchCall
<1>5. /\ call' \in [Threads -> CallType]
      /\ \A u \in Threads : call'[u] = call[u] \/ (call'[u].pc = "fetch" /\ call'[u].on = h)
      /\ handle[h].status \in {"open", "ended", "error", "cancelled"}
  BY <1>4 DEF FetchCall, MayUse, TypeInv, CallType
<1>6. TypeInv' /\ OneStatement'
  BY <1>2, <1>5 DEF FetchCall, TypeInv, OneStatement
<1>7. ContextInv'
  BY <1>2, <1>3, <1>5 DEF FetchCall, ContextInv, TypeInv, ContextType
<1>8. NextBlockInv'
  BY <1>3 DEF FetchCall, NextBlockInv
<1>9. RowsInOrder'
  BY <1>2, RowsKept
<1>10. QED
  BY <1>6, <1>7, <1>8, <1>9

LEMMA CancelStep ==
  ASSUME QueryInv, NEW t \in Threads, NEW h \in Handles, CancelNothing(t, h) \/ CancelMismatch(t, h) \/ CancelOwn(t, h)
  PROVE  QueryInv'
<1> USE DEF QueryInv
<1>1. /\ handle' \in [Handles -> HandleType]
      /\ \A g \in Handles : handle'[g].rows = handle[g].rows
      /\ \A g \in Handles : handle'[g].status = handle[g].status \/ handle'[g].status = "cancelled"
  BY HandleEnds DEF CancelNothing, CancelMismatch, CancelOwn, Cancelled, Statuses
<1>2. context' = NoContext /\ engine' \in EngineType \cup {NoQuery} /\ UNCHANGED call
  BY EngineReset DEF CancelNothing, CancelMismatch, CancelOwn, TypeInv
<1>3. TypeInv' /\ OneStatement'
  BY <1>1, <1>2 DEF TypeInv, OneStatement
<1>4. ContextInv' /\ NextBlockInv'
  BY <1>1, <1>2 DEF ContextInv, NextBlockInv, TypeInv
<1>5. RowsInOrder'
  BY <1>1, RowsKept
<1>6. QED
  BY <1>3, <1>4, <1>5

LEMMA HangStep ==
  ASSUME QueryInv, NEW t \in Threads, Hang(t)
  PROVE  QueryInv'
<1> USE DEF QueryInv
<1>1. TypeInv' /\ OneStatement'
  BY CallHangs DEF Hang, TypeInv, OneStatement
<1>2. ContextInv' /\ NextBlockInv'
  BY CallHangs DEF Hang, ContextInv, NextBlockInv
<1>3. RowsInOrder'
  BY RowsKept DEF Hang
<1>4. QED
  BY <1>1, <1>2, <1>3

LEMMA DestroyStep ==
  ASSUME QueryInv, NEW t \in Threads, NEW h \in Handles, Destroy(t, h)
  PROVE  QueryInv'
<1> USE DEF QueryInv
<1>1. /\ handle' = [handle EXCEPT ![h] = [status |-> "destroyed", query |-> NoQuery, rows |-> <<>>]]
      /\ \A u \in Threads : call[u].on # h
  <2>1. [NewHandle EXCEPT !.status = "destroyed"] = [status |-> "destroyed", query |-> NoQuery, rows |-> <<>>]
    BY DEF NewHandle
  <2>2. QED
    BY <2>1 DEF Destroy
<1>2. [status |-> "destroyed", query |-> NoQuery, rows |-> <<>>] \in HandleType
  BY DEF HandleType, Statuses
<1>3. /\ handle' \in [Handles -> HandleType]
      /\ \A g \in Handles \ {h} : handle'[g] = handle[g]
      /\ handle'[h].status = "destroyed" /\ handle'[h].rows = <<>>
  BY <1>1, <1>2 DEF TypeInv
<1>4. TypeInv' /\ OneStatement'
  BY <1>1, <1>3 DEF Destroy, TypeInv, OneStatement
<1>5. ContextInv' /\ NextBlockInv'
  BY <1>1, <1>3 DEF Destroy, ContextInv, NextBlockInv, TypeInv, ContextType
<1>6. RowsInOrder'
  BY <1>3 DEF RowsInOrder
<1>7. QED
  BY <1>4, <1>5, <1>6

LEMMA FetchEndsStep ==
  ASSUME QueryInv, NEW t \in Threads, FetchNoContext(t) \/ FetchMismatch(t) \/ FetchError(t) \/ FetchEnd(t)
  PROVE  QueryInv'
<1> USE DEF QueryInv
<1>1. call[t].on \in Handles
  BY DEF FetchNoContext, FetchMismatch, FetchError, FetchEnd, FetchOwn, Fetching, ContextInv
<1>2. /\ handle' \in [Handles -> HandleType]
      /\ \A g \in Handles : handle'[g].rows = handle[g].rows
      /\ \A g \in Handles : handle'[g].status = handle[g].status \/ handle'[g].status \in {"ended", "error"}
  BY <1>1, HandleEnds DEF FetchNoContext, FetchMismatch, FetchError, FetchEnd, Broken, Statuses
<1>3. context' = NoContext /\ engine' \in EngineType \cup {NoQuery} /\ Return(t)
  BY EngineReset DEF FetchNoContext, FetchMismatch, FetchError, FetchEnd, TypeInv
<1>4. call' \in [Threads -> CallType] /\ \A u \in Threads : call'[u].pc = "idle" \/ call'[u] = call[u]
  BY <1>3, CallReturns
<1>5. TypeInv' /\ OneStatement'
  BY <1>2, <1>3, <1>4 DEF TypeInv, OneStatement
<1>6. ContextInv' /\ NextBlockInv'
  BY <1>2, <1>3, <1>4 DEF ContextInv, NextBlockInv, TypeInv
<1>7. RowsInOrder'
  BY <1>2, RowsKept
<1>8. QED
  BY <1>5, <1>6, <1>7

LEMMA BlockStep ==
  ASSUME QueryInv, NEW t \in Threads, FetchBlock(t)
  PROVE  QueryInv'
<1> USE DEF QueryInv
<1>1. PICK h \in Handles : h = call[t].on
  BY DEF FetchBlock, FetchOwn, Fetching, ContextInv
<1>2. PICK q \in Statements, n \in Nat : engine = [query |-> q, next |-> n]
  BY DEF FetchBlock, TypeInv, EngineType
<1>3. /\ context \in ContextType /\ context.result = h
      /\ handle[h].status = "open" /\ n < Blocks[q]
  BY <1>1, <1>2 DEF FetchBlock, FetchOwn, Fetching, Delivers, ContextInv, TypeInv
<1>4. /\ engine' = [query |-> q, next |-> n + 1]
      /\ handle' = [handle EXCEPT ![h].rows = Append(@, <<q, n + 1>>)]
      /\ Return(t) /\ UNCHANGED <<context, inserting>>
  BY <1>1, <1>2 DEF FetchBlock, Deliver
<1>5. /\ handle' \in [Handles -> HandleType]
      /\ \A g \in Handles \ {h} : handle'[g] = handle[g]
      /\ handle'[h].status = handle[h].status
      /\ handle[h].rows \in Seq(Statements \X Nat)
      /\ handle'[h].rows = Append(handle[h].rows, <<q, n + 1>>)
  <2>1. n + 1 \in Nat
    OBVIOUS
  <2>2. QED
    BY <1>4, <2>1, RowsAppended
<1>6. /\ call' \in [Threads -> CallType]
      /\ \A u \in Threads : call'[u].pc = "idle" \/ call'[u] = call[u]
  BY <1>4, CallReturns
<1>7. TypeInv' /\ OneStatement'
  BY <1>3, <1>4, <1>5, <1>6 DEF TypeInv, OneStatement, EngineType
<1>8. ContextInv'
  BY <1>3, <1>4, <1>5, <1>6 DEF ContextInv
<1>9. NextBlockInv'
  BY <1>3, <1>4, <1>5 DEF NextBlockInv
<1>10. RowsInOrder'
  <2> DEFINE r == handle[h].rows
  <2>1. n = 0 \/ (Len(r) > 0 /\ r[Len(r)] = <<q, n>>)
    <3>1. context # NoContext /\ engine # NoQuery /\ engine.query = q /\ engine.next = n
      BY <1>2 DEF FetchBlock, FetchOwn
    <3>2. Blocks[q] \in Nat
      BY QueryAssumption
    <3>3. \/ n = 0 \/ n >= Blocks[q] \/ handle[h].status = "destroyed"
          \/ Len(r) > 0 /\ r[Len(r)] = <<q, n>>
      BY <1>3, <3>1 DEF NextBlockInv
    <3>4. QED
      BY <1>3, <3>2, <3>3
  <2>2. \A i \in 1..Len(r) : r[i][2] = 1 \/ (i > 1 /\ r[i - 1] = <<r[i][1], r[i][2] - 1>>)
    BY DEF RowsInOrder
  <2>3. /\ handle'[h].rows = Append(r, <<q, n + 1>>)
        /\ r \in Seq(Statements \X Nat)
        /\ \A g \in Handles \ {h} : handle'[g] = handle[g]
    BY <1>5
  <2> HIDE DEF r
  <2>4. \A i \in 1..(Len(r) + 1) :
          LET x == Append(r, <<q, n + 1>>) IN
          x[i][2] = 1 \/ (i > 1 /\ x[i - 1] = <<x[i][1], x[i][2] - 1>>)
    BY <2>1, <2>2, <2>3
  <2>5. Len(Append(r, <<q, n + 1>>)) = Len(r) + 1
    BY <2>3
  <2>6. ASSUME NEW g \in Handles, g # h
        PROVE  handle'[g].rows = handle[g].rows
    BY <2>3, <2>6
  <2>7. SUFFICES ASSUME NEW g \in Handles, NEW i \in 1..Len(handle'[g].rows)
                 PROVE  LET x == handle'[g].rows IN
                        x[i][2] = 1 \/ (i > 1 /\ x[i - 1] = <<x[i][1], x[i][2] - 1>>)
    BY DEF RowsInOrder
  <2>8. CASE g = h
    <3>1. i \in 1..(Len(r) + 1)
      BY <2>3, <2>5, <2>8
    <3>2. QED
      BY <2>3, <2>4, <2>8, <3>1
  <2>9. CASE g # h
    BY <2>6, <2>9 DEF RowsInOrder
  <2>10. QED
    BY <2>8, <2>9
<1>11. QED
  BY <1>7, <1>8, <1>9, <1>10

LEMMA QueryInStreamStep ==
  ASSUME QueryInv, NEW t \in Threads, NEW q \in Statements, QueryIntoStream(t, q) \/ QueryNotSelect(t, q)
  PROVE  QueryInv'
<1> USE DEF QueryInv
<1>1. /\ context \in ContextType /\ context' \in ContextType
      /\ context'.result = context.result /\ ~inserting
  BY DEF QueryIntoStream, QueryNotSelect, Streaming, TypeInv, ContextType
<1>2. /\ UNCHANGED <<inserting, handle, call>>
      /\ engine' \in EngineType \cup {NoQuery}
      /\ UNCHANGED engine \/ engine' = [query |-> q, next |-> 0]
  BY DEF QueryIntoStream, QueryNotSelect, Loaded, EngineType, TypeInv
<1>3. TypeInv' /\ OneStatement'
  BY <1>1, <1>2 DEF TypeInv, OneStatement
<1>4. ContextInv'
  BY <1>1, <1>2 DEF ContextInv, QueryIntoStream, QueryNotSelect, Streaming
<1>5. NextBlockInv'
  BY <1>1, <1>2 DEF NextBlockInv, QueryIntoStream, QueryNotSelect, Streaming
<1>6. RowsInOrder'
  BY <1>2, RowsKept
<1>7. QED
  BY <1>3, <1>4, <1>5, <1>6

LEMMA OtherStatementStep ==
  ASSUME QueryInv, NEW t \in Threads, (\E q \in Statements : Query(t, q)) \/ InsertBegin(t) \/ InsertEnd(t) \/ Close(t)
  PROVE  QueryInv'
<1> USE DEF QueryInv
<1>1. /\ UNCHANGED <<handle, call>>
      /\ engine' \in EngineType \cup {NoQuery}
      /\ UNCHANGED context \/ context' = NoContext
      /\ OneStatement'  
  BY QueryAssumption DEF Query, InsertBegin, InsertEnd, Close, EngineType, TypeInv, OneStatement
<1>2. context' # NoContext => UNCHANGED engine \/ engine'.next = Blocks[engine'.query]
        \/ engine' = NoQuery
  BY DEF Query, InsertBegin, InsertEnd, Close
<1>3. TypeInv'
  BY <1>1 DEF TypeInv
<1>4. ContextInv'
  BY <1>1 DEF ContextInv
<1>5. NextBlockInv'
  BY <1>1, <1>2, QueryAssumption DEF NextBlockInv, TypeInv, EngineType
<1>6. RowsInOrder'
  BY <1>1, RowsKept
<1>7. OneStatement'
  BY <1>1
<1>8. QED
  BY <1>3, <1>4, <1>5, <1>6, <1>7

LEMMA QueryStep ==
  QueryInv /\ [Next]_vars => QueryInv'
<1> SUFFICES ASSUME QueryInv, [Next]_vars PROVE QueryInv'
  OBVIOUS
<1>1. CASE UNCHANGED vars
  BY <1>1 DEF vars, QueryInv, TypeInv, OneStatement, ContextInv, NextBlockInv, RowsInOrder
<1>2. ASSUME NEW t \in Threads, NEW h \in Handles, OnHandle(t, h)
      PROVE  QueryInv'
  BY <1>2, RefusedStep, StreamStep, FetchCallStep, CancelStep, HangStep, DestroyStep
    DEF OnHandle, CancelHang
<1>3. ASSUME NEW t \in Threads, Iterate(t)
      PROVE  QueryInv'
  BY <1>3, FetchEndsStep, BlockStep, HangStep DEF Iterate, FetchHang
<1>4. QED
  BY <1>1, <1>2, <1>3, QueryInStreamStep, OtherStatementStep, HangStep
    DEF Next, CloseHang, Hung, Quiescent

LEMMA QueryInvariant ==
  Spec => []QueryInv
BY QueryInit, QueryStep, PTL DEF Spec

\* An insert stream and a query stream are never open on a connection at once:
\* executeStreamingInit and executeInsertStreamingInit keep each other out.
THEOREM OneStatementAlways ==
  Spec => []OneStatement
<1>1. QueryInv => OneStatement
  BY DEF QueryInv
<1>2. QED
  BY <1>1, QueryInvariant, PTL

\* Whatever an application does, the blocks that a handle is given come in
\* order: no block of a query is left out or given twice in a row.
THEOREM RowsAlwaysInOrder ==
  Spec => []RowsInOrder
<1>1. QueryInv => RowsInOrder
  BY DEF QueryInv
<1>2. QED
  BY <1>1, QueryInvariant, PTL

\* A step changes the rows of a handle only if it is a fetch from an open stream.
LEMMA EndedStep ==
  ASSUME QueryInv, [Next]_vars, NEW h \in Handles,
         handle[h].status # "open", handle'[h].rows # handle[h].rows
  PROVE  handle'[h].status = "destroyed"
<1> USE DEF QueryInv
<1>1. ASSUME NEW t \in Threads, NEW g \in Handles, OnHandle(t, g)
      PROVE  handle'[h].status = "destroyed"
  <2>1. CASE StreamInitRefused(t, g) \/ StreamInitRejected(t, g)
    <3>1. handle'[h].rows = handle[h].rows
      BY <2>1, StatusSet DEF StreamInitRefused, StreamInitRejected, Statuses
    <3>2. QED
      BY <3>1
  <2>2. CASE \E q \in Statements : StreamInit(t, g, q)
    <3>1. handle \in [Handles -> HandleType] /\ handle[g] \in HandleType
      BY DEF TypeInv
    <3>2. handle'[h].rows = handle[h].rows
      BY <2>2, <3>1 DEF StreamInit, HandleType
    <3>3. QED
      BY <3>2
  <2>3. CASE FetchCall(t, g) \/ CancelNothing(t, g) \/ CancelMismatch(t, g) \/ CancelOwn(t, g)
    <3>1. handle'[h].rows = handle[h].rows
      BY <2>3, HandleEnds
      DEF FetchCall, CancelNothing, CancelMismatch, CancelOwn, Broken, Cancelled, Statuses
    <3>2. QED
      BY <3>1
  <2>4. CASE CancelHang(t, g)
    BY <2>4 DEF CancelHang, Hang
  <2>5. CASE Destroy(t, g)
    <3>1. [NewHandle EXCEPT !.status = "destroyed"].status = "destroyed"
      BY DEF NewHandle
    <3>2. g = h
      BY <2>5 DEF Destroy, TypeInv
    <3>3. QED
      BY <2>5, <3>1, <3>2 DEF Destroy, TypeInv
  <2>6. QED
    BY <1>1, <2>1, <2>2, <2>3, <2>4, <2>5 DEF OnHandle
<1>2. ASSUME NEW t \in Threads, Iterate(t)
      PROVE  handle'[h].status = "destroyed"
  <2>1. call[t].pc = "fetch" /\ call[t].on \in Handles
    BY <1>2 DEF Iterate, FetchNoContext, FetchMismatch, FetchHang, FetchBlock, FetchError,
      FetchEnd, FetchOwn, Fetching, ContextInv
  <2>2. CASE FetchNoContext(t) \/ FetchMismatch(t) \/ FetchError(t) \/ FetchEnd(t)
    <3>1. handle'[h].rows = handle[h].rows
      BY <2>1, <2>2, HandleEnds
      DEF FetchNoContext, FetchMismatch, FetchError, FetchEnd, Broken, Statuses
    <3>2. QED
      BY <3>1
  <2>3. CASE FetchHang(t)
    BY <2>3 DEF FetchHang, Hang
  <2>4. CASE FetchBlock(t)
    <3>1. PICK x : handle' = [handle EXCEPT ![call[t].on].rows = x]
      BY <2>4 DEF FetchBlock, Deliver
    <3>2. context # NoContext /\ context.result = call[t].on
      BY <2>4 DEF FetchBlock, FetchOwn
    <3>3. handle[call[t].on].status = "open"
      BY <2>1, <3>2 DEF ContextInv
    <3>4. QED
      BY <2>1, <3>1, <3>3 DEF TypeInv
  <2>5. QED
    BY <1>2, <2>2, <2>3, <2>4 DEF Iterate
<1>3. QED
  BY <1>1, <1>2 DEF Next, vars, QueryIntoStream, QueryNotSelect, Query, InsertBegin, InsertEnd,
    Close, CloseHang, Hang, Hung, Quiescent

\* A stream that ended, failed or was cancelled delivers nothing more, however
\* often executeStreamingIterate is still called on its handle.
THEOREM EndedAlwaysGetsNothing ==
  Spec => EndedGetsNothing
<1>1. QueryInv /\ [Next]_vars =>
        [\A h \in Handles :
           handle[h].status # "open" /\ handle'[h].rows # handle[h].rows =>
             handle'[h].status = "destroyed"]_vars
  BY EndedStep
<1>2. QED
  BY <1>1, QueryInvariant, PTL DEF Spec, EndedGetsNothing

-----------------------------------------------------------------------------
(* An application that runs one statement at a time.                       *)

\* What StreamsOwnRows says of a handle.
Own(s) ==
  /\ s.status \notin {"fresh", "failed", "destroyed"} =>
       /\ Len(s.rows) <= Blocks[s.query]
       /\ \A i \in 1..Len(s.rows) : s.rows[i] = <<s.query, i>>
  /\ s.status = "ended" => Len(s.rows) = Blocks[s.query] /\ s.query \notin Failing
  /\ s.status = "error" => s.query \in Failing

OwnInv == \A h \in Handles : Own(handle[h])

ServedInv == NoHang /\ (answer # NoQuery => answer.rows = Rows(answer.query))

AloneInv == QueryInv /\ exclusive /\ ExclusiveInv /\ OwnInv /\ ServedInv

LEMMA StreamInvMeans ==
  StreamInv <=> (exclusive => ExclusiveInv /\ OwnInv /\ ServedInv)
BY DEF StreamInv, StreamsOwnRows, ExclusiveIsServed, OwnInv, Own, ServedInv

\* While no stream is open the connection has no context.
LEMMA NothingOpen ==
  ASSUME AloneInv, NEW t \in Threads, MayStart(t)
  PROVE  /\ context = NoContext
         /\ \A h \in Handles : handle[h].status # "open"
         /\ \A u \in Threads : call[u].pc = "idle"
BY DEF AloneInv, ExclusiveInv, MayStart, Quiet, QueryInv, TypeInv, ContextType

\* The stream that a thread fetches from or cancels is the one in the context.
LEMMA OwnStream ==
  ASSUME AloneInv, context # NoContext
  PROVE  /\ context \in ContextType /\ context.result \in Handles
         /\ engine \in EngineType /\ engine # NoQuery
         /\ engine.next <= Blocks[engine.query]
         /\ handle[context.result].status = "open"
         /\ handle[context.result].query = engine.query
         /\ Len(handle[context.result].rows) = engine.next
         /\ alive => \A h \in Handles \ {context.result} : handle[h].status # "open"
BY DEF AloneInv, ExclusiveInv, QueryInv, TypeInv, ContextType

LEMMA AloneRefused ==
  ASSUME AloneInv, NEW t \in Threads, NEW h \in Handles,
         StreamInitRefused(t, h) \/ StreamInitRejected(t, h)
  PROVE  ExclusiveInv' /\ OwnInv' /\ ServedInv'
<1> USE DEF AloneInv, QueryInv
<1>1. MayStart(t)
  BY DEF StreamInitRefused, StreamInitRejected
<1>2. /\ context' = NoContext /\ UNCHANGED <<engine, call, answer, alive>>
      /\ \A g \in Handles : handle[g].status # "open"
  BY <1>1, NothingOpen DEF StreamInitRefused, StreamInitRejected
<1>3. /\ \A g \in Handles \ {h} : handle'[g] = handle[g]
      /\ handle'[h].status = "failed"
  BY StatusSet DEF StreamInitRefused, StreamInitRejected, Statuses
<1>4. ExclusiveInv'
  BY <1>2, <1>3 DEF ExclusiveInv
<1>5. OwnInv' /\ ServedInv'
  BY <1>2, <1>3 DEF OwnInv, Own, ServedInv, NoHang, Rows
<1>6. QED
  BY <1>4, <1>5

LEMMA AloneStarts ==
  ASSUME AloneInv, NEW t \in Threads, NEW h \in Handles, NEW q \in Statements, StreamInit(t, h, q)
  PROVE  ExclusiveInv' /\ OwnInv' /\ ServedInv'
<1> USE DEF AloneInv, QueryInv
<1>1. /\ context' = [result |-> h, streaming |-> TRUE]
      /\ engine' = [query |-> q, next |-> 0]
      /\ UNCHANGED <<call, answer, alive>>
      /\ \A g \in Handles : handle[g].status # "open"
      /\ \A u \in Threads : call[u].pc = "idle"
      /\ handle[h].rows = <<>>
  BY NothingOpen DEF StreamInit, Loaded, ExclusiveInv
<1>2. handle \in [Handles -> HandleType] /\ handle[h] \in HandleType
  BY DEF TypeInv
<1>3. /\ \A g \in Handles \ {h} : handle'[g] = handle[g]
      /\ handle'[h].status = "open" /\ handle'[h].query = q /\ handle'[h].rows = <<>>
  BY <1>1, <1>2 DEF StreamInit, HandleType
<1>4. Blocks[q] \in Nat /\ Len(<<>>) = 0
  BY QueryAssumption
<1>5. ExclusiveInv'
  <2>1. engine' # NoQuery /\ engine'.query = q /\ engine'.next = 0
    BY <1>1, QueryAssumption
  <2>2. context'.result = h /\ context'.streaming
    BY <1>1
  <2>3. \A g \in Handles :
          /\ handle'[g].status = "fresh" => handle'[g].rows = <<>>
          /\ handle'[g].status = "open" => g = h
    BY <1>1, <1>3 DEF ExclusiveInv
  <2>4. context' # NoContext
    <3>1. [result |-> h, streaming |-> TRUE] \in [result : Handles, streaming : BOOLEAN]
      OBVIOUS
    <3>2. QED
      BY <1>1, <3>1, QueryAssumption
  <2>5. QED
    BY <1>1, <1>3, <1>4, <2>1, <2>2, <2>3, <2>4 DEF ExclusiveInv
<1>6. OwnInv' /\ ServedInv'
  BY <1>1, <1>3, <1>4 DEF OwnInv, Own, ServedInv, NoHang, Rows
<1>7. QED
  BY <1>5, <1>6

LEMMA AloneFetchCall ==
  ASSUME AloneInv, NEW t \in Threads, NEW h \in Handles, FetchCall(t, h)
  PROVE  ExclusiveInv' /\ OwnInv' /\ ServedInv'
<1> USE DEF AloneInv, QueryInv
<1>1. context # NoContext /\ context.result = h
  BY DEF FetchCall, MayUse, Free, ExclusiveInv
<1>2. /\ call' = [call EXCEPT ![t] = [pc |-> "fetch", on |-> h]]
      /\ UNCHANGED <<alive, context, engine, handle, answer>>
  BY <1>1 DEF FetchCall
<1>3. \A u \in Threads : call'[u] = call[u] \/ (call'[u].pc = "fetch" /\ call'[u].on = h)
  BY <1>2 DEF TypeInv
<1>4. ExclusiveInv'
  BY <1>1, <1>2, <1>3 DEF ExclusiveInv
<1>5. OwnInv' /\ ServedInv'
  BY <1>2, <1>3 DEF OwnInv, Own, ServedInv, NoHang, Rows
<1>6. QED
  BY <1>4, <1>5

\* A stream that is over leaves a connection without a context.
LEMMA AloneOver ==
  ASSUME AloneInv, NEW h \in Handles, NEW st \in {"ended", "error", "cancelled"},
         context # NoContext, context.result = h, alive, UNCHANGED <<alive, answer>>,
         handle' = [handle EXCEPT ![h].status = IF @ = "open" THEN st ELSE @],
         context' = NoContext, UNCHANGED engine \/ engine' = NoQuery,
         \A u \in Threads : call'[u].pc = "idle" \/ call'[u] = call[u],
         st = "ended" => engine.next = Blocks[engine.query] /\ engine.query \notin Failing,
         st = "error" => engine.query \in Failing
  PROVE  ExclusiveInv' /\ OwnInv' /\ ServedInv'
<1> USE DEF AloneInv, QueryInv
<1>1. /\ handle[h].status = "open" /\ handle[h].query = engine.query
      /\ Len(handle[h].rows) = engine.next
      /\ \A g \in Handles \ {h} : handle[g].status # "open"
  BY OwnStream
<1>2. /\ \A g \in Handles \ {h} : handle'[g] = handle[g]
      /\ handle'[h].status = st
      /\ handle'[h].rows = handle[h].rows /\ handle'[h].query = handle[h].query
  BY <1>1, HandleEnds DEF Statuses
<1>3. ExclusiveInv'
  BY <1>1, <1>2 DEF ExclusiveInv
<1>4. Own(handle[h]) /\ \A g \in Handles : Own(handle[g])
  BY DEF OwnInv
<1>5. OwnInv'
  <2>1. Own(handle'[h])
    BY <1>1, <1>2, <1>4 DEF Own
  <2>2. QED
    BY <1>2, <1>4, <2>1 DEF OwnInv
<1>6. ServedInv'
  BY DEF ServedInv, NoHang, Rows
<1>7. QED
  BY <1>3, <1>5, <1>6

LEMMA AloneCancel ==
  ASSUME AloneInv, NEW t \in Threads, NEW h \in Handles,
         CancelNothing(t, h) \/ CancelMismatch(t, h) \/ CancelOwn(t, h) \/ CancelHang(t, h)
  PROVE  ExclusiveInv' /\ OwnInv' /\ ServedInv'
<1> USE DEF AloneInv, QueryInv
<1>1. context # NoContext /\ context.result = h /\ alive
  BY DEF CancelNothing, CancelMismatch, CancelOwn, CancelHang, MayCancel, MayUse, Free, ExclusiveInv
<1>2. CancelOwn(t, h)
  BY <1>1, OwnStream DEF CancelNothing, CancelMismatch, CancelHang
<1>3. /\ handle' = [handle EXCEPT ![h].status = IF @ = "open" THEN "cancelled" ELSE @]
      /\ context' = NoContext /\ UNCHANGED <<alive, answer, call>>
      /\ UNCHANGED engine \/ engine' = NoQuery
  BY <1>2 DEF CancelOwn, Cancelled, resetQueryContext
<1>4. QED
  BY <1>1, <1>3, AloneOver

LEMMA AloneDestroy ==
  ASSUME AloneInv, NEW t \in Threads, NEW h \in Handles, Destroy(t, h)
  PROVE  ExclusiveInv' /\ OwnInv' /\ ServedInv'
<1> USE DEF AloneInv, QueryInv
<1>1. handle[h].status # "open" /\ UNCHANGED <<context, engine, call, answer, alive>>
  BY DEF Destroy
<1>2. [NewHandle EXCEPT !.status = "destroyed"].status = "destroyed"
  BY DEF NewHandle
<1>3. handle'[h].status = "destroyed" /\ \A g \in Handles \ {h} : handle'[g] = handle[g]
  BY <1>2 DEF Destroy, TypeInv
<1>4. context # NoContext => context.result \in Handles \ {h}
  BY <1>1, OwnStream
<1>5. ExclusiveInv'
  BY <1>1, <1>3, <1>4 DEF ExclusiveInv
<1>6. OwnInv' /\ ServedInv'
  BY <1>1, <1>3 DEF OwnInv, Own, ServedInv, NoHang, Rows
<1>7. QED
  BY <1>5, <1>6

LEMMA AloneFetchOver ==
  ASSUME AloneInv, NEW t \in Threads, FetchError(t) \/ FetchEnd(t)
  PROVE  ExclusiveInv' /\ OwnInv' /\ ServedInv'
<1> USE DEF AloneInv, QueryInv
<1>1. PICK h \in Handles : h = call[t].on
  BY DEF FetchError, FetchEnd, FetchOwn, Fetching, ContextInv
<1>2. context # NoContext /\ context.result = h /\ alive /\ Return(t)
  BY <1>1 DEF FetchError, FetchEnd, FetchOwn, Fetching
<1>3. \A u \in Threads : call'[u].pc = "idle" \/ call'[u] = call[u]
  BY <1>2, CallReturns
<1>4. /\ engine \in EngineType /\ engine.next <= Blocks[engine.query]
      /\ engine.query \in Statements /\ engine.next \in Nat /\ Blocks[engine.query] \in Nat
  BY <1>2, OwnStream, QueryAssumption DEF EngineType
<1>5. UNCHANGED <<alive, answer>> /\ context' = NoContext /\ (UNCHANGED engine \/ engine' = NoQuery)
  BY DEF FetchError, FetchEnd, resetQueryContext
<1>6. CASE FetchError(t)
  <2>1. /\ handle' = [handle EXCEPT ![h].status = IF @ = "open" THEN "error" ELSE @]
        /\ engine.query \in Failing
    BY <1>1, <1>6 DEF FetchError, Broken, Raises
  <2>2. QED
    BY <1>2, <1>3, <1>5, <2>1, AloneOver
<1>7. CASE FetchEnd(t)
  <2>1. handle' = [handle EXCEPT ![h].status = IF @ = "open" THEN "ended" ELSE @]
    BY <1>1, <1>7 DEF FetchEnd
  <2>2. engine.next = Blocks[engine.query] /\ engine.query \notin Failing
    BY <1>4, <1>7 DEF FetchEnd, Delivers, Raises
  <2>3. QED
    BY <1>2, <1>3, <1>5, <2>1, <2>2, AloneOver
<1>8. QED
  BY <1>6, <1>7

LEMMA AloneFetchMissed ==
  ASSUME AloneInv, NEW t \in Threads, FetchNoContext(t) \/ FetchMismatch(t) \/ FetchHang(t)
  PROVE  ExclusiveInv' /\ OwnInv' /\ ServedInv'
<1> USE DEF AloneInv, QueryInv
<1>1. FetchNoContext(t)
  BY OwnStream DEF FetchMismatch, FetchHang, FetchOwn, Fetching, ExclusiveInv
<1>2. PICK h \in Handles : h = call[t].on
  BY <1>1 DEF FetchNoContext, Fetching, ContextInv
<1>3. handle[h].status # "open"
  BY <1>1 DEF FetchNoContext, Fetching, ExclusiveInv
<1>4. handle' = [handle EXCEPT ![h].status = handle[h].status]
  BY <1>1, <1>2, <1>3 DEF FetchNoContext, Broken
<1>5. handle[h].status \in Statuses
  BY DEF TypeInv, HandleType
<1>6. \A g \in Handles : handle'[g].rows = handle[g].rows /\ handle'[g].query = handle[g].query
        /\ handle'[g].status = handle[g].status
  BY <1>4, <1>5, StatusSet
<1>7. /\ context' = NoContext /\ UNCHANGED <<alive, engine, answer>>
      /\ \A u \in Threads : call'[u].pc = "idle" \/ call'[u] = call[u]
  BY <1>1, CallReturns DEF FetchNoContext
<1>8. ExclusiveInv'
  BY <1>1, <1>6, <1>7 DEF ExclusiveInv, FetchNoContext
<1>9. OwnInv' /\ ServedInv'
  BY <1>6, <1>7 DEF OwnInv, Own, ServedInv, NoHang, Rows
<1>10. QED
  BY <1>8, <1>9

LEMMA AloneBlock ==
  ASSUME AloneInv, NEW t \in Threads, FetchBlock(t)
  PROVE  ExclusiveInv' /\ OwnInv' /\ ServedInv'
<1> USE DEF AloneInv, QueryInv
<1>1. PICK h \in Handles : h = call[t].on
  BY DEF FetchBlock, FetchOwn, Fetching, ContextInv
<1>2. PICK q \in Statements, n \in Nat : engine = [query |-> q, next |-> n]
  BY DEF FetchBlock, TypeInv, EngineType
<1>3. /\ context # NoContext /\ context.result = h
      /\ handle[h].status = "open" /\ handle[h].query = q /\ Len(handle[h].rows) = n
      /\ n < Blocks[q] /\ Blocks[q] \in Nat
  BY <1>1, <1>2, OwnStream, QueryAssumption DEF FetchBlock, FetchOwn, Delivers
<1>4. /\ engine' = [query |-> q, next |-> n + 1]
      /\ handle' = [handle EXCEPT ![h].rows = Append(@, <<q, n + 1>>)]
      /\ Return(t) /\ UNCHANGED <<context, answer, alive>>
  BY <1>1, <1>2 DEF FetchBlock, Deliver
<1>5. n + 1 \in Nat
  OBVIOUS
<1>6. /\ \A g \in Handles \ {h} : handle'[g] = handle[g]
      /\ handle'[h].status = "open" /\ handle'[h].query = q
      /\ handle[h].rows \in Seq(Statements \X Nat)
      /\ handle'[h].rows = Append(handle[h].rows, <<q, n + 1>>)
  <2>1. /\ \A g \in Handles \ {h} : handle'[g] = handle[g]
        /\ handle'[h].status = handle[h].status /\ handle'[h].query = handle[h].query
        /\ handle[h].rows \in Seq(Statements \X Nat)
        /\ handle'[h].rows = Append(handle[h].rows, <<q, n + 1>>)
    BY <1>4, <1>5, RowsAppended
  <2>2. QED
    BY <1>3, <2>1
<1>7. \A u \in Threads : call'[u].pc = "idle" \/ call'[u] = call[u]
  BY <1>4, CallReturns
<1>8. Len(handle'[h].rows) = n + 1
  BY <1>3, <1>6
<1>9. ExclusiveInv'
  <2>1. engine' # NoQuery /\ engine'.query = q /\ engine'.next = n + 1
    BY <1>4, <1>5, QueryAssumption
  <2>2. context.streaming /\ n + 1 <= Blocks[q] /\ UNCHANGED <<context, alive>>
    BY <1>3, <1>4 DEF ExclusiveInv
  <2>3. \A g \in Handles :
          /\ handle'[g].status = "fresh" => handle'[g].rows = <<>>
          /\ handle'[g].status = "open" /\ alive => g = h
    BY <1>3, <1>6 DEF ExclusiveInv
  <2>4. \A u \in Threads : call'[u].pc = "fetch" => call'[u].on = h
    BY <1>3, <1>7 DEF ExclusiveInv
  <2>5. QED
    BY <1>3, <1>6, <1>8, <2>1, <2>2, <2>3, <2>4 DEF ExclusiveInv
<1>10. Own(handle'[h])
  <2>1. \A i \in 1..n : handle[h].rows[i] = <<q, i>>
    BY <1>3 DEF OwnInv, Own
  <2>2. \A i \in 1..(n + 1) : handle'[h].rows[i] = <<q, i>>
    BY <1>3, <1>6, <2>1
  <2>3. QED
    BY <1>3, <1>6, <1>8, <2>2 DEF Own
<1>11. OwnInv'
  BY <1>6, <1>10 DEF OwnInv
<1>12. ServedInv'
  BY <1>4, <1>7 DEF ServedInv, NoHang, Rows
<1>13. QED
  BY <1>9, <1>11, <1>12

LEMMA AloneStatement ==
  ASSUME AloneInv, NEW t \in Threads,
         \/ \E q \in Statements : QueryIntoStream(t, q) \/ QueryNotSelect(t, q) \/ Query(t, q)
         \/ InsertBegin(t) \/ InsertEnd(t) \/ Close(t) \/ CloseHang(t)
  PROVE  ExclusiveInv' /\ OwnInv' /\ ServedInv'
<1> USE DEF AloneInv, QueryInv
<1>1. ASSUME NEW q \in Statements, QueryIntoStream(t, q) \/ QueryNotSelect(t, q) \/ Query(t, q)
      PROVE  /\ context' = NoContext /\ UNCHANGED <<handle, call, alive>>
             /\ context = NoContext
             /\ engine' = NoQuery \/ engine' = [query |-> q, next |-> Blocks[q]]
             /\ UNCHANGED answer \/ answer' = [query |-> q, rows |-> Rows(q)]
  BY <1>1, NothingOpen DEF QueryIntoStream, QueryNotSelect, Query, Streaming
<1>2. CASE \E q \in Statements : QueryIntoStream(t, q) \/ QueryNotSelect(t, q) \/ Query(t, q)
  <2>1. PICK q \in Statements : QueryIntoStream(t, q) \/ QueryNotSelect(t, q) \/ Query(t, q)
    BY <1>2
  <2>2. Blocks[q] \in Nat
    BY QueryAssumption
  <2>3. ExclusiveInv' /\ OwnInv'
    BY <1>1, <2>1, <2>2 DEF ExclusiveInv, OwnInv, Own
  <2>4. ServedInv'
    <3>1. UNCHANGED call /\ (UNCHANGED answer \/ answer' = [query |-> q, rows |-> Rows(q)])
      BY <1>1, <2>1
    <3>2. answer' # NoQuery => answer'.rows = Rows(answer'.query)
      BY <3>1 DEF ServedInv
    <3>3. QED
      BY <3>1, <3>2 DEF ServedInv, NoHang, Rows
  <2>5. QED
    BY <2>3, <2>4
<1>3. CASE InsertBegin(t) \/ InsertEnd(t) \/ Close(t)
  <2>1. /\ UNCHANGED <<handle, call, answer>>
        /\ \/ UNCHANGED <<engine, context, alive>>
           \/ engine' = NoQuery /\ context = NoContext /\ UNCHANGED <<context, alive>>
           \/ engine' = NoQuery /\ context' = NoContext /\ alive' = FALSE
    BY <1>3 DEF InsertBegin, InsertEnd, Close
  <2>2. OwnInv' /\ ServedInv'
    BY <2>1 DEF OwnInv, Own, ServedInv, NoHang, Rows
  <2>3. ExclusiveInv'
    BY <2>1 DEF ExclusiveInv
  <2>4. QED
    BY <2>2, <2>3
<1>4. CASE CloseHang(t)
  BY <1>4, OwnStream DEF CloseHang
<1>5. QED
  BY <1>2, <1>3, <1>4

LEMMA StreamInvStep ==
  QueryInv /\ StreamInv /\ [Next]_vars => StreamInv'
<1> SUFFICES ASSUME QueryInv, StreamInv, [Next]_vars, exclusive' PROVE ExclusiveInv' /\ OwnInv' /\ ServedInv'
  BY StreamInvMeans DEF StreamInv, StreamsOwnRows, ExclusiveIsServed, OwnInv, Own, ServedInv
<1>1. exclusive
  <2>1. ASSUME NEW t \in Threads, NEW h \in Handles, OnHandle(t, h)
        PROVE  UNCHANGED exclusive
    BY <2>1 DEF OnHandle, StreamInitRefused, StreamInitRejected, StreamInit, FetchCall, CancelNothing,
      CancelMismatch, CancelOwn, CancelHang, Hang, Destroy
  <2>2. ASSUME NEW t \in Threads, Iterate(t)
        PROVE  UNCHANGED exclusive
    BY <2>2 DEF Iterate, FetchNoContext, FetchMismatch, FetchHang, FetchBlock, FetchError, FetchEnd,
      Hang, Deliver
  <2>3. QED
    BY <2>1, <2>2 DEF Next, vars, QueryIntoStream, QueryNotSelect, Query, InsertBegin, InsertEnd,
      Close, CloseHang, Hang, Hung, Quiescent
<1>2. AloneInv
  BY <1>1, StreamInvMeans DEF AloneInv
<1>3. CASE UNCHANGED vars
  BY <1>2, <1>3 DEF vars, AloneInv, ExclusiveInv, OwnInv, Own, ServedInv, NoHang, Rows
<1>4. ASSUME NEW t \in Threads, NEW h \in Handles, OnHandle(t, h)
      PROVE  ExclusiveInv' /\ OwnInv' /\ ServedInv'
  BY <1>2, <1>4, AloneRefused, AloneStarts, AloneFetchCall, AloneCancel, AloneDestroy DEF OnHandle
<1>5. ASSUME NEW t \in Threads, Iterate(t)
      PROVE  ExclusiveInv' /\ OwnInv' /\ ServedInv'
  BY <1>2, <1>5, AloneFetchOver, AloneFetchMissed, AloneBlock DEF Iterate
<1>6. QED
  BY <1>2, <1>3, <1>4, <1>5, AloneStatement DEF Next, Hung, Quiescent

LEMMA StreamInvariant ==
  Spec => []StreamInv
BY QueryInit, QueryInvariant, StreamInvStep, PTL DEF Spec

\* An application that runs one statement at a time gets from every stream the
\* blocks of its own query, all of them and in order; a stream ends only when
\* they are through and fails only if its query does.
THEOREM StreamsAlwaysOwnRows ==
  Spec => []StreamsOwnRows
<1>1. StreamInv => StreamsOwnRows
  BY DEF StreamInv, StreamsOwnRows
<1>2. QED
  BY <1>1, StreamInvariant, PTL

\* Such an application never hangs in the poll loop of receiveResult, and
\* chdb_query reports the whole result of a statement.
THEOREM ExclusiveAlwaysServed ==
  Spec => []ExclusiveIsServed
<1>1. StreamInv => ExclusiveIsServed
  BY DEF StreamInv, ExclusiveIsServed
<1>2. QED
  BY <1>1, StreamInvariant, PTL

=============================================================================
