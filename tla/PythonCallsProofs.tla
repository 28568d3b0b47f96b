-------------------------- MODULE PythonCallsProofs ---------------------------
(***************************************************************************)
(* Proofs about PythonCalls: type correctness, that parameters never       *)
(* outlive the calls that brought them, and that the table cache gives a   *)
(* query the caller's present object.                                      *)
(***************************************************************************)
EXTENDS PythonCalls, TLAPS

USE DEF Callers, Steps

\* The first call of a thread, and the one it is reset to, is well-typed.
LEMMA NoCallType == NoCall \in Calls
  BY PythonAssumption DEF NoCall, Made, Calls

\* The cache entry of a caller's table is an object number or 0.
LEMMA EntryType ==
  ASSUME TypeOK, NEW t \in Threads
  PROVE  Entry(t) \in 0 .. MaxObjects
  BY PythonAssumption DEF TypeOK, Entry, Calls

LEMMA TypeInit == Init => TypeOK
  BY NoCallType, PythonAssumption DEF Init, TypeOK

\* Every step keeps the variables well-typed.
LEMMA TypeStep == TypeOK /\ [Next]_vars => TypeOK'
<1> SUFFICES ASSUME TypeOK, [Next]_vars PROVE TypeOK'
  OBVIOUS
<1> USE PythonAssumption DEF TypeOK
<1>1. CASE UNCHANGED vars
  BY <1>1 DEF vars
<1>2. ASSUME NEW t \in Threads, NEW n \in Names, Rebind(t, n) PROVE TypeOK'
  BY <1>2 DEF Rebind
<1>3. ASSUME NEW t \in Threads, NEW k \in Kinds[t], NEW P \in SUBSET Bindings,
             NEW n \in Names \cup {NoName}, Call(t, k, P, n)
      PROVE  TypeOK'
  <2>1. (IF n = NoName THEN 0 ELSE bound[t][n]) \in 0 .. MaxObjects
    OBVIOUS
  <2>2. Made(k, P, n, IF n = NoName THEN 0 ELSE bound[t][n]) \in Calls
    BY <2>1 DEF Made, Calls
  <2> QED BY <1>3, <2>2 DEF Call
<1>4. ASSUME NEW t \in Threads, NEW k \in Kinds[t], CallStream(t, k) PROVE TypeOK'
  <2>1. Made(k, {}, NoName, 0) \in Calls
    BY DEF Made, Calls
  <2> QED BY <1>4, <2>1 DEF CallStream
<1>5. ASSUME NEW t \in Threads, SkipParameters(t) \/ LockClient(t)
      PROVE  TypeOK'
  <2>1. CASE SkipParameters(t)
    BY <2>1 DEF SkipParameters
  <2>2. CASE LockClient(t)
    BY <2>2 DEF LockClient
  <2> QED BY <1>5, <2>1, <2>2
<1>6. ASSUME NEW t \in Threads, SetParameters(t) PROVE TypeOK'
  <2>1. call[t].par \in SUBSET Bindings
    BY DEF Calls
  <2> QED BY <1>6, <2>1 DEF SetParameters
<1>7. ASSUME NEW t \in Threads, FindCached(t) \/ FindFrame(t) \/ TakeGil(t)
      PROVE  TypeOK'
  BY <1>7 DEF FindCached, FindFrame, TakeGil
<1>8. ASSUME NEW t \in Threads, StoreTable(t) PROVE TypeOK'
  <2>1. call[t].obj \in 0 .. MaxObjects
    BY DEF Calls
  <2> DEFINE new == [cache EXCEPT ![Uses[t]][call[t].name] =
                       IF @ = 0 THEN call[t].obj ELSE @]
  <2> DEFINE row == [cache[Uses[t]] EXCEPT ![call[t].name] =
                       IF @ = 0 THEN call[t].obj ELSE @]
  <2>2. row \in [Names -> 0 .. MaxObjects]
    <3>1. cache[Uses[t]] \in [Names -> 0 .. MaxObjects]
      OBVIOUS
    <3>2. \A n \in Names : row[n] \in {cache[Uses[t]][n], call[t].obj}
      BY <3>1
    <3> QED BY <2>1, <3>1, <3>2
  <2>3. new = [cache EXCEPT ![Uses[t]] = row]
    OBVIOUS
  <2>4. new \in [Conns -> [Names -> 0 .. MaxObjects]]
    <3> HIDE DEF row, new
    <3> QED BY <2>2, <2>3
  <2> QED BY <1>8, <2>4 DEF StoreTable
<1>9. ASSUME NEW t \in Threads, Send(t)
      PROVE  /\ found' \in [Threads -> 0 .. MaxObjects]
             /\ reading' \in [Conns -> 0 .. MaxObjects]
  BY <1>9, EntryType DEF Send
<1>10. ASSUME NEW t \in Threads, StartQuery(t) PROVE TypeOK'
  BY <1>9, <1>10 DEF StartQuery
<1>11. ASSUME NEW t \in Threads, StartStream(t) PROVE TypeOK'
  BY <1>9, <1>11 DEF StartStream, Unlock
<1>12. ASSUME NEW t \in Threads, FinishQuery(t) PROVE TypeOK'
  BY <1>12 DEF FinishQuery, Unlock
<1>13. ASSUME NEW t \in Threads, RefuseStream(t) \/ RefuseQuery(t) PROVE TypeOK'
  BY <1>13 DEF RefuseStream, RefuseQuery, Unlock
<1>14. ASSUME NEW t \in Threads, StreamNone(t) \/ StreamChunk(t) PROVE TypeOK'
  BY <1>14 DEF StreamNone, StreamChunk, Unlock
<1>15. ASSUME NEW t \in Threads, StreamEnd(t) PROVE TypeOK'
  BY <1>15 DEF StreamEnd, Unlock
<1>16. 0 \in 0 .. MaxObjects
  OBVIOUS
<1>17. ASSUME NEW t \in Threads, ReturnPlain(t) PROVE TypeOK'
  BY <1>16, <1>17, NoCallType DEF ReturnPlain, Leave
<1>18. ASSUME NEW t \in Threads, ClearParameters(t) PROVE TypeOK'
  BY <1>16, <1>18, NoCallType DEF ClearParameters, Leave
<1> QED
  BY <1>1, <1>2, <1>3, <1>4, <1>5, <1>6, <1>7, <1>8, <1>10, <1>11, <1>12,
     <1>13, <1>14, <1>15, <1>17, <1>18 DEF Next

\* The variables keep their types, whatever threads and connections there are.
THEOREM TypeCorrect == Spec => []TypeOK
  BY TypeInit, TypeStep, PTL DEF Spec

-----------------------------------------------------------------------------
(* Parameters that are set belong to a call under way.                     *)

\* Thread u is in a call that has set parameters on connection c.
Answers(u, c) ==
  Uses[u] = c /\ call[u].par # {} /\ pc[u] \notin {"idle", "guard"}

\* A thread that answers for parameters does so until it clears them.
LEMMA AnswersKept ==
  ASSUME TypeOK, NEW u \in Threads, NEW c \in Conns, Answers(u, c), [Next]_vars,
         ~ClearParameters(u)
  PROVE  Answers(u, c)'
<1> USE PythonAssumption DEF TypeOK, Answers
<1>1. CASE UNCHANGED vars
  BY <1>1 DEF vars
<1>2. ASSUME NEW t \in Threads, NEW n \in Names, Rebind(t, n)
      PROVE  Answers(u, c)'
  BY <1>2 DEF Rebind
<1>3. ASSUME NEW t \in Threads, NEW k \in Kinds[t], NEW P \in SUBSET Bindings,
             NEW n \in Names \cup {NoName}, Call(t, k, P, n) \/ CallStream(t, k)
      PROVE  Answers(u, c)'
  BY <1>3 DEF Call, CallStream
<1>4. ASSUME NEW t \in Threads,
             SkipParameters(t) \/ SetParameters(t) \/ FindCached(t)
               \/ FindFrame(t) \/ StoreTable(t) \/ LockClient(t) \/ TakeGil(t)
      PROVE  Answers(u, c)'
  BY <1>4 DEF SkipParameters, SetParameters, FindCached, FindFrame,
              StoreTable, LockClient, TakeGil
<1>5. ASSUME NEW t \in Threads, StartQuery(t) \/ StartStream(t)
      PROVE  Answers(u, c)'
  BY <1>5 DEF StartQuery, StartStream, Send, Unlock
<1>6. ASSUME NEW t \in Threads,
             FinishQuery(t) \/ RefuseQuery(t) \/ RefuseStream(t) \/ StreamNone(t)
               \/ StreamChunk(t) \/ StreamEnd(t)
      PROVE  Answers(u, c)'
  BY <1>6
     DEF FinishQuery, RefuseQuery, RefuseStream, StreamNone, StreamChunk, StreamEnd, Unlock
<1>7. ASSUME NEW t \in Threads, ReturnPlain(t) \/ ClearParameters(t)
      PROVE  Answers(u, c)'
  BY <1>7 DEF ReturnPlain, ClearParameters, Leave
<1> QED
  BY <1>1, <1>2, <1>3, <1>4, <1>5, <1>6, <1>7 DEF Next

\* Only setQueryParameters and clearQueryParameters change the parameters.
LEMMA ParamsChange ==
  ASSUME [Next]_vars, params' # params
  PROVE  \E t \in Threads : SetParameters(t) \/ ClearParameters(t)
  BY ZenonT(40) DEF Next, vars, Rebind, Call, CallStream, SkipParameters, FindCached,
         FindFrame, StoreTable, LockClient, StartQuery, FinishQuery,
         StartStream, RefuseQuery, RefuseStream, StreamNone, StreamChunk, StreamEnd,
         TakeGil, ReturnPlain

LEMMA ClearedStep ==
  TypeOK /\ ParametersCleared /\ [Next]_vars => ParametersCleared'
<1> SUFFICES ASSUME TypeOK, ParametersCleared, [Next]_vars,
                    NEW c \in Conns, params'[c] # {}
             PROVE  \E u \in Threads : Answers(u, c)'
  BY DEF ParametersCleared, Answers
<1> USE PythonAssumption DEF TypeOK
<1>1. CASE \E t \in Threads : SetParameters(t) /\ Uses[t] = c
  <2> PICK t \in Threads : SetParameters(t) /\ Uses[t] = c
    BY <1>1
  <2> QED BY DEF SetParameters, Answers
<1>2. CASE ~ \E t \in Threads : SetParameters(t) /\ Uses[t] = c
  <2>1. params'[c] = params[c] /\ ~ \E t \in Threads : ClearParameters(t) /\ Uses[t] = c
    BY <1>2, ParamsChange, ZenonT(40) DEF SetParameters, ClearParameters
  <2>2. PICK u \in Threads : Answers(u, c)
    BY <2>1 DEF ParametersCleared, Answers
  <2> QED BY <2>1, <2>2, AnswersKept DEF Answers
<1> QED BY <1>1, <1>2

\* Parameters never outlive the calls that brought them, on any number of
\* connections and however the threads share them.
THEOREM ParametersAlwaysCleared == Spec => []ParametersCleared
<1>1. Init => ParametersCleared
  BY DEF Init, ParametersCleared
<1> QED
  BY <1>1, ClearedStep, TypeCorrect, PTL DEF Spec

-----------------------------------------------------------------------------
(* The table cache of a thread that only runs queries.                     *)

\* The thread has its connection for itself and opens no stream on it.
Plain(t) ==
  /\ \A u \in Threads : Uses[u] = Uses[t] => u = t
  /\ Kinds[t] = {"query"}

\* What the cache holds at each point of such a thread's query: nothing but,
\* between the lookup and the end of the statement, the caller's own object.
TableAt(t) ==
  /\ call[t].name = NoName => call[t].obj = 0
  /\ pc[t] # "idle" => call[t].kind = "query"
  /\ pc[t] = "store" => call[t].name # NoName
  /\ pc[t] \notin {"execute", "start", "finish"} =>
       \A n \in Names : cache[Uses[t]][n] = 0
  /\ pc[t] \in {"execute", "start", "finish"} => Entry(t) = call[t].obj
  /\ pc[t] \in {"finish", "return", "unguard"} => found[t] = call[t].obj

TablesInv == \A t \in Threads : Plain(t) => TableAt(t)

\* A step of a thread with another connection leaves all this alone.
LEMMA TableOther ==
  ASSUME TypeOK, NEW t \in Threads, TableAt(t),
         pc'[t] = pc[t], call'[t] = call[t], found'[t] = found[t],
         cache'[Uses[t]] = cache[Uses[t]]
  PROVE  TableAt(t)'
BY DEF TableAt, Entry

\* Which row of the cache a step may touch, and whose place in a call.
LEMMA StepIsLocal ==
  ASSUME TypeOK, [Next]_vars, NEW t \in Threads, Plain(t)
  PROVE  \/ /\ pc'[t] = pc[t] /\ call'[t] = call[t] /\ found'[t] = found[t]
            /\ cache'[Uses[t]] = cache[Uses[t]]
         \/ \E k \in Kinds[t], P \in SUBSET Bindings, n \in Names \cup {NoName} :
              Call(t, k, P, n)
         \/ \E k \in Kinds[t] : CallStream(t, k)
         \/ SkipParameters(t) \/ SetParameters(t)
         \/ FindCached(t) \/ FindFrame(t) \/ StoreTable(t) \/ LockClient(t)
         \/ StartQuery(t) \/ FinishQuery(t) \/ RefuseQuery(t)
         \/ StartStream(t) \/ RefuseStream(t)
         \/ StreamNone(t) \/ StreamChunk(t) \/ StreamEnd(t)
         \/ TakeGil(t) \/ ReturnPlain(t) \/ ClearParameters(t)
<1> DEFINE Same == /\ pc'[t] = pc[t] /\ call'[t] = call[t] /\ found'[t] = found[t]
                   /\ cache'[Uses[t]] = cache[Uses[t]]
<1> USE PythonAssumption DEF TypeOK
<1>1. ASSUME UNCHANGED vars PROVE Same
  BY <1>1 DEF vars
<1>2. ASSUME NEW u \in Threads, NEW n \in Names, Rebind(u, n) PROVE Same
  BY <1>2 DEF Rebind
<1>3. ASSUME NEW u \in Threads \ {t}, NEW k, NEW P, NEW n, Call(u, k, P, n) \/ CallStream(u, k)
      PROVE  Same
  BY <1>3 DEF Call, CallStream
<1>4. ASSUME NEW u \in Threads \ {t},
             SkipParameters(u) \/ SetParameters(u) \/ FindCached(u) \/ FindFrame(u)
               \/ LockClient(u) \/ TakeGil(u)
      PROVE  Same
  BY <1>4 DEF SkipParameters, SetParameters, FindCached, FindFrame, LockClient, TakeGil
<1>5. \A u \in Threads \ {t} : Uses[u] \in Conns /\ Uses[u] # Uses[t]
  BY DEF Plain
<1>6. ASSUME NEW u \in Threads \ {t}, StoreTable(u) PROVE Same
  <2>1. pc'[t] = pc[t] /\ call'[t] = call[t] /\ found'[t] = found[t]
    BY <1>6 DEF StoreTable
  <2>2. PICK v : cache' = [cache EXCEPT ![Uses[u]] = v]
    BY <1>6 DEF StoreTable
  <2>3. cache'[Uses[t]] = cache[Uses[t]]
    BY <1>5, <2>2
  <2> QED BY <2>1, <2>3
<1>7. ASSUME NEW u \in Threads \ {t}, StartQuery(u) \/ StartStream(u) PROVE Same
  <2>1. CASE StartQuery(u)
    BY <2>1 DEF StartQuery, Send
  <2>2. CASE StartStream(u)
    BY <2>2 DEF StartStream, Send, Unlock
  <2> QED BY <1>7, <2>1, <2>2
<1>8. ASSUME NEW u \in Threads \ {t}, FinishQuery(u) \/ StreamEnd(u) PROVE Same
  <2>1. pc'[t] = pc[t] /\ call'[t] = call[t] /\ found'[t] = found[t]
    BY <1>8 DEF FinishQuery, StreamEnd, Unlock
  <2>2. cache'[Uses[t]] = cache[Uses[t]]
    BY <1>5, <1>8 DEF FinishQuery, StreamEnd
  <2> QED BY <2>1, <2>2
<1>9. ASSUME NEW u \in Threads \ {t}, RefuseStream(u) \/ RefuseQuery(u) \/ StreamNone(u)
               \/ StreamChunk(u)
      PROVE  Same
  BY <1>9 DEF RefuseStream, RefuseQuery, StreamNone, StreamChunk, Unlock
<1>10. ASSUME NEW u \in Threads \ {t}, ReturnPlain(u) \/ ClearParameters(u) PROVE Same
  BY <1>10 DEF ReturnPlain, ClearParameters, Leave
<1> HIDE DEF Same, TypeOK
<1>11. PICK u \in Threads :
    \/ UNCHANGED vars
    \/ \E n \in Names : Rebind(u, n)
    \/ \E k \in Kinds[u], P \in SUBSET Bindings, n \in Names \cup {NoName} :
         Call(u, k, P, n)
    \/ \E k \in Kinds[u] : CallStream(u, k)
    \/ SkipParameters(u) \/ SetParameters(u)
    \/ FindCached(u) \/ FindFrame(u) \/ StoreTable(u)
    \/ LockClient(u)
    \/ StartQuery(u) \/ FinishQuery(u) \/ RefuseQuery(u)
    \/ StartStream(u) \/ RefuseStream(u)
    \/ StreamNone(u) \/ StreamChunk(u) \/ StreamEnd(u)
    \/ TakeGil(u) \/ ReturnPlain(u) \/ ClearParameters(u)
  BY DEF Next
<1>12. CASE u = t
  <2>1. UNCHANGED vars \/ (\E n \in Names : Rebind(u, n)) => Same
    BY <1>1, <1>2
  <2> QED BY <1>11, <1>12, <2>1 DEF Same
<1>13. CASE u # t
  <2>1. Same
    BY <1>1, <1>2, <1>3, <1>4, <1>6, <1>7, <1>8, <1>9, <1>10, <1>11, <1>13
  <2> QED BY <2>1 DEF Same
<1> QED BY <1>12, <1>13

LEMMA TablesStep ==
  ASSUME TypeOK, TablesInv, [Next]_vars
  PROVE  TablesInv'
<1> SUFFICES ASSUME NEW t \in Threads, Plain(t) PROVE TableAt(t)'
  BY DEF TablesInv, Plain
<1>1. TableAt(t) /\ Uses[t] \in Conns /\ Kinds[t] = {"query"}
  BY PythonAssumption DEF TablesInv, Plain
<1>2. /\ pc \in [Threads -> Steps] /\ call \in [Threads -> Calls]
      /\ cache \in [Conns -> [Names -> 0 .. MaxObjects]]
      /\ found \in [Threads -> 0 .. MaxObjects]
      /\ call[t].name \in Names \cup {NoName}
  BY DEF TypeOK, Calls
<1>3. CASE /\ pc'[t] = pc[t] /\ call'[t] = call[t] /\ found'[t] = found[t]
           /\ cache'[Uses[t]] = cache[Uses[t]]
  BY <1>1, <1>3, TableOther
<1>4. ASSUME NEW k \in Kinds[t], NEW P \in SUBSET Bindings, NEW n \in Names \cup {NoName},
             Call(t, k, P, n)
      PROVE  TableAt(t)'
  BY <1>1, <1>2, <1>4 DEF Call, Made, TableAt
<1>5. ASSUME NEW k \in Kinds[t], CallStream(t, k) PROVE TableAt(t)'
  BY <1>1, <1>5 DEF CallStream
<1>6. CASE SkipParameters(t) \/ SetParameters(t) \/ FindFrame(t)
  BY <1>1, <1>2, <1>6 DEF SkipParameters, SetParameters, FindFrame, TableAt, Entry
<1>7. CASE FindCached(t)
  BY <1>1, <1>2, <1>7 DEF FindCached, TableAt, Entry
<1>8. CASE StoreTable(t)
  <2>1. PICK n \in Names : n = call[t].name
    BY <1>1, <1>2, <1>8 DEF StoreTable, TableAt
  <2>2. cache[Uses[t]][n] = 0
    BY <1>1, <1>8, <2>1 DEF StoreTable, TableAt
  <2>3. cache' = [cache EXCEPT ![Uses[t]][n] = IF @ = 0 THEN call[t].obj ELSE @]
    BY <1>8, <2>1 DEF StoreTable
  <2>4. cache'[Uses[t]][n] = call[t].obj
    BY <1>1, <1>2, <2>1, <2>2, <2>3
  <2>5. pc'[t] = "execute" /\ call' = call /\ found' = found
    BY <1>2, <1>8 DEF StoreTable
  <2>6. Entry(t)' = call'[t].obj
    BY <2>1, <2>4, <2>5, PythonAssumption DEF Entry
  <2> QED BY <1>1, <1>8, <2>5, <2>6 DEF TableAt, StoreTable
<1>9. CASE LockClient(t)
  BY <1>1, <1>2, <1>9 DEF LockClient, TableAt, Entry
<1>10. CASE StartQuery(t)
  <2>1. /\ pc[t] = "start" /\ pc'[t] = "finish" /\ call' = call /\ cache' = cache
        /\ found'[t] = Entry(t)
    BY <1>2, <1>10 DEF StartQuery, Send
  <2> QED BY <1>1, <2>1 DEF TableAt, Entry
<1>11. CASE FinishQuery(t)
  BY <1>1, <1>2, <1>11 DEF FinishQuery, Unlock, TableAt
<1>12. CASE RefuseQuery(t) \/ StartStream(t) \/ RefuseStream(t) \/ StreamNone(t) \/ StreamChunk(t)
            \/ StreamEnd(t)
  BY <1>1, <1>12 DEF RefuseQuery, StartStream, RefuseStream, StreamNone, StreamChunk, StreamEnd, TableAt
<1>13. CASE TakeGil(t)
  BY <1>1, <1>2, <1>13 DEF TakeGil, TableAt
<1>14. CASE ReturnPlain(t) \/ ClearParameters(t)
  BY <1>1, <1>2, <1>14 DEF ReturnPlain, ClearParameters, Leave, NoCall, Made, TableAt
<1> QED
  BY <1>3, <1>4, <1>5, <1>6, <1>7, <1>8, <1>9, <1>10, <1>11, <1>12, <1>13, <1>14, StepIsLocal

\* In a thread that has its connection for itself and opens no stream on it,
\* python(name) always reads the object the variable refers to, whatever the
\* other threads do with their connections: PythonTableCache never answers
\* with a borrowed handle of an earlier query.
THEOREM TablesAlwaysOwn == Spec => []OwnTables
<1>1. Init => TablesInv
  BY PythonAssumption DEF Init, TablesInv, TableAt, NoCall, Made
<1>2. TypeOK /\ TablesInv /\ [Next]_vars => TablesInv'
  BY TablesStep
<1>3. TablesInv => OwnTables
  BY DEF TablesInv, TableAt, Plain, OwnTables
<1> QED
  BY <1>1, <1>2, <1>3, TypeCorrect, PTL DEF Spec
=============================================================================
