----------------------------- MODULE PythonCalls ------------------------------
(***************************************************************************)
(* What the Python binding adds to a statement: named parameters, Python   *)
(* objects read as tables, and a second lock.  It models                   *)
(* connection_wrapper::query, query_df, send_query, streaming_fetch_result *)
(* and streaming_cancel_query with their QueryParameterGuard               *)
(* (programs/local/LocalChdb.cpp), the ChdbClient methods they call        *)
(* (ChdbClient.cpp), PythonTableCache and the lookup in the python() table *)
(* function (PythonTableCache.cpp, TableFunctionPython.cpp).               *)
(*                                                                         *)
(* A caller enters with the interpreter lock (GIL) and sets its parameters *)
(* and looks up its tables under it; it gives the GIL up for the statement *)
(* itself, which holds client_mutex and takes the GIL whenever it touches  *)
(* a Python object; it ends with the GIL back, and clears its parameters.  *)
(* A section that takes a lock and releases it before it waits for another *)
(* is one step that the lock's holder blocks.  How the rows of a stream    *)
(* travel is in StreamingQuery; here a fetch delivers a chunk or ends the  *)
(* stream of its connection.                                               *)
(*                                                                         *)
(* Statements are SELECTs, refused ones apart.                             *)
(*                                                                         *)
(* Objects are numbered in the order they are created, so that a handle to *)
(* a destroyed one can be told from one to its successor.                  *)
(***************************************************************************)
EXTENDS Naturals

CONSTANTS
  Threads,     \* Python threads
  Conns,       \* connections
  Uses,        \* the connection each thread uses
  Names,       \* variables of a thread's frame that hold tables
  Bindings,    \* name/value pairs of query parameters
  Kinds,       \* per thread: the calls it makes
  MaxObjects,  \* bound: how many table objects the program creates
  NoThread, NoName

\* The calls: query and query_df, or one that an open insert stream bars;
\* send_query, or one that is refused; fetch, cancel.
CallKinds == {"query", "barred", "send", "refused", "fetch", "cancel"}

ASSUME PythonAssumption ==
  /\ Uses \in [Threads -> Conns]
  /\ Kinds \in [Threads -> SUBSET CallKinds]
  /\ MaxObjects \in Nat
  /\ NoThread \notin Threads
  /\ NoName \notin Names

VARIABLES
  gil,        \* the thread that holds the GIL
  mutex,      \* per connection: the thread that holds client_mutex
  params,     \* per connection: query_parameters
  cache,      \* per connection: PythonTableCache, object numbers or 0
  streaming,  \* per connection: streaming_query_context is set
  reading,    \* per connection: the table its unfinished query keeps alive
  bound,      \* per thread: the objects its variables refer to, or 0
  born,       \* how many objects have been created
  pc,         \* per thread: where it is
  call,       \* per thread: the call it makes
  found       \* per thread: the table object its statement reads, or 0

vars ==
  <<gil, mutex, params, cache, streaming, reading, bound, born, pc, call,
    found>>

Callers == Threads \cup {NoThread}

\* A call: its parameters, its table and the object the table's name stands
\* for in the caller's frame.
Made(k, P, n, o) == [kind |-> k, par |-> P, name |-> n, obj |-> o]

NoCall == Made("none", {}, NoName, 0)

Init ==
  /\ gil = NoThread
  /\ mutex = [c \in Conns |-> NoThread]
  /\ params = [c \in Conns |-> {}]
  /\ cache = [c \in Conns |-> [n \in Names |-> 0]]
  /\ streaming = [c \in Conns |-> FALSE]
  /\ reading = [c \in Conns |-> 0]
  /\ bound = [t \in Threads |-> [n \in Names |-> 0]]
  /\ born = 0
  /\ pc = [t \in Threads |-> "idle"]
  /\ call = [t \in Threads |-> NoCall]
  /\ found = [t \in Threads |-> 0]

-----------------------------------------------------------------------------
(* The program.                                                            *)

\* A variable is bound to a new table; an object nothing refers to is freed.
Rebind(t, n) ==
  /\ pc[t] = "idle"
  /\ gil = NoThread
  /\ born < MaxObjects
  /\ born' = born + 1
  /\ bound' = [bound EXCEPT ![t][n] = born + 1]
  /\ UNCHANGED <<gil, mutex, params, cache, streaming, reading, pc, call,
                 found>>

\* query, query_df and send_query.  A "refused" send_query is one whose text
\* does not parse or is no SELECT.
Call(t, k, P, n) ==
  /\ pc[t] = "idle"
  /\ gil = NoThread
  /\ k \in Kinds[t] \cap {"query", "barred", "send", "refused"}
  /\ gil' = t
  /\ pc' = [pc EXCEPT ![t] = "guard"]
  /\ call' = [call EXCEPT ![t] =
       Made(k, P, n, IF n = NoName THEN 0 ELSE bound[t][n])]
  /\ UNCHANGED <<mutex, params, cache, streaming, reading, bound, born,
                 found>>

\* streaming_fetch_result and streaming_cancel_query give the GIL up at once.
CallStream(t, k) ==
  /\ pc[t] = "idle"
  /\ gil = NoThread
  /\ k \in Kinds[t] \cap {"fetch", "cancel"}
  /\ pc' = [pc EXCEPT ![t] = "execute"]
  /\ call' = [call EXCEPT ![t] = Made(k, {}, NoName, 0)]
  /\ UNCHANGED <<gil, mutex, params, cache, streaming, reading, bound, born,
                 found>>

-----------------------------------------------------------------------------
(* QueryParameterGuard and cachePythonTablesFromQuery, with the GIL held.  *)

SkipParameters(t) ==
  /\ pc[t] = "guard"
  /\ call[t].par = {}
  /\ pc' = [pc EXCEPT ![t] = "find"]
  /\ UNCHANGED <<gil, mutex, params, cache, streaming, reading, bound, born,
                 call, found>>

\* setQueryParameters, under client_mutex: the whole map is replaced.
SetParameters(t) ==
  /\ pc[t] = "guard"
  /\ call[t].par # {}
  /\ mutex[Uses[t]] = NoThread
  /\ params' = [params EXCEPT ![Uses[t]] = call[t].par]
  /\ pc' = [pc EXCEPT ![t] = "find"]
  /\ UNCHANGED <<gil, mutex, cache, streaming, reading, bound, born, call,
                 found>>

\* getQueryableObj: the entry of the caller's table.
Entry(t) == IF call[t].name = NoName THEN 0 ELSE cache[Uses[t]][call[t].name]

\* findQueryableObjFromQuery: a name that is cached is not looked up again.
FindCached(t) ==
  /\ pc[t] = "find"
  /\ (call[t].name = NoName \/ Entry(t) # 0)
  /\ gil' = NoThread
  /\ pc' = [pc EXCEPT ![t] = "execute"]
  /\ UNCHANGED <<mutex, params, cache, streaming, reading, bound, born, call,
                 found>>

\* Otherwise the frames are walked by Python code, which the interpreter may
\* suspend in favour of another thread ...
FindFrame(t) ==
  /\ pc[t] = "find"
  /\ call[t].name # NoName
  /\ Entry(t) = 0
  /\ gil' \in {t, NoThread}
  /\ pc' = [pc EXCEPT ![t] = "store"]
  /\ UNCHANGED <<mutex, params, cache, streaming, reading, bound, born, call,
                 found>>

\* ... and emplace keeps an entry made meanwhile.  The GIL is given up.
StoreTable(t) ==
  /\ pc[t] = "store"
  /\ gil \in {t, NoThread}
  /\ cache' = [cache EXCEPT ![Uses[t]][call[t].name] =
                 IF @ = 0 THEN call[t].obj ELSE @]
  /\ gil' = NoThread
  /\ pc' = [pc EXCEPT ![t] = "execute"]
  /\ UNCHANGED <<mutex, params, streaming, reading, bound, born, call, found>>

-----------------------------------------------------------------------------
(* The statement, under client_mutex.  A step that touches Python objects, *)
(* frees them or clears the cache waits for the GIL.                       *)

LockClient(t) ==
  /\ pc[t] = "execute"
  /\ mutex[Uses[t]] = NoThread
  /\ mutex' = [mutex EXCEPT ![Uses[t]] = t]
  /\ pc' = [pc EXCEPT ![t] = "start"]
  /\ UNCHANGED <<gil, params, cache, streaming, reading, bound, born, call,
                 found>>

Unlock(t) ==
  /\ mutex' = [mutex EXCEPT ![Uses[t]] = NoThread]
  /\ pc' = [pc EXCEPT ![t] = "return"]

\* sendQuery: the previous query is dropped, the parameters are copied and
\* python(name) takes the object from the cache.
Send(t) ==
  /\ (call[t].name # NoName \/ reading[Uses[t]] # 0) => gil = NoThread
  /\ found' = [found EXCEPT ![t] = Entry(t)]
  /\ reading' = [reading EXCEPT ![Uses[t]] = Entry(t)]

\* executeMaterializedQuery ...
StartQuery(t) ==
  /\ pc[t] = "start"
  /\ call[t].kind = "query"
  /\ Send(t)
  /\ pc' = [pc EXCEPT ![t] = "finish"]
  /\ UNCHANGED <<gil, mutex, params, cache, streaming, bound, born, call>>

\* Mutant: a query leaves the cache as it is.
FinishQueryKeepsCache(t) ==
  /\ pc[t] = "finish"
  /\ gil = NoThread
  /\ reading' = [reading EXCEPT ![Uses[t]] = IF streaming[Uses[t]] THEN @ ELSE 0]
  /\ Unlock(t)
  /\ UNCHANGED <<gil, params, cache, streaming, bound, born, call, found>>

\* Mutant: clear() drops the map instead of its entries.
FinishQueryDropsMap(t) ==
  /\ pc[t] = "finish"
  /\ gil = NoThread
  /\ reading' = [reading EXCEPT ![Uses[t]] = IF streaming[Uses[t]] THEN @ ELSE 0]
  /\ cache' = [cache EXCEPT ![Uses[t]] = [n \in {} |-> 0]]
  /\ Unlock(t)
  /\ UNCHANGED <<gil, params, streaming, bound, born, call, found>>

\* ... which ends, well or not, with python_table_cache->clear().  On a
\* connection with a stream the query was only sent, and is not finished.
FinishQuery(t) ==
  /\ pc[t] = "finish"
  /\ gil = NoThread
  /\ reading' = [reading EXCEPT ![Uses[t]] = IF streaming[Uses[t]] THEN @ ELSE 0]
  /\ cache' = [cache EXCEPT ![Uses[t]] = [n \in Names |-> 0]]
  /\ Unlock(t)
  /\ UNCHANGED <<gil, params, streaming, bound, born, call, found>>

\* While an insert stream is open on the connection it returns before any of
\* this, and the cache stays.
RefuseQuery(t) ==
  /\ pc[t] = "start"
  /\ call[t].kind = "barred"
  /\ Unlock(t)
  /\ UNCHANGED <<gil, params, cache, streaming, reading, bound, born, call,
                 found>>

\* executeStreamingInit: the cache stays.
StartStream(t) ==
  /\ pc[t] = "start"
  /\ call[t].kind = "send"
  /\ Send(t)
  /\ streaming' = [streaming EXCEPT ![Uses[t]] = TRUE]
  /\ Unlock(t)
  /\ UNCHANGED <<gil, params, cache, bound, born, call>>

\* A statement that never reaches the connection: the new context is reset
\* and, again, the cache stays.
RefuseStream(t) ==
  /\ pc[t] = "start"
  /\ call[t].kind = "refused"
  /\ streaming' = [streaming EXCEPT ![Uses[t]] = FALSE]
  /\ Unlock(t)
  /\ UNCHANGED <<gil, params, cache, reading, bound, born, call, found>>

\* No stream: an error for a fetch, nothing for a cancel.
StreamNone(t) ==
  /\ pc[t] = "start"
  /\ call[t].kind \in {"fetch", "cancel"}
  /\ ~streaming[Uses[t]]
  /\ Unlock(t)
  /\ UNCHANGED <<gil, params, cache, streaming, reading, bound, born, call,
                 found>>

\* A chunk of the stream; one of a Python table is read with the GIL.
StreamChunk(t) ==
  /\ pc[t] = "start"
  /\ call[t].kind = "fetch"
  /\ streaming[Uses[t]]
  /\ reading[Uses[t]] # 0 => gil = NoThread
  /\ Unlock(t)
  /\ UNCHANGED <<gil, params, cache, streaming, reading, bound, born, call,
                 found>>

\* The end of the stream, an error of it, or its cancellation.
StreamEnd(t) ==
  /\ pc[t] = "start"
  /\ call[t].kind \in {"fetch", "cancel"}
  /\ streaming[Uses[t]]
  /\ gil = NoThread
  /\ streaming' = [streaming EXCEPT ![Uses[t]] = FALSE]
  /\ reading' = [reading EXCEPT ![Uses[t]] = 0]
  /\ cache' = [cache EXCEPT ![Uses[t]] = [n \in Names |-> 0]]
  /\ Unlock(t)
  /\ UNCHANGED <<gil, params, bound, born, call, found>>

-----------------------------------------------------------------------------
(* The way out: gil_scoped_release, then the guard's destructor.           *)

TakeGil(t) ==
  /\ pc[t] = "return"
  /\ gil = NoThread
  /\ gil' = t
  /\ pc' = [pc EXCEPT ![t] = "unguard"]
  /\ UNCHANGED <<mutex, params, cache, streaming, reading, bound, born, call,
                 found>>

Leave(t) ==
  /\ gil' = NoThread
  /\ pc' = [pc EXCEPT ![t] = "idle"]
  /\ call' = [call EXCEPT ![t] = NoCall]
  /\ found' = [found EXCEPT ![t] = 0]

ReturnPlain(t) ==
  /\ pc[t] = "unguard"
  /\ call[t].par = {}
  /\ Leave(t)
  /\ UNCHANGED <<mutex, params, cache, streaming, reading, bound, born>>

\* Mutant: the parameters of a statement that did not run are forgotten.
ClearParametersOfQuery(t) ==
  /\ pc[t] = "unguard"
  /\ call[t].par # {}
  /\ mutex[Uses[t]] = NoThread
  /\ params' = IF call[t].kind \in {"refused", "barred"}
               THEN params ELSE [params EXCEPT ![Uses[t]] = {}]
  /\ Leave(t)
  /\ UNCHANGED <<mutex, cache, streaming, reading, bound, born>>

\* clearQueryParameters, under client_mutex and with the GIL held.
ClearParameters(t) ==
  /\ pc[t] = "unguard"
  /\ call[t].par # {}
  /\ mutex[Uses[t]] = NoThread
  /\ params' = [params EXCEPT ![Uses[t]] = {}]
  /\ Leave(t)
  /\ UNCHANGED <<mutex, cache, streaming, reading, bound, born>>

-----------------------------------------------------------------------------
Next ==
  \E t \in Threads :
    \/ \E n \in Names : Rebind(t, n)
    \/ \E k \in Kinds[t], P \in SUBSET Bindings, n \in Names \cup {NoName} :
         Call(t, k, P, n)
    \/ \E k \in Kinds[t] : CallStream(t, k)
    \/ SkipParameters(t) \/ SetParameters(t)
    \/ FindCached(t) \/ FindFrame(t) \/ StoreTable(t)
    \/ LockClient(t)
    \/ StartQuery(t) \/ FinishQuery(t) \/ RefuseQuery(t)
    \/ StartStream(t) \/ RefuseStream(t)
    \/ StreamNone(t) \/ StreamChunk(t) \/ StreamEnd(t)
    \/ TakeGil(t) \/ ReturnPlain(t) \/ ClearParameters(t)

Spec == Init /\ [][Next]_vars

-----------------------------------------------------------------------------
(* Properties.                                                             *)

Steps ==
  {"idle", "guard", "find", "store", "execute", "start", "finish", "return",
   "unguard"}

Calls ==
  [kind : CallKinds \cup {"none"}, par : SUBSET Bindings, name : Names \cup {NoName},
   obj : 0 .. MaxObjects]

\* The values of the variables.
TypeOK ==
  /\ gil \in Callers
  /\ mutex \in [Conns -> Callers]
  /\ params \in [Conns -> SUBSET Bindings]
  /\ cache \in [Conns -> [Names -> 0 .. MaxObjects]]
  /\ streaming \in [Conns -> BOOLEAN]
  /\ reading \in [Conns -> 0 .. MaxObjects]
  /\ bound \in [Threads -> [Names -> 0 .. MaxObjects]]
  /\ born \in 0 .. MaxObjects
  /\ pc \in [Threads -> Steps]
  /\ call \in [Threads -> Calls]
  /\ found \in [Threads -> 0 .. MaxObjects]

\* A thread that waits for client_mutex with the GIL, and one that waits for
\* the GIL with that client_mutex.
WaitsForClient(t) ==
  /\ pc[t] \in {"guard", "unguard"}
  /\ call[t].par # {}
  /\ mutex[Uses[t]] # NoThread

WaitsForGil(t) ==
  /\ gil # NoThread
  /\ \/ pc[t] = "finish"
     \/ /\ pc[t] = "start"
        /\ call[t].kind \in {"query", "send"}
        /\ call[t].name # NoName \/ reading[Uses[t]] # 0

\* The two locks are never waited for in a circle: a caller of query(params=)
\* that waits for client_mutex with the GIL does not wait for a statement
\* that cannot go on without the GIL.
NoLockCycle ==
  \A t \in Threads :
    WaitsForClient(t) /\ gil = t => ~WaitsForGil(mutex[Uses[t]])

\* Parameters never outlive the calls that brought them, whatever becomes of
\* the statements: "then unconditionally clears them".
ParametersCleared ==
  \A c \in Conns :
    params[c] # {} =>
      \E t \in Threads :
        Uses[t] = c /\ call[t].par # {} /\ pc[t] \notin {"idle", "guard"}

\* In a thread that has its connection for itself and opens no stream on it,
\* python(name) reads the object that the variable refers to, and never an
\* earlier value of it that PythonTableCache kept.
OwnTables ==
  \A t \in Threads :
    /\ \A u \in Threads : Uses[u] = Uses[t] => u = t
    /\ Kinds[t] = {"query"}
    /\ pc[t] \in {"finish", "return", "unguard"}
    => found[t] = call[t].obj

=============================================================================
