--------------------------- MODULE ExecutorTasks ---------------------------
(***************************************************************************)
(* How the threads of one query share its tasks                            *)
(* (Processors/Executors/ExecutorTasks.cpp and PipelineExecutor.cpp, with  *)
(* max_threads > 1): the task queues, the set of idle threads and its      *)
(* wake-ups, the asynchronous tasks the main thread waits for, threads     *)
(* that are spawned, preempted, resumed and downscaled with their CPU      *)
(* slots, cancellation, and the rule by which the last active thread ends  *)
(* the execution.                                                          *)
(*                                                                         *)
(* A task is one run of a processor.  What a run makes ready is decided by *)
(* the graph (ExecutingGraph::updateNode) and is a constant here.  The     *)
(* queue a task is in decides only which thread prefers it, so the queues  *)
(* of all slots are one set.  A step is what a thread does under `mutex';  *)
(* waking the thread that a step has taken from threads_queue belongs to   *)
(* that step, for it only lets that thread go on.                          *)
(***************************************************************************)
EXTENDS Integers, FiniteSets, FiniteSetsExt

CONSTANTS
  Tasks,        \* runs of processors
  Roots,        \* the tasks ready at the start
  Ready,        \* per task: the tasks its run makes ready
  Async,        \* the tasks that become ready with an event of a descriptor
  NoTask,
  Workers,      \* threads of the pool, each of which is started at most once
  Main,         \* the thread that has called execute()
  NumThreads,   \* num_threads
  TooManyIdle   \* TOO_MANY_IDLE_THRESHOLD

ASSUME TasksAssumption ==
  /\ Roots \subseteq Tasks /\ Async \subseteq Tasks
  /\ Ready \in [Tasks -> SUBSET (Tasks \ Roots)]
  /\ \A t, u \in Tasks : t # u => Ready[t] \cap Ready[u] = {}
  /\ NoTask \notin Tasks
  /\ IsFiniteSet(Workers) /\ Workers # {}
  /\ Main \notin Workers
  /\ NumThreads \in Nat \ {0, 1}
  /\ TooManyIdle \in Nat

Slots == 0..(NumThreads - 1)

NoSlot == -1

VARIABLES
  finished,     \* finished, and the polling queue's is_finished
  cancelled,    \* the status left `Executing' by cancel()
  queue,        \* task_queue
  fast,         \* fast_task_queue
  polled,       \* async_task_queue
  idle,         \* threads_queue
  slotCount,    \* slot_count
  useThreads,   \* use_threads
  total,        \* total_slots
  node,         \* the task of each slot's context
  wake,         \* wake_flag of each slot's context
  leased,       \* the slots that are acquired
  preempted,    \* the leased slots that wait for a grant
  freed,        \* the allocation was freed
  th,           \* per thread: where it is, its slot, where finish() returns to
  spawner,      \* who holds spawn_mutex, and the slot it has acquired
  canceller,    \* where the thread that cancels the query is
  ran           \* the tasks that were run

vars == <<finished, cancelled, queue, fast, polled, idle, slotCount, useThreads, total,
          node, wake, leased, preempted, freed, th, spawner, canceller, ran>>

taskVars == <<queue, fast, polled, node, ran>>
slotVars == <<slotCount, useThreads, total>>
leaseVars == <<leased, preempted, freed>>
stopVars == <<finished, cancelled, canceller>>

NoSpawner == [who |-> Main, slot |-> NoSlot, held |-> FALSE]

\* executeImpl, after initializeExecution and the acquisition of the first slot.
Init ==
  /\ finished = FALSE
  /\ cancelled = FALSE
  /\ queue = Roots \ Async
  /\ fast = {}
  /\ polled = Roots \cap Async
  /\ idle = {}
  /\ slotCount = [s \in Slots |-> 0]
  /\ useThreads = 1
  /\ total = 0
  /\ node = [s \in Slots |-> NoTask]
  /\ wake = [s \in Slots |-> FALSE]
  /\ leased = {0}
  /\ preempted = {}
  /\ freed = FALSE
  /\ th = [w \in Workers \cup {Main} |->
             [pc |-> IF w = Main THEN "upscale" ELSE "none", slot |-> NoSlot, ret |-> "loop"]]
  /\ spawner = [who |-> Main, slot |-> 0, held |-> TRUE]
  /\ canceller = "none"
  /\ ran = {}

Goto(w, pc) == th' = [th EXCEPT ![w].pc = pc]

\* Call finish() and go on at ret.
CallFinish(w, ret) == th' = [th EXCEPT ![w].pc = "finish", ![w].ret = ret]

\* tryWakeUpAnyOtherThreadWithTasks, with the queues as the caller leaves them.
TryWakeUp(q, f) ==
  IF idle # {} /\ ~finished /\ q \cup f # {}
  THEN \E s \in idle : /\ idle' = idle \ {s}
                       /\ wake' = [wake EXCEPT ![s] = TRUE]
  ELSE UNCHANGED <<idle, wake>>

-----------------------------------------------------------------------------
(* executeStepImpl and what it calls.                                      *)

\* The loops' conditions.
Loop(w) ==
  /\ th[w].pc = "loop"
  /\ Goto(w, IF finished THEN "end"
             ELSE IF node[th[w].slot] = NoTask THEN "get" ELSE "run")
  /\ UNCHANGED <<taskVars, slotVars, leaseVars, stopVars, idle, wake, spawner>>

\* tryGetTask finds a task and wakes a thread for the next one.
GetTask(w) ==
  /\ th[w].pc = "get"
  /\ \E t \in IF fast # {} THEN fast ELSE queue :
       /\ node' = [node EXCEPT ![th[w].slot] = t]
       /\ fast' = fast \ {t}
       /\ queue' = queue \ {t}
       /\ TryWakeUp(queue \ {t}, fast \ {t})
  /\ Goto(w, "loop")
  /\ UNCHANGED <<polled, ran, slotVars, leaseVars, stopVars, spawner>>

\* Mutant: asynchronous tasks are not waited for.
LastActiveHere(n) == n = total

\* The condition under which the thread that finds no task ends the execution.
LastActive(n) == n = total /\ polled = {}

GetLast(w) ==
  /\ th[w].pc = "get"
  /\ queue \cup fast = {}
  /\ LastActive(Cardinality(idle) + 1)
  /\ CallFinish(w, "loop")
  /\ UNCHANGED <<taskVars, slotVars, leaseVars, stopVars, idle, wake, spawner>>

GetWait(w) ==
  /\ th[w].pc = "get"
  /\ queue \cup fast = {}
  /\ ~LastActive(Cardinality(idle) + 1)
  /\ idle' = idle \cup {th[w].slot}
  /\ Goto(w, "wait")
  /\ UNCHANGED <<taskVars, slotVars, leaseVars, stopVars, wake, spawner>>

\* ExecutionThreadContext::wait
Woken(w) ==
  /\ th[w].pc = "wait"
  /\ finished \/ wake[th[w].slot]
  /\ wake' = [wake EXCEPT ![th[w].slot] = FALSE]
  /\ Goto(w, "loop")
  /\ UNCHANGED <<taskVars, slotVars, leaseVars, stopVars, idle, spawner>>

Run(w) ==
  /\ th[w].pc = "run"
  /\ ran' = ran \cup {node[th[w].slot]}
  /\ Goto(w, "ran")
  /\ UNCHANGED <<queue, fast, polled, node, slotVars, leaseVars, stopVars, idle, wake, spawner>>

\* The processor, or the check of the time limit after it, stops the query.
RunFails(w) ==
  /\ th[w].pc = "run"
  /\ cancelled' = TRUE
  /\ CallFinish(w, "loop")
  /\ UNCHANGED <<taskVars, slotVars, leaseVars, finished, canceller, idle, wake, spawner>>

AfterRun(w) ==
  /\ th[w].pc = "ran"
  /\ Goto(w, IF finished THEN "loop" ELSE "push")
  /\ UNCHANGED <<taskVars, slotVars, leaseVars, stopVars, idle, wake, spawner>>

\* updateNode and pushTasks.  One ready task may stay with the thread, unless
\* has_fast_tasks or the number of such tasks in a row forbid it.
PushTasks(w) ==
  LET s == th[w].slot
      new == IF finished THEN {} ELSE Ready[node[s]] IN
  /\ th[w].pc = "push"
  /\ \E t \in (Ready[node[s]] \ Async) \cup {NoTask} :
       /\ node' = [node EXCEPT ![s] = t]
       /\ queue' = queue \cup (new \ (Async \cup {t}))
       /\ polled' = polled \cup (new \cap Async)
       /\ IF Ready[node[s]] \subseteq {t}
          THEN UNCHANGED <<idle, wake>> /\ Goto(w, "renew")
          ELSE TryWakeUp(queue', fast) /\ Goto(w, "spawn")
  /\ UNCHANGED <<fast, ran, slotVars, leaseVars, stopVars, spawner>>

-----------------------------------------------------------------------------
(* spawnThreads, by the main thread and by whoever gets spawn_mutex.       *)

\* The mutex is taken, nothing is granted, or there are idle threads enough.
SpawnNothing(w) ==
  /\ th[w].pc = "spawn"
  /\ spawner' = IF spawner.who = w THEN NoSpawner ELSE spawner
  /\ Goto(w, IF w = Main THEN "async" ELSE "renew")
  /\ UNCHANGED <<taskVars, slotVars, leaseVars, stopVars, idle, wake>>

\* Mutant: the slot of a preempted thread can be acquired.
SpawnAcquirePreempted(w) ==
  /\ th[w].pc = "spawn"
  /\ ~spawner.held \/ spawner.who = w
  /\ ~freed
  /\ Slots \ (leased \ preempted) # {}
  /\ \E n \in Workers : th[n].pc = "none"
  /\ LET s == Min(Slots \ (leased \ preempted)) IN
     /\ leased' = leased \cup {s}
     /\ spawner' = [who |-> w, slot |-> s, held |-> TRUE]
  /\ Goto(w, "upscale")
  /\ UNCHANGED <<taskVars, slotVars, preempted, freed, stopVars, idle, wake>>

\* tryAcquire gives the lowest slot that is not leased; there is one, as upscale
\* asserts, because no more slots are granted than are free.
SpawnAcquire(w) ==
  /\ th[w].pc = "spawn"
  /\ ~spawner.held \/ spawner.who = w
  /\ ~freed
  /\ Slots \ leased # {}
  /\ \E n \in Workers : th[n].pc = "none"
  /\ LET s == Min(Slots \ leased) IN
     /\ leased' = leased \cup {s}
     /\ spawner' = [who |-> w, slot |-> s, held |-> TRUE]
  /\ Goto(w, "upscale")
  /\ UNCHANGED <<taskVars, slotVars, preempted, freed, stopVars, idle, wake>>

\* upscale, and the new thread starts.
Upscale(w) ==
  LET s == spawner.slot IN
  /\ th[w].pc = "upscale"
  /\ slotCount' = [slotCount EXCEPT ![s] = @ + 1]
  /\ total' = total + 1
  /\ useThreads' = IF s < useThreads THEN useThreads ELSE s + 1
  /\ LET n == CHOOSE n \in Workers : th[n].pc = "none"
         next == IF Cardinality(idle) <= TooManyIdle THEN "spawn"
                 ELSE IF w = Main THEN "async" ELSE "renew" IN
     /\ th' = [th EXCEPT ![w].pc = next,
                         ![n] = [pc |-> "loop", slot |-> s, ret |-> "loop"]]
     /\ spawner' = IF next = "spawn" THEN [spawner EXCEPT !.slot = NoSlot] ELSE NoSpawner
  /\ UNCHANGED <<taskVars, leaseVars, stopVars, idle, wake>>

-----------------------------------------------------------------------------
(* The CPU lease: renew of CPULeaseAllocation and its two callbacks.       *)

NotPreempted(w) ==
  /\ th[w].pc = "renew"
  /\ Goto(w, "loop")
  /\ UNCHANGED <<taskVars, slotVars, leaseVars, stopVars, idle, wake, spawner>>

\* The last running thread gives its slot back.
Preempted(w) ==
  /\ th[w].pc = "renew"
  /\ ~freed
  /\ th[w].slot = Max(leased \ preempted)
  /\ preempted' = preempted \cup {th[w].slot}
  /\ Goto(w, "preempt")
  /\ UNCHANGED <<taskVars, slotVars, leased, freed, stopVars, idle, wake, spawner>>

\* Mutant: only a thread that looks for a task ends the execution.
PreemptNeverFinishes(w) ==
  LET s == th[w].slot IN
  /\ th[w].pc = "preempt"
  /\ total' = total - 1
  /\ node' = [node EXCEPT ![s] = NoTask]
  /\ IF node[s] # NoTask
     THEN queue' = queue \cup {node[s]} /\ TryWakeUp(queue', fast)
     ELSE UNCHANGED <<queue, idle, wake>>
  /\ Goto(w, "preempted")
  /\ UNCHANGED <<fast, polled, ran, slotCount, useThreads, leaseVars, stopVars, spawner>>

\* preempt: the thread's task goes back to the queue; without one it may have
\* been the last active thread.
Preempt(w) ==
  LET s == th[w].slot IN
  /\ th[w].pc = "preempt"
  /\ total' = total - 1
  /\ node' = [node EXCEPT ![s] = NoTask]
  /\ IF node[s] # NoTask
     THEN queue' = queue \cup {node[s]} /\ TryWakeUp(queue', fast)
     ELSE UNCHANGED <<queue, idle, wake>>
  /\ IF node[s] = NoTask /\ queue \cup fast \cup polled = {} /\ Cardinality(idle) = total - 1
     THEN CallFinish(w, "preempted")
     ELSE Goto(w, "preempted")
  /\ UNCHANGED <<fast, polled, ran, slotCount, useThreads, leaseVars, stopVars, spawner>>

\* The scheduler grants a slot to the lowest preempted thread.
Grant ==
  /\ preempted # {}
  /\ preempted' = preempted \ {Min(preempted)}
  /\ UNCHANGED <<taskVars, slotVars, leased, freed, stopVars, idle, wake, th, spawner>>

\* waitForGrant returns because of a grant; on_resume.
Resume(w) ==
  /\ th[w].pc = "preempted"
  /\ th[w].slot \notin preempted /\ ~freed
  /\ total' = total + 1
  /\ Goto(w, "loop")
  /\ UNCHANGED <<taskVars, slotCount, useThreads, leaseVars, stopVars, idle, wake, spawner>>

\* The lease is over: at a renewal or in waitForGrant after the allocation was
\* freed, or at the timeout of a thread other than the first.
LoseLease(w) ==
  LET s == th[w].slot IN
  /\ \/ th[w].pc \in {"renew", "preempted"} /\ freed
     \/ th[w].pc = "preempted" /\ s # 0 /\ s \in preempted
  /\ leased' = leased \ {s}
  /\ preempted' = preempted \ {s}
  /\ Goto(w, "downscale")
  /\ UNCHANGED <<taskVars, slotVars, freed, stopVars, idle, wake, spawner>>

\* Mutant: the slot counts as unused whoever else has it by now.
SlotBelow(count) == useThreads - 1

\* use_threads after a slot was given up: one more than the highest slot in use.
HighestSlot(count) ==
  IF \E s \in Slots : s < useThreads /\ count[s] > 0
  THEN Max({s \in Slots : s < useThreads /\ count[s] > 0}) + 1
  ELSE useThreads

Downscale(w) ==
  LET s == th[w].slot IN
  /\ th[w].pc = "downscale"
  /\ IF slotCount[s] = 0
     THEN UNCHANGED <<slotCount, useThreads>>
     ELSE /\ slotCount' = [slotCount EXCEPT ![s] = @ - 1]
          /\ useThreads' = IF s + 1 = useThreads THEN HighestSlot(slotCount') ELSE useThreads
  /\ Goto(w, "done")
  /\ UNCHANGED <<taskVars, total, leaseVars, stopVars, idle, wake, spawner>>

\* The thread has left the loops: its slot is released with the lambda.
End(w) ==
  /\ th[w].pc = "end"
  /\ leased' = leased \ {th[w].slot}
  /\ Goto(w, "done")
  /\ UNCHANGED <<taskVars, slotVars, preempted, freed, stopVars, idle, wake, spawner>>

-----------------------------------------------------------------------------
(* finish(): set the flag, free the CPU slots, wake everybody.             *)

SetFinished(w) ==
  /\ th[w].pc = "finish"
  /\ finished' = TRUE
  /\ Goto(w, "free")
  /\ UNCHANGED <<taskVars, slotVars, leaseVars, cancelled, canceller, idle, wake, spawner>>

FreeCPU(w) ==
  /\ th[w].pc = "free"
  /\ freed' = TRUE
  /\ preempted' = {}
  /\ Goto(w, "wakeAll")
  /\ UNCHANGED <<taskVars, slotVars, leased, stopVars, idle, wake, spawner>>

WakeAll(w) ==
  /\ th[w].pc = "wakeAll"
  /\ wake' = [s \in Slots |-> TRUE]
  /\ Goto(w, th[w].ret)
  /\ UNCHANGED <<taskVars, slotVars, leaseVars, stopVars, idle, spawner>>

\* cancel() from outside.
Cancel ==
  /\ \/ /\ canceller = "none" /\ th[Main].pc # "done"
        /\ cancelled' = TRUE
        /\ finished' = TRUE
        /\ canceller' = "free"
        /\ UNCHANGED <<freed, preempted, wake>>
     \/ /\ canceller = "free"
        /\ freed' = TRUE
        /\ preempted' = {}
        /\ canceller' = "wakeAll"
        /\ UNCHANGED <<finished, cancelled, wake>>
     \/ /\ canceller = "wakeAll"
        /\ wake' = [s \in Slots |-> TRUE]
        /\ canceller' = "done"
        /\ UNCHANGED <<finished, cancelled, freed, preempted>>
  /\ UNCHANGED <<taskVars, slotVars, leased, idle, th, spawner>>

-----------------------------------------------------------------------------
(* The main thread: processAsyncTasks and the wait for the pool.           *)

\* An event: the task becomes a fast one and a thread is woken for it.
AsyncReady ==
  /\ th[Main].pc = "async"
  /\ \E t \in polled :
       /\ polled' = polled \ {t}
       /\ fast' = fast \cup {t}
       /\ TryWakeUp(queue, fast')
  /\ UNCHANGED <<queue, node, ran, slotVars, leaseVars, stopVars, th, spawner>>

AsyncEnd ==
  /\ th[Main].pc = "async"
  /\ finished
  /\ Goto(Main, "join")
  /\ UNCHANGED <<taskVars, slotVars, leaseVars, stopVars, idle, wake, spawner>>

Join ==
  /\ th[Main].pc = "join"
  /\ \A w \in Workers : th[w].pc \in {"none", "done"}
  /\ Goto(Main, "done")
  /\ UNCHANGED <<taskVars, slotVars, leaseVars, stopVars, idle, wake, spawner>>

\* The execution has ended.
Terminated ==
  /\ th[Main].pc = "done" /\ canceller \in {"none", "done"}
  /\ UNCHANGED vars

Step(w) ==
  \/ Loop(w) \/ GetTask(w) \/ GetLast(w) \/ GetWait(w) \/ Woken(w)
  \/ Run(w) \/ RunFails(w) \/ AfterRun(w) \/ PushTasks(w)
  \/ NotPreempted(w) \/ Preempted(w) \/ Preempt(w) \/ Resume(w) \/ LoseLease(w)
  \/ Downscale(w) \/ End(w)
  \/ SetFinished(w) \/ FreeCPU(w) \/ WakeAll(w)

Spawn(w) == SpawnNothing(w) \/ SpawnAcquire(w) \/ Upscale(w)

Next ==
  \/ \E w \in Workers : Step(w)
  \/ \E w \in Workers \cup {Main} : Spawn(w)
  \/ AsyncReady \/ AsyncEnd \/ Join
  \/ Grant \/ Cancel
  \/ Terminated

Spec == Init /\ [][Next]_vars

\* Threads are scheduled, descriptors of asynchronous tasks get their events, CPU
\* slots are granted again, and a cancel() that was called goes on.
Fairness ==
  /\ \A w \in Workers : WF_vars(Step(w))
  /\ \A w \in Workers \cup {Main} : WF_vars(Spawn(w))
  /\ WF_vars(AsyncReady) /\ WF_vars(AsyncEnd) /\ WF_vars(Join)
  /\ WF_vars(Grant)
  /\ WF_vars(canceller # "none" /\ Cancel)

FairSpec == Spec /\ Fairness

-----------------------------------------------------------------------------
(* Properties *)

\* The threads that have a slot which total_slots counts.
Counted ==
  {w \in Workers : /\ th[w].pc \notin {"none", "preempted", "downscale", "done"}
                   /\ ~(th[w].pc \in {"finish", "free", "wakeAll"} /\ th[w].ret = "preempted")}

\* The exception `Pipeline stuck' of finalizeExecution: an execution that nobody
\* cancelled is finished only when every task that became ready has been run.
NoPipelineStuck ==
  finished /\ ~cancelled => Roots \subseteq ran /\ \A t \in ran : Ready[t] \subseteq ran

\* The number the finishing rule compares with is that of the threads that are
\* neither preempted nor gone; those in threads_queue do wait, unwoken, and have
\* a slot below use_threads, or tryWakeUpAnyOtherThreadWithTasksInQueue would
\* throw `Non-empty queue without allocated thread'.
SlotsCounted ==
  /\ ~finished => /\ total = Cardinality(Counted)
                  /\ idle = {th[w].slot : w \in {v \in Workers : th[v].pc = "wait"
                                                             /\ ~wake[th[v].slot]}}
  /\ \A s \in idle : s < useThreads

\* A ready task is in one queue or in one context, what a thread is about to run
\* has not been run before, and two threads never use one context, though a slot
\* may be given to a new thread before its last one has called downscale.
TaskInOnePlace ==
  /\ queue \cap fast = {} /\ (queue \cup fast) \cap polled = {}
  /\ \A s \in Slots : node[s] \notin queue \cup fast \cup polled
  /\ \A s, u \in Slots : node[s] = node[u] => s = u \/ node[s] = NoTask
  /\ \A w \in Workers : th[w].pc = "run" => node[th[w].slot] \notin ran
  /\ \A v, w \in Workers :
       /\ v # w /\ th[v].slot = th[w].slot
       /\ th[v].pc \notin {"none", "downscale", "done"}
       => th[w].pc \in {"none", "downscale", "done"}

\* No wake-up is lost and no thread is waited for that nobody wakes: the query
\* ends.
QueryEnds == <>(th[Main].pc = "done")

=============================================================================
