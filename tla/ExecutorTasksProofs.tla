------------------------ MODULE ExecutorTasksProofs ------------------------
(***************************************************************************)
(* Theorems about ExecutorTasks: for any tasks, any number of threads and  *)
(* of slots, tasks are neither lost nor doubled, the counters by which the *)
(* last active thread is found are exact, and an execution that nobody     *)
(* cancelled ends only when nothing is left to run.                        *)
(***************************************************************************)
EXTENDS ExecutorTasks, FiniteSetTheorems, NaturalsInduction, WellFoundedInduction, TLAPS

All == Workers \cup {Main}

ThreadPcs ==
  {"none", "loop", "get", "wait", "run", "ran", "push", "spawn", "upscale", "renew",
   "preempt", "preempted", "downscale", "end", "finish", "free", "wakeAll", "done"}

MainPcs == {"upscale", "spawn", "async", "join", "done"}

ThreadType ==
  [pc : ThreadPcs \cup MainPcs, slot : Slots \cup {NoSlot}, ret : {"loop", "preempted"}]

\* A thread that has its slot for itself.
Active(w) == th[w].pc \notin {"none", "downscale", "done"}

DataOK ==
  /\ finished \in BOOLEAN /\ cancelled \in BOOLEAN /\ freed \in BOOLEAN
  /\ queue \subseteq Tasks /\ fast \subseteq Tasks /\ polled \subseteq Tasks
  /\ ran \subseteq Tasks
  /\ idle \subseteq Slots /\ leased \subseteq Slots
  /\ slotCount \in [Slots -> Nat] /\ useThreads \in Nat /\ total \in Int
  /\ node \in [Slots -> Tasks \cup {NoTask}]
  /\ wake \in [Slots -> BOOLEAN]
  /\ spawner \in [who : All, slot : Slots \cup {NoSlot}, held : BOOLEAN]
  /\ canceller \in {"none", "free", "wakeAll", "done"}

ThreadsOK ==
  /\ th \in [All -> ThreadType]
  /\ th[Main].pc \in MainPcs
  /\ \A w \in Workers : /\ th[w].pc \in ThreadPcs
                        /\ th[w].pc # "none" => th[w].slot \in Slots

TypeInv == DataOK /\ ThreadsOK

\* What only happens after the end was announced.
StopInv ==
  /\ freed => finished
  /\ canceller # "none" => finished
  /\ \A w \in Workers : th[w].pc \in {"free", "wakeAll", "end"} => finished

\* Who is in upscale() holds spawn_mutex and a slot nobody uses.
SpawnInv ==
  \A w \in All : th[w].pc = "upscale" =>
    /\ spawner.who = w /\ spawner.held /\ spawner.slot \in leased
    /\ \A v \in Workers : Active(v) => th[v].slot # spawner.slot
    /\ \E n \in Workers : th[n].pc = "none"

\* A slot is used by one thread at a time.
LeaseInv ==
  /\ \A w \in Workers : Active(w) => th[w].slot \in leased
  /\ \A v, w \in Workers :
       Active(v) /\ Active(w) /\ th[v].slot = th[w].slot => v = w

Queued == queue \cup fast \cup polled

\* A task is in one place.
PlaceInv ==
  /\ queue \cap fast = {} /\ (queue \cup fast) \cap polled = {}
  /\ ran \cap Queued = {}
  /\ \A s \in Slots : node[s] \notin Queued
  /\ \A s, u \in Slots : node[s] = node[u] => s = u \/ node[s] = NoTask

\* The tasks that have become ready: the roots, and what the tasks made ready
\* that were run and whose thread has come to push their successors.
Known(t) ==
  \/ t \in Roots
  \/ \E u \in ran : (\A s \in Slots : node[s] # u) /\ t \in Ready[u]

KnownInv ==
  /\ \A t \in ran \cup Queued : Known(t)
  /\ \A s \in Slots : node[s] # NoTask => Known(node[s])
  /\ ~finished => \A t \in Tasks :
       Known(t) => t \in ran \cup Queued \/ \E s \in Slots : node[s] = t

\* What a thread has in its context, by the step it is at.
Carry(w) ==
  LET t == node[th[w].slot] IN
  /\ th[w].pc = "run" => t \in Tasks \ ran
  /\ th[w].pc \in {"ran", "push"} => t \in ran
  /\ th[w].pc \in {"spawn", "upscale", "renew", "preempt"} => t \notin ran
  /\ th[w].pc \in {"get", "wait"} => t = NoTask
  /\ th[w].pc = "loop" /\ ~finished => t \notin ran

CarryInv == \A w \in Workers : Carry(w)

CarrierPcs ==
  {"loop", "run", "ran", "push", "spawn", "upscale", "renew", "preempt", "finish"}

\* No task is left in the context of a slot that nobody uses.
HeldInv ==
  ~finished => \A s \in Slots : node[s] # NoTask =>
    \E w \in Workers : th[w].slot = s /\ th[w].pc \in CarrierPcs

AllDone ==
  /\ Queued = {}
  /\ \A s \in Slots : node[s] = NoTask
  /\ Roots \subseteq ran /\ \A t \in ran : Ready[t] \subseteq ran

\* Nobody who ends the execution, other than by cancelling it, leaves work.
DoneInv ==
  (finished \/ \E w \in Workers : th[w].pc = "finish") /\ ~cancelled => AllDone

\* total_slots counts the thread.
Counting(w) ==
  /\ th[w].pc \notin {"none", "preempted", "downscale", "done"}
  /\ ~(th[w].pc \in {"finish", "free", "wakeAll"} /\ th[w].ret = "preempted")

CountInv == ~finished => total = Cardinality(Counted)

\* threads_queue has the threads that wait and were not woken.
WakeInv ==
  ~finished =>
    /\ \A s \in idle : ~wake[s] /\ \E w \in Workers : th[w].pc = "wait" /\ th[w].slot = s
    /\ \A w \in Workers : th[w].pc = "wait" /\ ~wake[th[w].slot] => th[w].slot \in idle
    /\ \A s \in Slots : wake[s] => \E w \in Workers : th[w].pc = "wait" /\ th[w].slot = s

\* A slot stays in threads_queue only when its thread leaves.
IdleInv ==
  \A w \in Workers :
    Active(w) /\ th[w].slot \in idle =>
      th[w].pc = "wait" \/ (finished /\ th[w].pc \in {"loop", "end"})

Users(s) == {w \in Workers : th[w].slot = s /\ th[w].pc \notin {"none", "done"}}
Gone(s) == {w \in Workers : th[w].slot = s /\ th[w].pc = "downscale"}

\* use_threads is above every slot that is in use or in threads_queue.
UseInv ==
  /\ \A w \in Workers : Active(w) => th[w].slot < useThreads
  /\ \A s \in idle : s < useThreads
  /\ \A s \in Slots : Cardinality(Users(s)) <= slotCount[s]
  /\ \A s \in idle : Cardinality(Gone(s)) < slotCount[s]

TasksInv ==
  /\ TypeInv /\ StopInv /\ SpawnInv /\ LeaseInv
  /\ PlaceInv /\ KnownInv /\ CarryInv /\ HeldInv /\ DoneInv
  /\ CountInv /\ WakeInv /\ IdleInv /\ UseInv

-----------------------------------------------------------------------------
(* Numbers and sets.                                                       *)

LEMMA MinOfNat ==
  ASSUME NEW S, S \subseteq Nat, S # {}
  PROVE  \E x \in S : \A y \in S : x <= y
<1> DEFINE R == OpToRel(<, Nat)
<1>1. \E x \in S : \A y \in S : ~ (<<y, x>> \in R)
  <2>1. IsWellFoundedOn(R, Nat)
    BY NatLessThanWellFounded
  <2> HIDE DEF R
  <2>2. QED
    BY <2>1, WFMin
<1>2. \A x, y \in Nat : y < x => <<y, x>> \in R
  BY DEF OpToRel
<1> HIDE DEF R
<1>3. PICK x \in S : \A y \in S : ~ (<<y, x>> \in R)
  BY <1>1
<1>4. \A y \in S : ~ (y < x)
  BY <1>2, <1>3
<1>5. \A y \in S : x <= y
  BY <1>4
<1>6. QED
  BY <1>5

LEMMA MinFacts ==
  ASSUME NEW S, S \subseteq Slots, S # {}
  PROVE  Min(S) \in S
<1>1. S \subseteq Nat
  BY TasksAssumption DEF Slots
<1>2. \E x \in S : \A y \in S : x <= y
  BY <1>1, MinOfNat
<1>3. QED
  BY <1>2 DEF Min

LEMMA MaxFacts ==
  ASSUME NEW S, S \subseteq Slots, S # {}
  PROVE  Max(S) \in S /\ \A y \in S : y <= Max(S)
<1> DEFINE T == {(NumThreads - 1) - x : x \in S}
<1>1. \A x \in S : x \in Nat /\ (NumThreads - 1) - x \in Nat
  BY TasksAssumption DEF Slots
<1>2. T \subseteq Nat /\ T # {}
  BY <1>1
<1>3. PICK m \in T : \A n \in T : m <= n
  BY <1>2, MinOfNat
<1>4. PICK x \in S : m = (NumThreads - 1) - x
  OBVIOUS
<1>5. \A y \in S : x >= y
  <2> TAKE y \in S
  <2>1. (NumThreads - 1) - x <= (NumThreads - 1) - y
    BY <1>3, <1>4
  <2>2. QED
    BY <1>1, <2>1, TasksAssumption
<1>6. \E z \in S : \A y \in S : z >= y
  BY <1>5
<1>7. Max(S) \in S /\ \A y \in S : Max(S) >= y
  BY <1>6 DEF Max
<1>8. QED
  BY <1>1, <1>7

-----------------------------------------------------------------------------
(* Types.                                                                  *)

\* The thread w goes on at pc, with its slot.
Moves(w, pc) ==
  /\ th' \in [All -> ThreadType]
  /\ th'[w].pc = pc /\ th'[w].slot = th[w].slot
  /\ \A v \in All \ {w} : th'[v] = th[v]

LEMMA GotoMoves ==
  ASSUME TypeInv, NEW w \in All, NEW pc \in ThreadPcs \cup MainPcs, Goto(w, pc)
  PROVE  Moves(w, pc) /\ th'[w].ret = th[w].ret
<1>1. th \in [All -> ThreadType] /\ th[w] \in ThreadType
  BY DEF TypeInv, DataOK, ThreadsOK
<1>2. QED
  BY <1>1 DEF Goto, Moves, ThreadType

LEMMA FinishMoves ==
  ASSUME TypeInv, NEW w \in All, NEW ret \in {"loop", "preempted"}, CallFinish(w, ret)
  PROVE  Moves(w, "finish") /\ th'[w].ret = ret
<1>1. th \in [All -> ThreadType] /\ th[w] \in ThreadType /\ "finish" \in ThreadPcs
  BY DEF TypeInv, ThreadsOK, ThreadPcs
<1>2. QED
  BY <1>1 DEF CallFinish, Moves, ThreadType

\* What upscale() starts.
LEMMA UpscaleMoves ==
  ASSUME TypeInv, SpawnInv, NEW w \in All, Upscale(w)
  PROVE  \E n \in Workers, pc \in {"spawn", "async", "renew"} :
           /\ th[w].pc = "upscale" /\ th[n].pc = "none" /\ n # w
           /\ th' \in [All -> ThreadType]
           /\ th'[w].pc = pc /\ th'[w].slot = th[w].slot
           /\ th'[n].pc = "loop" /\ th'[n].slot = spawner.slot /\ th'[n].ret = "loop"
           /\ \A v \in All \ {n, w} : th'[v] = th[v]
           /\ pc \in MainPcs <=> w = Main \/ pc = "spawn"
           /\ pc = "spawn" => spawner' = [spawner EXCEPT !.slot = NoSlot]
           /\ pc # "spawn" => spawner' = NoSpawner
           /\ spawner.slot \in Slots
<1> DEFINE n == CHOOSE n \in Workers : th[n].pc = "none"
           pc == IF Cardinality(idle) <= TooManyIdle THEN "spawn"
                 ELSE IF w = Main THEN "async" ELSE "renew"
<1>1. th[w].pc = "upscale"
  BY DEF Upscale
<1>2. n \in Workers /\ th[n].pc = "none"
  BY <1>1 DEF SpawnInv
<1>3. pc \in {"spawn", "async", "renew"} /\ (pc \in MainPcs <=> w = Main \/ pc = "spawn")
  BY DEF MainPcs
<1>4. spawner.slot \in Slots
  BY <1>1 DEF SpawnInv, TypeInv, DataOK
<1>5. /\ th' = [th EXCEPT ![w].pc = pc,
                          ![n] = [pc |-> "loop", slot |-> spawner.slot, ret |-> "loop"]]
      /\ spawner' = IF pc = "spawn" THEN [spawner EXCEPT !.slot = NoSlot] ELSE NoSpawner
  BY DEF Upscale
<1> HIDE DEF n, pc
<1>6. /\ pc = "spawn" => spawner' = [spawner EXCEPT !.slot = NoSlot]
      /\ pc # "spawn" => spawner' = NoSpawner
  BY <1>5
<1>7. /\ n \in All /\ n # w
      /\ th \in [All -> ThreadType] /\ th[w] \in ThreadType /\ th[n] \in ThreadType
      /\ pc \in ThreadPcs \cup MainPcs /\ "loop" \in ThreadPcs
  BY <1>1, <1>2, <1>3 DEF TypeInv, ThreadsOK, All, ThreadPcs, MainPcs
<1>8. /\ th' \in [All -> ThreadType]
      /\ th'[w].pc = pc /\ th'[w].slot = th[w].slot
      /\ th'[n].pc = "loop" /\ th'[n].slot = spawner.slot /\ th'[n].ret = "loop"
      /\ \A v \in All \ {n, w} : th'[v] = th[v]
  BY <1>4, <1>5, <1>7 DEF ThreadType
<1>9. QED
  BY <1>1, <1>2, <1>3, <1>4, <1>6, <1>7, <1>8

\* What tryWakeUpAnyOtherThreadWithTasks does.
LEMMA WakeUpEffect ==
  ASSUME TypeInv, NEW q, NEW f, TryWakeUp(q, f)
  PROVE  /\ idle' \subseteq idle /\ wake' \in [Slots -> BOOLEAN]
         /\ finished => idle' = idle /\ wake' = wake
         /\ \/ idle' = idle /\ wake' = wake
            \/ \E s \in idle : /\ idle' = idle \ {s}
                               /\ wake' = [wake EXCEPT ![s] = TRUE]
BY DEF TryWakeUp, TypeInv, DataOK

LEMMA ThreadsMove ==
  ASSUME TypeInv, NEW w \in All, NEW pc, Moves(w, pc),
         IF w = Main THEN pc \in MainPcs ELSE pc \in ThreadPcs /\ th[w].pc # "none"
  PROVE  ThreadsOK'
<1>1. \A v \in Workers : v \in All /\ v # Main
  BY TasksAssumption DEF All
<1>2. QED
  BY <1>1 DEF TypeInv, ThreadsOK, Moves, All

\* A thread of the pool that is somewhere has a slot.
LEMMA WorkerSlot ==
  ASSUME TypeInv, NEW w \in Workers, th[w].pc # "none"
  PROVE  w \in All /\ w # Main /\ th[w].slot \in Slots
BY TasksAssumption DEF TypeInv, ThreadsOK, All

\* Where a step of a thread of the pool leads.
LEMMA StepMoves ==
  ASSUME TypeInv, NEW w \in Workers, Step(w)
  PROVE  /\ th[w].pc # "none" /\ ThreadsOK'
         /\ \E pc \in ThreadPcs : Moves(w, pc)
<1>1. w \in All /\ w # Main
  BY TasksAssumption DEF All
<1>2. ASSUME NEW pc \in ThreadPcs, Goto(w, pc), th[w].pc # "none"
      PROVE  /\ ThreadsOK'
             /\ \E p \in ThreadPcs : Moves(w, p)
  BY <1>1, <1>2, GotoMoves, ThreadsMove
<1>3. ASSUME NEW ret \in {"loop", "preempted"}, CallFinish(w, ret), th[w].pc # "none"
      PROVE  /\ ThreadsOK'
             /\ \E p \in ThreadPcs : Moves(w, p)
  BY <1>1, <1>3, FinishMoves, ThreadsMove DEF ThreadPcs
<1>4. th[w].pc # "none"
  BY DEF Step, Loop, GetTask, GetLast, GetWait, Woken, Run, RunFails, AfterRun, PushTasks,
    NotPreempted, Preempted, Preempt, Resume, LoseLease, Downscale, End, SetFinished,
    FreeCPU, WakeAll
<1>5. CASE GetLast(w) \/ RunFails(w)
  BY <1>3, <1>4, <1>5 DEF GetLast, RunFails
<1>6. CASE Preempt(w)
  BY <1>2, <1>3, <1>4, <1>6 DEF Preempt, ThreadPcs
<1>7. CASE WakeAll(w)
  <2>1. th[w].ret \in ThreadPcs
    BY <1>1 DEF TypeInv, ThreadsOK, ThreadType, ThreadPcs
  <2>2. QED
    BY <1>2, <1>4, <1>7, <2>1 DEF WakeAll
<1>8. CASE Loop(w)
  BY <1>2, <1>4, <1>8 DEF Loop, ThreadPcs
<1>9. CASE PushTasks(w)
  BY <1>2, <1>4, <1>9 DEF PushTasks, ThreadPcs
<1>10. CASE AfterRun(w)
  BY <1>2, <1>4, <1>10 DEF AfterRun, ThreadPcs
<1>11. CASE GetTask(w) \/ GetWait(w) \/ Woken(w) \/ Run(w) \/ NotPreempted(w) \/ Preempted(w)
  BY <1>2, <1>4, <1>11 DEF GetTask, GetWait, Woken, Run, NotPreempted, Preempted, ThreadPcs
<1>12. CASE Resume(w) \/ LoseLease(w) \/ Downscale(w) \/ End(w) \/ SetFinished(w) \/ FreeCPU(w)
  BY <1>2, <1>4, <1>12 DEF Resume, LoseLease, Downscale, End, SetFinished, FreeCPU, ThreadPcs
<1>13. QED
  BY <1>4, <1>5, <1>6, <1>7, <1>8, <1>9, <1>10, <1>11, <1>12 DEF Step

-----------------------------------------------------------------------------
(* What a step leaves alone.                                               *)

\* v's move takes no task away and says truly what it does with one.
Fits(v) ==
  /\ Carry(v)'
  /\ \/ th[v].pc \notin CarrierPcs
     \/ node[th[v].slot] = NoTask
     \/ finished'
     \/ th'[v].slot = th[v].slot /\ th'[v].pc \in CarrierPcs
  /\ th'[v].pc = "finish" => cancelled' \/ AllDone

LEMMA TaskFrame ==
  ASSUME TypeInv, PlaceInv, KnownInv, CarryInv, HeldInv, DoneInv,
         UNCHANGED taskVars, finished => finished', cancelled => cancelled',
         \A v \in Workers : th'[v] = th[v] \/ Fits(v),
         finished' => finished \/ cancelled' \/ AllDone
  PROVE  PlaceInv' /\ KnownInv' /\ CarryInv' /\ HeldInv' /\ DoneInv'
<1>1. UNCHANGED <<queue, fast, polled, node, ran>>
  BY DEF taskVars
<1>2. PlaceInv' /\ KnownInv'
  <2>1. \A t : Known(t)' <=> Known(t)
    BY <1>1 DEF Known
  <2>2. QED
    BY <1>1, <2>1 DEF PlaceInv, KnownInv, Queued
<1>3. CarryInv'
  BY <1>1 DEF CarryInv, Carry, Fits
<1>4. HeldInv'
  BY <1>1 DEF HeldInv, Fits
<1>5. DoneInv'
  <2>1. AllDone => AllDone'
    BY <1>1 DEF AllDone, Queued
  <2>2. QED
    BY <2>1 DEF DoneInv, Fits
<1>6. QED
  BY <1>2, <1>3, <1>4, <1>5

BusyPcs == ThreadPcs \ {"none", "wait", "downscale", "done"}

\* v goes on with its slot, and is not in threads_queue unless it leaves.
KeepsSlot(v) ==
  /\ th'[v].slot = th[v].slot
  /\ th[v].pc \in BusyPcs /\ th'[v].pc \in BusyPcs
  /\ th[v].slot \in idle => finished' /\ th'[v].pc \in {"loop", "end"}

LEMMA SlotsFrame ==
  ASSUME TypeInv, SpawnInv, LeaseInv, WakeInv, IdleInv, UseInv,
         UNCHANGED <<slotCount, useThreads, leased>>, finished => finished',
         \A v \in Workers : th'[v] = th[v] \/ KeepsSlot(v),
         \A v \in All : th'[v].pc = "upscale" => th[v].pc = "upscale" /\ spawner' = spawner,
         \/ UNCHANGED <<idle, wake>>
         \/ finished' /\ UNCHANGED idle
         \/ \E s \in idle : idle' = idle \ {s} /\ wake' = [wake EXCEPT ![s] = TRUE]
  PROVE  SpawnInv' /\ LeaseInv' /\ WakeInv' /\ IdleInv' /\ UseInv'
<1>1. \A v \in Workers : /\ Active(v)' <=> Active(v)
                         /\ Active(v) => th'[v].slot = th[v].slot
                         /\ th'[v].pc = "none" <=> th[v].pc = "none"
                         /\ th'[v].pc = "wait" <=> th[v].pc = "wait"
                         /\ th'[v].pc = "wait" => th'[v] = th[v]
  BY DEF KeepsSlot, BusyPcs, Active
<1>2. SpawnInv'
  <2> SUFFICES ASSUME NEW w \in All, th'[w].pc = "upscale"
               PROVE  /\ spawner'.who = w /\ spawner'.held /\ spawner'.slot \in leased'
                      /\ \A v \in Workers : Active(v)' => th'[v].slot # spawner'.slot
                      /\ \E n \in Workers : th'[n].pc = "none"
    BY DEF SpawnInv
  <2>1. /\ spawner' = spawner /\ spawner.who = w /\ spawner.held /\ spawner.slot \in leased
        /\ \A v \in Workers : Active(v) => th[v].slot # spawner.slot
        /\ \E n \in Workers : th[n].pc = "none"
    BY DEF SpawnInv
  <2>2. QED
    BY <1>1, <2>1
<1>3. LeaseInv'
  BY <1>1 DEF LeaseInv
<1>4. WakeInv'
  <2> SUFFICES ASSUME ~finished' PROVE WakeInv'
    BY DEF WakeInv
  <2>1. CASE UNCHANGED <<idle, wake>>
    BY <1>1, <2>1 DEF WakeInv
  <2>2. CASE \E s \in idle : idle' = idle \ {s} /\ wake' = [wake EXCEPT ![s] = TRUE]
    <3>1. PICK s \in idle : idle' = idle \ {s} /\ wake' = [wake EXCEPT ![s] = TRUE]
      BY <2>2
    <3>2. s \in Slots /\ wake'[s] /\ \A u \in Slots \ {s} : wake'[u] = wake[u]
      BY <3>1 DEF TypeInv, DataOK
    <3>3. PICK w \in Workers : th[w].pc = "wait" /\ th[w].slot = s
      BY DEF WakeInv
    <3>4. \A u \in idle' : /\ ~wake'[u]
                           /\ \E v \in Workers : th'[v].pc = "wait" /\ th'[v].slot = u
      BY <1>1, <3>1, <3>2 DEF WakeInv, TypeInv, DataOK
    <3>5. ASSUME NEW v \in Workers, th'[v].pc = "wait", ~wake'[th'[v].slot]
          PROVE  th'[v].slot \in idle'
      <4>1. th'[v] = th[v] /\ th[v].slot \in Slots
        BY <1>1, <3>5 DEF TypeInv, ThreadsOK
      <4>2. QED
        BY <3>1, <3>2, <3>5, <4>1 DEF WakeInv
    <3>6. \A u \in Slots : wake'[u] => \E v \in Workers : th'[v].pc = "wait" /\ th'[v].slot = u
      BY <1>1, <3>2, <3>3 DEF WakeInv
    <3>7. QED
      BY <3>4, <3>5, <3>6 DEF WakeInv
  <2>3. QED
    BY <2>1, <2>2
<1>5. IdleInv'
  BY <1>1 DEF IdleInv, KeepsSlot
<1>6. UseInv'
  <2>1. \A s \in Slots : Users(s)' = Users(s) /\ Gone(s)' = Gone(s)
    BY DEF Users, Gone, KeepsSlot, BusyPcs
  <2>2. idle' \subseteq idle /\ idle \subseteq Slots
    BY DEF TypeInv, DataOK
  <2>3. QED
    BY <1>1, <2>1, <2>2 DEF UseInv
<1>7. QED
  BY <1>2, <1>3, <1>4, <1>5, <1>6

LEMMA CountFrame ==
  ASSUME CountInv, finished => finished',
         \/ finished'
         \/ /\ total' = total
            /\ \A v \in Workers : th'[v] = th[v] \/ (Counting(v)' <=> Counting(v))
  PROVE  CountInv'
<1>1. ~finished' => Counted' = Counted
  BY DEF Counted, Counting
<1>2. QED
  BY <1>1 DEF CountInv

\* A step of w that changes neither tasks nor slots.
LEMMA QuietFrame ==
  ASSUME TasksInv, NEW w \in All, NEW pc, Moves(w, pc), DataOK', ThreadsOK', StopInv',
         UNCHANGED <<taskVars, slotVars, leased, idle>>,
         finished => finished', cancelled => cancelled',
         finished' => finished \/ cancelled' \/ AllDone,
         wake' = wake \/ finished',
         w # Main => /\ Fits(w) /\ KeepsSlot(w)
                     /\ finished' \/ (Counting(w)' <=> Counting(w)),
         pc # "upscale",
         \A v \in All \ {w} : th[v].pc = "upscale" => spawner' = spawner
  PROVE  TasksInv'
<1>1. \A v \in Workers : v \in All /\ v # Main
  BY TasksAssumption DEF All
<1>2. \A v \in Workers : th'[v] = th[v] \/ (v = w /\ w # Main)
  BY <1>1 DEF Moves
<1>3. PlaceInv' /\ KnownInv' /\ CarryInv' /\ HeldInv' /\ DoneInv'
  <2>1. \A v \in Workers : th'[v] = th[v] \/ Fits(v)
    BY <1>2
  <2>2. QED
    BY <2>1, TaskFrame DEF TasksInv
<1>4. SpawnInv' /\ LeaseInv' /\ WakeInv' /\ IdleInv' /\ UseInv'
  <2>1. \A v \in Workers : th'[v] = th[v] \/ KeepsSlot(v)
    BY <1>2
  <2>2. \A v \in All : th'[v].pc = "upscale" => th[v].pc = "upscale" /\ spawner' = spawner
    BY DEF Moves
  <2>3. UNCHANGED <<slotCount, useThreads, leased>> /\ UNCHANGED idle
    BY DEF slotVars
  <2>4. QED
    BY <2>1, <2>2, <2>3, SlotsFrame DEF TasksInv
<1>5. CountInv'
  <2>1. total' = total
    BY DEF slotVars
  <2>2. QED
    BY <1>2, <2>1, CountFrame DEF TasksInv
<1>6. QED
  BY <1>3, <1>4, <1>5 DEF TasksInv, TypeInv

-----------------------------------------------------------------------------
(* Steps that change neither tasks nor slots.                              *)

LEMMA QuietLoop ==
  ASSUME TasksInv, NEW w \in Workers, Loop(w)
  PROVE  TasksInv'
<1>1. /\ TypeInv /\ StopInv /\ Carry(w) /\ IdleInv /\ w \in All /\ w # Main
      /\ th[w].pc = "loop" /\ th[w].slot \in Slots
  BY WorkerSlot DEF TasksInv, CarryInv, Loop
<1>2. /\ UNCHANGED <<finished, cancelled, queue, fast, polled, idle, slotCount, useThreads,
                     total, node, wake, leased, preempted, freed, spawner, canceller, ran>>
  BY DEF Loop, taskVars, slotVars, leaseVars, stopVars
<1>3. UNCHANGED <<taskVars, slotVars, leased, idle>>
  BY <1>2 DEF taskVars, slotVars
<1>4. PICK pc \in {"end", "get", "run"} :
        /\ Goto(w, pc)
        /\ pc = "end" <=> finished
        /\ pc = "get" => node[th[w].slot] = NoTask
        /\ pc = "run" => node[th[w].slot] # NoTask
  BY DEF Loop
<1>5. Moves(w, pc) /\ ThreadsOK'
  BY <1>1, <1>4, GotoMoves, ThreadsMove DEF ThreadPcs
<1>6. DataOK'
  BY <1>1, <1>2 DEF TypeInv, DataOK
<1>7. StopInv'
  BY <1>1, <1>2, <1>4, <1>5 DEF StopInv, Moves, All
<1>8. Fits(w)
  BY <1>1, <1>2, <1>4, <1>5 DEF Fits, Carry, Moves, CarrierPcs, TypeInv, DataOK
<1>9. KeepsSlot(w) /\ (Counting(w)' <=> Counting(w))
  BY <1>1, <1>2, <1>4, <1>5
  DEF KeepsSlot, Counting, Moves, BusyPcs, ThreadPcs, IdleInv, Active
<1>10. QED
  BY <1>1, <1>2, <1>3, <1>4, <1>5, <1>6, <1>7, <1>8, <1>9, QuietFrame

LEMMA QuietMove ==
  ASSUME TasksInv, NEW w \in Workers, AfterRun(w) \/ NotPreempted(w) \/ Preempted(w)
  PROVE  TasksInv'
<1>1. /\ TypeInv /\ StopInv /\ Carry(w) /\ IdleInv /\ w \in All /\ w # Main
      /\ th[w].pc \in {"ran", "renew"} /\ th[w].slot \in Slots
  BY WorkerSlot DEF TasksInv, CarryInv, AfterRun, NotPreempted, Preempted
<1>2. /\ UNCHANGED <<finished, cancelled, queue, fast, polled, idle, slotCount, useThreads,
                     total, node, wake, leased, freed, spawner, canceller, ran>>
  BY DEF AfterRun, NotPreempted, Preempted, taskVars, slotVars, leaseVars, stopVars
<1>3. UNCHANGED <<taskVars, slotVars, leased, idle>>
  BY <1>2 DEF taskVars, slotVars
<1>4. PICK pc \in {"loop", "push", "preempt"} :
        /\ Goto(w, pc)
        /\ th[w].pc = "ran" /\ pc = "loop" => finished
        /\ th[w].pc = "ran" <=> pc = "push" \/ (pc = "loop" /\ th[w].pc = "ran")
  BY DEF AfterRun, NotPreempted, Preempted
<1>5. Moves(w, pc) /\ ThreadsOK'
  BY <1>1, <1>4, GotoMoves, ThreadsMove DEF ThreadPcs
<1>6. DataOK'
  BY <1>1, <1>2 DEF TypeInv, DataOK
<1>7. StopInv'
  BY <1>1, <1>2, <1>4, <1>5 DEF StopInv, Moves, All
<1>8. Fits(w)
  BY <1>1, <1>2, <1>4, <1>5 DEF Fits, Carry, Moves, CarrierPcs
<1>9. KeepsSlot(w) /\ (Counting(w)' <=> Counting(w))
  BY <1>1, <1>2, <1>4, <1>5
  DEF KeepsSlot, Counting, Moves, BusyPcs, ThreadPcs, IdleInv, Active
<1>10. QED
  BY <1>1, <1>2, <1>3, <1>4, <1>5, <1>6, <1>7, <1>8, <1>9, QuietFrame

LEMMA QuietFail ==
  ASSUME TasksInv, NEW w \in Workers, RunFails(w)
  PROVE  TasksInv'
<1>1. /\ TypeInv /\ StopInv /\ Carry(w) /\ IdleInv /\ w \in All /\ w # Main
      /\ th[w].pc = "run" /\ th[w].slot \in Slots
  BY WorkerSlot DEF TasksInv, CarryInv, RunFails
<1>2. /\ UNCHANGED <<finished, queue, fast, polled, idle, slotCount, useThreads,
                     total, node, wake, leased, freed, spawner, canceller, ran>>
      /\ cancelled' = TRUE
  BY DEF RunFails, taskVars, slotVars, leaseVars, stopVars
<1>3. UNCHANGED <<taskVars, slotVars, leased, idle>>
  BY <1>2 DEF taskVars, slotVars
<1>5. Moves(w, "finish") /\ ThreadsOK' /\ th'[w].ret = "loop"
  BY <1>1, FinishMoves, ThreadsMove DEF ThreadPcs, RunFails
<1>6. DataOK'
  BY <1>1, <1>2 DEF TypeInv, DataOK
<1>7. StopInv'
  BY <1>1, <1>2, <1>5 DEF StopInv, Moves, All
<1>8. Fits(w)
  BY <1>1, <1>2, <1>5 DEF Fits, Carry, Moves, CarrierPcs
<1>9. KeepsSlot(w) /\ (Counting(w)' <=> Counting(w))
  BY <1>1, <1>2, <1>5
  DEF KeepsSlot, Counting, Moves, BusyPcs, ThreadPcs, IdleInv, Active
<1>10. QED
  BY <1>1, <1>2, <1>3, <1>5, <1>6, <1>7, <1>8, <1>9, QuietFrame

\* finish()
LEMMA QuietFinish ==
  ASSUME TasksInv, NEW w \in Workers, SetFinished(w) \/ FreeCPU(w) \/ WakeAll(w)
  PROVE  TasksInv'
<1>1. /\ TypeInv /\ StopInv /\ Carry(w) /\ IdleInv /\ w \in All /\ w # Main
      /\ th[w].pc \in {"finish", "free", "wakeAll"} /\ th[w].slot \in Slots
      /\ th[w].ret \in {"loop", "preempted"}
  BY WorkerSlot DEF TasksInv, CarryInv, SetFinished, FreeCPU, WakeAll, TypeInv, ThreadsOK,
    ThreadType
<1>2. /\ UNCHANGED <<cancelled, queue, fast, polled, idle, slotCount, useThreads,
                     total, node, leased, spawner, canceller, ran>>
      /\ finished' = TRUE /\ freed' \in BOOLEAN /\ wake' \in [Slots -> BOOLEAN]
  BY <1>1 DEF SetFinished, FreeCPU, WakeAll, taskVars, slotVars, leaseVars, stopVars, StopInv,
    TypeInv, DataOK
<1>3. UNCHANGED <<taskVars, slotVars, leased, idle>>
  BY <1>2 DEF taskVars, slotVars
<1>4. PICK pc \in {"free", "wakeAll", "loop", "preempted"} : Goto(w, pc)
  BY <1>1 DEF SetFinished, FreeCPU, WakeAll
<1>5. Moves(w, pc) /\ ThreadsOK'
  BY <1>1, <1>4, GotoMoves, ThreadsMove DEF ThreadPcs
<1>6. DataOK'
  BY <1>1, <1>2 DEF TypeInv, DataOK
<1>7. StopInv'
  BY <1>2 DEF StopInv
<1>8. Fits(w)
  BY <1>1, <1>2, <1>4, <1>5 DEF Fits, Carry, Moves, CarrierPcs
<1>9. KeepsSlot(w)
  BY <1>1, <1>2, <1>4, <1>5
  DEF KeepsSlot, Moves, BusyPcs, ThreadPcs, IdleInv, Active
<1>10. finished' => finished \/ cancelled' \/ AllDone
  <2>1. th[w].pc # "finish" => finished
    BY <1>1 DEF StopInv
  <2>2. QED
    BY <1>2, <2>1 DEF TasksInv, DoneInv
<1>11. QED
  BY <1>1, <1>2, <1>3, <1>4, <1>5, <1>6, <1>7, <1>8, <1>9, <1>10, QuietFrame

-----------------------------------------------------------------------------
(* The last active thread.                                                 *)

\* If threads_queue has all counted threads but w, they all wait.
LEMMA LastAlone ==
  ASSUME TasksInv, NEW w \in Workers, Counting(w), th[w].pc # "wait", ~finished,
         Cardinality(idle) + 1 = total
  PROVE  \A v \in Workers : Counting(v) => v = w \/ th[v].pc = "wait"
<1> DEFINE W == {v \in Workers : th[v].pc = "wait" /\ ~wake[th[v].slot]}
           f == [v \in W |-> th[v].slot]
<1>1. IsFiniteSet(Workers) /\ IsFiniteSet(W) /\ IsFiniteSet(Counted)
  <2>1. IsFiniteSet(Workers)
    BY TasksAssumption
  <2>2. W \in SUBSET Workers /\ Counted \in SUBSET Workers
    BY DEF Counted
  <2>3. QED
    BY <2>1, <2>2, FS_Subset
<1>2. f \in Bijection(W, idle)
  <2>1. f \in [W -> idle]
    BY DEF TasksInv, WakeInv
  <2>2. \A u, v \in W : f[u] = f[v] => u = v
    BY DEF TasksInv, LeaseInv, Active
  <2>3. \A s \in idle : \E v \in W : f[v] = s
    BY DEF TasksInv, WakeInv
  <2> HIDE DEF f, W
  <2>4. QED
    BY <2>1, <2>2, <2>3 DEF Bijection, Injection, Surjection, IsInjective
<1>3. Cardinality(idle) = Cardinality(W)
  <2>1. ExistsBijection(W, idle)
    BY <1>2 DEF ExistsBijection
  <2>2. QED
    BY <1>1, <2>1, FS_Bijection
<1>4. w \notin W /\ W \cup {w} \in SUBSET Counted
  BY DEF Counted, Counting
<1>5. Cardinality(W \cup {w}) = Cardinality(W) + 1
  BY <1>1, <1>4, FS_AddElement
<1>6. Cardinality(Counted) = Cardinality(W \cup {w})
  BY <1>3, <1>5 DEF TasksInv, CountInv
<1>7. Counted = W \cup {w}
  BY <1>1, <1>4, <1>6, FS_Subset
<1>8. QED
  BY <1>7 DEF Counted, Counting

\* Then nothing is left to do, if nothing is queued and w has no task.
LEMMA LastIsDone ==
  ASSUME TasksInv, NEW w \in Workers, Counting(w), th[w].pc \in {"get", "preempt"},
         Queued = {}, node[th[w].slot] = NoTask,
         ~finished => Cardinality(idle) + 1 = total
  PROVE  cancelled \/ AllDone
<1> SUFFICES ASSUME ~cancelled, ~finished, \A v \in Workers : th[v].pc # "finish"
             PROVE  AllDone
  BY DEF TasksInv, DoneInv
<1>1. \A v \in Workers : Counting(v) => v = w \/ th[v].pc = "wait"
  BY LastAlone
<1>2. \A s \in Slots : node[s] = NoTask
  <2> SUFFICES ASSUME NEW s \in Slots, node[s] # NoTask PROVE FALSE
    OBVIOUS
  <2>1. PICK v \in Workers : th[v].slot = s /\ th[v].pc \in CarrierPcs
    BY DEF TasksInv, HeldInv
  <2>2. Counting(v) /\ th[v].pc # "wait"
    BY <2>1 DEF Counting, CarrierPcs
  <2>3. QED
    BY <1>1, <2>1, <2>2
<1>3. \A t \in Tasks : Known(t) => t \in ran
  <2>1. \A t \in Tasks : node[th[w].slot] # t /\ \A s \in Slots : node[s] # t
    BY <1>2, TasksAssumption
  <2>2. QED
    BY <2>1 DEF TasksInv, KnownInv
<1>4. Roots \subseteq ran
  BY <1>3, TasksAssumption DEF Known
<1>5. ASSUME NEW t \in ran, NEW u \in Ready[t]
      PROVE  u \in ran
  <2>1. t \in Tasks /\ \A s \in Slots : node[s] # t
    BY <1>2, TasksAssumption DEF TasksInv, TypeInv, DataOK
  <2>2. u \in Tasks /\ Known(u)
    BY <1>5, <2>1, TasksAssumption DEF Known
  <2>3. QED
    BY <1>3, <2>2
<1>6. QED
  BY <1>2, <1>4, <1>5 DEF AllDone

LEMMA QuietLast ==
  ASSUME TasksInv, NEW w \in Workers, GetLast(w)
  PROVE  TasksInv'
<1>1. /\ TypeInv /\ StopInv /\ Carry(w) /\ IdleInv /\ w \in All /\ w # Main
      /\ th[w].pc = "get" /\ th[w].slot \in Slots
  BY WorkerSlot DEF TasksInv, CarryInv, GetLast
<1>2. /\ UNCHANGED <<finished, cancelled, queue, fast, polled, idle, slotCount, useThreads,
                     total, node, wake, leased, freed, spawner, canceller, ran>>
  BY DEF GetLast, taskVars, slotVars, leaseVars, stopVars
<1>3. UNCHANGED <<taskVars, slotVars, leased, idle>>
  BY <1>2 DEF taskVars, slotVars
<1>4. cancelled \/ AllDone
  <2>1. Counting(w) /\ Queued = {} /\ node[th[w].slot] = NoTask
    BY <1>1 DEF Counting, Queued, GetLast, LastActive, Carry
  <2>2. Cardinality(idle) + 1 = total
    BY DEF GetLast, LastActive
  <2>3. QED
    BY <1>1, <2>1, <2>2, LastIsDone
<1>5. Moves(w, "finish") /\ ThreadsOK' /\ th'[w].ret = "loop"
  BY <1>1, FinishMoves, ThreadsMove DEF ThreadPcs, GetLast
<1>6. DataOK'
  BY <1>1, <1>2 DEF TypeInv, DataOK
<1>7. StopInv'
  BY <1>1, <1>2, <1>5 DEF StopInv, Moves, All
<1>8. Fits(w)
  BY <1>1, <1>2, <1>4, <1>5 DEF Fits, Carry, Moves, CarrierPcs
<1>9. KeepsSlot(w) /\ (Counting(w)' <=> Counting(w))
  BY <1>1, <1>2, <1>5
  DEF KeepsSlot, Counting, Moves, BusyPcs, ThreadPcs, IdleInv, Active
<1>10. QED
  BY <1>1, <1>2, <1>3, <1>5, <1>6, <1>7, <1>8, <1>9, QuietFrame

-----------------------------------------------------------------------------
(* The main thread, cancel() and the scheduler's grant.                    *)

LEMMA QuietSpawn ==
  ASSUME TasksInv, NEW w \in All, SpawnNothing(w)
  PROVE  TasksInv'
<1>1. /\ TypeInv /\ StopInv /\ IdleInv /\ SpawnInv /\ th[w].pc = "spawn"
      /\ w # Main => w \in Workers /\ Carry(w) /\ th[w].slot \in Slots
  BY WorkerSlot DEF TasksInv, CarryInv, SpawnNothing, All
<1>2. /\ UNCHANGED <<finished, cancelled, queue, fast, polled, idle, slotCount, useThreads,
                     total, node, wake, leased, freed, canceller, ran>>
      /\ spawner' = IF spawner.who = w THEN NoSpawner ELSE spawner
  BY DEF SpawnNothing, taskVars, slotVars, leaseVars, stopVars
<1>3. UNCHANGED <<taskVars, slotVars, leased, idle>>
  BY <1>2 DEF taskVars, slotVars
<1>4. PICK pc \in {"async", "renew"} : Goto(w, pc) /\ (pc = "async" <=> w = Main)
  BY DEF SpawnNothing
<1>5. Moves(w, pc) /\ ThreadsOK'
  BY <1>1, <1>4, GotoMoves, ThreadsMove DEF ThreadPcs, MainPcs
<1>6. DataOK'
  BY <1>1, <1>2 DEF TypeInv, DataOK, NoSpawner, All
<1>7. StopInv'
  BY <1>1, <1>2, <1>4, <1>5 DEF StopInv, Moves, All
<1>8. w # Main => Fits(w)
  BY <1>1, <1>2, <1>4, <1>5 DEF Fits, Carry, Moves, CarrierPcs
<1>9. w # Main => KeepsSlot(w) /\ (Counting(w)' <=> Counting(w))
  BY <1>1, <1>2, <1>4, <1>5
  DEF KeepsSlot, Counting, Moves, BusyPcs, ThreadPcs, IdleInv, Active
<1>10. \A v \in All \ {w} : th[v].pc = "upscale" => spawner' = spawner
  BY <1>1, <1>2 DEF SpawnInv
<1>11. QED
  BY <1>1, <1>2, <1>3, <1>4, <1>5, <1>6, <1>7, <1>8, <1>9, <1>10, QuietFrame

LEMMA QuietMain ==
  ASSUME TasksInv, AsyncEnd \/ Join
  PROVE  TasksInv'
<1>1. TypeInv /\ StopInv /\ Main \in All
  BY DEF TasksInv, All
<1>2. /\ UNCHANGED <<finished, cancelled, queue, fast, polled, idle, slotCount, useThreads,
                     total, node, wake, leased, freed, spawner, canceller, ran>>
  BY DEF AsyncEnd, Join, taskVars, slotVars, leaseVars, stopVars
<1>3. UNCHANGED <<taskVars, slotVars, leased, idle>>
  BY <1>2 DEF taskVars, slotVars
<1>4. PICK pc \in {"join", "done"} : Goto(Main, pc)
  BY DEF AsyncEnd, Join
<1>5. Moves(Main, pc) /\ ThreadsOK'
  BY <1>1, <1>4, GotoMoves, ThreadsMove DEF MainPcs
<1>6. DataOK'
  BY <1>1, <1>2 DEF TypeInv, DataOK
<1>7. StopInv'
  BY <1>1, <1>2, <1>4, <1>5, TasksAssumption DEF StopInv, Moves, All
<1>8. QED
  BY <1>1, <1>2, <1>3, <1>4, <1>5, <1>6, <1>7, QuietFrame

LEMMA QuietOutside ==
  ASSUME TasksInv, Cancel \/ Grant \/ UNCHANGED vars
  PROVE  TasksInv'
<1>1. TypeInv /\ StopInv /\ Main \in All
  BY DEF TasksInv, All
<1>2. /\ UNCHANGED <<queue, fast, polled, idle, slotCount, useThreads,
                     total, node, leased, spawner, ran, th>>
      /\ finished' \in BOOLEAN /\ cancelled' \in BOOLEAN /\ freed' \in BOOLEAN
      /\ canceller' \in {"none", "free", "wakeAll", "done"}
      /\ wake' \in [Slots -> BOOLEAN]
      /\ finished => finished'
      /\ cancelled => cancelled'
      /\ finished' => finished \/ cancelled'
      /\ wake' = wake \/ finished'
      /\ freed' => finished'
      /\ canceller' # "none" => finished'
      /\ \A v \in All : th'[v] = th[v]
  <2>1. CASE Cancel
    BY <1>1, <2>1 DEF Cancel, taskVars, slotVars, StopInv, TypeInv, DataOK
  <2>2. CASE Grant \/ UNCHANGED vars
    BY <1>1, <2>2 DEF Grant, vars, taskVars, slotVars, stopVars, StopInv, TypeInv, DataOK
  <2>3. QED
    BY <2>1, <2>2
<1>3. UNCHANGED taskVars /\ UNCHANGED <<slotCount, useThreads, leased>>
  BY <1>2 DEF taskVars
<1>4. PlaceInv' /\ KnownInv' /\ CarryInv' /\ HeldInv' /\ DoneInv'
  BY <1>1, <1>2, <1>3, TaskFrame DEF TasksInv
<1>5. SpawnInv' /\ LeaseInv' /\ WakeInv' /\ IdleInv' /\ UseInv'
  BY <1>1, <1>2, <1>3, SlotsFrame DEF TasksInv
<1>6. CountInv'
  BY <1>2, CountFrame DEF TasksInv
<1>7. StopInv'
  BY <1>1, <1>2 DEF StopInv
<1>8. TypeInv'
  BY <1>1, <1>2 DEF TypeInv, DataOK, ThreadsOK
<1>9. QED
  BY <1>4, <1>5, <1>6, <1>7, <1>8 DEF TasksInv

-----------------------------------------------------------------------------
(* Steps that move tasks.                                                  *)

\* A step of w that touches no other slot's context.
LEMMA OthersCarry ==
  ASSUME TasksInv, NEW w \in Workers, Active(w), finished' = finished,
         \A v \in Workers \ {w} : th'[v] = th[v],
         \A u \in Slots \ {th[w].slot} :
           node'[u] = node[u] /\ (node[u] \in ran' <=> node[u] \in ran)
  PROVE  /\ \A v \in Workers \ {w} : Carry(v)'
         /\ \A v \in Workers \ {w} : Active(v) => th[v].slot \in Slots \ {th[w].slot}
<1>1. \A v \in Workers \ {w} : Active(v) => th[v].slot \in Slots \ {th[w].slot}
  BY DEF TasksInv, TypeInv, ThreadsOK, LeaseInv, Active
<1>2. ASSUME NEW v \in Workers \ {w} PROVE Carry(v)'
  <2>1. CASE Active(v)
    <3>1. th'[v] = th[v] /\ Carry(v) /\ th[v].slot \in Slots \ {th[w].slot}
      BY <1>1, <2>1 DEF TasksInv, CarryInv
    <3>2. /\ node'[th[v].slot] = node[th[v].slot]
          /\ node[th[v].slot] \in ran' <=> node[th[v].slot] \in ran
      BY <3>1
    <3>3. QED
      BY <3>1, <3>2 DEF Carry
  <2>2. CASE ~Active(v)
    BY <2>2 DEF Carry, Active
  <2>3. QED
    BY <2>1, <2>2
<1>3. QED
  BY <1>1, <1>2

\* The slots, and the threads' number, in a step of w that keeps its slot.
LEMMA KeepsFrame ==
  ASSUME TasksInv, NEW w \in Workers, NEW pc, Moves(w, pc), KeepsSlot(w), pc # "upscale",
         UNCHANGED <<slotCount, useThreads, leased, spawner, finished>>,
         \/ UNCHANGED <<idle, wake>>
         \/ \E s \in idle : idle' = idle \ {s} /\ wake' = [wake EXCEPT ![s] = TRUE]
  PROVE  SpawnInv' /\ LeaseInv' /\ WakeInv' /\ IdleInv' /\ UseInv'
<1>1. \A v \in All : th'[v] = th[v] \/ v = w
  BY DEF Moves
<1>2. \A v \in Workers : th'[v] = th[v] \/ KeepsSlot(v)
  BY <1>1 DEF All
<1>3. \A v \in All : th'[v].pc = "upscale" => th[v].pc = "upscale" /\ spawner' = spawner
  BY <1>1 DEF Moves
<1>4. QED
  BY <1>2, <1>3, SlotsFrame DEF TasksInv

LEMMA CountSame ==
  ASSUME TasksInv, NEW w \in Workers, NEW pc, Moves(w, pc),
         UNCHANGED <<total, finished>>, Counting(w)' <=> Counting(w)
  PROVE  CountInv'
<1>1. \A v \in Workers : th'[v] = th[v] \/ (Counting(v)' <=> Counting(v))
  BY DEF Moves, All
<1>2. QED
  BY <1>1, CountFrame DEF TasksInv

LEMMA StopSame ==
  ASSUME TasksInv, NEW w \in Workers, NEW pc, Moves(w, pc),
         UNCHANGED <<finished, freed, canceller>>, pc \notin {"free", "wakeAll", "end"}
  PROVE  StopInv'
BY DEF TasksInv, StopInv, Moves, All

\* tryGetTask
LEMMA TakesTask ==
  ASSUME TasksInv, NEW w \in Workers, GetTask(w)
  PROVE  TasksInv'
<1> DEFINE s == th[w].slot
<1>1. /\ TypeInv /\ PlaceInv /\ Carry(w) /\ IdleInv /\ w \in All /\ w # Main
      /\ th[w].pc = "get" /\ s \in Slots /\ Active(w) /\ node[s] = NoTask
  BY WorkerSlot DEF TasksInv, CarryInv, Carry, GetTask, Active
<1>2. UNCHANGED <<finished, cancelled, polled, slotCount, useThreads, total, leased, preempted,
                  freed, spawner, canceller, ran>>
  BY DEF GetTask, slotVars, leaseVars, stopVars
<1>3. PICK t \in queue \cup fast :
        /\ node' = [node EXCEPT ![s] = t]
        /\ fast' = fast \ {t} /\ queue' = queue \ {t}
        /\ TryWakeUp(queue \ {t}, fast \ {t})
  BY DEF GetTask
<1> HIDE DEF s
<1>4. Moves(w, "loop") /\ ThreadsOK' /\ th'[w].ret = th[w].ret
  BY <1>1, GotoMoves, ThreadsMove DEF ThreadPcs, GetTask
<1>5. /\ t \in Tasks /\ t \notin ran /\ t \notin polled /\ t \in Queued
      /\ Queued' = Queued \ {t}
      /\ \A u \in Slots : node[u] # t
  BY <1>1, <1>2, <1>3 DEF TypeInv, DataOK, PlaceInv, Queued
<1>6. /\ idle' \subseteq idle /\ wake' \in [Slots -> BOOLEAN]
      /\ \/ UNCHANGED <<idle, wake>>
         \/ \E u \in idle : idle' = idle \ {u} /\ wake' = [wake EXCEPT ![u] = TRUE]
  BY <1>1, <1>3, WakeUpEffect
<1>7. /\ node' \in [Slots -> Tasks \cup {NoTask}]
      /\ node'[s] = t /\ \A u \in Slots \ {s} : node'[u] = node[u]
  BY <1>1, <1>3, <1>5 DEF TypeInv, DataOK
<1>8. TypeInv'
  BY <1>1, <1>2, <1>3, <1>4, <1>6, <1>7 DEF TypeInv, DataOK
<1>9. SpawnInv' /\ LeaseInv' /\ WakeInv' /\ IdleInv' /\ UseInv'
  <2>1. KeepsSlot(w)
    BY <1>1, <1>2, <1>4 DEF KeepsSlot, Moves, BusyPcs, ThreadPcs, IdleInv, Active
  <2>2. QED
    BY <1>2, <1>4, <1>6, <2>1, KeepsFrame
<1>10. CountInv' /\ StopInv'
  <2>1. Counting(w)' <=> Counting(w)
    BY <1>1, <1>4 DEF Counting, Moves
  <2>2. QED
    BY <1>2, <1>4, <2>1, CountSame, StopSame
<1>11. PlaceInv'
  BY <1>1, <1>2, <1>3, <1>5, <1>7 DEF PlaceInv, Queued
<1>12. \A v \in Workers \ {w} : th'[v] = th[v]
  BY <1>4 DEF Moves, All
<1>13. /\ \A v \in Workers \ {w} : Carry(v)'
       /\ \A v \in Workers \ {w} : Active(v) => th[v].slot \in Slots \ {s}
  BY <1>1, <1>2, <1>7, <1>12, OthersCarry DEF s
<1>14. CarryInv'
  <2>1. Carry(w)'
    BY <1>1, <1>2, <1>4, <1>5, <1>7 DEF Carry, Moves, s
  <2>2. QED
    BY <1>13, <2>1 DEF CarryInv
<1>15. \A x : Known(x)' <=> Known(x)
  <2>1. \A u \in ran : (\A p \in Slots : node'[p] # u) <=> (\A p \in Slots : node[p] # u)
    <3>1. \A u \in ran : u # t /\ u # NoTask
      BY <1>1, <1>5, TasksAssumption DEF TypeInv, DataOK
    <3>2. QED
      BY <1>1, <1>7, <3>1
  <2>2. QED
    BY <1>2, <2>1 DEF Known
<1>16. KnownInv'
  <2>1. KnownInv
    BY DEF TasksInv
  <2>2. \A x \in ran' \cup Queued' : Known(x)'
    BY <1>2, <1>5, <1>15, <2>1 DEF KnownInv
  <2>3. (\A p \in Slots : node[p] # NoTask => Known(node[p]))'
    <3>1. Known(t)
      BY <1>5, <2>1 DEF KnownInv
    <3>2. \A p \in Slots : node'[p] # NoTask => Known(node'[p])
      BY <1>7, <2>1, <3>1 DEF KnownInv
    <3>3. QED
      BY <1>15, <3>2 DEF Known
  <2>4. ASSUME ~finished', NEW x \in Tasks, Known(x)'
        PROVE  x \in ran' \cup Queued' \/ \E p \in Slots : node'[p] = x
    <3>1. x \in ran \cup Queued \/ \E p \in Slots : node[p] = x
      BY <1>2, <1>15, <2>1, <2>4 DEF KnownInv
    <3>2. CASE x \in ran \cup Queued
      BY <1>1, <1>2, <1>5, <1>7, <3>2
    <3>3. CASE \E p \in Slots : node[p] = x
      BY <1>1, <1>7, <3>3, TasksAssumption
    <3>4. QED
      BY <3>1, <3>2, <3>3
  <2>5. QED
    BY <2>2, <2>3, <2>4 DEF KnownInv
<1>17. HeldInv'
  <2> SUFFICES ASSUME ~finished, NEW p \in Slots, node'[p] # NoTask
               PROVE  \E v \in Workers : th'[v].slot = p /\ th'[v].pc \in CarrierPcs
    BY <1>2 DEF HeldInv
  <2>1. CASE p = s
    BY <1>4, <2>1 DEF Moves, CarrierPcs, s
  <2>2. CASE p # s
    <3>1. PICK v \in Workers : th[v].slot = p /\ th[v].pc \in CarrierPcs
      BY <1>7, <2>2 DEF TasksInv, HeldInv
    <3>2. QED
      BY <1>12, <2>2, <3>1 DEF s
  <2>3. QED
    BY <2>1, <2>2
<1>18. DoneInv'
  <2>1. ~AllDone
    BY <1>5 DEF AllDone
  <2>2. th'[w].pc # "finish"
    BY <1>4 DEF Moves
  <2>3. QED
    BY <1>2, <1>12, <2>1, <2>2 DEF TasksInv, DoneInv
<1>19. QED
  BY <1>8, <1>9, <1>10, <1>11, <1>14, <1>16, <1>17, <1>18 DEF TasksInv

LEMMA RunsTask ==
  ASSUME TasksInv, NEW w \in Workers, Run(w)
  PROVE  TasksInv'
<1> DEFINE s == th[w].slot
           t == node[s]
<1>1. /\ TypeInv /\ PlaceInv /\ KnownInv /\ Carry(w) /\ IdleInv /\ w \in All /\ w # Main
      /\ th[w].pc = "run" /\ s \in Slots /\ Active(w)
      /\ t \in Tasks \ ran /\ t # NoTask /\ t \notin Queued
  BY WorkerSlot, TasksAssumption DEF TasksInv, CarryInv, Carry, Run, Active, PlaceInv
<1>2. /\ UNCHANGED <<finished, cancelled, queue, fast, polled, node, slotCount, useThreads,
                     total, leased, preempted, freed, spawner, canceller, idle, wake>>
      /\ ran' = ran \cup {t}
  BY DEF Run, slotVars, leaseVars, stopVars
<1>3. t = node[s]
  OBVIOUS
<1> HIDE DEF s, t
<1>4. Moves(w, "ran") /\ ThreadsOK' /\ th'[w].ret = th[w].ret
  BY <1>1, GotoMoves, ThreadsMove DEF ThreadPcs, Run
<1>5. TypeInv'
  BY <1>1, <1>2, <1>4 DEF TypeInv, DataOK
<1>6. SpawnInv' /\ LeaseInv' /\ WakeInv' /\ IdleInv' /\ UseInv'
  <2>1. KeepsSlot(w)
    BY <1>1, <1>2, <1>4 DEF KeepsSlot, Moves, BusyPcs, ThreadPcs, IdleInv, Active
  <2>2. QED
    BY <1>2, <1>4, <2>1, KeepsFrame
<1>7. CountInv' /\ StopInv'
  <2>1. Counting(w)' <=> Counting(w)
    BY <1>1, <1>4 DEF Counting, Moves
  <2>2. QED
    BY <1>2, <1>4, <2>1, CountSame, StopSame
<1>8. PlaceInv'
  BY <1>1, <1>2 DEF PlaceInv, Queued
<1>9. \A v \in Workers \ {w} : th'[v] = th[v]
  BY <1>4 DEF Moves, All
<1>10. CarryInv'
  <2>1. \A u \in Slots \ {s} : node'[u] = node[u] /\ (node[u] \in ran' <=> node[u] \in ran)
    BY <1>1, <1>2, <1>3 DEF PlaceInv
  <2>2. Carry(w)'
    BY <1>1, <1>2, <1>3, <1>4 DEF Carry, Moves, s
  <2>3. QED
    BY <1>1, <1>2, <1>9, <2>1, <2>2, OthersCarry DEF CarryInv, s
<1>11. \A x : Known(x)' <=> Known(x)
  BY <1>1, <1>2, <1>3 DEF Known
<1>12. KnownInv'
  <2>1. Known(t)
    BY <1>1, <1>3 DEF KnownInv
  <2>2. \A x \in ran' \cup Queued' : Known(x)'
    BY <1>1, <1>2, <1>11, <2>1 DEF KnownInv, Queued
  <2>3. (\A p \in Slots : node[p] # NoTask => Known(node[p]))'
    <3>1. \A p \in Slots : node'[p] # NoTask => Known(node'[p])
      BY <1>1, <1>2 DEF KnownInv
    <3>2. QED
      BY <1>11, <3>1 DEF Known
  <2>4. ~finished' => \A x \in Tasks :
          Known(x)' => x \in ran' \cup Queued' \/ \E p \in Slots : node'[p] = x
    BY <1>1, <1>2, <1>11 DEF KnownInv, Queued
  <2>5. QED
    BY <2>2, <2>3, <2>4 DEF KnownInv
<1>13. HeldInv'
  <2> SUFFICES ASSUME ~finished, NEW p \in Slots, node[p] # NoTask
               PROVE  \E v \in Workers : th'[v].slot = p /\ th'[v].pc \in CarrierPcs
    BY <1>2 DEF HeldInv
  <2>1. PICK v \in Workers : th[v].slot = p /\ th[v].pc \in CarrierPcs
    BY DEF TasksInv, HeldInv
  <2>2. QED
    BY <1>4, <1>9, <2>1 DEF Moves, CarrierPcs
<1>14. DoneInv'
  <2>1. ~AllDone
    BY <1>1, <1>3 DEF AllDone
  <2>2. th'[w].pc # "finish"
    BY <1>4 DEF Moves
  <2>3. QED
    BY <1>2, <1>9, <2>1, <2>2 DEF TasksInv, DoneInv
<1>15. QED
  BY <1>5, <1>6, <1>7, <1>8, <1>10, <1>12, <1>13, <1>14 DEF TasksInv

\* processAsyncTasks
LEMMA AsyncMovesTask ==
  ASSUME TasksInv, AsyncReady
  PROVE  TasksInv'
<1>1. TypeInv /\ PlaceInv /\ KnownInv
  BY DEF TasksInv
<1>2. UNCHANGED <<finished, cancelled, queue, node, slotCount, useThreads, total, leased,
                  preempted, freed, spawner, canceller, ran, th>>
  BY DEF AsyncReady, slotVars, leaseVars, stopVars
<1>3. PICK t \in polled : /\ polled' = polled \ {t} /\ fast' = fast \cup {t}
                          /\ TryWakeUp(queue, fast')
  BY DEF AsyncReady
<1>4. Queued' = Queued /\ Queued # {}
  BY <1>2, <1>3 DEF Queued
<1>5. /\ idle' \subseteq idle /\ wake' \in [Slots -> BOOLEAN]
      /\ \/ UNCHANGED <<idle, wake>>
         \/ \E u \in idle : idle' = idle \ {u} /\ wake' = [wake EXCEPT ![u] = TRUE]
  BY <1>1, <1>3, WakeUpEffect
<1>6. TypeInv'
  BY <1>1, <1>2, <1>3, <1>5 DEF TypeInv, DataOK, ThreadsOK
<1>7. SpawnInv' /\ LeaseInv' /\ WakeInv' /\ IdleInv' /\ UseInv'
  <2>1. \A v \in Workers : th'[v] = th[v] \/ KeepsSlot(v)
    BY <1>2
  <2>2. \A v \in All : th'[v].pc = "upscale" => th[v].pc = "upscale" /\ spawner' = spawner
    BY <1>2
  <2>3. QED
    BY <1>2, <1>5, <2>1, <2>2, SlotsFrame DEF TasksInv
<1>8. CountInv'
  BY <1>2, CountFrame DEF TasksInv
<1>9. StopInv'
  BY <1>2 DEF TasksInv, StopInv
<1>10. PlaceInv'
  BY <1>1, <1>2, <1>3, <1>4 DEF PlaceInv, Queued
<1>11. \A x : Known(x)' <=> Known(x)
  BY <1>2 DEF Known
<1>12. KnownInv'
  BY <1>1, <1>2, <1>4, <1>11 DEF KnownInv
<1>13. CarryInv' /\ HeldInv'
  BY <1>2 DEF TasksInv, CarryInv, Carry, HeldInv
<1>14. DoneInv'
  <2>1. ~AllDone
    BY <1>4 DEF AllDone
  <2>2. QED
    BY <1>2, <2>1 DEF TasksInv, DoneInv
<1>15. QED
  BY <1>6, <1>7, <1>8, <1>9, <1>10, <1>12, <1>13, <1>14 DEF TasksInv

\* What a task makes ready has not been ready before.
LEMMA ReadyIsFresh ==
  ASSUME TypeInv, KnownInv, NEW s \in Slots, node[s] \in ran
  PROVE  /\ node[s] \in Tasks /\ node[s] # NoTask
         /\ Ready[node[s]] \subseteq Tasks /\ Ready[node[s]] \cap (ran \cup Queued) = {}
         /\ \A p \in Slots : node[p] \notin Ready[node[s]]
<1> DEFINE x == node[s]
<1>1. x \in Tasks /\ x # NoTask /\ Ready[x] \subseteq Tasks \ Roots
  BY TasksAssumption DEF TypeInv, DataOK
<1>2. ASSUME NEW r \in Ready[x] PROVE ~Known(r)
  <2> SUFFICES ASSUME Known(r) PROVE FALSE
    OBVIOUS
  <2>1. PICK u \in ran : (\A p \in Slots : node[p] # u) /\ r \in Ready[u]
    BY <1>1, <1>2 DEF Known
  <2>2. u \in Tasks /\ u # x
    BY <2>1 DEF TypeInv, DataOK
  <2>3. QED
    BY <1>1, <1>2, <2>1, <2>2, TasksAssumption
<1>3. \A p \in Slots : node[p] \notin Ready[x]
  <2> SUFFICES ASSUME NEW p \in Slots, node[p] \in Ready[x] PROVE FALSE
    OBVIOUS
  <2>1. node[p] # NoTask
    BY <1>1, TasksAssumption
  <2>2. QED
    BY <1>2, <2>1 DEF KnownInv
<1>4. QED
  BY <1>1, <1>2, <1>3 DEF KnownInv

LEMMA PushesTasks ==
  ASSUME TasksInv, NEW w \in Workers, PushTasks(w)
  PROVE  TasksInv'
<1> DEFINE s == th[w].slot
           x == node[s]
           new == IF finished THEN {} ELSE Ready[x]
<1>1. /\ TypeInv /\ PlaceInv /\ KnownInv /\ Carry(w) /\ IdleInv /\ w \in All /\ w # Main
      /\ th[w].pc = "push" /\ s \in Slots /\ Active(w) /\ x \in ran
  BY WorkerSlot DEF TasksInv, CarryInv, Carry, PushTasks, Active
<1>2. UNCHANGED <<finished, cancelled, fast, ran, slotCount, useThreads, total, leased,
                  preempted, freed, spawner, canceller>>
  BY DEF PushTasks, slotVars, leaseVars, stopVars
<1>3. PICK t \in (Ready[x] \ Async) \cup {NoTask} :
        /\ node' = [node EXCEPT ![s] = t]
        /\ queue' = queue \cup (new \ (Async \cup {t}))
        /\ polled' = polled \cup (new \cap Async)
        /\ \/ UNCHANGED <<idle, wake>> /\ Goto(w, "renew")
           \/ TryWakeUp(queue', fast) /\ Goto(w, "spawn")
  BY DEF PushTasks
<1>4. x = node[s] /\ new \subseteq Ready[x] /\ (~finished => new = Ready[x])
  OBVIOUS
<1>5. /\ x \in Tasks /\ x # NoTask
      /\ Ready[x] \subseteq Tasks /\ Ready[x] \cap (ran \cup Queued) = {}
      /\ \A p \in Slots : node[p] \notin Ready[x]
  BY <1>1, ReadyIsFresh
<1> HIDE DEF s, x, new
<1>6. PICK pc \in {"renew", "spawn"} :
        Moves(w, pc) /\ ThreadsOK' /\ th'[w].ret = th[w].ret
  <2>1. PICK pc \in {"renew", "spawn"} : Goto(w, pc)
    BY <1>3
  <2>2. QED
    BY <1>1, <2>1, GotoMoves, ThreadsMove DEF ThreadPcs
<1>7. /\ idle' \subseteq idle /\ wake' \in [Slots -> BOOLEAN]
      /\ \/ UNCHANGED <<idle, wake>>
         \/ \E u \in idle : idle' = idle \ {u} /\ wake' = [wake EXCEPT ![u] = TRUE]
  <2>1. CASE UNCHANGED <<idle, wake>>
    BY <1>1, <2>1 DEF TypeInv, DataOK
  <2>2. CASE TryWakeUp(queue', fast)
    BY <1>1, <2>2, WakeUpEffect
  <2>3. QED
    BY <1>3, <2>1, <2>2
<1>8. /\ t = NoTask \/ t \in Ready[x] \ Async
      /\ t \in Tasks \cup {NoTask} /\ t \notin ran /\ t # x
      /\ node' \in [Slots -> Tasks \cup {NoTask}]
      /\ node'[s] = t /\ \A u \in Slots \ {s} : node'[u] = node[u]
  <2>1. t = NoTask \/ t \in Ready[x] \ Async
    OBVIOUS
  <2>2. t \in Tasks \cup {NoTask} /\ t \notin ran /\ t # x
    BY <1>1, <1>5, TasksAssumption DEF TypeInv, DataOK
  <2>3. QED
    BY <1>1, <1>3, <2>1, <2>2 DEF TypeInv, DataOK
<1>9. TypeInv'
  <2>1. queue' \subseteq Tasks /\ polled' \subseteq Tasks
    BY <1>1, <1>3, <1>4, <1>5 DEF TypeInv, DataOK
  <2>2. QED
    BY <1>1, <1>2, <1>6, <1>7, <1>8, <2>1 DEF TypeInv, DataOK
<1>10. SpawnInv' /\ LeaseInv' /\ WakeInv' /\ IdleInv' /\ UseInv'
  <2>1. KeepsSlot(w)
    BY <1>1, <1>2, <1>6 DEF KeepsSlot, Moves, BusyPcs, ThreadPcs, IdleInv, Active
  <2>2. QED
    BY <1>2, <1>6, <1>7, <2>1, KeepsFrame
<1>11. CountInv' /\ StopInv'
  <2>1. Counting(w)' <=> Counting(w)
    BY <1>1, <1>6 DEF Counting, Moves
  <2>2. QED
    BY <1>2, <1>6, <2>1, CountSame, StopSame
<1>12. Queued \subseteq Queued' /\ Queued' \subseteq Queued \cup (Ready[x] \ {t})
  BY <1>2, <1>3, <1>4, <1>5, <1>8, TasksAssumption DEF Queued
<1>13. PlaceInv'
  <2>1. (queue \cap fast = {} /\ (queue \cup fast) \cap polled = {})'
    BY <1>1, <1>2, <1>3, <1>4, <1>5 DEF PlaceInv, Queued
  <2>2. (ran \cap Queued)' = {}
    BY <1>1, <1>2, <1>5, <1>12 DEF PlaceInv
  <2>3. (\A u \in Slots : node[u] \notin Queued)'
    <3>1. t \notin Queued'
      <4>1. NoTask \notin Tasks /\ Queued \subseteq Tasks
        BY <1>1, TasksAssumption DEF TypeInv, DataOK, Queued
      <4>2. QED
        BY <1>5, <1>8, <1>12, <4>1
    <3>2. ASSUME NEW u \in Slots \ {s} PROVE node'[u] \notin Queued'
      BY <1>1, <1>5, <1>8, <1>12 DEF PlaceInv
    <3>3. QED
      BY <1>8, <3>1, <3>2
  <2>4. (\A u, v \in Slots : node[u] = node[v] => u = v \/ node[u] = NoTask)'
    BY <1>1, <1>5, <1>8 DEF PlaceInv
  <2>5. QED
    BY <2>1, <2>2, <2>3, <2>4 DEF PlaceInv
<1>14. \A v \in Workers \ {w} : th'[v] = th[v]
  BY <1>6 DEF Moves, All
<1>15. /\ \A v \in Workers \ {w} : Carry(v)'
  BY <1>1, <1>2, <1>8, <1>14, OthersCarry DEF s
<1>16. CarryInv'
  <2>1. Carry(w)'
    BY <1>1, <1>2, <1>6, <1>8 DEF Carry, Moves, s
  <2>2. QED
    BY <1>15, <2>1 DEF CarryInv
<1>17. \A y : Known(y)' <=> Known(y) \/ y \in Ready[x]
  <2>1. \A u \in ran : (\A p \in Slots : node'[p] # u) <=> u = x \/ \A p \in Slots : node[p] # u
    <3>1. \A p \in Slots : p # s => node[p] # x
      BY <1>1, <1>4, <1>5 DEF PlaceInv
    <3>2. QED
      BY <1>1, <1>4, <1>8, <3>1
  <2>2. QED
    BY <1>1, <1>2, <2>1 DEF Known
<1>18. KnownInv'
  <2>1. \A y \in ran' \cup Queued' : Known(y)'
    BY <1>1, <1>2, <1>12, <1>17 DEF KnownInv
  <2>2. (\A p \in Slots : node[p] # NoTask => Known(node[p]))'
    <3>1. \A p \in Slots : node'[p] # NoTask => Known(node'[p]) \/ node'[p] \in Ready[x]
      BY <1>1, <1>8 DEF KnownInv
    <3>2. QED
      BY <1>17, <3>1 DEF Known
  <2>3. ASSUME ~finished', NEW y \in Tasks, Known(y)'
        PROVE  y \in ran' \cup Queued' \/ \E p \in Slots : node'[p] = y
    <3>1. CASE y \in Ready[x]
      <4>1. y \in Queued' \/ y = t
        BY <1>2, <1>3, <1>4, <2>3, <3>1 DEF Queued
      <4>2. QED
        BY <1>1, <1>8, <4>1
    <3>2. CASE y \in ran \cup Queued
      BY <1>2, <1>12, <3>2
    <3>3. CASE \E p \in Slots : node[p] = y
      BY <1>1, <1>2, <1>4, <1>8, <3>3
    <3>4. QED
      BY <1>1, <1>2, <1>17, <2>3, <3>1, <3>2, <3>3 DEF KnownInv
  <2>4. QED
    BY <2>1, <2>2, <2>3 DEF KnownInv
<1>19. HeldInv'
  <2> SUFFICES ASSUME ~finished, NEW p \in Slots, node'[p] # NoTask
               PROVE  \E v \in Workers : th'[v].slot = p /\ th'[v].pc \in CarrierPcs
    BY <1>2 DEF HeldInv
  <2>1. CASE p = s
    BY <1>6, <2>1 DEF Moves, CarrierPcs, s
  <2>2. CASE p # s
    <3>1. PICK v \in Workers : th[v].slot = p /\ th[v].pc \in CarrierPcs
      BY <1>8, <2>2 DEF TasksInv, HeldInv
    <3>2. QED
      BY <1>14, <2>2, <3>1 DEF s
  <2>3. QED
    BY <2>1, <2>2
<1>20. DoneInv'
  <2>1. ~AllDone
    BY <1>1, <1>4, <1>5 DEF AllDone
  <2>2. th'[w].pc # "finish"
    BY <1>6 DEF Moves
  <2>3. QED
    BY <1>2, <1>14, <2>1, <2>2 DEF TasksInv, DoneInv
<1>21. QED
  BY <1>9, <1>10, <1>11, <1>13, <1>16, <1>18, <1>19, <1>20 DEF TasksInv

-----------------------------------------------------------------------------
(* Preemption.                                                             *)

\* The number of counted threads when w leaves or joins them.
LEMMA CountChanges ==
  ASSUME TasksInv, NEW w \in Workers, finished' = finished,
         \A v \in Workers \ {w} : th'[v] = th[v] \/ (Counting(v)' <=> Counting(v)),
         \/ Counting(w) /\ ~Counting(w)' /\ total' = total - 1
         \/ ~Counting(w) /\ Counting(w)' /\ total' = total + 1
  PROVE  CountInv'
<1> SUFFICES ASSUME ~finished PROVE total' = Cardinality(Counted')
  BY DEF CountInv
<1>1. total = Cardinality(Counted)
  BY DEF TasksInv, CountInv
<1>2. IsFiniteSet(Counted)
  <2>1. IsFiniteSet(Workers) /\ Counted \in SUBSET Workers
    BY TasksAssumption DEF Counted
  <2>2. QED
    BY <2>1, FS_Subset
<1>3. \A v \in Workers : /\ v \in Counted <=> Counting(v)
                         /\ v \in Counted' <=> Counting(v)'
  BY DEF Counted, Counting
<1>4. \A v \in Workers \ {w} : Counting(v)' <=> Counting(v)
  BY DEF Counting
<1>5. Counted \subseteq Workers /\ Counted' \subseteq Workers
  BY DEF Counted
<1>6. CASE Counting(w) /\ ~Counting(w)' /\ total' = total - 1
  <2>1. w \in Counted /\ Counted' = Counted \ {w}
    BY <1>3, <1>4, <1>5, <1>6
  <2>2. QED
    BY <1>1, <1>2, <1>6, <2>1, FS_RemoveElement
<1>7. CASE ~Counting(w) /\ Counting(w)' /\ total' = total + 1
  <2>1. w \notin Counted /\ Counted' = Counted \cup {w}
    BY <1>3, <1>4, <1>5, <1>7
  <2>2. QED
    BY <1>1, <1>2, <1>7, <2>1, FS_AddElement
<1>8. QED
  BY <1>6, <1>7

LEMMA PreemptGivesTask ==
  ASSUME TasksInv, NEW w \in Workers, Preempt(w)
  PROVE  TasksInv'
<1> DEFINE s == th[w].slot
           x == node[s]
           last == x = NoTask /\ queue \cup fast \cup polled = {} /\ Cardinality(idle) = total - 1
<1>1. /\ TypeInv /\ PlaceInv /\ KnownInv /\ Carry(w) /\ IdleInv /\ w \in All /\ w # Main
      /\ th[w].pc = "preempt" /\ s \in Slots /\ Active(w) /\ x \notin ran
      /\ x \in Tasks \cup {NoTask} /\ x \notin Queued
  BY WorkerSlot DEF TasksInv, CarryInv, Carry, Preempt, Active, PlaceInv, TypeInv, DataOK
<1>2. /\ UNCHANGED <<finished, cancelled, fast, polled, ran, slotCount, useThreads, leased,
                     preempted, freed, spawner, canceller>>
      /\ total' = total - 1 /\ node' = [node EXCEPT ![s] = NoTask]
  BY DEF Preempt, leaseVars, stopVars
<1>3. \/ x # NoTask /\ queue' = queue \cup {x} /\ TryWakeUp(queue', fast)
      \/ x = NoTask /\ UNCHANGED <<queue, idle, wake>>
  BY DEF Preempt
<1>4. x = node[s]
  OBVIOUS
<1>5. IF last THEN CallFinish(w, "preempted") ELSE Goto(w, "preempted")
  BY DEF Preempt
<1>6. last => cancelled \/ AllDone
  <2>1. Counting(w)
    BY <1>1 DEF Counting
  <2>2. last => Cardinality(idle) + 1 = total
    BY <1>1 DEF TypeInv, DataOK
  <2>3. QED
    BY <1>1, <2>1, <2>2, LastIsDone DEF Queued
<1> HIDE DEF s, x, last
<1>7. PICK pc \in {"finish", "preempted"} :
        /\ Moves(w, pc) /\ ThreadsOK'
        /\ pc = "finish" => last /\ th'[w].ret = "preempted"
  <2>1. CASE last
    BY <1>1, <1>5, <2>1, FinishMoves, ThreadsMove DEF ThreadPcs
  <2>2. CASE ~last
    BY <1>1, <1>5, <2>2, GotoMoves, ThreadsMove DEF ThreadPcs
  <2>3. QED
    BY <2>1, <2>2
<1>8. /\ idle' \subseteq idle /\ wake' \in [Slots -> BOOLEAN]
      /\ \/ UNCHANGED <<idle, wake>>
         \/ \E u \in idle : idle' = idle \ {u} /\ wake' = [wake EXCEPT ![u] = TRUE]
  <2>1. CASE UNCHANGED <<idle, wake>>
    BY <1>1, <2>1 DEF TypeInv, DataOK
  <2>2. CASE TryWakeUp(queue', fast)
    BY <1>1, <2>2, WakeUpEffect
  <2>3. QED
    BY <1>3, <2>1, <2>2
<1>9. /\ node' \in [Slots -> Tasks \cup {NoTask}]
      /\ node'[s] = NoTask /\ \A u \in Slots \ {s} : node'[u] = node[u]
  BY <1>1, <1>2 DEF TypeInv, DataOK
<1>10. TypeInv'
  <2>1. queue' \subseteq Tasks /\ total' \in Int
    BY <1>1, <1>2, <1>3 DEF TypeInv, DataOK
  <2>2. QED
    BY <1>1, <1>2, <1>7, <1>8, <1>9, <2>1 DEF TypeInv, DataOK
<1>11. SpawnInv' /\ LeaseInv' /\ WakeInv' /\ IdleInv' /\ UseInv'
  <2>1. KeepsSlot(w)
    BY <1>1, <1>2, <1>7 DEF KeepsSlot, Moves, BusyPcs, ThreadPcs, IdleInv, Active
  <2>2. QED
    BY <1>2, <1>7, <1>8, <2>1, KeepsFrame
<1>12. \A v \in Workers \ {w} : th'[v] = th[v]
  BY <1>7 DEF Moves, All
<1>13. CountInv' /\ StopInv'
  <2>1. Counting(w) /\ ~Counting(w)'
    BY <1>1, <1>7 DEF Counting, Moves
  <2>2. QED
    BY <1>2, <1>7, <1>12, <2>1, CountChanges, StopSame
<1>14. /\ Queued' \subseteq Queued \cup {x} /\ Queued \subseteq Queued'
       /\ x # NoTask => Queued' = Queued \cup {x}
       /\ x = NoTask => Queued' = Queued
  BY <1>2, <1>3 DEF Queued
<1>15. PlaceInv'
  <2>1. x \notin fast \cup polled
    BY <1>1 DEF Queued
  <2>2. NoTask \notin Queued'
    BY <1>10, TasksAssumption DEF TypeInv, DataOK, Queued
  <2>3. (queue \cap fast = {} /\ (queue \cup fast) \cap polled = {})'
    BY <1>1, <1>2, <1>3, <2>1 DEF PlaceInv
  <2>4. (ran \cap Queued)' = {}
    BY <1>1, <1>2, <1>14 DEF PlaceInv
  <2>5. (\A u \in Slots : node[u] \notin Queued)'
    <3>1. \A u \in Slots \ {s} : node[u] # x \/ x = NoTask
      BY <1>1, <1>4 DEF PlaceInv
    <3>2. QED
      BY <1>1, <1>9, <1>14, <2>2, <3>1 DEF PlaceInv
  <2>6. (\A u, v \in Slots : node[u] = node[v] => u = v \/ node[u] = NoTask)'
    BY <1>1, <1>9 DEF PlaceInv
  <2>7. QED
    BY <2>3, <2>4, <2>5, <2>6 DEF PlaceInv
<1>16. CarryInv'
  <2>1. \A v \in Workers \ {w} : Carry(v)'
    BY <1>1, <1>2, <1>9, <1>12, OthersCarry DEF s
  <2>2. Carry(w)'
    BY <1>7 DEF Carry, Moves
  <2>3. QED
    BY <2>1, <2>2 DEF CarryInv
<1>17. \A y : Known(y)' <=> Known(y)
  <2>1. NoTask \notin ran
    BY <1>1, TasksAssumption DEF TypeInv, DataOK
  <2>2. \A u \in ran : (\A p \in Slots : node'[p] # u) <=> \A p \in Slots : node[p] # u
    BY <1>1, <1>4, <1>9, <2>1
  <2>3. QED
    BY <1>2, <2>2 DEF Known
<1>18. KnownInv'
  <2>1. x # NoTask => Known(x)
    BY <1>1, <1>4 DEF KnownInv
  <2>2. \A y \in ran' \cup Queued' : Known(y)'
    BY <1>1, <1>2, <1>14, <1>17, <2>1 DEF KnownInv
  <2>3. (\A p \in Slots : node[p] # NoTask => Known(node[p]))'
    <3>1. \A p \in Slots : node'[p] # NoTask => Known(node'[p])
      BY <1>1, <1>9 DEF KnownInv
    <3>2. QED
      BY <1>17, <3>1 DEF Known
  <2>4. ASSUME ~finished', NEW y \in Tasks, Known(y)'
        PROVE  y \in ran' \cup Queued' \/ \E p \in Slots : node'[p] = y
    <3>1. y # NoTask
      BY TasksAssumption
    <3>2. CASE y \in ran \cup Queued
      BY <1>2, <1>14, <3>2
    <3>3. CASE \E p \in Slots : node[p] = y
      BY <1>4, <1>9, <1>14, <3>1, <3>3
    <3>4. QED
      BY <1>1, <1>2, <1>17, <2>4, <3>2, <3>3 DEF KnownInv
  <2>5. QED
    BY <2>2, <2>3, <2>4 DEF KnownInv
<1>19. HeldInv'
  <2> SUFFICES ASSUME ~finished, NEW p \in Slots, node'[p] # NoTask
               PROVE  \E v \in Workers : th'[v].slot = p /\ th'[v].pc \in CarrierPcs
    BY <1>2 DEF HeldInv
  <2>1. p # s
    BY <1>9
  <2>2. PICK v \in Workers : th[v].slot = p /\ th[v].pc \in CarrierPcs
    BY <1>9, <2>1 DEF TasksInv, HeldInv
  <2>3. QED
    BY <1>12, <2>1, <2>2 DEF s
<1>20. DoneInv'
  <2>1. AllDone => AllDone'
    <3>1. AllDone => x = NoTask
      BY <1>1, <1>4 DEF AllDone
    <3>2. QED
      BY <1>2, <1>9, <1>14, <3>1 DEF AllDone
  <2>2. th'[w].pc = "finish" => cancelled \/ AllDone
    BY <1>6, <1>7 DEF Moves
  <2>3. QED
    BY <1>2, <1>12, <2>1, <2>2 DEF TasksInv, DoneInv
<1>21. QED
  BY <1>10, <1>11, <1>13, <1>15, <1>16, <1>18, <1>19, <1>20 DEF TasksInv

LEMMA ResumeCounts ==
  ASSUME TasksInv, NEW w \in Workers, Resume(w)
  PROVE  TasksInv'
<1>1. /\ TypeInv /\ Carry(w) /\ IdleInv /\ w \in All /\ w # Main
      /\ th[w].pc = "preempted" /\ th[w].slot \in Slots /\ Active(w)
  BY WorkerSlot DEF TasksInv, CarryInv, Resume, Active
<1>2. /\ UNCHANGED <<finished, cancelled, queue, fast, polled, idle, slotCount, useThreads,
                     node, wake, leased, preempted, freed, spawner, canceller, ran>>
      /\ total' = total + 1
  BY DEF Resume, taskVars, leaseVars, stopVars
<1>3. Moves(w, "loop") /\ ThreadsOK'
  BY <1>1, GotoMoves, ThreadsMove DEF ThreadPcs, Resume
<1>4. TypeInv'
  BY <1>1, <1>2, <1>3 DEF TypeInv, DataOK
<1>5. \A v \in Workers \ {w} : th'[v] = th[v]
  BY <1>3 DEF Moves, All
<1>6. SpawnInv' /\ LeaseInv' /\ WakeInv' /\ IdleInv' /\ UseInv'
  <2>1. KeepsSlot(w)
    BY <1>1, <1>2, <1>3 DEF KeepsSlot, Moves, BusyPcs, ThreadPcs, IdleInv, Active
  <2>2. QED
    BY <1>2, <1>3, <2>1, KeepsFrame
<1>7. CountInv' /\ StopInv'
  <2>1. ~Counting(w) /\ Counting(w)'
    BY <1>1, <1>3 DEF Counting, Moves
  <2>2. QED
    BY <1>2, <1>3, <1>5, <2>1, CountChanges, StopSame
<1>8. PlaceInv' /\ KnownInv' /\ CarryInv' /\ HeldInv' /\ DoneInv'
  <2>1. ~finished => node[th[w].slot] = NoTask
    <3> SUFFICES ASSUME ~finished, node[th[w].slot] # NoTask PROVE FALSE
      OBVIOUS
    <3>1. PICK v \in Workers : th[v].slot = th[w].slot /\ th[v].pc \in CarrierPcs
      BY <1>1 DEF TasksInv, HeldInv
    <3>2. v # w /\ Active(v)
      BY <1>1, <3>1 DEF Active, CarrierPcs
    <3>3. QED
      BY <1>1, <3>1, <3>2 DEF TasksInv, LeaseInv
  <2>2. NoTask \notin ran
    BY <1>1, TasksAssumption DEF TypeInv, DataOK
  <2>3. Fits(w)
    BY <1>1, <1>2, <1>3, <2>1, <2>2 DEF Fits, Carry, Moves, CarrierPcs
  <2>4. \A v \in Workers : th'[v] = th[v] \/ Fits(v)
    BY <1>5, <2>3
  <2>5. QED
    BY <1>1, <1>2, <2>4, TaskFrame DEF TasksInv, taskVars
<1>9. QED
  BY <1>4, <1>6, <1>7, <1>8 DEF TasksInv

-----------------------------------------------------------------------------
(* Steps that change threads_queue.                                        *)

\* The tasks in a step of w that changes none.
LEMMA TasksKept ==
  ASSUME TasksInv, NEW w \in Workers, NEW pc, Moves(w, pc), Fits(w),
         UNCHANGED <<queue, fast, polled, node, ran, finished, cancelled>>
  PROVE  PlaceInv' /\ KnownInv' /\ CarryInv' /\ HeldInv' /\ DoneInv'
<1>1. \A v \in Workers : th'[v] = th[v] \/ Fits(v)
  BY DEF Moves, All
<1>2. QED
  BY <1>1, TaskFrame DEF TasksInv, taskVars

\* The threads that have a slot keep it.
LEMMA StaysActive ==
  ASSUME TasksInv, leased \subseteq leased',
         \A v \in Workers : \/ th'[v] = th[v]
                            \/ Active(v) /\ Active(v)' /\ th'[v].slot = th[v].slot
  PROVE  /\ LeaseInv'
         /\ \A v \in Workers : /\ Active(v)' <=> Active(v)
                               /\ Active(v) => th'[v].slot = th[v].slot
                               /\ th'[v].pc = "none" <=> th[v].pc = "none"
         /\ \A s : Users(s)' = Users(s) /\ Gone(s)' = Gone(s)
<1>1. \A v \in Workers : /\ Active(v)' <=> Active(v)
                         /\ Active(v) => th'[v].slot = th[v].slot
                         /\ th'[v].pc = "none" <=> th[v].pc = "none"
  BY DEF Active
<1>2. LeaseInv'
  BY <1>1 DEF TasksInv, LeaseInv
<1>3. \A s : Users(s)' = Users(s) /\ Gone(s)' = Gone(s)
  BY DEF Users, Gone, Active
<1>4. QED
  BY <1>1, <1>2, <1>3

\* A thread that has called downscale is not among those that count for a slot.
LEMMA GoneIsLess ==
  ASSUME TasksInv, NEW w \in Workers, Active(w)
  PROVE  Cardinality(Gone(th[w].slot)) < slotCount[th[w].slot]
<1> DEFINE s == th[w].slot
<1>1. s \in Slots /\ w \in Users(s) /\ w \notin Gone(s)
  BY DEF TasksInv, TypeInv, ThreadsOK, Active, Users, Gone
<1>2. IsFiniteSet(Users(s)) /\ IsFiniteSet(Gone(s))
  <2>1. IsFiniteSet(Workers) /\ Users(s) \in SUBSET Workers /\ Gone(s) \in SUBSET Workers
    BY TasksAssumption DEF Users, Gone
  <2>2. QED
    BY <2>1, FS_Subset
<1>3. Gone(s) \cup {w} \in SUBSET Users(s)
  BY <1>1 DEF Users, Gone
<1>4. Cardinality(Gone(s) \cup {w}) = Cardinality(Gone(s)) + 1
  BY <1>1, <1>2, FS_AddElement
<1>5. Cardinality(Gone(s) \cup {w}) <= Cardinality(Users(s))
  BY <1>2, <1>3, FS_Subset
<1>6. Cardinality(Users(s)) <= slotCount[s] /\ slotCount[s] \in Nat
  BY <1>1 DEF TasksInv, UseInv, TypeInv, DataOK
<1>7. Cardinality(Users(s)) \in Nat /\ Cardinality(Gone(s)) \in Nat
  BY <1>2, FS_CardinalityType
<1>8. QED
  BY <1>4, <1>5, <1>6, <1>7

LEMMA WaitsInQueue ==
  ASSUME TasksInv, NEW w \in Workers, GetWait(w)
  PROVE  TasksInv'
<1> DEFINE s == th[w].slot
<1>1. /\ TypeInv /\ Carry(w) /\ SpawnInv /\ LeaseInv /\ WakeInv /\ IdleInv /\ UseInv
      /\ w \in All /\ w # Main /\ th[w].pc = "get" /\ s \in Slots /\ Active(w)
  BY WorkerSlot DEF TasksInv, CarryInv, GetWait, Active
<1>2. /\ UNCHANGED <<finished, cancelled, queue, fast, polled, slotCount, useThreads, total,
                     node, wake, leased, preempted, freed, spawner, canceller, ran>>
      /\ idle' = idle \cup {s}
  BY DEF GetWait, taskVars, slotVars, leaseVars, stopVars
<1>3. Moves(w, "wait") /\ ThreadsOK' /\ th'[w].ret = th[w].ret
  BY <1>1, GotoMoves, ThreadsMove DEF ThreadPcs, GetWait
<1>4. th'[w].pc = "wait" /\ th'[w].slot = s /\ s = th[w].slot
  BY <1>3 DEF Moves
<1> HIDE DEF s
<1>5. TypeInv'
  BY <1>1, <1>2, <1>3 DEF TypeInv, DataOK
<1>6. PlaceInv' /\ KnownInv' /\ CarryInv' /\ HeldInv' /\ DoneInv'
  <2>1. Fits(w)
    BY <1>1, <1>2, <1>4 DEF Fits, Carry, CarrierPcs
  <2>2. QED
    BY <1>2, <1>3, <2>1, TasksKept
<1>7. CountInv' /\ StopInv'
  <2>1. Counting(w)' <=> Counting(w)
    BY <1>1, <1>4 DEF Counting
  <2>2. QED
    BY <1>2, <1>3, <2>1, CountSame, StopSame
<1>8. \A v \in Workers \ {w} : th'[v] = th[v]
  BY <1>3 DEF Moves, All
<1>9. /\ LeaseInv'
      /\ \A v \in Workers : /\ Active(v)' <=> Active(v)
                            /\ Active(v) => th'[v].slot = th[v].slot
                            /\ th'[v].pc = "none" <=> th[v].pc = "none"
      /\ \A p : Users(p)' = Users(p) /\ Gone(p)' = Gone(p)
  <2>1. Active(w)'
    BY <1>4 DEF Active
  <2>2. QED
    BY <1>1, <1>2, <1>4, <1>8, <2>1, StaysActive
<1>10. SpawnInv'
  <2>1. \A v \in All : th'[v].pc = "upscale" => th[v].pc = "upscale"
    BY <1>3 DEF Moves
  <2>2. QED
    BY <1>1, <1>2, <1>9, <2>1 DEF SpawnInv
<1>11. \A v \in Workers \ {w} : Active(v) => th[v].slot # s
  BY <1>1, <1>4 DEF LeaseInv
<1>12. WakeInv'
  <2> SUFFICES ASSUME ~finished PROVE WakeInv'
    BY <1>2 DEF WakeInv
  <2>1. ~wake[s]
    BY <1>1, <1>11 DEF WakeInv, Active
  <2>2. (\A p \in idle : ~wake[p] /\ \E v \in Workers : th[v].pc = "wait" /\ th[v].slot = p)'
    BY <1>1, <1>2, <1>4, <1>8, <2>1 DEF WakeInv
  <2>3. (\A v \in Workers : th[v].pc = "wait" /\ ~wake[th[v].slot] => th[v].slot \in idle)'
    BY <1>1, <1>2, <1>4, <1>8 DEF WakeInv
  <2>4. (\A p \in Slots : wake[p] => \E v \in Workers : th[v].pc = "wait" /\ th[v].slot = p)'
    BY <1>1, <1>2, <1>8 DEF WakeInv
  <2>5. QED
    BY <2>2, <2>3, <2>4 DEF WakeInv
<1>13. IdleInv'
  BY <1>1, <1>2, <1>4, <1>8, <1>9, <1>11 DEF IdleInv
<1>14. UseInv'
  <2>1. s < useThreads /\ Cardinality(Gone(s)) < slotCount[s]
    BY <1>1, <1>4, GoneIsLess DEF UseInv
  <2>2. QED
    BY <1>1, <1>2, <1>9, <2>1 DEF UseInv
<1>15. QED
  BY <1>5, <1>6, <1>7, <1>9, <1>10, <1>12, <1>13, <1>14 DEF TasksInv

LEMMA WokenGoesOn ==
  ASSUME TasksInv, NEW w \in Workers, Woken(w)
  PROVE  TasksInv'
<1> DEFINE s == th[w].slot
<1>1. /\ TypeInv /\ Carry(w) /\ SpawnInv /\ LeaseInv /\ WakeInv /\ IdleInv /\ UseInv
      /\ w \in All /\ w # Main /\ th[w].pc = "wait" /\ s \in Slots /\ Active(w)
      /\ finished \/ wake[s]
  BY WorkerSlot DEF TasksInv, CarryInv, Woken, Active
<1>2. /\ UNCHANGED <<finished, cancelled, queue, fast, polled, slotCount, useThreads, total,
                     node, idle, leased, preempted, freed, spawner, canceller, ran>>
      /\ wake' = [wake EXCEPT ![s] = FALSE]
  BY DEF Woken, taskVars, slotVars, leaseVars, stopVars
<1>3. Moves(w, "loop") /\ ThreadsOK' /\ th'[w].ret = th[w].ret
  BY <1>1, GotoMoves, ThreadsMove DEF ThreadPcs, Woken
<1>4. th'[w].pc = "loop" /\ th'[w].slot = s /\ s = th[w].slot
  BY <1>3 DEF Moves
<1> HIDE DEF s
<1>5. /\ wake' \in [Slots -> BOOLEAN] /\ ~wake'[s]
      /\ \A p \in Slots \ {s} : wake'[p] = wake[p]
  BY <1>1, <1>2 DEF TypeInv, DataOK
<1>6. TypeInv'
  BY <1>1, <1>2, <1>3, <1>5 DEF TypeInv, DataOK
<1>7. PlaceInv' /\ KnownInv' /\ CarryInv' /\ HeldInv' /\ DoneInv'
  <2>1. NoTask \notin ran
    BY <1>1, TasksAssumption DEF TypeInv, DataOK
  <2>2. Fits(w)
    BY <1>1, <1>2, <1>4, <2>1 DEF Fits, Carry, CarrierPcs
  <2>3. QED
    BY <1>2, <1>3, <2>2, TasksKept
<1>8. CountInv' /\ StopInv'
  <2>1. Counting(w)' <=> Counting(w)
    BY <1>1, <1>4 DEF Counting
  <2>2. QED
    BY <1>2, <1>3, <2>1, CountSame, StopSame
<1>9. \A v \in Workers \ {w} : th'[v] = th[v]
  BY <1>3 DEF Moves, All
<1>10. /\ LeaseInv'
       /\ \A v \in Workers : /\ Active(v)' <=> Active(v)
                             /\ Active(v) => th'[v].slot = th[v].slot
                             /\ th'[v].pc = "none" <=> th[v].pc = "none"
       /\ \A p : Users(p)' = Users(p) /\ Gone(p)' = Gone(p)
  <2>1. Active(w)'
    BY <1>4 DEF Active
  <2>2. QED
    BY <1>1, <1>2, <1>4, <1>9, <2>1, StaysActive
<1>11. SpawnInv'
  <2>1. \A v \in All : th'[v].pc = "upscale" => th[v].pc = "upscale"
    BY <1>3 DEF Moves
  <2>2. QED
    BY <1>1, <1>2, <1>10, <2>1 DEF SpawnInv
<1>12. \A v \in Workers \ {w} : Active(v) => th[v].slot \in Slots \ {s}
  BY <1>1, <1>4 DEF LeaseInv, TypeInv, ThreadsOK, Active
<1>13. ~finished => s \notin idle
  BY <1>1 DEF WakeInv
<1>14. WakeInv'
  <2> SUFFICES ASSUME ~finished PROVE WakeInv'
    BY <1>2 DEF WakeInv
  <2>1. (\A p \in idle : ~wake[p] /\ \E v \in Workers : th[v].pc = "wait" /\ th[v].slot = p)'
    BY <1>1, <1>2, <1>4, <1>5, <1>9, <1>13 DEF WakeInv, TypeInv, DataOK
  <2>2. (\A v \in Workers : th[v].pc = "wait" /\ ~wake[th[v].slot] => th[v].slot \in idle)'
    BY <1>1, <1>2, <1>4, <1>5, <1>9, <1>12 DEF WakeInv, Active
  <2>3. (\A p \in Slots : wake[p] => \E v \in Workers : th[v].pc = "wait" /\ th[v].slot = p)'
    BY <1>1, <1>4, <1>5, <1>9 DEF WakeInv
  <2>4. QED
    BY <2>1, <2>2, <2>3 DEF WakeInv
<1>15. IdleInv'
  BY <1>1, <1>2, <1>4, <1>9, <1>10, <1>13 DEF IdleInv
<1>16. UseInv'
  BY <1>1, <1>2, <1>10 DEF UseInv
<1>17. QED
  BY <1>6, <1>7, <1>8, <1>10, <1>11, <1>14, <1>15, <1>16 DEF TasksInv

-----------------------------------------------------------------------------
(* Steps that change the leases.                                           *)

LEMMA AcquiresSlot ==
  ASSUME TasksInv, NEW w \in All, SpawnAcquire(w)
  PROVE  TasksInv'
<1> DEFINE s == Min(Slots \ leased)
<1>1. /\ TypeInv /\ StopInv /\ SpawnInv /\ LeaseInv /\ WakeInv /\ IdleInv /\ UseInv
      /\ th[w].pc = "spawn" /\ (~spawner.held \/ spawner.who = w)
      /\ \E n \in Workers : th[n].pc = "none"
      /\ w \in Workers => Carry(w) /\ Active(w)
  BY DEF TasksInv, CarryInv, SpawnAcquire, Active
<1>2. s \in Slots /\ s \notin leased
  BY MinFacts DEF SpawnAcquire
<1>3. /\ UNCHANGED <<finished, cancelled, queue, fast, polled, slotCount, useThreads, total,
                     node, idle, wake, preempted, freed, canceller, ran>>
      /\ leased' = leased \cup {s}
      /\ spawner' = [who |-> w, slot |-> s, held |-> TRUE]
  BY DEF SpawnAcquire, taskVars, slotVars, stopVars
<1> HIDE DEF s
<1>4. Moves(w, "upscale") /\ ThreadsOK' /\ th'[w].ret = th[w].ret
  BY <1>1, GotoMoves, ThreadsMove DEF ThreadPcs, MainPcs, SpawnAcquire
<1>5. /\ th'[w].pc = "upscale" /\ th'[w].slot = th[w].slot
      /\ \A v \in All \ {w} : th'[v] = th[v]
      /\ \A v \in Workers \ {w} : th'[v] = th[v]
  BY <1>4 DEF Moves, All
<1>6. TypeInv'
  BY <1>1, <1>2, <1>3, <1>4 DEF TypeInv, DataOK
<1>7. PlaceInv' /\ KnownInv' /\ CarryInv' /\ HeldInv' /\ DoneInv'
  <2>1. w \in Workers => Fits(w)
    BY <1>1, <1>3, <1>5 DEF Fits, Carry, CarrierPcs
  <2>2. \A v \in Workers : th'[v] = th[v] \/ Fits(v)
    BY <1>5, <2>1
  <2>3. QED
    BY <1>1, <1>3, <2>2, TaskFrame DEF TasksInv, taskVars
<1>8. CountInv'
  <2>1. Counting(w)' <=> Counting(w)
    BY <1>1, <1>5 DEF Counting
  <2>2. QED
    BY <1>3, <1>5, <2>1, CountFrame DEF TasksInv
<1>9. StopInv'
  BY <1>1, <1>3, <1>5 DEF StopInv
<1>10. /\ LeaseInv'
       /\ \A v \in Workers : /\ Active(v)' <=> Active(v)
                             /\ Active(v) => th'[v].slot = th[v].slot
                             /\ th'[v].pc = "none" <=> th[v].pc = "none"
       /\ \A p : Users(p)' = Users(p) /\ Gone(p)' = Gone(p)
  <2>1. Active(w)'
    BY <1>5 DEF Active
  <2>2. QED
    BY <1>1, <1>3, <1>5, <2>1, StaysActive
<1>11. SpawnInv'
  <2>1. \A v \in All : th'[v].pc = "upscale" => v = w
    BY <1>1, <1>5 DEF SpawnInv
  <2>2. /\ spawner'.who = w /\ spawner'.held /\ spawner'.slot \in leased'
        /\ spawner'.slot = s
    BY <1>3
  <2>3. \A v \in Workers : Active(v)' => th'[v].slot # s
    BY <1>1, <1>2, <1>10 DEF LeaseInv
  <2>4. \E n \in Workers : th'[n].pc = "none"
    BY <1>1, <1>10
  <2>5. QED
    BY <2>1, <2>2, <2>3, <2>4 DEF SpawnInv
<1>12. WakeInv'
  BY <1>1, <1>3, <1>5 DEF WakeInv
<1>13. IdleInv'
  BY <1>1, <1>3, <1>5, <1>10 DEF IdleInv
<1>14. UseInv'
  BY <1>1, <1>3, <1>10 DEF UseInv
<1>15. QED
  BY <1>6, <1>7, <1>8, <1>9, <1>10, <1>11, <1>12, <1>13, <1>14 DEF TasksInv

\* w gives its slot up.
LEMMA GivesLease ==
  ASSUME TasksInv, NEW w \in Workers, NEW pc \in {"downscale", "done"}, Moves(w, pc), Active(w),
         th[w].pc # "wait",
         UNCHANGED <<finished, idle, wake, spawner>>, leased' = leased \ {th[w].slot}
  PROVE  SpawnInv' /\ LeaseInv' /\ WakeInv' /\ IdleInv'
<1>1. /\ \A v \in Workers \ {w} : th'[v] = th[v]
      /\ \A v \in All \ {w} : th'[v] = th[v]
      /\ th'[w].pc = pc
      /\ SpawnInv /\ LeaseInv /\ WakeInv /\ IdleInv
  BY DEF Moves, All, TasksInv
<1>2. /\ ~Active(w)'
      /\ \A v \in Workers \ {w} : Active(v)' <=> Active(v)
  BY <1>1 DEF Active
<1>3. \A v \in Workers \ {w} : Active(v) => th[v].slot # th[w].slot
  BY <1>1 DEF LeaseInv
<1>4. SpawnInv'
  <2> SUFFICES ASSUME NEW u \in All, th'[u].pc = "upscale"
               PROVE  /\ spawner'.who = u /\ spawner'.held /\ spawner'.slot \in leased'
                      /\ \A v \in Workers : Active(v)' => th'[v].slot # spawner'.slot
                      /\ \E n \in Workers : th'[n].pc = "none"
    BY DEF SpawnInv
  <2>1. u # w /\ th[u].pc = "upscale"
    BY <1>1
  <2>2. /\ spawner.who = u /\ spawner.held /\ spawner.slot \in leased
        /\ \A v \in Workers : Active(v) => th[v].slot # spawner.slot
    BY <1>1, <2>1 DEF SpawnInv
  <2>3. \E n \in Workers : th'[n].pc = "none"
    <3>1. PICK n \in Workers : th[n].pc = "none"
      BY <1>1, <2>1 DEF SpawnInv
    <3>2. QED
      BY <1>1, <3>1 DEF Active
  <2>4. QED
    BY <1>1, <1>2, <2>2, <2>3
<1>5. LeaseInv'
  BY <1>1, <1>2, <1>3 DEF LeaseInv
<1>6. WakeInv'
  BY <1>1 DEF WakeInv
<1>7. IdleInv'
  BY <1>1, <1>2 DEF IdleInv
<1>8. QED
  BY <1>4, <1>5, <1>6, <1>7

LEMMA LosesLease ==
  ASSUME TasksInv, NEW w \in Workers, LoseLease(w)
  PROVE  TasksInv'
<1> DEFINE s == th[w].slot
<1>1. /\ TypeInv /\ StopInv /\ IdleInv /\ UseInv /\ Carry(w)
      /\ w \in All /\ w # Main /\ s \in Slots /\ Active(w)
      /\ th[w].pc \in {"renew", "preempted"} /\ (th[w].pc = "renew" => finished)
  BY WorkerSlot DEF TasksInv, CarryInv, LoseLease, Active, StopInv
<1>2. /\ UNCHANGED <<finished, cancelled, queue, fast, polled, slotCount, useThreads, total,
                     node, idle, wake, freed, spawner, canceller, ran>>
      /\ leased' = leased \ {s}
  BY DEF LoseLease, taskVars, slotVars, stopVars
<1>3. Moves(w, "downscale") /\ ThreadsOK' /\ th'[w].ret = th[w].ret
  BY <1>1, GotoMoves, ThreadsMove DEF ThreadPcs, LoseLease
<1>4. th'[w].pc = "downscale" /\ th'[w].slot = s /\ s = th[w].slot
  BY <1>3 DEF Moves
<1> HIDE DEF s
<1>5. \A v \in Workers \ {w} : th'[v] = th[v]
  BY <1>3 DEF Moves, All
<1>6. TypeInv'
  BY <1>1, <1>2, <1>3 DEF TypeInv, DataOK
<1>7. PlaceInv' /\ KnownInv' /\ CarryInv' /\ HeldInv' /\ DoneInv'
  <2>1. Fits(w)
    BY <1>1, <1>2, <1>4 DEF Fits, Carry, CarrierPcs
  <2>2. QED
    BY <1>2, <1>3, <2>1, TasksKept
<1>8. CountInv'
  <2>1. finished' \/ (Counting(w)' <=> Counting(w))
    BY <1>1, <1>2, <1>4 DEF Counting
  <2>2. QED
    BY <1>2, <1>5, <2>1, CountFrame DEF TasksInv
<1>9. StopInv'
  BY <1>2, <1>3, StopSame
<1>10. SpawnInv' /\ LeaseInv' /\ WakeInv' /\ IdleInv'
  BY <1>1, <1>2, <1>3, <1>4, GivesLease
<1>11. UseInv'
  <2>1. s \notin idle
    BY <1>1, <1>4 DEF IdleInv
  <2>2. \A p : Users(p)' = Users(p)
    BY <1>1, <1>4, <1>5 DEF Users
  <2>3. \A p \in Slots \ {s} : Gone(p)' = Gone(p)
    BY <1>1, <1>4, <1>5 DEF Gone
  <2>4. \A v \in Workers : Active(v)' => Active(v) /\ th'[v].slot = th[v].slot
    BY <1>4, <1>5 DEF Active
  <2>5. idle \subseteq Slots
    BY <1>1 DEF TypeInv, DataOK
  <2>6. QED
    BY <1>1, <1>2, <2>1, <2>2, <2>3, <2>4, <2>5 DEF UseInv
<1>12. QED
  BY <1>6, <1>7, <1>8, <1>9, <1>10, <1>11 DEF TasksInv

\* One thread fewer uses the slot, or has called downscale.
LEMMA OneLess ==
  ASSUME TasksInv, NEW w \in Workers, NEW s \in Slots, th[w].slot = s,
         th[w].pc \in {"downscale", "end"}, th'[w].pc = "done",
         \A v \in Workers \ {w} : th'[v] = th[v]
  PROVE  /\ \A p \in Slots \ {s} : Users(p)' = Users(p) /\ Gone(p)' = Gone(p)
         /\ Cardinality(Users(s))' = Cardinality(Users(s)) - 1
         /\ th[w].pc = "downscale" => Cardinality(Gone(s))' = Cardinality(Gone(s)) - 1
         /\ th[w].pc = "end" => Gone(s)' = Gone(s)
         /\ Cardinality(Users(s)) \in Nat \ {0} /\ Cardinality(Gone(s)) \in Nat
<1>1. IsFiniteSet(Users(s)) /\ IsFiniteSet(Gone(s))
  <2>1. IsFiniteSet(Workers) /\ Users(s) \in SUBSET Workers /\ Gone(s) \in SUBSET Workers
    BY TasksAssumption DEF Users, Gone
  <2>2. QED
    BY <2>1, FS_Subset
<1>2. \A p \in Slots \ {s} : Users(p)' = Users(p) /\ Gone(p)' = Gone(p)
  BY DEF Users, Gone
<1>3. w \in Users(s) /\ Users(s)' = Users(s) \ {w}
  BY DEF Users
<1>4. /\ th[w].pc = "downscale" => w \in Gone(s) /\ Gone(s)' = Gone(s) \ {w}
      /\ th[w].pc = "end" => Gone(s)' = Gone(s)
  BY DEF Gone
<1>5. Cardinality(Users(s))' = Cardinality(Users(s)) - 1
  BY <1>1, <1>3, FS_RemoveElement
<1>6. th[w].pc = "downscale" => Cardinality(Gone(s))' = Cardinality(Gone(s)) - 1
  BY <1>1, <1>4, FS_RemoveElement
<1>7. Cardinality(Users(s)) \in Nat \ {0} /\ Cardinality(Gone(s)) \in Nat
  <2>1. Cardinality(Users(s)) \in Nat /\ Cardinality(Gone(s)) \in Nat
    BY <1>1, FS_CardinalityType
  <2>2. Cardinality(Users(s)) # 0
    BY <1>1, <1>3, FS_EmptySet
  <2>3. QED
    BY <2>1, <2>2
<1>8. QED
  BY <1>2, <1>4, <1>5, <1>6, <1>7

LEMMA EndGivesSlot ==
  ASSUME TasksInv, NEW w \in Workers, End(w)
  PROVE  TasksInv'
<1>0. PICK s \in Slots : s = th[w].slot
  BY WorkerSlot DEF TasksInv, End
<1>1. /\ TypeInv /\ StopInv /\ UseInv /\ Carry(w)
      /\ w \in All /\ w # Main /\ Active(w) /\ th[w].pc = "end" /\ finished
  BY WorkerSlot DEF TasksInv, CarryInv, End, Active, StopInv
<1>2. /\ UNCHANGED <<finished, cancelled, queue, fast, polled, slotCount, useThreads, total,
                     node, idle, wake, freed, spawner, canceller, ran>>
      /\ leased' = leased \ {s}
  BY <1>0 DEF End, taskVars, slotVars, stopVars
<1>3. Moves(w, "done") /\ ThreadsOK' /\ th'[w].ret = th[w].ret
  BY <1>1, GotoMoves, ThreadsMove DEF ThreadPcs, End
<1>4. th'[w].pc = "done" /\ th'[w].slot = s /\ s = th[w].slot
  BY <1>0, <1>3 DEF Moves
<1>5. \A v \in Workers \ {w} : th'[v] = th[v]
  BY <1>3 DEF Moves, All
<1>6. TypeInv'
  BY <1>1, <1>2, <1>3 DEF TypeInv, DataOK
<1>7. PlaceInv' /\ KnownInv' /\ CarryInv' /\ HeldInv' /\ DoneInv'
  <2>1. Fits(w)
    BY <1>1, <1>2, <1>4 DEF Fits, Carry, CarrierPcs
  <2>2. QED
    BY <1>2, <1>3, <2>1, TasksKept
<1>8. CountInv'
  BY <1>1, <1>2, CountFrame DEF TasksInv
<1>9. StopInv'
  BY <1>2, <1>3, StopSame
<1>10. SpawnInv' /\ LeaseInv' /\ WakeInv' /\ IdleInv'
  BY <1>1, <1>2, <1>3, <1>4, GivesLease
<1>11. UseInv'
  <2>1. /\ \A p \in Slots : Gone(p)' = Gone(p)
        /\ \A p \in Slots \ {s} : Users(p)' = Users(p)
        /\ Cardinality(Users(s))' = Cardinality(Users(s)) - 1
        /\ Cardinality(Users(s)) \in Nat
    BY <1>1, <1>4, <1>5, OneLess
  <2>2. \A v \in Workers : Active(v)' => Active(v) /\ th'[v].slot = th[v].slot
    BY <1>4, <1>5 DEF Active
  <2>3. idle \subseteq Slots /\ slotCount[s] \in Nat
    BY <1>1 DEF TypeInv, DataOK
  <2>4. Cardinality(Users(s))' <= slotCount[s]
    BY <1>1, <2>1, <2>3 DEF UseInv
  <2>5. (\A p \in Slots : Cardinality(Users(p)) <= slotCount[p])'
    BY <1>1, <1>2, <2>1, <2>4 DEF UseInv
  <2>6. (\A p \in idle : p < useThreads /\ Cardinality(Gone(p)) < slotCount[p])'
    BY <1>1, <1>2, <2>1, <2>3 DEF UseInv
  <2>7. QED
    BY <1>1, <1>2, <2>2, <2>5, <2>6 DEF UseInv
<1>12. QED
  BY <1>6, <1>7, <1>8, <1>9, <1>10, <1>11 DEF TasksInv

LEMMA Downscales ==
  ASSUME TasksInv, NEW w \in Workers, Downscale(w)
  PROVE  TasksInv'
<1>0. PICK s \in Slots : s = th[w].slot
  BY WorkerSlot DEF TasksInv, Downscale
<1>1. /\ TypeInv /\ SpawnInv /\ LeaseInv /\ WakeInv /\ IdleInv /\ UseInv /\ Carry(w)
      /\ w \in All /\ w # Main /\ th[w].pc = "downscale" /\ ~Active(w)
  BY WorkerSlot DEF TasksInv, CarryInv, Downscale, Active
<1>2. UNCHANGED <<finished, cancelled, queue, fast, polled, total, node, idle, wake, leased,
                  freed, spawner, canceller, ran>>
  BY DEF Downscale, taskVars, leaseVars, stopVars
<1>3. Moves(w, "done") /\ ThreadsOK' /\ th'[w].ret = th[w].ret
  BY <1>1, GotoMoves, ThreadsMove DEF ThreadPcs, Downscale
<1>4. th'[w].pc = "done" /\ th'[w].slot = s /\ s = th[w].slot
  BY <1>0, <1>3 DEF Moves
<1>5. /\ \A v \in Workers \ {w} : th'[v] = th[v]
      /\ \A v \in All \ {w} : th'[v] = th[v]
  BY <1>3 DEF Moves, All
<1>6. /\ \A p \in Slots \ {s} : Users(p)' = Users(p) /\ Gone(p)' = Gone(p)
      /\ Cardinality(Users(s))' = Cardinality(Users(s)) - 1
      /\ Cardinality(Gone(s))' = Cardinality(Gone(s)) - 1
      /\ Cardinality(Users(s)) \in Nat \ {0} /\ Cardinality(Gone(s)) \in Nat
  BY <1>1, <1>4, <1>5, OneLess
<1>7. slotCount[s] \in Nat \ {0} /\ idle \subseteq Slots /\ useThreads \in Nat
  BY <1>1, <1>6 DEF UseInv, TypeInv, DataOK
<1>8. /\ slotCount' = [slotCount EXCEPT ![s] = @ - 1]
      /\ useThreads' = IF s + 1 = useThreads THEN HighestSlot(slotCount') ELSE useThreads
  BY <1>0, <1>7 DEF Downscale
<1>9. /\ slotCount' \in [Slots -> Nat]
      /\ slotCount'[s] = slotCount[s] - 1
      /\ \A p \in Slots \ {s} : slotCount'[p] = slotCount[p]
  BY <1>1, <1>7, <1>8 DEF TypeInv, DataOK
<1>10. (\A p \in Slots : Cardinality(Users(p)) <= slotCount[p])'
  <2>1. Cardinality(Users(s))' <= slotCount'[s]
    BY <1>1, <1>6, <1>7, <1>9 DEF UseInv
  <2>2. \A p \in Slots \ {s} : Cardinality(Users(p))' <= slotCount'[p]
    BY <1>1, <1>6, <1>9 DEF UseInv
  <2>3. QED
    BY <2>1, <2>2
<1>11. (\A p \in idle : Cardinality(Gone(p)) < slotCount[p])'
  <2>1. s \in idle => Cardinality(Gone(s))' < slotCount'[s]
    BY <1>1, <1>6, <1>7, <1>9 DEF UseInv
  <2>2. \A p \in idle \ {s} : Cardinality(Gone(p))' < slotCount'[p]
    BY <1>1, <1>6, <1>7, <1>9 DEF UseInv
  <2>3. QED
    BY <1>2, <2>1, <2>2
<1>12. ASSUME NEW p \in Slots, p < useThreads, slotCount'[p] > 0
       PROVE  p < useThreads'
  <2> DEFINE S == {q \in Slots : q < useThreads /\ slotCount'[q] > 0}
  <2>1. p \in S /\ S \subseteq Slots
    BY <1>12
  <2>2. CASE s + 1 = useThreads
    <3>1. useThreads' = Max(S) + 1
      BY <1>8, <1>12, <2>2 DEF HighestSlot
    <3> HIDE DEF S
    <3>2. Max(S) \in Slots /\ p <= Max(S)
      BY <2>1, MaxFacts
    <3>3. QED
      BY <3>1, <3>2, TasksAssumption DEF Slots
  <2>3. CASE s + 1 # useThreads
    BY <1>8, <1>12, <2>3
  <2>4. QED
    BY <2>2, <2>3
<1>13. useThreads' \in Nat
  <2> DEFINE S == {q \in Slots : q < useThreads /\ slotCount'[q] > 0}
  <2>1. CASE useThreads' = Max(S) + 1 /\ S # {}
    <3>1. Max(S) \in Slots
      <4>1. S \subseteq Slots
        OBVIOUS
      <4> HIDE DEF S
      <4>2. QED
        BY <2>1, <4>1, MaxFacts
    <3> HIDE DEF S
    <3>2. QED
      BY <2>1, <3>1, TasksAssumption DEF Slots
  <2>2. CASE useThreads' = useThreads
    BY <1>7, <2>2
  <2>3. QED
    BY <1>8, <2>1, <2>2 DEF HighestSlot
<1>14. \A v \in Workers : Active(v)' <=> Active(v) /\ v # w
  BY <1>1, <1>4, <1>5 DEF Active
<1>15. UseInv'
  <2>1. \A p \in idle : p < useThreads'
    <3> TAKE p \in idle
    <3>1. p \in Slots /\ p < useThreads
      BY <1>1, <1>7 DEF UseInv
    <3>2. Cardinality(Gone(p))' \in Nat
      <4>1. IsFiniteSet(Workers) /\ Gone(p)' \in SUBSET Workers
        BY TasksAssumption DEF Gone
      <4>2. QED
        BY <4>1, FS_Subset, FS_CardinalityType
    <3>3. slotCount'[p] > 0
      BY <1>2, <1>9, <1>11, <3>1, <3>2
    <3>4. QED
      BY <1>12, <3>1, <3>3
  <2>2. ASSUME NEW v \in Workers, Active(v)' PROVE th'[v].slot < useThreads'
    <3>1. /\ v # w /\ th'[v] = th[v] /\ th[v].slot \in Slots /\ th[v].slot < useThreads
      BY <1>1, <1>5, <1>14, <2>2 DEF UseInv, TypeInv, ThreadsOK, Active
    <3>2. PICK p \in Slots : p = th[v].slot
      BY <3>1
    <3>3. IsFiniteSet(Users(p)') /\ v \in Users(p)'
      <4>1. IsFiniteSet(Workers) /\ Users(p)' \in SUBSET Workers
        BY TasksAssumption DEF Users
      <4>2. v \in Users(p)'
        BY <2>2, <3>1, <3>2 DEF Users, Active
      <4>3. QED
        BY <4>1, <4>2, FS_Subset
    <3>4. Cardinality(Users(p)') \in Nat \ {0}
      BY <3>3, FS_EmptySet, FS_CardinalityType
    <3>5. slotCount'[p] > 0
      BY <1>9, <1>10, <3>4
    <3>6. QED
      BY <1>12, <3>1, <3>2, <3>5
  <2>3. QED
    BY <1>2, <1>10, <1>11, <2>1, <2>2 DEF UseInv
<1>16. TypeInv'
  BY <1>1, <1>2, <1>3, <1>9, <1>13 DEF TypeInv, DataOK
<1>17. PlaceInv' /\ KnownInv' /\ CarryInv' /\ HeldInv' /\ DoneInv'
  <2>1. Fits(w)
    BY <1>1, <1>2, <1>4 DEF Fits, Carry, CarrierPcs
  <2>2. QED
    BY <1>2, <1>3, <2>1, TasksKept
<1>18. CountInv' /\ StopInv'
  <2>1. Counting(w)' <=> Counting(w)
    BY <1>1, <1>4 DEF Counting
  <2>2. QED
    BY <1>2, <1>3, <2>1, CountSame, StopSame
<1>19. SpawnInv'
  <2>1. \A v \in All : th'[v].pc = "upscale" => th[v].pc = "upscale"
    BY <1>4, <1>5
  <2>2. \A v \in Workers : th[v].pc = "none" => th'[v].pc = "none"
    BY <1>1, <1>5
  <2>3. \A v \in Workers : Active(v)' => Active(v) /\ th'[v] = th[v]
    BY <1>5, <1>14
  <2>4. QED
    BY <1>1, <1>2, <2>1, <2>2, <2>3 DEF SpawnInv
<1>20. LeaseInv'
  BY <1>1, <1>2, <1>5, <1>14 DEF LeaseInv
<1>21. WakeInv'
  BY <1>1, <1>2, <1>4, <1>5 DEF WakeInv
<1>22. IdleInv'
  BY <1>1, <1>2, <1>5, <1>14 DEF IdleInv
<1>23. QED
  BY <1>15, <1>16, <1>17, <1>18, <1>19, <1>20, <1>21, <1>22 DEF TasksInv

\* upscale() and the start of the new thread n.
LEMMA Upscales ==
  ASSUME TasksInv, NEW w \in All, Upscale(w)
  PROVE  TasksInv'
<1>0. PICK s \in Slots : s = spawner.slot
  BY UpscaleMoves DEF TasksInv
<1>1. /\ TypeInv /\ StopInv /\ SpawnInv /\ LeaseInv /\ WakeInv /\ IdleInv /\ UseInv
      /\ CarryInv /\ HeldInv
  BY DEF TasksInv
<1>2. PICK n \in Workers, pc \in {"spawn", "async", "renew"} :
           /\ th[w].pc = "upscale" /\ th[n].pc = "none" /\ n # w
           /\ th' \in [All -> ThreadType]
           /\ th'[w].pc = pc /\ th'[w].slot = th[w].slot
           /\ th'[n].pc = "loop" /\ th'[n].slot = s /\ th'[n].ret = "loop"
           /\ \A v \in All \ {n, w} : th'[v] = th[v]
           /\ pc \in MainPcs <=> w = Main \/ pc = "spawn"
           /\ pc = "spawn" => spawner' = [spawner EXCEPT !.slot = NoSlot]
           /\ pc # "spawn" => spawner' = NoSpawner
  BY <1>0, <1>1, UpscaleMoves
<1>3. /\ UNCHANGED <<finished, cancelled, queue, fast, polled, node, idle, wake, leased,
                     preempted, freed, canceller, ran>>
      /\ slotCount' = [slotCount EXCEPT ![s] = @ + 1]
      /\ total' = total + 1
      /\ useThreads' = IF s < useThreads THEN useThreads ELSE s + 1
  BY <1>0 DEF Upscale, taskVars, leaseVars, stopVars
<1>4. /\ spawner.who = w /\ s \in leased
      /\ \A v \in Workers : Active(v) => th[v].slot # s
  BY <1>0, <1>1, <1>2 DEF SpawnInv
<1>5. /\ \A v \in Workers \ {n, w} : th'[v] = th[v]
      /\ \A v \in Workers : v \in All /\ v # Main
      /\ w # Main => w \in Workers
  BY <1>2, TasksAssumption DEF All
<1>6. /\ slotCount' \in [Slots -> Nat] /\ slotCount'[s] = slotCount[s] + 1
      /\ \A p \in Slots \ {s} : slotCount'[p] = slotCount[p]
      /\ slotCount[s] \in Nat
      /\ useThreads' \in Nat /\ s < useThreads' /\ useThreads <= useThreads'
  <2>1. /\ slotCount \in [Slots -> Nat] /\ slotCount[s] \in Nat /\ useThreads \in Nat
        /\ s \in Nat
    BY <1>1, TasksAssumption DEF TypeInv, DataOK, Slots
  <2>2. useThreads' \in Nat /\ s < useThreads' /\ useThreads <= useThreads'
    BY <1>3, <2>1
  <2>3. QED
    BY <1>3, <2>1, <2>2
<1>7. TypeInv'
  <2>1. spawner' \in [who : All, slot : Slots \cup {NoSlot}, held : BOOLEAN]
    <3>1. spawner \in [who : All, slot : Slots \cup {NoSlot}, held : BOOLEAN] /\ Main \in All
      BY <1>1 DEF TypeInv, DataOK, All
    <3>2. CASE pc = "spawn"
      BY <1>2, <3>1, <3>2
    <3>3. NoSpawner \in [who : All, slot : Slots \cup {NoSlot}, held : BOOLEAN]
      BY <3>1 DEF NoSpawner
    <3>4. QED
      BY <1>2, <3>2, <3>3
  <2>2. total' \in Int
    BY <1>1, <1>3 DEF TypeInv, DataOK
  <2>3. DataOK'
    BY <1>1, <1>3, <1>6, <2>1, <2>2 DEF TypeInv, DataOK
  <2>4. th'[Main].pc \in MainPcs
    BY <1>1, <1>2, <1>5 DEF TypeInv, ThreadsOK, All
  <2>5. \A v \in Workers : th'[v].pc \in ThreadPcs /\ (th'[v].pc # "none" => th'[v].slot \in Slots)
    <3>1. w \in Workers => th'[w].pc \in ThreadPcs /\ th'[w].slot \in Slots
      BY <1>1, <1>2, <1>5 DEF TypeInv, ThreadsOK, ThreadPcs, MainPcs
    <3>2. th'[n].pc \in ThreadPcs /\ th'[n].slot \in Slots
      BY <1>2 DEF ThreadPcs
    <3>3. QED
      BY <1>1, <1>5, <3>1, <3>2 DEF TypeInv, ThreadsOK
  <2>6. QED
    BY <1>2, <2>3, <2>4, <2>5 DEF TypeInv, ThreadsOK
<1>8. PlaceInv' /\ KnownInv' /\ CarryInv' /\ HeldInv' /\ DoneInv'
  <2>1. Fits(n)
    <3>1. ~finished => node[s] = NoTask
      <4> SUFFICES ASSUME ~finished, node[s] # NoTask PROVE FALSE
        OBVIOUS
      <4>1. PICK v \in Workers : th[v].slot = s /\ th[v].pc \in CarrierPcs
        BY <1>1 DEF HeldInv
      <4>2. QED
        BY <1>4, <4>1 DEF Active, CarrierPcs
    <3>2. NoTask \notin ran
      BY <1>1, TasksAssumption DEF TypeInv, DataOK
    <3>3. QED
      BY <1>2, <1>3, <3>1, <3>2 DEF Fits, Carry, CarrierPcs
  <2>2. w \in Workers => Fits(w)
    <3> SUFFICES ASSUME w \in Workers PROVE Fits(w)
      OBVIOUS
    <3>1. pc \in {"spawn", "renew"}
      BY <1>2, <1>5 DEF MainPcs
    <3>2. Carry(w)
      BY <1>1 DEF CarryInv
    <3>3. QED
      BY <1>2, <1>3, <3>1, <3>2 DEF Fits, Carry, CarrierPcs
  <2>3. \A v \in Workers : th'[v] = th[v] \/ Fits(v)
    BY <1>5, <2>1, <2>2
  <2>4. QED
    BY <1>1, <1>3, <2>3, TaskFrame DEF TasksInv, taskVars
<1>9. CountInv'
  <2>1. ~Counting(n) /\ Counting(n)' /\ (w \in Workers => (Counting(w)' <=> Counting(w)))
    BY <1>2 DEF Counting
  <2>2. \A v \in Workers \ {n} : Counting(v)' <=> Counting(v)
    <3>1. \A v \in Workers \ {n, w} : Counting(v)' <=> Counting(v)
      BY <1>5 DEF Counting
    <3>2. QED
      BY <2>1, <3>1
  <2>3. QED
    BY <1>3, <2>1, <2>2, CountChanges
<1>10. StopInv'
  BY <1>1, <1>2, <1>3, <1>5 DEF StopInv
<1>11. SpawnInv'
  <2>1. \A v \in All : th'[v].pc # "upscale"
    BY <1>1, <1>2, <1>4 DEF SpawnInv
  <2>2. QED
    BY <2>1 DEF SpawnInv
<1>12. /\ Active(n)' /\ ~Active(n)
       /\ \A v \in Workers \ {n} : /\ Active(v)' <=> Active(v)
                                   /\ th'[v].slot = th[v].slot
                                   /\ th'[v].pc = "wait" <=> th[v].pc = "wait"
                                   /\ th'[v].pc \in {"none", "done"} <=> th[v].pc \in {"none", "done"}
                                   /\ th'[v].pc = "downscale" <=> th[v].pc = "downscale"
                                   /\ th'[v] = th[v] \/ (v = w /\ th[v].pc = "upscale")
  <2>1. Active(n)' /\ ~Active(n)
    BY <1>2 DEF Active
  <2>2. ASSUME NEW v \in Workers \ {n}
        PROVE  /\ Active(v)' <=> Active(v)
               /\ th'[v].slot = th[v].slot
               /\ th'[v].pc = "wait" <=> th[v].pc = "wait"
               /\ th'[v].pc \in {"none", "done"} <=> th[v].pc \in {"none", "done"}
               /\ th'[v].pc = "downscale" <=> th[v].pc = "downscale"
               /\ th'[v] = th[v] \/ (v = w /\ th[v].pc = "upscale")
    <3>1. CASE v = w
      BY <1>2, <3>1 DEF Active
    <3>2. CASE v # w
      BY <1>5, <2>2, <3>2 DEF Active
    <3>3. QED
      BY <3>1, <3>2
  <2>3. QED
    BY <2>1, <2>2
<1>13. LeaseInv'
  BY <1>1, <1>2, <1>3, <1>4, <1>12 DEF LeaseInv
<1>14. WakeInv'
  <2>1. th[n].pc # "wait" /\ th'[n].pc # "wait"
    BY <1>2
  <2>2. QED
    BY <1>1, <1>3, <1>12, <2>1 DEF WakeInv
<1>15. IdleInv'
  <2>1. s \in idle => finished
    BY <1>1, <1>4 DEF WakeInv, Active
  <2>2. ASSUME NEW v \in Workers, Active(v)', th'[v].slot \in idle'
        PROVE  th'[v].pc = "wait" \/ (finished' /\ th'[v].pc \in {"loop", "end"})
    <3>1. CASE v = n
      BY <1>2, <1>3, <2>1, <2>2, <3>1
    <3>2. CASE v # n
      BY <1>1, <1>3, <1>12, <2>2, <3>2 DEF IdleInv
    <3>3. QED
      BY <3>1, <3>2
  <2>3. QED
    BY <2>2 DEF IdleInv
<1>16. UseInv'
  <2>1. \A p \in Slots : Gone(p)' = Gone(p)
    BY <1>2, <1>12 DEF Gone
  <2>2. \A p \in Slots \ {s} : Users(p)' = Users(p)
    BY <1>2, <1>12 DEF Users
  <2>3. Users(s)' = Users(s) \cup {n} /\ n \notin Users(s)
    BY <1>2, <1>12 DEF Users
  <2>4. IsFiniteSet(Users(s)) /\ IsFiniteSet(Gone(s))
    <3>1. IsFiniteSet(Workers) /\ Users(s) \in SUBSET Workers /\ Gone(s) \in SUBSET Workers
      BY TasksAssumption DEF Users, Gone
    <3>2. QED
      BY <3>1, FS_Subset
  <2>5. Cardinality(Users(s)') = Cardinality(Users(s)) + 1
    BY <2>3, <2>4, FS_AddElement
  <2>6. Cardinality(Users(s)) \in Nat /\ Cardinality(Gone(s)) \in Nat
    BY <2>4, FS_CardinalityType
  <2>7. Cardinality(Users(s)') <= slotCount'[s]
    BY <1>1, <1>6, <2>5, <2>6 DEF UseInv
  <2>8. (\A p \in Slots : Cardinality(Users(p)) <= slotCount[p])'
    BY <1>1, <1>6, <2>2, <2>7 DEF UseInv
  <2>9. idle \subseteq Slots /\ \A p \in idle : Cardinality(Gone(p)) < slotCount[p]
    BY <1>1 DEF TypeInv, DataOK, UseInv
  <2>10. (\A p \in idle : Cardinality(Gone(p)) < slotCount[p])'
    BY <1>3, <1>6, <2>1, <2>6, <2>9
  <2>11. \A p \in Slots : p < useThreads => p < useThreads'
    BY <1>1, <1>6, TasksAssumption DEF Slots, TypeInv, DataOK
  <2>12. (\A p \in idle : p < useThreads)'
    BY <1>1, <1>3, <2>9, <2>11 DEF UseInv
  <2>13. ASSUME NEW v \in Workers, Active(v)' PROVE th'[v].slot < useThreads'
    <3>1. CASE v = n
      BY <1>2, <1>6, <3>1
    <3>2. CASE v # n
      <4>1. Active(v) /\ th'[v].slot = th[v].slot /\ th[v].slot \in Slots
        BY <1>1, <1>12, <2>13, <3>2 DEF TypeInv, ThreadsOK, Active
      <4>2. QED
        BY <1>1, <2>11, <4>1 DEF UseInv
    <3>3. QED
      BY <3>1, <3>2
  <2>14. QED
    BY <2>8, <2>10, <2>12, <2>13 DEF UseInv
<1>17. QED
  BY <1>7, <1>8, <1>9, <1>10, <1>11, <1>13, <1>14, <1>15, <1>16 DEF TasksInv

-----------------------------------------------------------------------------
(* The invariant and the theorems.                                         *)

LEMMA TasksInit == Init => TasksInv
<1> SUFFICES ASSUME Init PROVE TasksInv
  OBVIOUS
<1>1. /\ finished = FALSE /\ cancelled = FALSE /\ freed = FALSE /\ canceller = "none"
      /\ queue = Roots \ Async /\ fast = {} /\ polled = Roots \cap Async /\ ran = {}
      /\ idle = {} /\ leased = {0} /\ total = 0 /\ useThreads = 1
      /\ spawner = [who |-> Main, slot |-> 0, held |-> TRUE]
      /\ 0 \in Slots /\ Main \notin Workers
  BY TasksAssumption DEF Init, Slots
<1>2. /\ slotCount = [s \in Slots |-> 0] /\ node = [s \in Slots |-> NoTask]
      /\ wake = [s \in Slots |-> FALSE]
  BY DEF Init
<1>3. /\ th = [w \in All |-> [pc |-> IF w = Main THEN "upscale" ELSE "none",
                              slot |-> NoSlot, ret |-> "loop"]]
  BY DEF Init, All
<1>4. /\ th[Main].pc = "upscale"
      /\ \A w \in Workers : th[w].pc = "none" /\ w \in All
  BY <1>1, <1>3 DEF All
<1>5. TypeInv
  <2>1. spawner \in [who : All, slot : Slots \cup {NoSlot}, held : BOOLEAN]
    BY <1>1 DEF All
  <2>2. /\ slotCount \in [Slots -> Nat] /\ node \in [Slots -> Tasks \cup {NoTask}]
        /\ wake \in [Slots -> BOOLEAN]
    BY <1>2
  <2>3. /\ queue \subseteq Tasks /\ fast \subseteq Tasks /\ polled \subseteq Tasks
        /\ ran \subseteq Tasks
    BY <1>1, TasksAssumption
  <2>4. DataOK
    <3>1. idle \subseteq Slots /\ leased \subseteq Slots
      BY <1>1
    <3>2. useThreads \in Nat /\ total \in Int
      BY <1>1
    <3>3. /\ finished \in BOOLEAN /\ cancelled \in BOOLEAN /\ freed \in BOOLEAN
          /\ canceller \in {"none", "free", "wakeAll", "done"}
      BY <1>1
    <3>4. QED
      BY <2>1, <2>2, <2>3, <3>1, <3>2, <3>3 DEF DataOK
  <2>5. th \in [All -> ThreadType]
    BY <1>3 DEF ThreadType, ThreadPcs, MainPcs
  <2>6. QED
    BY <1>4, <2>4, <2>5 DEF TypeInv, ThreadsOK, ThreadPcs, MainPcs
<1>6. StopInv
  BY <1>1, <1>4 DEF StopInv
<1>7. \A w \in Workers : ~Active(w)
  BY <1>4 DEF Active
<1>8. SpawnInv
  <2>1. \A w \in All : th[w].pc = "upscale" => w = Main
    BY <1>4 DEF All
  <2>2. \E n \in Workers : th[n].pc = "none"
    BY <1>4, TasksAssumption
  <2>3. QED
    BY <1>1, <1>7, <2>1, <2>2 DEF SpawnInv
<1>9. LeaseInv /\ IdleInv
  BY <1>7 DEF LeaseInv, IdleInv
<1>10. Queued = Roots /\ Roots \subseteq Tasks
  BY <1>1, TasksAssumption DEF Queued
<1>11. PlaceInv
  BY <1>1, <1>2, <1>10, TasksAssumption DEF PlaceInv
<1>12. KnownInv
  BY <1>1, <1>2, <1>10 DEF KnownInv, Known
<1>13. CarryInv
  BY <1>4 DEF CarryInv, Carry
<1>14. HeldInv /\ DoneInv
  BY <1>1, <1>2, <1>4 DEF HeldInv, DoneInv
<1>15. CountInv
  <2>1. Counted = {}
    BY <1>4 DEF Counted
  <2>2. QED
    BY <1>1, <2>1, FS_EmptySet DEF CountInv
<1>16. WakeInv
  BY <1>1, <1>2, <1>4 DEF WakeInv
<1>17. UseInv
  <2>1. \A s \in Slots : Users(s) = {}
    BY <1>4 DEF Users
  <2>2. QED
    BY <1>1, <1>2, <1>7, <2>1, FS_EmptySet DEF UseInv
<1>18. QED
  BY <1>5, <1>6, <1>8, <1>9, <1>11, <1>12, <1>13, <1>14, <1>15, <1>16, <1>17 DEF TasksInv

LEMMA TasksNext == TasksInv /\ [Next]_vars => TasksInv'
<1> SUFFICES ASSUME TasksInv, [Next]_vars PROVE TasksInv'
  OBVIOUS
<1>1. ASSUME NEW w \in Workers, Step(w) PROVE TasksInv'
  BY <1>1, QuietLoop, TakesTask, QuietLast, WaitsInQueue, WokenGoesOn, RunsTask, QuietFail,
     QuietMove, PushesTasks, PreemptGivesTask, ResumeCounts, LosesLease, Downscales,
     EndGivesSlot, QuietFinish DEF Step
<1>2. ASSUME NEW w \in Workers \cup {Main}, Spawn(w) PROVE TasksInv'
  BY <1>2, QuietSpawn, AcquiresSlot, Upscales DEF Spawn, All
<1>3. CASE AsyncReady
  BY <1>3, AsyncMovesTask
<1>4. CASE AsyncEnd \/ Join
  BY <1>4, QuietMain
<1>5. CASE Cancel \/ Grant \/ Terminated \/ UNCHANGED vars
  BY <1>5, QuietOutside DEF Terminated
<1>6. QED
  BY <1>1, <1>2, <1>3, <1>4, <1>5 DEF Next

LEMMA TasksAlways == Spec => []TasksInv
BY TasksInit, TasksNext, PTL DEF Spec

\* Whatever the graph, the number of threads and the order of their steps:
\* unless the query was cancelled or a processor has failed, the execution is
\* marked finished only when every task that became ready has been run, so that
\* finalizeExecution never throws `Pipeline stuck'.
THEOREM NoPipelineEverStuck == Spec => []NoPipelineStuck
<1>1. TasksInv => NoPipelineStuck
  BY DEF TasksInv, DoneInv, AllDone, NoPipelineStuck
<1>2. QED
  BY <1>1, TasksAlways, PTL

\* Until the end, total_slots is the number of threads that are neither
\* preempted nor gone, threads_queue holds exactly those that wait and were not
\* woken, and every slot in it is below use_threads, in every state that
\* upscale, downscale, preempt, resume and the wake-ups lead to.
THEOREM SlotsAlwaysCounted == Spec => []SlotsCounted
<1>1. TasksInv => SlotsCounted
  <2> SUFFICES ASSUME TasksInv PROVE SlotsCounted
    OBVIOUS
  <2>1. \A s \in idle : s < useThreads
    BY DEF TasksInv, UseInv
  <2>2. ~finished => total = Cardinality(Counted)
    BY DEF TasksInv, CountInv
  <2>3. ~finished => idle = {th[w].slot : w \in {v \in Workers : th[v].pc = "wait"
                                                             /\ ~wake[th[v].slot]}}
    BY DEF TasksInv, WakeInv
  <2>4. QED
    BY <2>1, <2>2, <2>3 DEF SlotsCounted
<1>2. QED
  BY <1>1, TasksAlways, PTL

\* A task that is ready is in one queue or in one context and is not run twice,
\* and a context is used by one thread at a time, though a slot is given to a
\* new thread while its last one has yet to call downscale.
THEOREM TaskAlwaysInOnePlace == Spec => []TaskInOnePlace
<1>1. TasksInv => TaskInOnePlace
  <2> SUFFICES ASSUME TasksInv PROVE TaskInOnePlace
    OBVIOUS
  <2>1. PlaceInv /\ CarryInv /\ LeaseInv
    BY DEF TasksInv
  <2>2. \A w \in Workers : th[w].pc = "run" => node[th[w].slot] \notin ran
    BY <2>1 DEF CarryInv, Carry
  <2>3. \A v, w \in Workers :
          /\ v # w /\ th[v].slot = th[w].slot
          /\ th[v].pc \notin {"none", "downscale", "done"}
          => th[w].pc \in {"none", "downscale", "done"}
    BY <2>1 DEF LeaseInv, Active
  <2>4. QED
    BY <2>1, <2>2, <2>3 DEF PlaceInv, Queued, TaskInOnePlace
<1>2. QED
  BY <1>1, TasksAlways, PTL

=============================================================================
