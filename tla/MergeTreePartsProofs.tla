------------------------ MODULE MergeTreePartsProofs ------------------------
(***************************************************************************)
(* Proofs about MergeTreeParts.                                            *)
(***************************************************************************)
EXTENDS MergeTreeParts, FiniteSetTheorems, SequenceTheorems, TLAPS

Info ==
  {p \in [min : Nat, max : Nat, level : Nat, mutation : Nat] : p.min <= p.max}

-----------------------------------------------------------------------------
(* Numbers *)

LEMMA LeastNatural ==
  ASSUME NEW S, S \subseteq Nat, S # {}
  PROVE  \E n \in S : \A m \in S : n <= m
<1> DEFINE R == OpToRel(<, Nat)
<1>1. IsWellFoundedOn(R, Nat)
  BY NatLessThanWellFounded
<1>2. PICK n \in S : \A m \in S : ~(<<m, n>> \in R)
  <2> HIDE DEF R
  <2> QED BY <1>1, WFMin
<1>3. \A m \in S : ~(m < n)
  BY <1>2 DEF OpToRel
<1>4. QED
  BY <1>3

\* Min and Max of a set of natural numbers that has a bound.
LEMMA MinIsLeast ==
  ASSUME NEW S, S \subseteq Nat, S # {}
  PROVE  Min(S) \in S /\ \A m \in S : Min(S) <= m
BY LeastNatural DEF Min

LEMMA MaxIsGreatest ==
  ASSUME NEW S, S \subseteq Nat, S # {}, NEW b \in Nat, \A m \in S : m <= b
  PROVE  Max(S) \in S /\ \A m \in S : m <= Max(S)
<1> DEFINE D == {d \in Nat : b - d \in S}
<1>1. PICK s : s \in S
  OBVIOUS
<1>2. b - s \in D /\ D \subseteq Nat
  BY <1>1
<1>3. PICK d \in D : \A e \in D : d <= e
  <2> HIDE DEF D
  <2> QED BY <1>2, LeastNatural
<1>4. \A m \in S : b - m \in D /\ d <= b - m
  <2> TAKE m \in S
  <2>1. b - m \in Nat /\ b - (b - m) = m
    OBVIOUS
  <2>2. QED
    BY <1>3, <2>1
<1>5. b - d \in S /\ \A m \in S : b - d >= m
  BY <1>3, <1>4
<1>6. QED
  BY <1>5 DEF Max

-----------------------------------------------------------------------------
(* Part infos *)

LEMMA ContainsTransitive ==
  ASSUME NEW p \in Info, NEW q \in Info, NEW r \in Info, Contains(p, q), Contains(q, r)
  PROVE  Contains(p, r)
BY DEF Info, Contains

LEMMA ContainsAntisymmetric ==
  ASSUME NEW p \in Info, NEW q \in Info, Contains(p, q), Contains(q, p)
  PROVE  p = q
BY DEF Info, Contains

LEMMA ContainedNotDisjoint ==
  ASSUME NEW p \in Info, NEW q \in Info, Contains(p, q) \/ Contains(q, p)
  PROVE  ~Disjoint(p, q) /\ ~Disjoint(q, p)
BY DEF Info, Contains, Disjoint

LEMMA DisjointSymmetric ==
  ASSUME NEW p \in Info, NEW q \in Info
  PROVE  Disjoint(p, q) <=> Disjoint(q, p)
BY DEF Info, Disjoint

LEMMA DisjointInside ==
  ASSUME NEW p \in Info, NEW q \in Info, NEW r \in Info, Disjoint(p, q), Contains(p, r)
  PROVE  Disjoint(q, r) /\ Disjoint(r, q)
BY DEF Info, Contains, Disjoint

AllDisjoint(A) == \A p, q \in A : p # q => Disjoint(p, q)

\* Part p is to replace the parts S of A and leaves the rest of A alone.
Fits(p, S, A) ==
  /\ p \in Info /\ p \notin A
  /\ S \subseteq A
  /\ \A q \in S : Contains(p, q)
  /\ \A q \in A \ S : Disjoint(p, q)

FitsSome(p, A) == \E S \in SUBSET A : Fits(p, S, A)

LEMMA FitsReached ==
  ASSUME NEW A, A \subseteq Info, AllDisjoint(A), NEW p, NEW S, Fits(p, S, A)
  PROVE  /\ Covered(p, A) = S
         /\ Covering(p, A) = {}
         /\ Intersected(p, A) = {}
<1>1. ASSUME NEW q \in A, Contains(p, q) PROVE q \in S
  BY <1>1, ContainedNotDisjoint DEF Fits
<1>2. ASSUME NEW q \in A, ~Disjoint(p, q) PROVE q \in S
  BY <1>2 DEF Fits
<1>3. ASSUME NEW q \in S, NEW x \in A, Between(x, p, q) PROVE Contains(p, x)
  <2>1. Contains(p, q) /\ q \in A /\ q \in Info /\ x \in Info /\ p \in Info
    BY DEF Fits
  <2>2. CASE Less(p, x) /\ Less(x, q)
    <3>1. ~Disjoint(p, x)
      BY <2>1, <2>2 DEF Less, Disjoint, Contains, Info
    <3>2. QED
      BY <3>1, <1>2 DEF Fits
  <2>3. CASE Less(q, x) /\ Less(x, p)
    <3>1. ~Disjoint(x, q) /\ x # q
      BY <2>1, <2>3 DEF Less, Disjoint, Contains, Info
    <3>2. QED
      BY <2>1, <3>1 DEF AllDisjoint
  <2>4. QED
    BY <1>3, <2>2, <2>3 DEF Between
<1>4. Covered(p, A) = S
  BY <1>1, <1>3 DEF Covered, Reached, Fits
<1>5. ASSUME NEW q \in A PROVE ~Contains(q, p)
  <2>1. SUFFICES ASSUME Contains(q, p) PROVE FALSE
    OBVIOUS
  <2>2. q \in Info /\ p \in Info
    BY DEF Fits
  <2>3. q \in S
    BY <1>2, <2>1, <2>2, ContainedNotDisjoint
  <2>4. QED
    BY <2>1, <2>2, <2>3, ContainsAntisymmetric DEF Fits
<1>6. QED
  BY <1>2, <1>4, <1>5 DEF Covering, Intersected, Reached, Fits

\* What is active once the parts N are committed.
Replace(A, N) == {q \in A : \A p \in N : ~Contains(p, q)} \cup N

LEMMA ReplaceDisjoint ==
  ASSUME NEW A, A \subseteq Info, AllDisjoint(A), NEW N, AllDisjoint(N),
         \A p \in N : FitsSome(p, A)
  PROVE  AllDisjoint(Replace(A, N)) /\ Replace(A, N) \subseteq Info
<1>1. N \subseteq Info
  BY DEF Fits, FitsSome
<1>2. ASSUME NEW p \in N, NEW q \in A, ~Contains(p, q)
      PROVE  Disjoint(p, q) /\ Disjoint(q, p)
  BY <1>1, <1>2, DisjointSymmetric DEF Fits, FitsSome
<1>3. QED
  BY <1>1, <1>2 DEF AllDisjoint, Replace

LEMMA ReplaceFits ==
  ASSUME NEW A, A \subseteq Info, NEW N, \A p \in N : FitsSome(p, A),
         NEW q, NEW R, Fits(q, R, A), \A p \in N : Disjoint(p, q)
  PROVE  Fits(q, R, Replace(A, N))
<1>1. N \subseteq Info /\ q \in Info
  BY DEF Fits, FitsSome
<1>2. ASSUME NEW x \in R, NEW p \in N PROVE ~Contains(p, x)
  <2>1. Contains(q, x) /\ x \in Info
    BY DEF Fits
  <2>2. QED
    BY <1>1, <2>1, DisjointInside, ContainedNotDisjoint
<1>3. q \notin N
  BY <1>1 DEF Disjoint, Info
<1>4. \A p \in N : Disjoint(q, p)
  BY <1>1, DisjointSymmetric
<1>5. QED
  BY <1>1, <1>2, <1>3, <1>4 DEF Fits, Replace

LEMMA ReplaceContains ==
  ASSUME NEW A, A \subseteq Info, NEW N, N \subseteq Info, NEW u \in Info,
         \E a \in A : Contains(a, u)
  PROVE  \E a \in Replace(A, N) : Contains(a, u)
BY ContainsTransitive DEF Replace

-----------------------------------------------------------------------------
(* The inductive invariant *)

TaskFields == {"kind", "src", "info", "content", "phase"}

TypeInv ==
  /\ DOMAIN parts \subseteq Info /\ DOMAIN disk \subseteq Info
  /\ increment \in Nat /\ starting \in Nat
  /\ files \subseteq Nat /\ current_mutations \subseteq Nat
  /\ DOMAIN tasks = Tasks
  /\ \A k \in Running : DOMAIN tasks[k] = TaskFields
  /\ drop \in [phase : {"idle", "stopping", "stopped", "covering", "renaming"}, cover : SUBSET Info]
  /\ cleaner \in [Cleaners -> [part : Info \cup {NoPart}, files : SUBSET Nat]]

\* The numbers on disk have a bound, so that the largest one exists.
BoundInv ==
  \E b \in Nat :
    /\ \A m \in files : m <= b
    /\ \A p \in DOMAIN disk : p.max <= b /\ p.level <= b /\ p.mutation <= b

\* The tasks whose part is not committed yet.
Pending == {k \in Running : tasks[k].phase # "committed"}

\* A task's part spans its sources, replaces them and nothing else, and keeps
\* clear of the other tasks.
TaskInv ==
  /\ AllDisjoint(Active)
  /\ \A k \in Running : tasks[k].src # {}
  /\ \A k \in Pending :
       /\ Fits(tasks[k].info, tasks[k].src, Active)
       /\ \E q \in tasks[k].src : q.min = tasks[k].info.min
       /\ \E q \in tasks[k].src : q.max = tasks[k].info.max
  /\ \A j, k \in Pending : j # k => Disjoint(tasks[j].info, tasks[k].info)

\* While a DROP has its empty parts under way no task runs.
DropInv ==
  /\ drop.phase \notin {"covering", "renaming"} => drop.cover = {}
  /\ drop.phase \in {"stopped", "covering", "renaming"} => Running = {}
  /\ AllDisjoint(drop.cover)
  /\ \A p \in drop.cover : FitsSome(p, Active)

\* Block numbers are not reused.
NumberInv ==
  /\ \A p \in Active \cup drop.cover : p.max <= increment
  /\ ~LockFree =>
       /\ inserting \in Info /\ inserting.max <= increment
       /\ \A p \in Active \cup drop.cover : p.max < inserting.min

\* The parts that are about to be committed.
PlaceInv ==
  /\ ~LockFree =>
       /\ inserting \in DOMAIN disk /\ inserting \in DOMAIN parts
       /\ parts[inserting] = "PreActive"
  /\ \A k \in Running : tasks[k].phase = "renamed" =>
       /\ tasks[k].info \in DOMAIN disk /\ tasks[k].info \in DOMAIN parts
       /\ parts[tasks[k].info] = "PreActive"
  /\ drop.phase = "renaming" =>
       \A p \in drop.cover : p \in DOMAIN parts /\ parts[p] = "PreActive"

\* A part that is being removed is nobody else's.
CleanerInv ==
  \A c \in Cleaners : cleaner[c].part # NoPart =>
    /\ cleaner[c].part \in DOMAIN parts /\ parts[cleaner[c].part] = "Deleting"
    /\ cleaner[c].part \notin reading \cup Tagged
    /\ \A d \in Cleaners : d # c => cleaner[d].part # cleaner[c].part

\* A part that is on disk and not loaded yet is inside an active one.
UnloadedInv ==
  /\ unloaded \subseteq DOMAIN disk /\ unloaded \cap DOMAIN parts = {}
  /\ \A u \in unloaded : \E a \in Active : Contains(a, u)

PartsInv ==
  /\ TypeInv /\ BoundInv /\ TaskInv /\ DropInv /\ NumberInv /\ PlaceInv
  /\ CleanerInv /\ UnloadedInv /\ HeldPartsOnDisk

-----------------------------------------------------------------------------
(* The steps while no OPTIMIZE takes parts from under a DROP *)

\* A DROP may have asked merges to stop; it still waits for those that run.
Free == drop.phase \in {"idle", "stopping"}

\* A merge is selected, in the background or by an OPTIMIZE.
Merging(k) ==
  /\ tasks[k] = NoTask /\ Free /\ LockFree
  /\ \E S \in SUBSET (Active \ Tagged) :
       Mergeable(S) /\ Start(k, "merge", S, MergedInfo(S), MergedContent(S))

\* The merged part meets its sources.
Renames(k) ==
  /\ k \in Running /\ tasks[k].kind = "merge" /\ tasks[k].phase = "running"
  /\ LockFree /\ MayAdd(tasks[k].info)
  /\ parts' = With(parts, {tasks[k].info}, "PreActive")
  /\ AddDirectory(tasks[k].info, tasks[k].content)
  /\ tasks' = [tasks EXCEPT ![k].phase = "renamed"]
  /\ UNCHANGED <<inserting, increment, current_mutations, files, starting, drop, cleaner,
                 unloaded, reading, used, table, muts, races>>

\* At most an OPTIMIZE goes on.
Still ==
  UNCHANGED <<parts, disk, inserting, increment, current_mutations, files, starting, tasks, drop,
              cleaner, unloaded, reading, used, table, muts, crossed, raced, early>>

Step ==
  \/ Still
  \/ StartInsert \/ CommitInsert
  \/ StartMutation \/ RegisterMutation
  \/ \E k \in Tasks :
      \/ Merging(k) \/ SelectMutate(k)
      \/ Renames(k) \/ CommitMerge(k) \/ CommitMutate(k) \/ FinishTask(k)
  \/ StopMerges \/ MergesStopped \/ PrepareDrop \/ AddCover \/ DropFails
  \/ RenameCover \/ CommitDrop
  \/ \E c \in Cleaners :
      \/ Grab(c) \/ RemovePart(c) \/ ClearEmpty(c)
      \/ ClearOldMutations(c) \/ RemoveFile(c)
  \/ Read \/ EndRead
  \/ Restart
  \/ \E p \in unloaded : LoadOutdated(p)

\* A DROP on its way to its empty parts.
Preparing == MergesStopped \/ PrepareDrop \/ AddCover \/ DropFails

LEMMA MergingIs ==
  ASSUME PartsInv, NEW k \in Tasks, SelectMerge(k) \/ Optimize(k) \/ OptimizeAgain(k), ~raced'
  PROVE  Merging(k)
<1>1. PICK S \in SUBSET Active : StartMerge(k, S)
  BY DEF SelectMerge, Optimize, OptimizeAgain
<1>2. Free
  BY DEF SelectMerge, Optimize, OptimizeAgain, Blocked, Free, PartsInv, TypeInv
<1>3. S \in SUBSET (Active \ Tagged)
  BY <1>1 DEF StartMerge, Mergeable
<1>4. QED
  BY <1>1, <1>2, <1>3 DEF Merging, StartMerge

LEMMA RenamesIs ==
  ASSUME PartsInv, NEW k \in Tasks, RenameMerge(k)
  PROVE  Renames(k)
<1>1. k \in Pending
  BY DEF RenameMerge, Pending
<1>2. AllDisjoint(Active) /\ Active \subseteq Info
  BY DEF PartsInv, TaskInv, TypeInv, Active, InState
<1>3. Covered(tasks[k].info, Active) = tasks[k].src
  BY <1>1, <1>2, FitsReached DEF PartsInv, TaskInv
<1>4. ~Unexpected(k)
  BY <1>3 DEF Unexpected
<1>5. QED
  BY <1>4 DEF RenameMerge, Renames

LEMMA StepIs ==
  ASSUME PartsInv, [Next]_vars, ~raced'
  PROVE  Step
<1>1. ASSUME OptimizeWait \/ OptimizeGivesUp \/ (\E k \in Tasks : BeginMerge(k)) \/ UNCHANGED vars
      PROVE  Still
  BY <1>1 DEF OptimizeWait, OptimizeGivesUp, BeginMerge, Still, vars, races
<1>2. ASSUME NEW k \in Tasks, SelectMerge(k) \/ Optimize(k) \/ OptimizeAgain(k)
      PROVE  Merging(k)
  BY <1>2, MergingIs
<1>3. ASSUME NEW k \in Tasks, RenameMerge(k) PROVE Renames(k)
  BY <1>3, RenamesIs
<1>4. QED
  BY <1>1, <1>2, <1>3 DEF Next, Step

\* What was raced stays so.
LEMMA RacedStays == [Next]_vars /\ ~raced' => ~raced
BY DEF Next, vars, races, StartInsert, CommitInsert, StartMutation, RegisterMutation, SelectMerge,
       SelectMutate, RenameMerge, CommitMerge, CommitMutate, FinishTask, Optimize, OptimizeWait,
       OptimizeAgain, OptimizeGivesUp, BeginMerge, StopMerges, MergesStopped, PrepareDrop, AddCover,
       DropFails, RenameCover, CommitDrop, Grab, RemovePart, ClearEmpty, ClearOldMutations,
       RemoveFile, Read, EndRead, Restart, LoadOutdated

-----------------------------------------------------------------------------
(* What the steps do to the parts in memory *)

\* New parts that are not active yet.
LEMMA AddPreActive ==
  ASSUME NEW N, N \cap DOMAIN parts = {}, parts' = With(parts, N, "PreActive")
  PROVE  /\ Active' = Active
         /\ DOMAIN parts' = DOMAIN parts \cup N
         /\ \A p \in DOMAIN parts : parts'[p] = parts[p]
         /\ \A p \in N : parts'[p] = "PreActive"
BY DEF With, Active, InState

LEMMA AddOnePreActive ==
  ASSUME NEW m, m \notin DOMAIN parts, parts' = With(parts, {m}, "PreActive")
  PROVE  /\ Active' = Active
         /\ DOMAIN parts' = DOMAIN parts \cup {m}
         /\ \A p \in DOMAIN parts : parts'[p] = parts[p]
         /\ parts'[m] = "PreActive"
<1> DEFINE N == {m}
<1>1. N \cap DOMAIN parts = {} /\ parts' = With(parts, N, "PreActive") /\ m \in N
  OBVIOUS
<1> HIDE DEF N
<1>2. /\ Active' = Active
      /\ DOMAIN parts' = DOMAIN parts \cup N
      /\ \A p \in DOMAIN parts : parts'[p] = parts[p]
      /\ \A p \in N : parts'[p] = "PreActive"
  BY <1>1, AddPreActive
<1>3. QED
  BY <1>1, <1>2 DEF N

\* Transaction::commit of parts that fit.
LEMMA CommitParts ==
  ASSUME NEW N, N \subseteq DOMAIN parts, TypeInv, AllDisjoint(Active),
         \A p \in N : FitsSome(p, Active),
         parts' = Committed(N)
  PROVE  /\ Active' = Replace(Active, N)
         /\ DOMAIN parts' = DOMAIN parts
         /\ \A p \in DOMAIN parts \ N : parts[p] # "Active" => parts'[p] = parts[p]
<1>1. Active \subseteq Info /\ Active \subseteq DOMAIN parts
  BY DEF Active, InState, TypeInv
<1>2. ASSUME NEW p \in N
      PROVE  /\ Covering(p, Active) = {} /\ p \notin Active
             /\ Covered(p, Active) = {q \in Active : Contains(p, q)}
  <2>1. PICK S \in SUBSET Active : Fits(p, S, Active)
    BY DEF FitsSome
  <2>2. Covered(p, Active) = S /\ Covering(p, Active) = {}
    BY <1>1, <2>1, FitsReached
  <2>3. S = {q \in Active : Contains(p, q)}
    BY <1>1, <2>1, ContainedNotDisjoint DEF Fits
  <2>4. QED
    BY <2>1, <2>2, <2>3 DEF Fits
<1> DEFINE fresh == {p \in N : Covering(p, Active) = {}}
           old == UNION {Covered(p, Active) : p \in fresh}
<1>3. fresh = N
  BY <1>2
<1>4. \A q : q \in old <=> q \in Active /\ \E p \in N : Contains(p, q)
  BY <1>2, <1>3
<1>5. parts' = [p \in DOMAIN parts |->
                  IF p \in fresh THEN "Active"
                  ELSE IF p \in N \cup old THEN "Outdated" ELSE parts[p]]
  BY DEF Committed
<1> HIDE DEF fresh, old
<1>6. parts' = [p \in DOMAIN parts |->
                  IF p \in N THEN "Active"
                  ELSE IF p \in old THEN "Outdated" ELSE parts[p]]
  BY <1>3, <1>5
<1>7. /\ DOMAIN parts' = DOMAIN parts
      /\ \A p \in DOMAIN parts \ N : parts[p] # "Active" => parts'[p] = parts[p]
  BY <1>4, <1>6 DEF Active, InState
<1>8. Active' = {p \in DOMAIN parts : parts'[p] = "Active"}
  BY <1>6 DEF Active, InState
<1>9. \A p \in DOMAIN parts :
        parts'[p] = "Active" <=> p \in N \/ (p \in Active /\ p \notin old)
  BY <1>6 DEF Active, InState
<1>10. Active' = Replace(Active, N)
  BY <1>1, <1>4, <1>8, <1>9 DEF Replace
<1>11. QED
  BY <1>7, <1>10

\* The tasks, and what follows from them, stay as they are.
LEMMA TasksSame ==
  ASSUME tasks' = tasks
  PROVE  Running' = Running /\ Pending' = Pending /\ Tagged' = Tagged
BY DEF Running, Pending, Tagged

LEMMA ActiveSame ==
  ASSUME parts' = parts
  PROVE  Active' = Active
BY DEF Active, InState

-----------------------------------------------------------------------------
LEMMA PartsInit == Init => PartsInv
<1> SUFFICES ASSUME Init PROVE PartsInv
  OBVIOUS
<1>1. DOMAIN parts = {} /\ DOMAIN disk = {} /\ Active = {}
  BY DEF Init, Active, InState
<1>2. Running = {} /\ Pending = {} /\ Tagged = {}
  BY DEF Init, Running, Pending, Tagged
<1>3. TypeInv
  BY <1>1, <1>2 DEF Init, TypeInv, NotCleaning
<1>4. BoundInv
  BY <1>1 DEF Init, BoundInv
<1>5. TaskInv /\ DropInv /\ NumberInv /\ PlaceInv
  BY <1>1, <1>2 DEF Init, TaskInv, DropInv, NumberInv, PlaceInv, AllDisjoint, LockFree
<1>6. CleanerInv /\ UnloadedInv /\ HeldPartsOnDisk
  BY <1>1, <1>2 DEF Init, CleanerInv, UnloadedInv, HeldPartsOnDisk, NotCleaning
<1>7. QED
  BY <1>3, <1>4, <1>5, <1>6 DEF PartsInv

LEMMA StartInsertStep == PartsInv /\ StartInsert => PartsInv'
<1> SUFFICES ASSUME PartsInv, StartInsert PROVE PartsInv'
  OBVIOUS
<1> USE DEF PartsInv
<1> DEFINE n == increment + 1
           p == [min |-> n, max |-> n, level |-> 0, mutation |-> 0]
<1>1. /\ n \in Nat /\ p \in Info /\ p.min = n /\ p.max = n /\ p.level = 0 /\ p.mutation = 0
  BY DEF TypeInv, Info
<1>2. /\ LockFree /\ p \notin DOMAIN parts
      /\ increment' = n /\ inserting' = p
      /\ parts' = With(parts, {p}, "PreActive")
      /\ DOMAIN disk' = DOMAIN disk \cup {p}
      /\ UNCHANGED <<current_mutations, files, starting, tasks, drop, cleaner, unloaded, reading>>
  BY DEF StartInsert, MayAdd, AddDirectory, With
<1> HIDE DEF p, n
<1>3. /\ Active' = Active
      /\ DOMAIN parts' = DOMAIN parts \cup {p}
      /\ \A q \in DOMAIN parts : parts'[q] = parts[q]
      /\ parts'[p] = "PreActive"
  BY <1>2, AddOnePreActive
<1>4. Running' = Running /\ Pending' = Pending /\ Tagged' = Tagged
  BY <1>2, TasksSame
<1>5. Active \subseteq Info /\ Active \subseteq DOMAIN parts
  BY DEF Active, InState, TypeInv
<1>6. TypeInv'
  BY <1>1, <1>2, <1>3, <1>4 DEF TypeInv
<1>7. BoundInv'
  <2>1. PICK b \in Nat : /\ \A m \in files : m <= b
                         /\ \A q \in DOMAIN disk : q.max <= b /\ q.level <= b /\ q.mutation <= b
    BY DEF BoundInv
  <2>2. /\ \A m \in files' : m <= b + n
        /\ \A q \in DOMAIN disk' : q.max <= b + n /\ q.level <= b + n /\ q.mutation <= b + n
    BY <1>1, <1>2, <2>1 DEF TypeInv, Info
  <2>3. QED
    BY <1>1, <2>1, <2>2 DEF BoundInv
<1>8. TaskInv' /\ DropInv'
  BY <1>2, <1>3, <1>4 DEF TaskInv, DropInv
<1>9. NumberInv'
  <2>1. \A q \in Active \cup drop.cover : q \in Info /\ q.max < n
    BY <1>1, <1>5, <1>2 DEF NumberInv, TypeInv, Info, n
  <2>2. QED
    BY <1>1, <1>2, <1>3, <2>1 DEF NumberInv, Info
<1>10. PlaceInv'
  BY <1>1, <1>2, <1>3, <1>4 DEF PlaceInv
<1>11. CleanerInv'
  BY <1>2, <1>3, <1>4 DEF CleanerInv
<1>12. UnloadedInv'
  <2>1. ASSUME NEW u \in unloaded PROVE u # p
    <3>1. PICK a \in Active : Contains(a, u)
      BY DEF UnloadedInv
    <3>2. a.max <= increment /\ u \in Info /\ a \in Info
      BY <1>5 DEF NumberInv, UnloadedInv, TypeInv
    <3>3. QED
      BY <1>1, <3>1, <3>2 DEF Contains, Info, n, TypeInv
  <2>2. QED
    BY <1>2, <1>3, <2>1 DEF UnloadedInv
<1>13. HeldPartsOnDisk'
  BY <1>2, <1>3, <1>4 DEF HeldPartsOnDisk
<1>14. QED
  BY <1>6, <1>7, <1>8, <1>9, <1>10, <1>11, <1>12, <1>13

-----------------------------------------------------------------------------
(* Commits *)

LEMMA ActiveInfos ==
  ASSUME TypeInv
  PROVE  Active \subseteq Info /\ Active \subseteq DOMAIN parts
BY DEF Active, InState, TypeInv

\* A part that fits between the active ones is not one that waits to be loaded.
LEMMA FitsNotUnloaded ==
  ASSUME TypeInv, UnloadedInv, NEW p, FitsSome(p, Active)
  PROVE  p \notin unloaded
<1> SUFFICES ASSUME p \in unloaded PROVE FALSE
  OBVIOUS
<1>1. PICK a \in Active : Contains(a, p)
  BY DEF UnloadedInv
<1>2. PICK S \in SUBSET Active : Fits(p, S, Active)
  BY DEF FitsSome
<1>3. a \in Info /\ p \in Info
  BY <1>2, ActiveInfos DEF Fits
<1>4. a \in S
  BY <1>1, <1>2, <1>3, ContainedNotDisjoint DEF Fits
<1>5. a = p
  BY <1>1, <1>2, <1>3, <1>4, ContainsAntisymmetric DEF Fits
<1>6. QED
  BY <1>2, <1>5 DEF Fits

\* What every commit leaves in order.
LEMMA AfterCommit ==
  ASSUME PartsInv, NEW N, AllDisjoint(N), \A p \in N : FitsSome(p, Active),
         Active' = Replace(Active, N),
         DOMAIN parts' = DOMAIN parts \cup N,
         \A p \in DOMAIN parts \ N : parts[p] # "Active" => parts'[p] = parts[p],
         \A p \in N : p \in DOMAIN parts => parts[p] = "PreActive",
         DOMAIN disk \subseteq DOMAIN disk', N \subseteq DOMAIN disk',
         Tagged' \subseteq Tagged,
         UNCHANGED <<unloaded, reading, cleaner>>
  PROVE  /\ AllDisjoint(Active') /\ Active' \subseteq Active \cup N
         /\ CleanerInv' /\ UnloadedInv' /\ HeldPartsOnDisk'
<1> USE DEF PartsInv
<1>1. Active \subseteq Info /\ Active \subseteq DOMAIN parts
  BY ActiveInfos
<1>2. AllDisjoint(Active') /\ Active' \subseteq Active \cup N /\ N \subseteq Info
  BY <1>1, ReplaceDisjoint DEF TaskInv, Replace, FitsSome, Fits
<1>3. CleanerInv'
  <2>1. ASSUME NEW c \in Cleaners, cleaner[c].part # NoPart
        PROVE  cleaner[c].part \in DOMAIN parts' /\ parts'[cleaner[c].part] = "Deleting"
    BY <2>1 DEF CleanerInv
  <2>2. QED
    BY <2>1 DEF CleanerInv
<1>4. UnloadedInv'
  <2>1. unloaded \cap N = {}
    BY FitsNotUnloaded
  <2>2. ASSUME NEW u \in unloaded PROVE \E a \in Active' : Contains(a, u)
    <3>1. u \in Info /\ \E a \in Active : Contains(a, u)
      BY DEF UnloadedInv, TypeInv
    <3>2. QED
      BY <1>1, <1>2, <3>1, ReplaceContains
  <2>3. QED
    BY <2>1, <2>2 DEF UnloadedInv
<1>5. HeldPartsOnDisk'
  BY <1>2 DEF HeldPartsOnDisk
<1>6. QED
  BY <1>2, <1>3, <1>4, <1>5

LEMMA TaskBelow ==
  ASSUME TypeInv, TaskInv, NumberInv, NEW k \in Pending
  PROVE  /\ tasks[k].info \in Info /\ tasks[k].info.max <= increment
         /\ ~LockFree => tasks[k].info.max < inserting.min
BY DEF TaskInv, NumberInv, Fits

LEMMA CommitInsertStep == PartsInv /\ CommitInsert => PartsInv'
<1> SUFFICES ASSUME PartsInv, CommitInsert PROVE PartsInv'
  OBVIOUS
<1> USE DEF PartsInv
<1> DEFINE p == inserting
<1>1. /\ ~LockFree /\ parts' = Committed({p}) /\ LockFree'
      /\ UNCHANGED <<disk, increment, current_mutations, files, starting, tasks, drop, cleaner,
                     unloaded, reading>>
  BY DEF CommitInsert, LockFree
<1>2. /\ p \in Info /\ p.max <= increment /\ p \in DOMAIN disk /\ p \in DOMAIN parts
      /\ parts[p] = "PreActive"
      /\ \A q \in Active \cup drop.cover : q.max < p.min
  BY <1>1 DEF NumberInv, PlaceInv
<1> HIDE DEF p
<1>3. Active \subseteq Info /\ Active \subseteq DOMAIN parts /\ p \notin Active
  BY <1>2, ActiveInfos DEF Active, InState
<1>4. \A q \in Active \cup drop.cover : q \in Info /\ Disjoint(p, q) /\ Disjoint(q, p)
  BY <1>2, <1>3 DEF Disjoint, Info, TypeInv
<1>5. FitsSome(p, Active) /\ AllDisjoint({p})
  <2>1. Fits(p, {}, Active)
    BY <1>2, <1>3, <1>4 DEF Fits
  <2>2. QED
    BY <2>1 DEF FitsSome, AllDisjoint
<1>6. /\ Active' = Replace(Active, {p})
      /\ DOMAIN parts' = DOMAIN parts
      /\ \A q \in DOMAIN parts \ {p} : parts[q] # "Active" => parts'[q] = parts[q]
  BY <1>1, <1>2, <1>5, CommitParts DEF TaskInv
<1>7. Running' = Running /\ Pending' = Pending /\ Tagged' = Tagged
  BY <1>1, TasksSame
<1>8. /\ AllDisjoint(Active') /\ Active' \subseteq Active \cup {p}
      /\ CleanerInv' /\ UnloadedInv' /\ HeldPartsOnDisk'
  BY <1>1, <1>2, <1>5, <1>6, <1>7, AfterCommit
<1>9. TypeInv' /\ BoundInv'
  BY <1>1, <1>6, <1>7 DEF TypeInv, BoundInv
<1>10. ASSUME NEW k \in Pending
       PROVE  /\ tasks[k].info # p
              /\ Fits(tasks[k].info, tasks[k].src, Active')
  <2>1. tasks[k].info \in Info /\ tasks[k].info.max < p.min
    BY <1>1, TaskBelow DEF p
  <2>2. Disjoint(p, tasks[k].info) /\ tasks[k].info # p
    BY <1>2, <2>1 DEF Disjoint, Info
  <2>3. QED
    BY <1>3, <1>5, <1>6, <2>2, ReplaceFits DEF TaskInv
<1>11. TaskInv'
  BY <1>1, <1>7, <1>8, <1>10 DEF TaskInv
<1>12. DropInv'
  <2>1. ASSUME NEW q \in drop.cover PROVE FitsSome(q, Active')
    <3>1. PICK S \in SUBSET Active : Fits(q, S, Active)
      BY DEF DropInv, FitsSome
    <3>2. Fits(q, S, Active')
      BY <1>3, <1>4, <1>5, <1>6, <3>1, ReplaceFits
    <3>3. QED
      BY <3>2 DEF FitsSome, Fits
  <2>2. QED
    BY <1>1, <1>7, <2>1 DEF DropInv
<1>13. NumberInv'
  BY <1>1, <1>2, <1>8 DEF NumberInv
<1>14. PlaceInv'
  <2>1. ASSUME NEW k \in Running, tasks[k].phase = "renamed"
        PROVE  /\ tasks[k].info \in DOMAIN disk /\ tasks[k].info \in DOMAIN parts'
               /\ parts'[tasks[k].info] = "PreActive"
    BY <1>6, <1>10, <2>1 DEF PlaceInv, Pending
  <2>2. ASSUME NEW q \in drop.cover, drop.phase = "renaming"
        PROVE  q \in DOMAIN parts' /\ parts'[q] = "PreActive"
    <3>1. q # p
      BY <1>2, <1>4 DEF Info
    <3>2. QED
      BY <1>6, <2>2, <3>1 DEF PlaceInv
  <2>3. QED
    BY <1>1, <1>7, <2>1, <2>2 DEF PlaceInv
<1>15. QED
  BY <1>8, <1>9, <1>11, <1>12, <1>13, <1>14

-----------------------------------------------------------------------------
(* ALTER *)

LEMMA StartMutationStep == PartsInv /\ StartMutation => PartsInv'
<1> SUFFICES ASSUME PartsInv, StartMutation PROVE PartsInv'
  OBVIOUS
<1> USE DEF PartsInv
<1> DEFINE n == increment + 1
<1>1. /\ increment' = n /\ starting' = n /\ files' = files \cup {n}
      /\ UNCHANGED <<parts, disk, inserting, current_mutations, tasks, drop, cleaner, unloaded,
                     reading>>
  BY DEF StartMutation
<1>2. n \in Nat /\ n > increment /\ increment \in Nat
  BY DEF TypeInv
<1> HIDE DEF n
<1>3. Running' = Running /\ Pending' = Pending /\ Tagged' = Tagged /\ Active' = Active
  BY <1>1, TasksSame, ActiveSame
<1>4. TypeInv'
  BY <1>1, <1>2, <1>3 DEF TypeInv
<1>5. BoundInv'
  <2>1. PICK b \in Nat : /\ \A m \in files : m <= b
                         /\ \A q \in DOMAIN disk : q.max <= b /\ q.level <= b /\ q.mutation <= b
    BY DEF BoundInv
  <2>2. PICK c \in Nat : b <= c /\ n <= c
    BY <1>2
  <2>3. \A m \in files' : m <= c
    <3>1. files \subseteq Nat
      BY DEF TypeInv
    <3>2. \A m \in files : m <= c
      BY <2>1, <2>2, <3>1
    <3>3. \A m \in files' : m \in files \/ m = n
      BY <1>1
    <3>4. QED
      BY <2>2, <3>2, <3>3
  <2>4. \A q \in DOMAIN disk' : q.max <= c /\ q.level <= c /\ q.mutation <= c
    <3>1. DOMAIN disk' = DOMAIN disk /\ DOMAIN disk \subseteq Info
      BY <1>1 DEF TypeInv
    <3>2. QED
      BY <2>1, <2>2, <3>1 DEF Info
  <2>5. QED
    BY <2>3, <2>4 DEF BoundInv
<1>6. NumberInv'
  <2>1. \A q \in Active \cup drop.cover : q \in Info
    BY ActiveInfos DEF TypeInv
  <2>2. QED
    BY <1>1, <1>2, <1>3, <2>1 DEF NumberInv, Info, LockFree
<1>7. TaskInv' /\ DropInv' /\ PlaceInv' /\ CleanerInv' /\ UnloadedInv' /\ HeldPartsOnDisk'
  BY <1>1, <1>3
     DEF TaskInv, DropInv, PlaceInv, CleanerInv, UnloadedInv, HeldPartsOnDisk, LockFree
<1>8. QED
  BY <1>4, <1>5, <1>6, <1>7

\* The steps that touch neither parts nor tasks nor the DROP.
LEMMA QuietStep ==
  ASSUME PartsInv,
         UNCHANGED <<parts, disk, inserting, increment, tasks, drop, unloaded>>,
         current_mutations' \subseteq Nat, starting' \in Nat, files' \subseteq files,
         reading' \subseteq reading \cup Active,
         cleaner' \in [Cleaners -> [part : Info \cup {NoPart}, files : SUBSET Nat]],
         \A c \in Cleaners : cleaner'[c].part = cleaner[c].part
  PROVE  PartsInv'
<1> USE DEF PartsInv
<1>1. Running' = Running /\ Pending' = Pending /\ Tagged' = Tagged /\ Active' = Active
  BY TasksSame, ActiveSame
<1>2. TypeInv' /\ BoundInv'
  BY <1>1 DEF TypeInv, BoundInv
<1>3. TaskInv' /\ DropInv' /\ NumberInv' /\ PlaceInv' /\ UnloadedInv'
  BY <1>1 DEF TaskInv, DropInv, NumberInv, PlaceInv, UnloadedInv, LockFree
<1>4. CleanerInv'
  BY <1>1 DEF CleanerInv, Active, InState
<1>5. HeldPartsOnDisk'
  BY <1>1 DEF HeldPartsOnDisk
<1>6. QED
  BY <1>2, <1>3, <1>4, <1>5

LEMMA RegisterMutationStep == PartsInv /\ RegisterMutation => PartsInv'
BY QuietStep DEF PartsInv, TypeInv, RegisterMutation

LEMMA ReaderStep == PartsInv /\ (Read \/ EndRead) => PartsInv'
BY QuietStep DEF PartsInv, TypeInv, Read, EndRead

LEMMA CleanMutationsStep ==
  ASSUME PartsInv, NEW c \in Cleaners, ClearOldMutations(c) \/ RemoveFile(c)
  PROVE  PartsInv'
<1>1. current_mutations' \subseteq Nat /\ files' \subseteq files
  BY DEF PartsInv, TypeInv, ClearOldMutations, RemoveFile
<1>2. \E F \in SUBSET Nat : cleaner' = [cleaner EXCEPT ![c].files = F]
  <2>1. CASE ClearOldMutations(c)
    BY <2>1 DEF PartsInv, TypeInv, ClearOldMutations
  <2>2. CASE RemoveFile(c)
    <3>1. PICK m \in cleaner[c].files : cleaner' = [cleaner EXCEPT ![c].files = @ \ {m}]
      BY <2>2 DEF RemoveFile
    <3>2. cleaner[c].files \ {m} \in SUBSET Nat
      BY DEF PartsInv, TypeInv
    <3>3. QED
      BY <3>1, <3>2
  <2>3. QED
    BY <2>1, <2>2
<1>3. /\ cleaner' \in [Cleaners -> [part : Info \cup {NoPart}, files : SUBSET Nat]]
      /\ \A d \in Cleaners : cleaner'[d].part = cleaner[d].part
  BY <1>2 DEF PartsInv, TypeInv
<1>4. /\ UNCHANGED <<parts, disk, inserting, increment, tasks, drop, unloaded, starting, reading>>
  BY DEF ClearOldMutations, RemoveFile
<1>5. QED
  BY <1>1, <1>3, <1>4, QuietStep DEF PartsInv, TypeInv

-----------------------------------------------------------------------------
(* Merges and mutations *)

\* A part that spans a range of the active parts fits, and keeps clear of the
\* parts that are under way.
LEMMA SpanFits ==
  ASSUME PartsInv, NEW S, S \subseteq Active \ Tagged,
         \A x \in Active \ S : (\A p \in S : Less(x, p)) \/ (\A p \in S : Less(p, x)),
         NEW m \in Info, \A q \in S : Contains(m, q), m \notin S,
         NEW first \in S, first.min = m.min, NEW last \in S, last.max = m.max
  PROVE  /\ Fits(m, S, Active)
         /\ \A k \in Pending : Disjoint(tasks[k].info, m) /\ Disjoint(m, tasks[k].info)
<1> USE DEF PartsInv
<1>1. Active \subseteq Info /\ first \in Active /\ last \in Active
  BY ActiveInfos
<1>2. ASSUME NEW x \in Active \ S
      PROVE  \/ x.max < m.min /\ \A p \in S : Less(x, p)
             \/ x.min > m.max /\ \A p \in S : Less(p, x)
  <2>1. Disjoint(x, first) /\ Disjoint(x, last)
    BY <1>1 DEF TaskInv, AllDisjoint
  <2>2. QED
    BY <1>1, <2>1 DEF Disjoint, Less, Info
<1>3. \A x \in Active \ S : Disjoint(m, x)
  BY <1>2, <1>1 DEF Disjoint, Info
<1>4. Fits(m, S, Active)
  <2>1. m \notin Active
    BY <1>3 DEF Disjoint, Info
  <2>2. QED
    BY <1>3, <2>1 DEF Fits
<1>5. ASSUME NEW k \in Pending PROVE Disjoint(tasks[k].info, m)
  <2> DEFINE n == tasks[k].info
             R == tasks[k].src
  <2>1. Fits(n, R, Active) /\ R \subseteq Tagged
    BY DEF TaskInv, Pending, Tagged
  <2>2. PICK a \in R, b \in R : a.min = n.min /\ b.max = n.max
    BY DEF TaskInv
  <2> HIDE DEF n, R
  <2>3. n \in Info /\ a \in Active \ S /\ b \in Active \ S /\ first \in Active \ R
    BY <2>1, <2>2 DEF Fits
  <2>4. Disjoint(n, first)
    BY <2>1, <2>3 DEF Fits
  <2>5. a.max < m.min \/ a.min > m.max
    BY <1>2, <2>3
  <2>6. b.max < m.min \/ b.min > m.max
    BY <1>2, <2>3
  <2>7. a \in Info /\ b \in Info /\ first \in Info /\ last \in Info
    BY <1>1, <2>3
  <2>8. Disjoint(n, m)
    BY <2>2, <2>3, <2>4, <2>5, <2>6, <2>7 DEF Disjoint, Info
  <2>9. QED
    BY <2>8 DEF n
<1>6. \A k \in Pending : tasks[k].info \in Info
  BY DEF TaskInv, Fits
<1>7. QED
  BY <1>4, <1>5, <1>6, DisjointSymmetric

LEMMA StartStep ==
  ASSUME PartsInv, NEW k \in Tasks, tasks[k] = NoTask, Free, LockFree,
         NEW S, S \subseteq Active \ Tagged, NEW m, Fits(m, S, Active),
         \A j \in Pending : Disjoint(tasks[j].info, m) /\ Disjoint(m, tasks[j].info),
         NEW first \in S, first.min = m.min, NEW last \in S, last.max = m.max,
         NEW kind, NEW content, Start(k, kind, S, m, content)
  PROVE  PartsInv'
<1> USE DEF PartsInv
<1> DEFINE new == [kind |-> kind, src |-> S, info |-> m, content |-> content,
                   phase |-> "running"]
<1>1. /\ tasks' = [tasks EXCEPT ![k] = new]
      /\ UNCHANGED <<parts, disk, inserting, increment, current_mutations, files, starting, drop,
                     cleaner, unloaded, reading>>
  BY DEF Start
<1>2. /\ new.src = S /\ new.info = m /\ new.phase = "running"
      /\ DOMAIN new = TaskFields
  BY DEF TaskFields
<1> HIDE DEF new
<1>3. /\ DOMAIN tasks' = Tasks /\ tasks'[k] = new
      /\ \A j \in Tasks \ {k} : tasks'[j] = tasks[j]
  BY <1>1 DEF TypeInv
<1>4. Running' \subseteq Running \cup {k} /\ k \notin Running
  BY <1>3 DEF Running
<1>5. Pending' \subseteq Pending \cup {k} /\ k \notin Pending /\ Pending \subseteq Tasks
  BY <1>3, <1>4 DEF Pending, Running
<1>6. Tagged' \subseteq Tagged \cup S
  BY <1>2, <1>3, <1>4 DEF Tagged, Running
<1>7. Active' = Active
  BY <1>1, ActiveSame
<1>8. TypeInv'
  BY <1>1, <1>2, <1>3, <1>4 DEF TypeInv, Running
<1>9. BoundInv' /\ NumberInv' /\ UnloadedInv'
  BY <1>1, <1>7 DEF BoundInv, NumberInv, UnloadedInv, LockFree
<1>10. TaskInv'
  <2>1. \A j \in Running' : tasks'[j].src # {}
    BY <1>2, <1>3, <1>4 DEF TaskInv, Running
  <2>2. ASSUME NEW j \in Pending'
        PROVE  /\ Fits(tasks'[j].info, tasks'[j].src, Active')
               /\ \E q \in tasks'[j].src : q.min = tasks'[j].info.min
               /\ \E q \in tasks'[j].src : q.max = tasks'[j].info.max
    <3>1. CASE j = k
      BY <1>2, <1>3, <1>7, <3>1
    <3>2. CASE j # k
      <4>1. j \in Pending /\ tasks'[j] = tasks[j]
        BY <1>3, <1>5, <3>2
      <4>2. QED
        BY <1>7, <4>1 DEF TaskInv
    <3>3. QED
      BY <3>1, <3>2
  <2>3. ASSUME NEW i \in Pending', NEW j \in Pending', i # j
        PROVE  Disjoint(tasks'[i].info, tasks'[j].info)
    BY <1>2, <1>3, <1>5, <2>3 DEF TaskInv
  <2>4. QED
    BY <1>7, <2>1, <2>2, <2>3 DEF TaskInv
<1>11. DropInv'
  BY <1>1, <1>7 DEF DropInv, Free
<1>12. PlaceInv'
  <2>1. \A j \in Running' : tasks'[j].phase = "renamed" =>
          j \in Running /\ tasks'[j] = tasks[j]
    BY <1>2, <1>3, <1>4 DEF Running
  <2>2. QED
    BY <1>1, <2>1 DEF PlaceInv, LockFree
<1>13. CleanerInv'
  BY <1>1, <1>6 DEF CleanerInv, Active, InState
<1>14. HeldPartsOnDisk'
  BY <1>1, <1>6, <1>7 DEF HeldPartsOnDisk
<1>15. QED
  BY <1>8, <1>9, <1>10, <1>11, <1>12, <1>13, <1>14

\* The numbers of a merged part come from its sources.
LEMMA MergedNumbers ==
  ASSUME PartsInv, NEW S, S \subseteq Active, S # {}, NEW m, m = MergedInfo(S)
  PROVE  /\ m \in Info
         /\ \E q \in S : q.min = m.min
         /\ \E q \in S : q.max = m.max
         /\ \E q \in S : q.mutation = m.mutation
         /\ \A q \in S : /\ m.min <= q.min /\ q.max <= m.max
                        /\ q.level < m.level /\ q.mutation <= m.mutation
<1> USE DEF PartsInv
<1>1. Active \subseteq Info
  BY ActiveInfos
<1>2. PICK b \in Nat : \A p \in S : p.max <= b /\ p.level <= b /\ p.mutation <= b
  BY DEF BoundInv, HeldPartsOnDisk
<1> DEFINE mins == {p.min : p \in S}
           maxs == {p.max : p \in S}
           levels == {p.level : p \in S}
           versions == {p.mutation : p \in S}
<1>3. /\ mins \subseteq Nat /\ mins # {}
      /\ maxs \subseteq Nat /\ maxs # {} /\ \A x \in maxs : x <= b
      /\ levels \subseteq Nat /\ levels # {} /\ \A x \in levels : x <= b
      /\ versions \subseteq Nat /\ versions # {} /\ \A x \in versions : x <= b
  BY <1>1, <1>2 DEF Info
<1>4. m = [min |-> Min(mins), max |-> Max(maxs), level |-> Max(levels) + 1,
           mutation |-> Max(versions)]
  BY DEF MergedInfo
<1>5. /\ Min(mins) \in mins /\ \A x \in mins : Min(mins) <= x
      /\ Max(maxs) \in maxs /\ \A x \in maxs : x <= Max(maxs)
      /\ Max(levels) \in levels /\ \A x \in levels : x <= Max(levels)
      /\ Max(versions) \in versions /\ \A x \in versions : x <= Max(versions)
  <2> HIDE DEF mins, maxs, levels, versions
  <2> QED
    BY <1>3, MinIsLeast, MaxIsGreatest
<1>6. Min(mins) \in Nat /\ Max(maxs) \in Nat /\ Max(levels) \in Nat /\ Max(versions) \in Nat
  <2> HIDE DEF mins, maxs, levels, versions
  <2> QED
    BY <1>3, <1>5
<1>7. /\ m.min \in mins /\ m.max \in maxs /\ m.mutation \in versions
      /\ \A q \in S : /\ m.min <= q.min /\ q.max <= m.max
                     /\ q.level < m.level /\ q.mutation <= m.mutation
  <2>1. /\ \A p \in S : /\ Min(mins) <= p.min /\ p.max <= Max(maxs)
                       /\ p.level <= Max(levels) /\ p.mutation <= Max(versions)
    BY <1>5
  <2>2. \A p \in S : p.level \in Nat
    BY <1>1 DEF Info
  <2> HIDE DEF mins, maxs, levels, versions
  <2>3. QED
    BY <1>4, <1>5, <1>6, <2>1, <2>2
<1>8. (\E q \in S : q.min = m.min) /\ (\E q \in S : q.max = m.max)
  BY <1>7
<1>9. m \in Info
  <2>1. PICK q \in S : q.min = m.min
    BY <1>8
  <2>2. q \in Info /\ q.max <= m.max
    BY <1>1, <1>7
  <2> HIDE DEF mins, maxs, levels, versions
  <2>3. m.min \in Nat /\ m.max \in Nat
    BY <1>4, <1>6
  <2>4. m.min <= m.max
    BY <2>1, <2>2, <2>3 DEF Info
  <2>5. QED
    BY <1>4, <1>6, <2>4 DEF Info
<1>10. QED
  BY <1>7, <1>8, <1>9

LEMMA SelectMergeStep ==
  ASSUME PartsInv, NEW k \in Tasks, Merging(k)
  PROVE  PartsInv'
<1>1. PICK S \in SUBSET (Active \ Tagged) :
        Mergeable(S) /\ Start(k, "merge", S, MergedInfo(S), MergedContent(S))
  BY DEF Merging
<1>2. S # {} /\ S \subseteq Active
  BY <1>1, FS_EmptySet DEF Mergeable
<1>3. PICK m : m = MergedInfo(S)
  OBVIOUS
<1>4. /\ m \in Info /\ \A q \in S : /\ m.min <= q.min /\ q.max <= m.max
                                  /\ q.level < m.level /\ q.mutation <= m.mutation
      /\ \E q \in S : q.min = m.min
      /\ \E q \in S : q.max = m.max
  BY <1>2, <1>3, MergedNumbers
<1>5. PICK first \in S, last \in S : first.min = m.min /\ last.max = m.max
  BY <1>4
<1>6. \A q \in S : Contains(m, q) /\ q # m
  <2>1. S \subseteq Info
    BY <1>2, ActiveInfos DEF PartsInv
  <2>2. QED
    BY <1>4, <2>1 DEF Contains, Info
<1>7. /\ Fits(m, S, Active)
      /\ \A j \in Pending : Disjoint(tasks[j].info, m) /\ Disjoint(m, tasks[j].info)
  BY <1>1, <1>4, <1>5, <1>6, SpanFits DEF Mergeable
<1>8. Start(k, "merge", S, m, MergedContent(S))
  BY <1>1, <1>3
<1>9. tasks[k] = NoTask /\ Free /\ LockFree
  BY DEF Merging
<1>10. QED
  BY <1>1, <1>5, <1>7, <1>8, <1>9, StartStep

LEMMA SelectMutateStep ==
  ASSUME PartsInv, NEW k \in Tasks, SelectMutate(k)
  PROVE  PartsInv'
<1> USE DEF PartsInv
<1>1. PICK p \in Active \ Tagged, v \in current_mutations :
        /\ v > DataVersion(p)
        /\ \E content : Start(k, "mutate", {p}, [p EXCEPT !.mutation = v], content)
  BY DEF SelectMutate
<1>2. PICK content : Start(k, "mutate", {p}, [p EXCEPT !.mutation = v], content)
  BY <1>1
<1>3. p \in Info /\ v \in Nat
  BY ActiveInfos DEF TypeInv
<1> DEFINE m == [p EXCEPT !.mutation = v]
<1>4. /\ m \in Info /\ m.min = p.min /\ m.max = p.max /\ m # p /\ Contains(m, p)
  BY <1>1, <1>3 DEF Info, Contains, DataVersion
<1>5. Start(k, "mutate", {p}, m, content)
  BY <1>2
<1> HIDE DEF m
<1>6. ASSUME NEW x \in Active \ {p} PROVE Less(x, p) \/ Less(p, x)
  <2>1. x \in Info /\ Disjoint(x, p)
    BY ActiveInfos DEF TaskInv, AllDisjoint
  <2>2. QED
    BY <1>3, <2>1 DEF Disjoint, Less, Info
<1>7. /\ Fits(m, {p}, Active)
      /\ \A j \in Pending : Disjoint(tasks[j].info, m) /\ Disjoint(m, tasks[j].info)
  <2> DEFINE S == {p}
  <2>1. /\ S \subseteq Active \ Tagged /\ p \in S
        /\ \A x \in Active \ S : (\A q \in S : Less(x, q)) \/ (\A q \in S : Less(q, x))
        /\ \A q \in S : Contains(m, q)
        /\ m \notin S
    BY <1>4, <1>6
  <2> HIDE DEF S
  <2>2. /\ Fits(m, S, Active)
        /\ \A j \in Pending : Disjoint(tasks[j].info, m) /\ Disjoint(m, tasks[j].info)
    BY <1>4, <2>1, SpanFits
  <2>3. QED
    BY <2>2 DEF S
<1>8. tasks[k] = NoTask /\ Free /\ LockFree
  BY DEF SelectMutate, Blocked, Free
<1>9. QED
  BY <1>4, <1>5, <1>7, <1>8, StartStep

\* A task goes on to another phase.
LEMMA PhaseStep ==
  ASSUME TypeInv, NEW k \in Running, NEW phase, tasks' = [tasks EXCEPT ![k].phase = phase]
  PROVE  /\ DOMAIN tasks' = Tasks /\ Running' \subseteq Running
         /\ \A j \in Running' :
              /\ DOMAIN tasks'[j] = TaskFields
              /\ tasks'[j].src = tasks[j].src /\ tasks'[j].info = tasks[j].info
              /\ tasks'[j].phase = IF j = k THEN phase ELSE tasks[j].phase
         /\ Tagged' \subseteq Tagged
<1>1. k \in Tasks /\ DOMAIN tasks = Tasks /\ DOMAIN tasks[k] = TaskFields
  BY DEF TypeInv, Running
<1> DEFINE t == [tasks[k] EXCEPT !.phase = phase]
<1>2. tasks' = [tasks EXCEPT ![k] = t]
  OBVIOUS
<1>3. /\ DOMAIN t = TaskFields /\ t.phase = phase
      /\ t.src = tasks[k].src /\ t.info = tasks[k].info
  BY <1>1 DEF TaskFields
<1> HIDE DEF t
<1>4. DOMAIN tasks' = Tasks /\ tasks'[k] = t /\ \A j \in Tasks \ {k} : tasks'[j] = tasks[j]
  BY <1>1, <1>2
<1>5. Running' \subseteq Running
  BY <1>4 DEF Running
<1>6. \A j \in Running' :
        /\ DOMAIN tasks'[j] = TaskFields
        /\ tasks'[j].src = tasks[j].src /\ tasks'[j].info = tasks[j].info
        /\ tasks'[j].phase = IF j = k THEN phase ELSE tasks[j].phase
  BY <1>3, <1>4, <1>5 DEF TypeInv, Running
<1>7. Tagged' \subseteq Tagged
  BY <1>5, <1>6 DEF Tagged
<1>8. QED
  BY <1>4, <1>5, <1>6, <1>7

\* A new bound, when the part m is on disk.
LEMMA BoundStep ==
  ASSUME TypeInv, BoundInv, NEW m \in Info, files' \subseteq files,
         DOMAIN disk' \subseteq DOMAIN disk \cup {m}
  PROVE  BoundInv'
<1>1. PICK b \in Nat : /\ \A n \in files : n <= b
                       /\ \A q \in DOMAIN disk : q.max <= b /\ q.level <= b /\ q.mutation <= b
  BY DEF BoundInv
<1> DEFINE c == b + m.max + m.level + m.mutation
<1>2. c \in Nat /\ b <= c /\ m.max <= c /\ m.level <= c /\ m.mutation <= c
  BY DEF Info
<1> HIDE DEF c
<1>3. /\ \A n \in files' : n <= c
      /\ \A q \in DOMAIN disk' : q.max <= c /\ q.level <= c /\ q.mutation <= c
  BY <1>1, <1>2 DEF TypeInv, Info
<1>4. QED
  BY <1>2, <1>3 DEF BoundInv

LEMMA RenameMergeStep ==
  ASSUME PartsInv, NEW k \in Tasks, Renames(k)
  PROVE  PartsInv'
<1> USE DEF PartsInv
<1>0. PICK m : m = tasks[k].info
  OBVIOUS
<1>1. /\ k \in Running /\ tasks[k].phase = "running" /\ LockFree /\ m \notin DOMAIN parts
      /\ parts' = With(parts, {m}, "PreActive")
      /\ DOMAIN disk' = DOMAIN disk \cup {m}
      /\ tasks' = [tasks EXCEPT ![k].phase = "renamed"]
      /\ UNCHANGED <<inserting, increment, current_mutations, files, starting, drop, cleaner,
                     unloaded, reading>>
  BY <1>0 DEF Renames, MayAdd, AddDirectory, With
<1>2. k \in Pending /\ Fits(m, tasks[k].src, Active) /\ m \in Info
  BY <1>0, <1>1 DEF TaskInv, Pending, Fits
<1>3. m \notin unloaded
  <2>1. FitsSome(m, Active)
    BY <1>2 DEF FitsSome, Fits
  <2>2. QED
    BY <2>1, FitsNotUnloaded
<1>4. /\ DOMAIN tasks' = Tasks /\ Running' \subseteq Running
      /\ \A j \in Running' :
           /\ DOMAIN tasks'[j] = TaskFields
           /\ tasks'[j].src = tasks[j].src /\ tasks'[j].info = tasks[j].info
           /\ tasks'[j].phase = IF j = k THEN "renamed" ELSE tasks[j].phase
      /\ Tagged' \subseteq Tagged
  BY <1>1, PhaseStep
<1>5. Pending' \subseteq Pending
  BY <1>2, <1>4 DEF Pending
<1>6. \A j \in Running' : tasks'[j].phase = "renamed" =>
        tasks'[j].info = m \/ tasks[j].phase = "renamed"
  BY <1>0, <1>4
<1>7. /\ Active' = Active
      /\ DOMAIN parts' = DOMAIN parts \cup {m}
      /\ \A q \in DOMAIN parts : parts'[q] = parts[q]
      /\ parts'[m] = "PreActive"
  BY <1>1, AddOnePreActive
<1>8. TypeInv' /\ BoundInv'
  BY <1>1, <1>2, <1>4, <1>7, BoundStep DEF TypeInv
<1>9. TaskInv'
  <2>1. ASSUME NEW j \in Pending'
        PROVE  /\ Fits(tasks'[j].info, tasks'[j].src, Active')
               /\ \E q \in tasks'[j].src : q.min = tasks'[j].info.min
               /\ \E q \in tasks'[j].src : q.max = tasks'[j].info.max
    <3>1. j \in Pending /\ tasks'[j].src = tasks[j].src /\ tasks'[j].info = tasks[j].info
      BY <1>4, <1>5 DEF Pending
    <3>2. QED
      BY <1>7, <3>1 DEF TaskInv
  <2>2. \A i, j \in Pending' : i # j => Disjoint(tasks'[i].info, tasks'[j].info)
    <3>1. \A j \in Pending' : j \in Pending /\ tasks'[j].info = tasks[j].info
      BY <1>4, <1>5 DEF Pending
    <3>2. QED
      BY <3>1 DEF TaskInv
  <2>3. \A j \in Running' : tasks'[j].src # {}
    BY <1>4 DEF TaskInv
  <2>4. QED
    BY <1>7, <2>1, <2>2, <2>3 DEF TaskInv
<1>10. DropInv' /\ NumberInv'
  BY <1>1, <1>4, <1>7 DEF DropInv, NumberInv, LockFree
<1>11. PlaceInv'
  <2>1. ASSUME NEW j \in Running', tasks'[j].phase = "renamed"
        PROVE  /\ tasks'[j].info \in DOMAIN disk' /\ tasks'[j].info \in DOMAIN parts'
               /\ parts'[tasks'[j].info] = "PreActive"
    <3>1. CASE tasks'[j].info = m
      BY <1>1, <1>7, <3>1
    <3>2. CASE tasks[j].phase = "renamed"
      <4>1. j \in Running /\ tasks'[j].info = tasks[j].info
        BY <1>4
      <4>2. /\ tasks[j].info \in DOMAIN disk /\ tasks[j].info \in DOMAIN parts
            /\ parts[tasks[j].info] = "PreActive"
        BY <3>2, <4>1 DEF PlaceInv
      <4>3. QED
        BY <1>1, <1>7, <4>1, <4>2
    <3>3. QED
      BY <1>6, <2>1, <3>1, <3>2
  <2>2. QED
    BY <1>1, <1>7, <2>1 DEF PlaceInv, LockFree
<1>12. CleanerInv'
  BY <1>1, <1>4, <1>7 DEF CleanerInv
<1>13. UnloadedInv'
  BY <1>1, <1>3, <1>7 DEF UnloadedInv
<1>14. HeldPartsOnDisk'
  BY <1>1, <1>4, <1>7 DEF HeldPartsOnDisk
<1>15. QED
  BY <1>8, <1>9, <1>10, <1>11, <1>12, <1>13, <1>14

\* The commit of a task's part, when the states of the parts after it are
\* known.
LEMMA CommitTaskStep ==
  ASSUME PartsInv, NEW k \in Pending, LockFree, NEW m, m = tasks[k].info,
         tasks' = [tasks EXCEPT ![k].phase = "committed"],
         Active' = Replace(Active, {m}),
         DOMAIN parts' = DOMAIN parts \cup {m},
         \A p \in DOMAIN parts \ {m} : parts[p] # "Active" => parts'[p] = parts[p],
         m \in DOMAIN parts => parts[m] = "PreActive",
         DOMAIN disk' = DOMAIN disk \cup {m},
         UNCHANGED <<inserting, increment, current_mutations, files, starting, drop, cleaner,
                     unloaded, reading>>
  PROVE  PartsInv'
<1> USE DEF PartsInv
<1>1. /\ k \in Running /\ Fits(m, tasks[k].src, Active) /\ m \in Info /\ m.max <= increment
      /\ FitsSome(m, Active) /\ AllDisjoint({m})
  <2>1. k \in Running /\ Fits(m, tasks[k].src, Active)
    BY DEF TaskInv, Pending
  <2>2. m.max <= increment
    BY TaskBelow
  <2>3. QED
    BY <2>1, <2>2 DEF FitsSome, Fits, AllDisjoint
<1>2. /\ DOMAIN tasks' = Tasks /\ Running' \subseteq Running
      /\ \A j \in Running' :
           /\ DOMAIN tasks'[j] = TaskFields
           /\ tasks'[j].src = tasks[j].src /\ tasks'[j].info = tasks[j].info
           /\ tasks'[j].phase = IF j = k THEN "committed" ELSE tasks[j].phase
      /\ Tagged' \subseteq Tagged
  BY <1>1, PhaseStep
<1>3. /\ AllDisjoint(Active') /\ Active' \subseteq Active \cup {m}
      /\ CleanerInv' /\ UnloadedInv' /\ HeldPartsOnDisk'
  BY <1>1, <1>2, AfterCommit
<1>4. TypeInv' /\ BoundInv'
  BY <1>1, <1>2, BoundStep DEF TypeInv
<1>5. \A j \in Pending' :
        /\ j \in Pending /\ j # k
        /\ tasks'[j].src = tasks[j].src /\ tasks'[j].info = tasks[j].info
  BY <1>2 DEF Pending
<1>6. TaskInv'
  <2>1. ASSUME NEW j \in Pending'
        PROVE  /\ Fits(tasks'[j].info, tasks'[j].src, Active')
               /\ \E q \in tasks'[j].src : q.min = tasks'[j].info.min
               /\ \E q \in tasks'[j].src : q.max = tasks'[j].info.max
    <3>1. Disjoint(m, tasks[j].info) /\ Fits(tasks[j].info, tasks[j].src, Active)
      BY <1>5 DEF TaskInv
    <3>2. Fits(tasks[j].info, tasks[j].src, Replace(Active, {m}))
      BY <1>1, <3>1, ActiveInfos, ReplaceFits
    <3>3. QED
      BY <1>5, <3>2 DEF TaskInv
  <2>2. \A i, j \in Pending' : i # j => Disjoint(tasks'[i].info, tasks'[j].info)
    BY <1>5 DEF TaskInv
  <2>3. \A j \in Running' : tasks'[j].src # {}
    BY <1>2 DEF TaskInv
  <2>4. QED
    BY <1>3, <2>1, <2>2, <2>3 DEF TaskInv
<1>7. drop.cover = {} /\ drop.phase # "renaming"
  BY <1>1 DEF DropInv
<1>8. DropInv' /\ NumberInv'
  BY <1>1, <1>3, <1>7 DEF DropInv, NumberInv, LockFree, AllDisjoint
<1>9. PlaceInv'
  <2>1. ASSUME NEW j \in Running', tasks'[j].phase = "renamed"
        PROVE  /\ tasks'[j].info \in DOMAIN disk' /\ tasks'[j].info \in DOMAIN parts'
               /\ parts'[tasks'[j].info] = "PreActive"
    <3>1. j # k /\ j \in Running /\ tasks[j].phase = "renamed" /\ tasks'[j].info = tasks[j].info
      BY <1>2, <2>1
    <3>2. j \in Pending /\ tasks[j].info \in Info
      BY <3>1 DEF Pending, TaskInv, Fits
    <3>3. tasks[j].info # m
      <4>1. Disjoint(tasks[j].info, m)
        BY <3>1, <3>2 DEF TaskInv
      <4>2. QED
        BY <1>1, <4>1 DEF Disjoint, Info
    <3>4. QED
      BY <3>1, <3>3 DEF PlaceInv
  <2>2. QED
    BY <1>7, <2>1 DEF PlaceInv, LockFree
<1>10. QED
  BY <1>3, <1>4, <1>6, <1>8, <1>9

LEMMA CommitMergeStep ==
  ASSUME PartsInv, NEW k \in Tasks, CommitMerge(k)
  PROVE  PartsInv'
<1> USE DEF PartsInv
<1> DEFINE m == tasks[k].info
<1>1. /\ k \in Running /\ tasks[k].phase = "renamed" /\ LockFree
      /\ parts' = Committed({m})
      /\ tasks' = [tasks EXCEPT ![k].phase = "committed"]
      /\ UNCHANGED <<disk, inserting, increment, current_mutations, files, starting, drop, cleaner,
                     unloaded, reading>>
  BY DEF CommitMerge
<1>2. k \in Pending /\ FitsSome(m, Active)
  BY <1>1 DEF TaskInv, Pending, FitsSome, Fits
<1>3. m \in DOMAIN parts /\ parts[m] = "PreActive" /\ m \in DOMAIN disk
  BY <1>1 DEF PlaceInv
<1>4. /\ Active' = Replace(Active, {m})
      /\ DOMAIN parts' = DOMAIN parts
      /\ \A p \in DOMAIN parts \ {m} : parts[p] # "Active" => parts'[p] = parts[p]
  <2> HIDE DEF m
  <2> QED BY <1>1, <1>2, <1>3, CommitParts DEF TaskInv
<1>5. DOMAIN disk' = DOMAIN disk \cup {m} /\ DOMAIN parts' = DOMAIN parts \cup {m}
  BY <1>1, <1>3, <1>4
<1>6. QED
  BY <1>1, <1>2, <1>3, <1>4, <1>5, CommitTaskStep

LEMMA CommitMutateStep ==
  ASSUME PartsInv, NEW k \in Tasks, CommitMutate(k)
  PROVE  PartsInv'
<1> USE DEF PartsInv
<1> DEFINE m == tasks[k].info
           S == tasks[k].src
<1>1. /\ k \in Running /\ tasks[k].phase = "running" /\ LockFree /\ m \notin DOMAIN parts
      /\ DOMAIN disk' = DOMAIN disk \cup {m}
      /\ tasks' = [tasks EXCEPT ![k].phase = "committed"]
      /\ UNCHANGED <<inserting, increment, current_mutations, files, starting, drop, cleaner,
                     unloaded, reading>>
  BY DEF CommitMutate, MayAdd, AddDirectory, With
<1>2. parts' = [q \in DOMAIN parts \cup {m} |->
                  IF q = m THEN IF Covering(m, Active) = {} THEN "Active" ELSE "Outdated"
                  ELSE IF Covering(m, Active) = {} /\ q \in Covered(m, Active) THEN "Outdated"
                  ELSE parts[q]]
  BY DEF CommitMutate, With
<1>3. k \in Pending /\ Fits(m, S, Active)
  BY <1>1 DEF TaskInv, Pending
<1> HIDE DEF m, S
<1>4. Covered(m, Active) = S /\ Covering(m, Active) = {}
  BY <1>3, ActiveInfos, FitsReached DEF TaskInv
<1>5. parts' = [q \in DOMAIN parts \cup {m} |->
                  IF q = m THEN "Active" ELSE IF q \in S THEN "Outdated" ELSE parts[q]]
  BY <1>2, <1>4
<1>6. S = {q \in Active : Contains(m, q)}
  BY <1>3, ActiveInfos, ContainedNotDisjoint DEF Fits
<1>7. Active' = Replace(Active, {m})
  <2>1. Active' = {q \in DOMAIN parts \cup {m} : parts'[q] = "Active"}
    BY <1>5 DEF Active, InState
  <2>2. \A q \in DOMAIN parts \cup {m} :
          parts'[q] = "Active" <=> q = m \/ (q \in Active /\ q \notin S)
    BY <1>5 DEF Active, InState
  <2>3. QED
    BY <1>6, <2>1, <2>2, ActiveInfos DEF Replace
<1>8. /\ DOMAIN parts' = DOMAIN parts \cup {m}
      /\ \A p \in DOMAIN parts \ {m} : parts[p] # "Active" => parts'[p] = parts[p]
  BY <1>5, <1>6 DEF Active, InState
<1>9. QED
  BY <1>1, <1>3, <1>7, <1>8, CommitTaskStep DEF m

LEMMA FinishTaskStep ==
  ASSUME PartsInv, NEW k \in Tasks, FinishTask(k)
  PROVE  PartsInv'
<1> USE DEF PartsInv
<1>1. /\ k \in Running /\ tasks' = [tasks EXCEPT ![k] = NoTask]
      /\ UNCHANGED <<parts, disk, inserting, increment, current_mutations, files, starting, drop,
                     cleaner, unloaded, reading>>
  BY DEF FinishTask
<1>2. /\ DOMAIN tasks' = Tasks /\ Running' \subseteq Running \ {k}
      /\ \A j \in Running' : tasks'[j] = tasks[j]
  BY <1>1 DEF TypeInv, Running
<1>3. Pending' \subseteq Pending /\ Tagged' \subseteq Tagged
  BY <1>2 DEF Pending, Tagged
<1>4. \A j \in Pending' : j \in Pending /\ tasks'[j] = tasks[j]
  BY <1>2, <1>3 DEF Pending
<1>5. Active' = Active
  BY <1>1, ActiveSame
<1>6. TypeInv' /\ BoundInv'
  BY <1>1, <1>2 DEF TypeInv, BoundInv
<1>7. TaskInv'
  BY <1>2, <1>4, <1>5 DEF TaskInv
<1>8. DropInv' /\ NumberInv' /\ UnloadedInv'
  BY <1>1, <1>2, <1>5 DEF DropInv, NumberInv, UnloadedInv, LockFree
<1>9. PlaceInv'
  BY <1>1, <1>2 DEF PlaceInv, LockFree
<1>10. CleanerInv' /\ HeldPartsOnDisk'
  BY <1>1, <1>3, <1>5 DEF CleanerInv, HeldPartsOnDisk
<1>11. QED
  BY <1>6, <1>7, <1>8, <1>9, <1>10

-----------------------------------------------------------------------------
(* DROP *)

LEMMA StopMergesStep == PartsInv /\ StopMerges => PartsInv'
<1> SUFFICES ASSUME PartsInv, StopMerges PROVE PartsInv'
  OBVIOUS
<1> USE DEF PartsInv
<1>1. /\ drop' = [phase |-> "stopping", cover |-> {}] /\ drop.phase = "idle"
      /\ UNCHANGED <<parts, disk, inserting, increment, current_mutations, files, starting, tasks,
                     cleaner, unloaded, reading>>
  BY DEF StopMerges
<1>2. Running' = Running /\ Pending' = Pending /\ Tagged' = Tagged /\ Active' = Active
  BY <1>1, TasksSame, ActiveSame
<1>3. drop'.phase = "stopping" /\ drop'.cover = {} /\ drop.cover = {}
  BY <1>1 DEF DropInv
<1>4. TypeInv' /\ BoundInv' /\ TaskInv'
  BY <1>1, <1>2 DEF TypeInv, BoundInv, TaskInv
<1>5. DropInv' /\ NumberInv'
  BY <1>1, <1>2, <1>3 DEF DropInv, NumberInv, LockFree, AllDisjoint
<1>6. PlaceInv' /\ CleanerInv' /\ UnloadedInv' /\ HeldPartsOnDisk'
  BY <1>1, <1>2, <1>3 DEF PlaceInv, CleanerInv, UnloadedInv, HeldPartsOnDisk, LockFree
<1>7. QED
  BY <1>4, <1>5, <1>6

\* The steps in which only the phase of a DROP changes, or what it covers.
LEMMA DropPhaseStep ==
  ASSUME PartsInv,
         UNCHANGED <<parts, disk, inserting, increment, current_mutations, files, starting, tasks,
                     cleaner, unloaded, reading>>,
         drop' \in [phase : {"idle", "stopped", "covering"}, cover : SUBSET Info],
         drop'.phase # "covering" => drop'.cover = {},
         drop'.phase # "idle" => Running = {},
         AllDisjoint(drop'.cover),
         \A p \in drop'.cover : FitsSome(p, Active) /\ p.max <= increment,
         LockFree \/ drop'.cover = {}
  PROVE  PartsInv'
<1> USE DEF PartsInv
<1>1. Running' = Running /\ Pending' = Pending /\ Tagged' = Tagged /\ Active' = Active
  BY TasksSame, ActiveSame
<1>2. TypeInv' /\ BoundInv' /\ TaskInv'
  BY <1>1 DEF TypeInv, BoundInv, TaskInv
<1>3. DropInv'
  BY <1>1 DEF DropInv
<1>4. NumberInv'
  BY <1>1 DEF NumberInv, LockFree
<1>5. PlaceInv' /\ CleanerInv' /\ UnloadedInv' /\ HeldPartsOnDisk'
  BY <1>1 DEF PlaceInv, CleanerInv, UnloadedInv, HeldPartsOnDisk, LockFree
<1>6. QED
  BY <1>2, <1>3, <1>4, <1>5

LEMMA MergesStoppedStep == PartsInv /\ (MergesStopped \/ DropFails) => PartsInv'
<1> SUFFICES ASSUME PartsInv, MergesStopped \/ DropFails PROVE PartsInv'
  OBVIOUS
<1>1. UNCHANGED <<parts, disk, inserting, increment, current_mutations, files, starting, tasks,
                  cleaner, unloaded, reading>>
  BY DEF MergesStopped, DropFails
<1>2. /\ drop' = [phase |-> "idle", cover |-> {}] \/ drop' = [phase |-> "stopped", cover |-> {}]
      /\ drop'.phase # "idle" => Running = {}
  BY DEF MergesStopped, DropFails, PartsInv, TypeInv, DropInv, TaskInv, Tagged
<1>3. QED
  BY <1>1, <1>2, DropPhaseStep DEF AllDisjoint

\* The empty part for an active one.
LEMMA EmptyCoverFits ==
  ASSUME PartsInv, NEW p \in Active
  PROVE  /\ EmptyCover(p) \in Info /\ Contains(EmptyCover(p), p)
         /\ EmptyCover(p).min = p.min /\ EmptyCover(p).max = p.max
         /\ EmptyCover(p).mutation = p.mutation
         /\ Fits(EmptyCover(p), {p}, Active)
         /\ EmptyCover(p).max <= increment
<1> USE DEF PartsInv
<1>1. p \in Info
  BY ActiveInfos
<1>2. /\ EmptyCover(p) \in Info /\ Contains(EmptyCover(p), p) /\ EmptyCover(p) # p
      /\ EmptyCover(p).min = p.min /\ EmptyCover(p).max = p.max
      /\ EmptyCover(p).mutation = p.mutation
  BY <1>1 DEF EmptyCover, Info, Contains
<1>3. ASSUME NEW q \in Active, q # p PROVE Disjoint(EmptyCover(p), q)
  <2>1. Disjoint(p, q)
    BY <1>3 DEF TaskInv, AllDisjoint
  <2>2. QED
    BY <1>2, <2>1 DEF Disjoint
<1>4. EmptyCover(p) \notin Active
  <2>1. ~Disjoint(EmptyCover(p), EmptyCover(p))
    BY <1>2 DEF Disjoint, Info
  <2>2. QED
    BY <1>2, <1>3, <2>1
<1>5. Fits(EmptyCover(p), {p}, Active)
  BY <1>2, <1>3, <1>4 DEF Fits
<1>6. QED
  BY <1>2, <1>5 DEF NumberInv

LEMMA PrepareDropStep == PartsInv /\ PrepareDrop => PartsInv'
<1> SUFFICES ASSUME PartsInv, PrepareDrop PROVE PartsInv'
  OBVIOUS
<1>1. PICK S \in SUBSET Active :
        drop' = [phase |-> "covering", cover |-> {EmptyCover(p) : p \in S}]
  BY DEF PrepareDrop
<1>2. PICK N : N = {EmptyCover(p) : p \in S}
  OBVIOUS
<1>3. /\ drop.phase = "stopped" /\ LockFree
      /\ UNCHANGED <<parts, disk, inserting, increment, current_mutations, files, starting, tasks,
                     cleaner, unloaded, reading>>
  BY DEF PrepareDrop
<1>4. Running = {}
  BY <1>3 DEF PartsInv, DropInv
<1>5. ASSUME NEW n \in N PROVE FitsSome(n, Active) /\ n \in Info /\ n.max <= increment
  BY <1>2, EmptyCoverFits DEF FitsSome
<1>6. AllDisjoint(N)
  <2>1. ASSUME NEW p \in S, NEW q \in S, EmptyCover(p) # EmptyCover(q)
        PROVE  Disjoint(EmptyCover(p), EmptyCover(q))
    <3>1. Disjoint(EmptyCover(p), q)
      BY <2>1, EmptyCoverFits DEF Fits
    <3>2. QED
      BY <3>1, EmptyCoverFits DEF Disjoint
  <2>2. QED
    BY <1>2, <2>1 DEF AllDisjoint
<1>7. /\ drop' \in [phase : {"idle", "stopped", "covering"}, cover : SUBSET Info]
      /\ drop'.phase = "covering" /\ drop'.cover = N
  BY <1>1, <1>2, <1>5
<1>8. QED
  BY <1>3, <1>4, <1>5, <1>6, <1>7, DropPhaseStep

LEMMA AddCoverStep == PartsInv /\ AddCover => PartsInv'
<1> SUFFICES ASSUME PartsInv, AddCover PROVE PartsInv'
  OBVIOUS
<1> USE DEF PartsInv
<1>1. PICK N : N = drop.cover
  OBVIOUS
<1>2. /\ drop.phase = "covering" /\ LockFree
      /\ N \cap DOMAIN parts = {} /\ parts' = With(parts, N, "PreActive")
      /\ drop'.phase = "renaming" /\ drop'.cover = N
      /\ drop' = [phase |-> "renaming", cover |-> N]
      /\ UNCHANGED <<disk, inserting, increment, current_mutations, files, starting, tasks, cleaner,
                     unloaded, reading>>
  BY <1>1 DEF AddCover, MayAdd, TypeInv
<1>3. /\ Active' = Active
      /\ DOMAIN parts' = DOMAIN parts \cup N
      /\ \A p \in DOMAIN parts : parts'[p] = parts[p]
      /\ \A p \in N : parts'[p] = "PreActive"
  BY <1>2, AddPreActive
<1>4. Running' = Running /\ Pending' = Pending /\ Tagged' = Tagged
  BY <1>2, TasksSame
<1>5. /\ Running = {} /\ AllDisjoint(N)
      /\ \A n \in N : FitsSome(n, Active) /\ n \in Info /\ n.max <= increment
  BY <1>1, <1>2 DEF DropInv, NumberInv, TypeInv
<1>6. TypeInv' /\ BoundInv'
  BY <1>2, <1>3, <1>4, <1>5 DEF TypeInv, BoundInv
<1>7. TaskInv' /\ DropInv'
  BY <1>2, <1>3, <1>4, <1>5 DEF TaskInv, DropInv
<1>8. NumberInv'
  BY <1>2, <1>3, <1>5 DEF NumberInv, LockFree
<1>9. PlaceInv'
  BY <1>2, <1>3, <1>4, <1>5 DEF PlaceInv, LockFree
<1>10. CleanerInv'
  BY <1>2, <1>3, <1>4 DEF CleanerInv
<1>11. UnloadedInv'
  <2>1. unloaded \cap N = {}
    BY <1>5, FitsNotUnloaded
  <2>2. QED
    BY <1>2, <1>3, <2>1 DEF UnloadedInv
<1>12. HeldPartsOnDisk'
  BY <1>2, <1>3, <1>4 DEF HeldPartsOnDisk
<1>13. QED
  BY <1>6, <1>7, <1>8, <1>9, <1>10, <1>11, <1>12

\* There is a first one among disjoint parts.
LEMMA FirstOfDisjoint ==
  ASSUME NEW N, N \subseteq Info, N # {}, AllDisjoint(N)
  PROVE  \E p \in N : \A q \in N \ {p} : Less(p, q)
<1> DEFINE mins == {p.min : p \in N}
<1>1. mins \subseteq Nat /\ mins # {}
  BY DEF Info
<1>2. PICK n \in mins : \A x \in mins : n <= x
  <2> HIDE DEF mins
  <2> QED BY <1>1, LeastNatural
<1>3. PICK p \in N : p.min = n
  BY <1>2
<1>4. ASSUME NEW q \in N \ {p} PROVE Less(p, q)
  <2>1. p.min <= q.min /\ Disjoint(p, q)
    BY <1>2, <1>3 DEF AllDisjoint
  <2>2. QED
    BY <2>1 DEF Disjoint, Less, Info
<1>5. QED
  BY <1>4

LEMMA RenameCoverStep == PartsInv /\ RenameCover => PartsInv'
<1> SUFFICES ASSUME PartsInv, RenameCover PROVE PartsInv'
  OBVIOUS
<1> USE DEF PartsInv
<1> DEFINE todo == drop.cover \ DOMAIN disk
<1>1. PICK m : m = CHOOSE p \in todo : \A q \in todo \ {p} : Less(p, q)
  OBVIOUS
<1>2. /\ todo # {} /\ DOMAIN disk' = DOMAIN disk \cup {m}
      /\ UNCHANGED <<parts, inserting, increment, current_mutations, files, starting, tasks, drop,
                     cleaner, unloaded, reading>>
  BY <1>1 DEF RenameCover, AddDirectory, With
<1>3. todo \subseteq Info /\ AllDisjoint(todo)
  BY DEF TypeInv, DropInv, AllDisjoint
<1>4. m \in todo /\ m \in Info
  <2> HIDE DEF todo
  <2>1. \E p \in todo : \A q \in todo \ {p} : Less(p, q)
    BY <1>2, <1>3, FirstOfDisjoint
  <2>2. QED
    BY <1>1, <1>3, <2>1
<1> HIDE DEF todo
<1>5. Running' = Running /\ Pending' = Pending /\ Tagged' = Tagged /\ Active' = Active
  BY <1>2, TasksSame, ActiveSame
<1>6. TypeInv' /\ BoundInv'
  BY <1>2, <1>4, <1>5, BoundStep DEF TypeInv
<1>7. TaskInv' /\ DropInv' /\ NumberInv'
  BY <1>2, <1>5 DEF TaskInv, DropInv, NumberInv, LockFree
<1>8. PlaceInv' /\ CleanerInv' /\ UnloadedInv' /\ HeldPartsOnDisk'
  BY <1>2, <1>5 DEF PlaceInv, CleanerInv, UnloadedInv, HeldPartsOnDisk, LockFree
<1>9. QED
  BY <1>6, <1>7, <1>8

LEMMA CommitDropStep == PartsInv /\ CommitDrop => PartsInv'
<1> SUFFICES ASSUME PartsInv, CommitDrop PROVE PartsInv'
  OBVIOUS
<1> USE DEF PartsInv
<1>0. PICK N : N = drop.cover
  OBVIOUS
<1>1. /\ drop.phase = "renaming" /\ N \subseteq DOMAIN disk /\ LockFree
      /\ parts' = Committed(N)
      /\ drop' = [phase |-> "idle", cover |-> {}]
      /\ UNCHANGED <<disk, inserting, increment, current_mutations, files, starting, tasks, cleaner,
                     unloaded, reading>>
  BY <1>0 DEF CommitDrop
<1>2. /\ AllDisjoint(N) /\ \A p \in N : FitsSome(p, Active)
      /\ \A p \in N : p \in DOMAIN parts /\ parts[p] = "PreActive" /\ p.max <= increment
      /\ Running = {}
  BY <1>0, <1>1 DEF DropInv, PlaceInv, NumberInv
<1>3. /\ Active' = Replace(Active, N)
      /\ DOMAIN parts' = DOMAIN parts
      /\ \A p \in DOMAIN parts \ N : parts[p] # "Active" => parts'[p] = parts[p]
  BY <1>1, <1>2, CommitParts DEF TaskInv
<1>4. Running' = Running /\ Pending' = Pending /\ Tagged' = Tagged /\ Pending = {}
  BY <1>1, <1>2, TasksSame DEF Pending
<1>5. DOMAIN parts' = DOMAIN parts \cup N
  BY <1>2, <1>3
<1>6. /\ AllDisjoint(Active') /\ Active' \subseteq Active \cup N
      /\ CleanerInv' /\ UnloadedInv' /\ HeldPartsOnDisk'
  BY <1>1, <1>2, <1>3, <1>4, <1>5, AfterCommit
<1>7. TypeInv' /\ BoundInv'
  BY <1>1, <1>3, <1>4 DEF TypeInv, BoundInv
<1>8. drop'.phase = "idle" /\ drop'.cover = {}
  BY <1>1
<1>9. TaskInv' /\ DropInv'
  BY <1>2, <1>4, <1>6, <1>8 DEF TaskInv, DropInv, AllDisjoint
<1>10. NumberInv'
  BY <1>1, <1>2, <1>6, <1>8 DEF NumberInv, LockFree
<1>11. PlaceInv'
  BY <1>1, <1>2, <1>4, <1>8 DEF PlaceInv, LockFree
<1>12. QED
  BY <1>6, <1>7, <1>9, <1>10, <1>11

-----------------------------------------------------------------------------
(* Cleanup *)

\* A part with files of its own in DOMAIN parts changes its state, and was and
\* is not active.
LEMMA GrabStep ==
  ASSUME PartsInv, NEW c \in Cleaners, Grab(c)
  PROVE  PartsInv'
<1> USE DEF PartsInv
<1>1. PICK p \in InState("Outdated") \ Held :
        /\ parts' = [parts EXCEPT ![p] = "Deleting"]
        /\ cleaner' = [cleaner EXCEPT ![c].part = p]
  BY DEF Grab
<1>2. /\ cleaner[c].part = NoPart /\ LockFree
      /\ UNCHANGED <<disk, inserting, increment, current_mutations, files, starting, tasks, drop,
                     unloaded, reading>>
  BY DEF Grab, MayClean, Idle
<1>3. p \in DOMAIN parts /\ parts[p] = "Outdated" /\ p \notin reading \cup Tagged /\ p \in Info
  BY <1>1 DEF InState, Held, TypeInv
<1>4. /\ DOMAIN parts' = DOMAIN parts /\ parts'[p] = "Deleting"
      /\ \A q \in DOMAIN parts \ {p} : parts'[q] = parts[q]
  BY <1>1, <1>3
<1>5. Active' = Active
  BY <1>3, <1>4 DEF Active, InState
<1>6. Running' = Running /\ Pending' = Pending /\ Tagged' = Tagged
  BY <1>2, TasksSame
<1>7. /\ cleaner' \in [Cleaners -> [part : Info \cup {NoPart}, files : SUBSET Nat]]
      /\ cleaner'[c].part = p
      /\ \A d \in Cleaners \ {c} : cleaner'[d] = cleaner[d]
  BY <1>1, <1>3 DEF TypeInv
<1>8. TypeInv' /\ BoundInv'
  BY <1>2, <1>4, <1>6, <1>7 DEF TypeInv, BoundInv
<1>9. TaskInv' /\ DropInv' /\ NumberInv' /\ UnloadedInv' /\ HeldPartsOnDisk'
  BY <1>2, <1>4, <1>5, <1>6
     DEF TaskInv, DropInv, NumberInv, UnloadedInv, HeldPartsOnDisk, LockFree
<1>10. PlaceInv'
  BY <1>2, <1>3, <1>4, <1>6 DEF PlaceInv, LockFree
<1>11. CleanerInv'
  <2>1. \A d \in Cleaners \ {c} : cleaner[d].part # NoPart => cleaner[d].part # p
    BY <1>3 DEF CleanerInv
  <2>2. ASSUME NEW d \in Cleaners, cleaner'[d].part # NoPart
        PROVE  /\ cleaner'[d].part \in DOMAIN parts' /\ parts'[cleaner'[d].part] = "Deleting"
               /\ cleaner'[d].part \notin reading' \cup Tagged'
    <3>1. CASE d = c
      BY <1>2, <1>3, <1>4, <1>6, <1>7, <3>1
    <3>2. CASE d # c
      BY <1>2, <1>4, <1>6, <1>7, <2>1, <2>2, <3>2 DEF CleanerInv
    <3>3. QED
      BY <3>1, <3>2
  <2>3. ASSUME NEW d \in Cleaners, cleaner'[d].part # NoPart, NEW e \in Cleaners, e # d
        PROVE  cleaner'[e].part # cleaner'[d].part
    BY <1>7, <2>1, <2>3 DEF CleanerInv
  <2>4. QED
    BY <2>2, <2>3 DEF CleanerInv
<1>12. QED
  BY <1>8, <1>9, <1>10, <1>11

LEMMA RemovePartStep ==
  ASSUME PartsInv, NEW c \in Cleaners, RemovePart(c)
  PROVE  PartsInv'
<1> USE DEF PartsInv
<1>0. PICK p : p = cleaner[c].part
  OBVIOUS
<1>1. /\ p # NoPart /\ LockFree
      /\ \/ /\ disk' = Restrict(disk, DOMAIN disk \ {p})
            /\ parts' = Restrict(parts, DOMAIN parts \ {p})
         \/ /\ parts' = [parts EXCEPT ![p] = "Outdated"]
            /\ UNCHANGED disk
      /\ cleaner' = [cleaner EXCEPT ![c].part = NoPart]
      /\ UNCHANGED <<inserting, increment, current_mutations, files, starting, tasks, drop,
                     unloaded, reading>>
  BY <1>0 DEF RemovePart
<1>2. /\ p \in DOMAIN parts /\ parts[p] = "Deleting" /\ p \notin reading \cup Tagged \cup Active
      /\ p \notin unloaded
  BY <1>0, <1>1 DEF CleanerInv, Active, InState, UnloadedInv
<1>3. /\ DOMAIN parts' \subseteq DOMAIN parts /\ DOMAIN parts \ {p} \subseteq DOMAIN parts'
      /\ \A q \in DOMAIN parts \ {p} : parts'[q] = parts[q]
      /\ p \in DOMAIN parts' => parts'[p] = "Outdated"
  <2>1. CASE parts' = Restrict(parts, DOMAIN parts \ {p})
    BY <2>1 DEF Restrict
  <2>2. CASE parts' = [parts EXCEPT ![p] = "Outdated"]
    BY <1>2, <2>2
  <2>3. QED
    BY <1>1, <2>1, <2>2
<1>4. DOMAIN disk' \subseteq DOMAIN disk /\ DOMAIN disk \ {p} \subseteq DOMAIN disk'
  BY <1>1 DEF Restrict
<1>5. Active' = Active
  BY <1>2, <1>3 DEF Active, InState
<1>6. Running' = Running /\ Pending' = Pending /\ Tagged' = Tagged
  BY <1>1, TasksSame
<1>7. /\ cleaner' \in [Cleaners -> [part : Info \cup {NoPart}, files : SUBSET Nat]]
      /\ cleaner'[c].part = NoPart
      /\ \A d \in Cleaners \ {c} : cleaner'[d] = cleaner[d]
  BY <1>1 DEF TypeInv
<1>8. TypeInv' /\ BoundInv'
  BY <1>1, <1>3, <1>4, <1>6, <1>7 DEF TypeInv, BoundInv
<1>9. TaskInv' /\ DropInv' /\ NumberInv'
  BY <1>1, <1>5, <1>6 DEF TaskInv, DropInv, NumberInv, LockFree
<1>10. PlaceInv'
  BY <1>1, <1>2, <1>3, <1>4, <1>6 DEF PlaceInv, LockFree
<1>11. CleanerInv'
  <2>1. \A d \in Cleaners \ {c} : cleaner[d].part # p
    BY <1>0, <1>1 DEF CleanerInv
  <2>2. ASSUME NEW d \in Cleaners, cleaner'[d].part # NoPart
        PROVE  /\ cleaner'[d].part \in DOMAIN parts' /\ parts'[cleaner'[d].part] = "Deleting"
               /\ cleaner'[d].part \notin reading' \cup Tagged'
               /\ \A e \in Cleaners : e # d => cleaner'[e].part # cleaner'[d].part
    BY <1>1, <1>3, <1>6, <1>7, <2>1, <2>2 DEF CleanerInv
  <2>3. QED
    BY <2>2 DEF CleanerInv
<1>12. UnloadedInv'
  BY <1>1, <1>2, <1>3, <1>4, <1>5 DEF UnloadedInv
<1>13. HeldPartsOnDisk'
  BY <1>1, <1>2, <1>4, <1>5, <1>6 DEF HeldPartsOnDisk
<1>14. QED
  BY <1>8, <1>9, <1>10, <1>11, <1>12, <1>13

LEMMA ClearEmptyStep ==
  ASSUME PartsInv, NEW c \in Cleaners, ClearEmpty(c)
  PROVE  PartsInv'
<1> USE DEF PartsInv
<1>1. PICK p \in Active \ Tagged : parts' = [parts EXCEPT ![p] = "Outdated"]
  BY DEF ClearEmpty
<1>2. /\ LockFree /\ unloaded = {}
      /\ UNCHANGED <<disk, inserting, increment, current_mutations, files, starting, tasks, drop,
                     cleaner, unloaded, reading>>
  BY DEF ClearEmpty
<1>3. p \in DOMAIN parts /\ parts[p] = "Active"
  BY DEF Active, InState
<1>4. /\ DOMAIN parts' = DOMAIN parts /\ parts'[p] = "Outdated"
      /\ \A q \in DOMAIN parts \ {p} : parts'[q] = parts[q]
  BY <1>1, <1>3
<1>5. Active' = Active \ {p}
  BY <1>3, <1>4 DEF Active, InState
<1>6. Running' = Running /\ Pending' = Pending /\ Tagged' = Tagged
  BY <1>2, TasksSame
<1>7. TypeInv' /\ BoundInv'
  BY <1>2, <1>4, <1>6 DEF TypeInv, BoundInv
<1>8. TaskInv'
  <2>1. ASSUME NEW k \in Pending PROVE Fits(tasks[k].info, tasks[k].src, Active')
    <3>1. p \notin tasks[k].src
      BY DEF Tagged, Pending
    <3>2. QED
      BY <1>5, <3>1 DEF TaskInv, Fits
  <2>2. AllDisjoint(Active')
    BY <1>5 DEF TaskInv, AllDisjoint
  <2>3. QED
    BY <1>2, <1>6, <2>1, <2>2 DEF TaskInv
<1>9. DropInv'
  <2>1. ASSUME NEW q \in drop.cover PROVE FitsSome(q, Active')
    <3>1. PICK S \in SUBSET Active : Fits(q, S, Active)
      BY DEF DropInv, FitsSome
    <3>2. Fits(q, S \ {p}, Active')
      BY <1>5, <3>1 DEF Fits
    <3>3. QED
      BY <3>2 DEF FitsSome, Fits
  <2>2. QED
    BY <1>2, <1>6, <2>1 DEF DropInv
<1>10. NumberInv' /\ UnloadedInv' /\ HeldPartsOnDisk'
  BY <1>2, <1>4, <1>5, <1>6 DEF NumberInv, UnloadedInv, HeldPartsOnDisk, LockFree
<1>11. PlaceInv' /\ CleanerInv'
  BY <1>2, <1>3, <1>4, <1>6 DEF PlaceInv, CleanerInv, LockFree
<1>12. QED
  BY <1>7, <1>8, <1>9, <1>10, <1>11

-----------------------------------------------------------------------------
(* A crash, and the start that follows it *)

LEMMA LoadOutdatedStep ==
  ASSUME PartsInv, NEW p \in unloaded, LoadOutdated(p)
  PROVE  PartsInv'
<1> USE DEF PartsInv
<1>1. /\ LockFree /\ parts' = With(parts, {p}, "Outdated")
      /\ unloaded' = unloaded \ {p}
      /\ UNCHANGED <<disk, inserting, increment, current_mutations, files, starting, tasks, drop,
                     cleaner, reading>>
  BY DEF LoadOutdated
<1>2. p \notin DOMAIN parts /\ p \in Info
  BY DEF UnloadedInv, TypeInv
<1>3. /\ DOMAIN parts' = DOMAIN parts \cup {p} /\ parts'[p] = "Outdated"
      /\ \A q \in DOMAIN parts : parts'[q] = parts[q]
  BY <1>1, <1>2 DEF With
<1>4. Active' = Active
  BY <1>2, <1>3 DEF Active, InState
<1>5. Running' = Running /\ Pending' = Pending /\ Tagged' = Tagged
  BY <1>1, TasksSame
<1>6. TypeInv' /\ BoundInv'
  BY <1>1, <1>2, <1>3, <1>5 DEF TypeInv, BoundInv
<1>7. TaskInv' /\ DropInv' /\ NumberInv' /\ UnloadedInv' /\ HeldPartsOnDisk'
  BY <1>1, <1>3, <1>4, <1>5
     DEF TaskInv, DropInv, NumberInv, UnloadedInv, HeldPartsOnDisk, LockFree
<1>8. PlaceInv'
  BY <1>1, <1>3, <1>5 DEF PlaceInv, LockFree
<1>9. CleanerInv'
  BY <1>1, <1>3, <1>5 DEF CleanerInv
<1>10. QED
  BY <1>6, <1>7, <1>8, <1>9

\* Every part on disk is, or is inside, one that no other part contains.
LEMMA TopDominates ==
  ASSUME TypeInv, BoundInv, NEW p \in DOMAIN disk
  PROVE  \E a \in TopLevel : a = p \/ Contains(a, p)
<1>1. PICK b \in Nat : \A q \in DOMAIN disk : q.max <= b /\ q.level <= b /\ q.mutation <= b
  BY DEF BoundInv
<1>2. DOMAIN disk \subseteq Info
  BY DEF TypeInv
<1> DEFINE T == {q \in DOMAIN disk : q = p \/ Contains(q, p)}
           levels == {q.level : q \in T}
<1>3. p \in T /\ levels \subseteq Nat /\ levels # {} /\ \A x \in levels : x <= b
  BY <1>1, <1>2 DEF Info
<1>4. PICK l \in levels : \A x \in levels : x <= l
  <2> HIDE DEF levels
  <2> QED BY <1>3, MaxIsGreatest
<1> DEFINE M == {q \in T : q.level = l}
           versions == {q.mutation : q \in M}
<1>5. versions \subseteq Nat /\ versions # {} /\ \A x \in versions : x <= b
  BY <1>1, <1>2, <1>4 DEF Info
<1>6. PICK v \in versions : \A x \in versions : x <= v
  <2> HIDE DEF versions
  <2> QED BY <1>5, MaxIsGreatest
<1>7. PICK a \in M : a.mutation = v
  BY <1>6
<1>8. a \in DOMAIN disk /\ (a = p \/ Contains(a, p)) /\ a.level = l
  BY <1>7
<1>9. ASSUME NEW q \in DOMAIN disk \ {a}, Contains(q, a) PROVE FALSE
  <2>1. q \in Info /\ a \in Info /\ p \in Info
    BY <1>2, <1>8
  <2>2. q \in T
    BY <1>8, <1>9, <2>1, ContainsTransitive
  <2>3. q.level <= l
    BY <1>4, <2>2
  <2>4. q.level = l
    BY <1>8, <1>9, <2>1, <2>3 DEF Contains, Info
  <2>5. q.mutation <= a.mutation
    BY <1>6, <1>7, <2>2, <2>4
  <2>6. q = a
    BY <1>8, <1>9, <2>1, <2>4, <2>5 DEF Contains, Info
  <2>7. QED
    BY <2>6
<1>10. QED
  BY <1>8, <1>9 DEF TopLevel

\* The number a start continues from is at least any that it finds.
LEMMA LastNumberIs ==
  ASSUME TypeInv, BoundInv
  PROVE  /\ LastNumber \in Nat /\ \A v \in files : v <= LastNumber
         /\ \A p \in TopLevel : p.max <= LastNumber /\ p.mutation <= LastNumber
<1>1. PICK b \in Nat : /\ \A m \in files : m <= b
                       /\ \A q \in DOMAIN disk : q.max <= b /\ q.level <= b /\ q.mutation <= b
  BY DEF BoundInv
<1>2. TopLevel \subseteq DOMAIN disk /\ DOMAIN disk \subseteq Info
  BY DEF TopLevel, TypeInv
<1> DEFINE numbers ==
      {0} \cup files \cup {p.max : p \in TopLevel} \cup {p.mutation : p \in TopLevel}
<1>3. numbers \subseteq Nat /\ numbers # {} /\ \A x \in numbers : x <= b
  <2>1. ASSUME NEW x \in numbers PROVE x \in Nat /\ x <= b
    <3>1. CASE x = 0
      BY <3>1
    <3>2. CASE x \in files
      BY <1>1, <3>2 DEF TypeInv
    <3>3. CASE \E p \in TopLevel : x = p.max \/ x = p.mutation
      BY <1>1, <1>2, <3>3 DEF Info
    <3>4. QED
      BY <3>1, <3>2, <3>3
  <2>2. 0 \in numbers
    OBVIOUS
  <2>3. QED
    BY <2>1, <2>2
<1>4. /\ LastNumber = Max(numbers) /\ files \subseteq numbers
      /\ \A p \in TopLevel : p.max \in numbers /\ p.mutation \in numbers
  BY DEF LastNumber
<1> HIDE DEF numbers
<1>5. QED
  BY <1>1, <1>3, <1>4, MaxIsGreatest

LEMMA RestartStep == PartsInv /\ Restart => PartsInv'
<1> SUFFICES ASSUME PartsInv, Restart PROVE PartsInv'
  OBVIOUS
<1> USE DEF PartsInv
<1>1. /\ Clashes = {}
      /\ parts' = [p \in TopLevel |-> "Active"]
      /\ unloaded' = DOMAIN disk \ TopLevel
      /\ increment' = LastNumber
      /\ current_mutations' = files
      /\ inserting' = NoPart /\ starting' = 0 /\ reading' = {}
      /\ tasks' = [k \in Tasks |-> NoTask]
      /\ drop' = [phase |-> "idle", cover |-> {}]
      /\ cleaner' = NotCleaning
      /\ disk' = disk /\ files' = files
  BY DEF Restart
<1>2. TopLevel \subseteq DOMAIN disk /\ DOMAIN disk \subseteq Info
  BY DEF TopLevel, TypeInv
<1>3. DOMAIN parts' = TopLevel /\ Active' = TopLevel
  BY <1>1 DEF Active, InState
<1>4. Running' = {} /\ Pending' = {} /\ Tagged' = {} /\ LockFree'
  BY <1>1 DEF Running, Pending, Tagged, LockFree
<1>5. drop'.phase = "idle" /\ drop'.cover = {}
  BY <1>1
<1>6. /\ cleaner' \in [Cleaners -> [part : Info \cup {NoPart}, files : SUBSET Nat]]
      /\ \A c \in Cleaners : cleaner'[c].part = NoPart
  BY <1>1 DEF NotCleaning
<1>7. increment' \in Nat /\ \A p \in TopLevel : p.max <= increment'
  BY <1>1, LastNumberIs
<1>8. TypeInv' /\ BoundInv'
  BY <1>1, <1>2, <1>3, <1>4, <1>6, <1>7 DEF TypeInv, BoundInv
<1>9. AllDisjoint(TopLevel)
  <2>1. ASSUME NEW p \in TopLevel, NEW q \in TopLevel, p # q PROVE Disjoint(p, q)
    <3>1. <<p, q>> \notin Clashes /\ <<p, q>> \in (DOMAIN disk) \X (DOMAIN disk)
      BY <1>1, <1>2
    <3>2. Disjoint(p, q) \/ Contains(p, q) \/ Contains(q, p)
      BY <2>1, <3>1 DEF Clashes, Clash
    <3>3. QED
      BY <2>1, <3>2 DEF TopLevel
  <2>2. QED
    BY <2>1 DEF AllDisjoint
<1>10. TaskInv' /\ DropInv'
  BY <1>3, <1>4, <1>5, <1>9 DEF TaskInv, DropInv, AllDisjoint
<1>11. NumberInv' /\ PlaceInv' /\ CleanerInv'
  BY <1>3, <1>4, <1>5, <1>6, <1>7 DEF NumberInv, PlaceInv, CleanerInv
<1>12. UnloadedInv'
  <2>1. ASSUME NEW u \in DOMAIN disk \ TopLevel PROVE \E a \in TopLevel : Contains(a, u)
    BY TopDominates
  <2>2. QED
    BY <1>1, <1>3, <2>1 DEF UnloadedInv
<1>13. HeldPartsOnDisk'
  BY <1>1, <1>2, <1>3, <1>4 DEF HeldPartsOnDisk
<1>14. QED
  BY <1>8, <1>10, <1>11, <1>12, <1>13

-----------------------------------------------------------------------------
LEMMA PartsNext == PartsInv /\ Step => PartsInv'
<1> SUFFICES ASSUME PartsInv, Step PROVE PartsInv'
  OBVIOUS
<1>1. CASE Still
  <2>1. UNCHANGED <<parts, disk, inserting, increment, current_mutations, files, starting, tasks,
                    drop, cleaner, unloaded, reading>>
    BY <1>1 DEF Still
  <2>2. QED
    BY <2>1, QuietStep DEF PartsInv, TypeInv
<1>2. ASSUME NEW k \in Tasks,
             \/ Merging(k) \/ SelectMutate(k)
             \/ Renames(k) \/ CommitMerge(k) \/ CommitMutate(k) \/ FinishTask(k)
      PROVE  PartsInv'
  BY <1>2, SelectMergeStep, SelectMutateStep, RenameMergeStep, CommitMergeStep, CommitMutateStep,
     FinishTaskStep
<1>3. ASSUME NEW c \in Cleaners,
             \/ Grab(c) \/ RemovePart(c) \/ ClearEmpty(c)
             \/ ClearOldMutations(c) \/ RemoveFile(c)
      PROVE  PartsInv'
  BY <1>3, GrabStep, RemovePartStep, ClearEmptyStep, CleanMutationsStep
<1>4. ASSUME NEW p \in unloaded, LoadOutdated(p) PROVE PartsInv'
  BY <1>4, LoadOutdatedStep
<1>5. QED
  BY <1>1, <1>2, <1>3, <1>4, StartInsertStep, CommitInsertStep, StartMutationStep,
     RegisterMutationStep, StopMergesStep, MergesStoppedStep, PrepareDropStep, AddCoverStep,
     RenameCoverStep, CommitDropStep, ReaderStep, RestartStep
     DEF Step

LEMMA PartsAlways == Spec => [](~raced => PartsInv)
<1>1. Init => PartsInv
  BY PartsInit
<1>2. (~raced => PartsInv) /\ [Next]_vars => (~raced => PartsInv)'
  BY RacedStays, StepIs, PartsNext
<1>3. QED
  BY <1>1, <1>2, PTL DEF Spec

\* A merge or a mutation replaces the parts it was made from, and nothing else:
\* whatever is inserted, merged beside it, dropped, cleared or loaded before it
\* commits, renameMergedTemporaryPart finds its sources and only them, as long
\* as no OPTIMIZE FINAL has taken parts after a DROP's stopMergesAndWait.
THEOREM AlwaysReplacesItsSources == Spec => []ReplacesItsSources
<1>1. (~raced => PartsInv) => ReplacesItsSources
  <2>1. ASSUME PartsInv, NEW k \in Running, tasks[k].phase # "committed"
        PROVE  Covered(tasks[k].info, Active) = tasks[k].src
    <3>1. AllDisjoint(Active) /\ Fits(tasks[k].info, tasks[k].src, Active)
      BY <2>1 DEF PartsInv, TaskInv, Pending
    <3>2. QED
      BY <2>1, <3>1, ActiveInfos, FitsReached DEF PartsInv
  <2>2. QED
    BY <2>1 DEF ReplacesItsSources
<1>2. QED
  BY <1>1, PartsAlways, PTL

\* The directories of the parts that a SELECT, a merge or a mutation works on,
\* and those of the active parts, are there: no cleanup, of any number of
\* threads, removes them (grabOldParts).  Proved as long as no OPTIMIZE FINAL
\* has taken parts from under a DROP.
THEOREM HeldPartsAlwaysOnDisk == Spec => [](~raced => HeldPartsOnDisk)
<1>1. (~raced => PartsInv) => (~raced => HeldPartsOnDisk)
  BY DEF PartsInv
<1>2. QED
  BY <1>1, PartsAlways, PTL

-----------------------------------------------------------------------------
(* Rows: what the directories hold *)

\* The directories of parts that are renamed and not committed yet.
RenamedParts == {tasks[k].info : k \in {j \in Running : tasks[j].phase = "renamed"}}

UsedInv == used \in [rows : Nat, mutations : Nat, drops : Nat, reads : Nat, crashes : Nat]

KnownInv == DOMAIN disk \subseteq DOMAIN parts \cup unloaded

\* What a mutation deletes is no longer promised.
MutsInv ==
  /\ current_mutations \cup files \cup ({starting} \ {0}) \subseteq DOMAIN muts
  /\ \A v \in DOMAIN muts : DOMAIN muts[v] = {"del", "pre", "post"} /\ muts[v].del \subseteq limbo

\* A row has one place: directories that hold it overlap.
PlacesInv ==
  /\ \A p \in DOMAIN disk : DOMAIN disk[p] \subseteq 1..used.rows
  /\ \A p, q \in DOMAIN disk : Disjoint(p, q) => DOMAIN disk[p] \cap DOMAIN disk[q] = {}
  /\ ~LockFree => used.rows \in DOMAIN disk[inserting]

\* The block numbers on disk, too, are below that of a new part.
LastInv ==
  /\ \A p \in DOMAIN disk : p.max <= increment
  /\ ~LockFree => \A p \in DOMAIN disk \ {inserting} : p.max < inserting.min

\* What contains an active part is about to replace it.
AboveInv ==
  /\ \A d \in DOMAIN disk :
      /\ \A a \in Active : Contains(d, a) => d = a \/ d \in drop.cover \cup RenamedParts
      /\ \A c \in drop.cover : Contains(d, c) => d = c
  /\ drop.phase = "covering" => drop.cover \cap DOMAIN disk = {}

\* A task's part holds the rows of its sources but for the deleted ones.
TaskRowsInv ==
  \A k \in Pending :
    /\ \A r \in DOMAIN tasks[k].content : \E q \in tasks[k].src : r \in DOMAIN disk[q]
    /\ \A q \in tasks[k].src : DOMAIN disk[q] \subseteq DOMAIN tasks[k].content \cup limbo
    /\ tasks[k].phase = "renamed" => disk[tasks[k].info] = tasks[k].content

\* A DROP's empty parts cover what the statement was asked to remove.
DropRowsInv ==
  \A c \in drop.cover : \A q \in Active : Contains(c, q) => DOMAIN disk[q] \subseteq limbo

AckInv == \A r \in acked \ limbo : \E p \in Active : r \in DOMAIN disk[p]

RowsInv ==
  /\ UsedInv /\ KnownInv /\ MutsInv /\ PlacesInv /\ LastInv
  /\ AboveInv /\ TaskRowsInv /\ DropRowsInv /\ AckInv

GoesOn(k, phase) == tasks' = [tasks EXCEPT ![k].phase = phase]

\* A task goes on, and is still running.
LEMMA PhaseFields ==
  ASSUME TypeInv, NEW k \in Running, NEW phase, phase \in {"renamed", "committed"},
         GoesOn(k, phase)
  PROVE  /\ Running' = Running
         /\ \A j \in Running :
              /\ tasks'[j].src = tasks[j].src /\ tasks'[j].info = tasks[j].info
              /\ tasks'[j].content = tasks[j].content /\ tasks'[j].kind = tasks[j].kind
              /\ tasks'[j].phase = IF j = k THEN phase ELSE tasks[j].phase
<1>1. k \in Tasks /\ DOMAIN tasks = Tasks /\ DOMAIN tasks[k] = TaskFields
  BY DEF TypeInv, Running
<1> DEFINE t == [tasks[k] EXCEPT !.phase = phase]
<1>2. tasks' = [tasks EXCEPT ![k] = t]
  BY DEF GoesOn
<1>3. /\ t.phase = phase /\ t.content = tasks[k].content /\ t.kind = tasks[k].kind
      /\ t.src = tasks[k].src /\ t.info = tasks[k].info
  BY <1>1 DEF TaskFields
<1>4. t # NoTask
  <2>1. NoTask.phase = "none"
    BY DEF NoTask
  <2> HIDE DEF t
  <2>2. QED
    BY <1>3, <2>1
<1> HIDE DEF t
<1>5. DOMAIN tasks' = Tasks /\ tasks'[k] = t /\ \A j \in Tasks \ {k} : tasks'[j] = tasks[j]
  BY <1>1, <1>2
<1>6. Running' = Running
  BY <1>4, <1>5 DEF Running
<1>7. QED
  BY <1>3, <1>5, <1>6 DEF Running

LEMMA RowsInit == Init => RowsInv
<1> SUFFICES ASSUME Init PROVE RowsInv
  OBVIOUS
<1>1. DOMAIN parts = {} /\ DOMAIN disk = {} /\ DOMAIN muts = {}
  BY DEF Init
<1>2. Running = {} /\ Pending = {} /\ LockFree
  BY DEF Init, Running, Pending, LockFree
<1>3. UsedInv /\ KnownInv /\ MutsInv /\ PlacesInv /\ LastInv
  BY <1>1, <1>2 DEF Init, UsedInv, KnownInv, MutsInv, PlacesInv, LastInv
<1>4. AboveInv /\ TaskRowsInv /\ DropRowsInv /\ AckInv
  BY <1>1, <1>2 DEF Init, AboveInv, TaskRowsInv, DropRowsInv, AckInv
<1>5. QED
  BY <1>3, <1>4 DEF RowsInv

\* The steps that leave disk, active parts and unfinished work as they are.
LEMMA RowsQuiet ==
  ASSUME PartsInv, RowsInv, UNCHANGED <<disk, inserting, acked>>, Active' = Active,
         \A j \in Pending' : j \in Pending /\ tasks'[j] = tasks[j],
         RenamedParts \subseteq RenamedParts',
         drop'.cover = drop.cover, drop'.phase = "covering" => drop.phase = "covering",
         increment' \in Nat, increment <= increment', UsedInv', used'.rows = used.rows, limbo \subseteq limbo',
         DOMAIN parts \cup unloaded \subseteq DOMAIN parts' \cup unloaded', MutsInv'
  PROVE  RowsInv'
<1> USE DEF RowsInv
<1>1. KnownInv'
  BY DEF KnownInv
<1>2. PlacesInv'
  BY DEF PlacesInv, LockFree
<1>3. LastInv'
  <2>1. DOMAIN disk \subseteq Info /\ increment \in Nat
    BY DEF PartsInv, TypeInv
  <2>2. \A p \in DOMAIN disk : p.max <= increment'
    BY <2>1 DEF LastInv, Info
  <2>3. QED
    BY <2>2 DEF LastInv, LockFree
<1>4. AboveInv'
  BY DEF AboveInv
<1>5. TaskRowsInv'
  BY DEF TaskRowsInv
<1>6. DropRowsInv' /\ AckInv'
  BY DEF DropRowsInv, AckInv
<1>7. QED
  BY <1>1, <1>2, <1>3, <1>4, <1>5, <1>6

LEMMA RenamedSame ==
  ASSUME tasks' = tasks
  PROVE  RenamedParts' = RenamedParts
BY TasksSame DEF RenamedParts

LEMMA StartMutationRows == PartsInv /\ RowsInv /\ StartMutation => RowsInv'
<1> SUFFICES ASSUME PartsInv, RowsInv, StartMutation PROVE RowsInv'
  OBVIOUS
<1> DEFINE n == increment + 1
<1>1. PICK del : /\ muts' = With(muts, {n}, [del |-> del, pre |-> acked, post |-> {}])
                 /\ limbo' = limbo \cup del
  BY DEF StartMutation
<1>2. /\ starting' = n /\ increment' = n /\ files' = files \cup {n}
      /\ used' = [used EXCEPT !["mutations"] = @ + 1]
      /\ UNCHANGED <<parts, disk, inserting, current_mutations, tasks, drop, unloaded, acked>>
  BY DEF StartMutation, Use
<1>3. increment \in Nat /\ n \in Nat
  BY DEF PartsInv, TypeInv
<1>4. UsedInv' /\ used'.rows = used.rows
  BY <1>2 DEF RowsInv, UsedInv
<1>5. MutsInv'
  <2>1. /\ DOMAIN muts' = DOMAIN muts \cup {n}
        /\ muts'[n] = [del |-> del, pre |-> acked, post |-> {}]
        /\ \A v \in DOMAIN muts \ {n} : muts'[v] = muts[v]
    BY <1>1 DEF With
  <2>2. DOMAIN muts'[n] = {"del", "pre", "post"} /\ muts'[n].del = del
    BY <2>1
  <2>3. current_mutations' \cup files' \cup ({starting'} \ {0}) \subseteq DOMAIN muts'
    BY <1>2, <2>1 DEF RowsInv, MutsInv
  <2>4. ASSUME NEW v \in DOMAIN muts'
        PROVE  DOMAIN muts'[v] = {"del", "pre", "post"} /\ muts'[v].del \subseteq limbo'
    <3>1. CASE v = n
      BY <1>1, <2>2, <3>1
    <3>2. CASE v # n
      BY <1>1, <2>1, <2>4, <3>2 DEF RowsInv, MutsInv
    <3>3. QED
      BY <3>1, <3>2
  <2>5. QED
    BY <2>3, <2>4 DEF MutsInv
<1>6. Active' = Active /\ Pending' = Pending /\ RenamedParts' = RenamedParts
  BY <1>2, ActiveSame, TasksSame, RenamedSame
<1>7. QED
  BY <1>1, <1>2, <1>3, <1>4, <1>5, <1>6, RowsQuiet

LEMMA RegisterMutationRows == PartsInv /\ RowsInv /\ RegisterMutation => RowsInv'
<1> SUFFICES ASSUME PartsInv, RowsInv, RegisterMutation PROVE RowsInv'
  OBVIOUS
<1>1. /\ starting # 0 /\ current_mutations' = current_mutations \cup {starting}
      /\ starting' = 0 /\ muts' = [muts EXCEPT ![starting].post = RowsOnDisk]
      /\ UNCHANGED <<parts, disk, inserting, increment, files, tasks, drop, unloaded, used, table>>
  BY DEF RegisterMutation
<1>2. starting \in DOMAIN muts /\ DOMAIN muts[starting] = {"del", "pre", "post"}
  BY <1>1 DEF RowsInv, MutsInv
<1> DEFINE new == [muts[starting] EXCEPT !.post = RowsOnDisk]
<1>3. DOMAIN new = {"del", "pre", "post"} /\ new.del = muts[starting].del
  BY <1>2
<1>4. muts' = [muts EXCEPT ![starting] = new]
  BY <1>1
<1> HIDE DEF new
<1>5. MutsInv'
  <2>1. /\ DOMAIN muts' = DOMAIN muts /\ muts'[starting] = new
        /\ \A v \in DOMAIN muts \ {starting} : muts'[v] = muts[v]
    BY <1>2, <1>4
  <2>2. limbo' = limbo
    BY <1>1 DEF table
  <2>3. QED
    BY <1>1, <1>2, <1>3, <2>1, <2>2 DEF RowsInv, MutsInv
<1>6. Active' = Active /\ Pending' = Pending /\ RenamedParts' = RenamedParts
  BY <1>1, ActiveSame, TasksSame, RenamedSame
<1>7. increment \in Nat /\ acked' = acked /\ limbo' = limbo
  BY <1>1 DEF PartsInv, TypeInv, table
<1>8. UsedInv' /\ used'.rows = used.rows
  BY <1>1 DEF RowsInv, UsedInv
<1>9. QED
  BY <1>1, <1>5, <1>6, <1>7, <1>8, RowsQuiet

\* The same, for steps that make no mutation and no row.
LEMMA RowsSilent ==
  ASSUME PartsInv, RowsInv, UNCHANGED <<disk, inserting, increment, table, muts, starting>>,
         Active' = Active, drop'.cover = drop.cover,
         drop'.phase = "covering" => drop.phase = "covering",
         \A j \in Pending' : j \in Pending /\ tasks'[j] = tasks[j],
         RenamedParts \subseteq RenamedParts',
         UsedInv', used'.rows = used.rows,
         current_mutations' \subseteq current_mutations, files' \subseteq files,
         DOMAIN parts \cup unloaded \subseteq DOMAIN parts' \cup unloaded'
  PROVE  RowsInv'
<1>1. acked' = acked /\ limbo' = limbo /\ increment' \in Nat /\ increment <= increment'
  BY DEF table, PartsInv, TypeInv
<1>2. MutsInv'
  BY <1>1 DEF RowsInv, MutsInv
<1>3. QED
  BY <1>1, <1>2, RowsQuiet

LEMMA UsedStep ==
  ASSUME UsedInv, NEW what \in {"mutations", "drops", "reads", "crashes"},
         used' = used \/ used' = [used EXCEPT ![what] = @ + 1]
  PROVE  UsedInv' /\ used'.rows = used.rows
BY DEF UsedInv

LEMMA StutterRows == PartsInv /\ RowsInv /\ Still => RowsInv'
<1> SUFFICES ASSUME PartsInv, RowsInv, Still PROVE RowsInv'
  OBVIOUS
<1>1. Active' = Active /\ Pending' = Pending /\ RenamedParts' = RenamedParts
  BY ActiveSame, TasksSame, RenamedSame DEF Still
<1>2. UsedInv' /\ used'.rows = used.rows
  BY DEF Still, RowsInv, UsedInv
<1>3. QED
  BY <1>1, <1>2, RowsSilent DEF Still

LEMMA ReaderRows == PartsInv /\ RowsInv /\ (Read \/ EndRead) => RowsInv'
<1> SUFFICES ASSUME PartsInv, RowsInv, Read \/ EndRead PROVE RowsInv'
  OBVIOUS
<1>1. /\ used' = used \/ used' = [used EXCEPT !["reads"] = @ + 1]
      /\ UNCHANGED <<parts, disk, inserting, increment, current_mutations, files, starting, tasks,
                     drop, unloaded, table, muts>>
  BY DEF Read, EndRead, Use
<1>2. Active' = Active /\ Pending' = Pending /\ RenamedParts' = RenamedParts
  BY <1>1, ActiveSame, TasksSame, RenamedSame
<1>3. UsedInv' /\ used'.rows = used.rows
  BY <1>1, UsedStep DEF RowsInv
<1>4. QED
  BY <1>1, <1>2, <1>3, RowsSilent

LEMMA StopMergesRows == PartsInv /\ RowsInv /\ StopMerges => RowsInv'
<1> SUFFICES ASSUME PartsInv, RowsInv, StopMerges PROVE RowsInv'
  OBVIOUS
<1>1. /\ used' = [used EXCEPT !["drops"] = @ + 1]
      /\ drop' = [phase |-> "stopping", cover |-> {}] /\ drop.phase = "idle"
      /\ UNCHANGED <<parts, disk, inserting, increment, current_mutations, files, starting, tasks,
                     unloaded, table, muts>>
  BY DEF StopMerges, Use
<1>2. Active' = Active /\ Pending' = Pending /\ RenamedParts' = RenamedParts
  BY <1>1, ActiveSame, TasksSame, RenamedSame
<1>3. UsedInv' /\ used'.rows = used.rows
  BY <1>1, UsedStep DEF RowsInv
<1>4. drop'.cover = drop.cover /\ drop'.phase = "stopping"
  BY <1>1 DEF PartsInv, DropInv
<1>5. QED
  BY <1>1, <1>2, <1>3, <1>4, RowsSilent

\* A DROP whose merges have ended, one that has added its empty parts, and one
\* that gives up before.
LEMMA DropGoesOnRows ==
  PartsInv /\ RowsInv /\ (MergesStopped \/ AddCover \/ DropFails) => RowsInv'
<1> SUFFICES ASSUME PartsInv, RowsInv, MergesStopped \/ AddCover \/ DropFails PROVE RowsInv'
  OBVIOUS
<1>1. /\ drop'.cover \subseteq drop.cover /\ drop'.phase # "covering"
      /\ drop'.cover = drop.cover \/ drop.cover \cap DOMAIN disk = {}
  <2>1. CASE MergesStopped
    BY <2>1 DEF MergesStopped, PartsInv, TypeInv
  <2>2. CASE AddCover
    BY <2>2 DEF AddCover, PartsInv, TypeInv
  <2>3. CASE DropFails
    BY <2>3 DEF DropFails, RowsInv, AboveInv, PartsInv, DropInv
  <2>4. QED
    BY <2>1, <2>2, <2>3
<1>2. Active' = Active /\ DOMAIN parts \subseteq DOMAIN parts'
  <2>1. CASE parts' = parts
    BY <2>1, ActiveSame
  <2>2. CASE AddCover
    <3>1. drop.cover \cap DOMAIN parts = {} /\ parts' = With(parts, drop.cover, "PreActive")
      BY <2>2 DEF AddCover, MayAdd
    <3>2. QED
      BY <3>1, AddPreActive
  <2>3. QED
    BY <2>1, <2>2 DEF MergesStopped, DropFails
<1>3. UNCHANGED <<disk, inserting, increment, current_mutations, files, starting, tasks, unloaded,
                  used, table, muts>>
  BY DEF MergesStopped, AddCover, DropFails
<1>4. Pending' = Pending /\ RenamedParts' = RenamedParts
  BY <1>3, TasksSame, RenamedSame
<1> USE DEF RowsInv
<1>5. UsedInv' /\ KnownInv' /\ MutsInv' /\ PlacesInv' /\ LastInv'
  BY <1>2, <1>3 DEF UsedInv, KnownInv, MutsInv, PlacesInv, LastInv, LockFree, table
<1>6. AboveInv'
  BY <1>1, <1>2, <1>3, <1>4 DEF AboveInv
<1>7. TaskRowsInv' /\ DropRowsInv' /\ AckInv'
  BY <1>1, <1>2, <1>3, <1>4 DEF TaskRowsInv, DropRowsInv, AckInv, table
<1>8. QED
  BY <1>5, <1>6, <1>7

LEMMA CleanMutationsRows ==
  ASSUME PartsInv, RowsInv, NEW c \in Cleaners, ClearOldMutations(c) \/ RemoveFile(c)
  PROVE  RowsInv'
<1>1. /\ current_mutations' \subseteq current_mutations /\ files' \subseteq files
      /\ UNCHANGED <<parts, disk, inserting, increment, starting, tasks, drop, unloaded, used,
                     table, muts>>
  BY DEF ClearOldMutations, RemoveFile
<1>2. Active' = Active /\ Pending' = Pending /\ RenamedParts' = RenamedParts
  BY <1>1, ActiveSame, TasksSame, RenamedSame
<1>3. UsedInv' /\ used'.rows = used.rows
  BY <1>1 DEF RowsInv, UsedInv
<1>4. QED
  BY <1>1, <1>2, <1>3, RowsSilent

LEMMA FinishTaskRows ==
  ASSUME PartsInv, RowsInv, NEW k \in Tasks, FinishTask(k)
  PROVE  RowsInv'
<1>1. /\ k \in Running /\ tasks' = [tasks EXCEPT ![k] = NoTask] /\ tasks[k].phase # "renamed"
      /\ UNCHANGED <<parts, disk, inserting, increment, current_mutations, files, starting, drop,
                     unloaded, used, table, muts>>
  BY DEF FinishTask
<1>2. /\ Running' = Running \ {k} /\ \A j \in Running' : tasks'[j] = tasks[j]
  BY <1>1 DEF PartsInv, TypeInv, Running
<1>3. \A j \in Pending' : j \in Pending /\ tasks'[j] = tasks[j]
  BY <1>2 DEF Pending
<1>4. RenamedParts \subseteq RenamedParts'
  BY <1>1, <1>2 DEF RenamedParts
<1>5. Active' = Active
  BY <1>1, ActiveSame
<1>6. UsedInv' /\ used'.rows = used.rows
  BY <1>1 DEF RowsInv, UsedInv
<1>7. QED
  BY <1>1, <1>3, <1>4, <1>5, <1>6, RowsSilent

LEMMA GrabRows ==
  ASSUME PartsInv, RowsInv, NEW c \in Cleaners, Grab(c)
  PROVE  RowsInv'
<1>1. PICK p \in InState("Outdated") : parts' = [parts EXCEPT ![p] = "Deleting"]
  BY DEF Grab
<1>2. UNCHANGED <<disk, inserting, increment, current_mutations, files, starting, tasks, drop,
                  unloaded, used, table, muts>>
  BY DEF Grab
<1>3. Active' = Active /\ DOMAIN parts' = DOMAIN parts
  BY <1>1 DEF Active, InState
<1>4. Pending' = Pending /\ RenamedParts' = RenamedParts
  BY <1>2, TasksSame, RenamedSame
<1>5. UsedInv' /\ used'.rows = used.rows
  BY <1>2 DEF RowsInv, UsedInv
<1>6. QED
  BY <1>2, <1>3, <1>4, <1>5, RowsSilent

LEMMA LoadOutdatedRows ==
  ASSUME PartsInv, RowsInv, NEW p \in unloaded, LoadOutdated(p)
  PROVE  RowsInv'
<1>1. /\ parts' = With(parts, {p}, "Outdated") /\ unloaded' = unloaded \ {p}
      /\ UNCHANGED <<disk, inserting, increment, current_mutations, files, starting, tasks, drop,
                     used, table, muts>>
  BY DEF LoadOutdated
<1>2. p \notin DOMAIN parts
  BY DEF PartsInv, UnloadedInv
<1>3. /\ DOMAIN parts' = DOMAIN parts \cup {p} /\ parts'[p] = "Outdated"
      /\ \A q \in DOMAIN parts : parts'[q] = parts[q]
  BY <1>1, <1>2 DEF With
<1>4. Active' = Active
  BY <1>2, <1>3 DEF Active, InState
<1>5. Pending' = Pending /\ RenamedParts' = RenamedParts
  BY <1>1, TasksSame, RenamedSame
<1>6. UsedInv' /\ used'.rows = used.rows
  BY <1>1 DEF RowsInv, UsedInv
<1>7. QED
  BY <1>1, <1>3, <1>4, <1>5, <1>6, RowsSilent

-----------------------------------------------------------------------------
(* What the steps do *)

\* A directory that was not there before.
NewDirectory(m, content) ==
  /\ m \notin DOMAIN disk /\ DOMAIN disk' = DOMAIN disk \cup {m}
  /\ disk'[m] = content
  /\ \A q \in DOMAIN disk : disk'[q] = disk[q]

LEMMA AddsDirectory ==
  ASSUME NEW m, m \notin DOMAIN disk, NEW content, AddDirectory(m, content)
  PROVE  NewDirectory(m, content)
BY DEF AddDirectory, With, NewDirectory

LEMMA FitsIsNew ==
  ASSUME PartsInv, KnownInv, NEW m, m \notin DOMAIN parts, FitsSome(m, Active)
  PROVE  m \notin DOMAIN disk
BY FitsNotUnloaded DEF PartsInv, KnownInv

LEMMA StartInsertEffect ==
  ASSUME PartsInv, RowsInv, StartInsert
  PROVE  /\ LockFree
         /\ inserting' \in Info /\ inserting' \notin DOMAIN parts
         /\ inserting'.min = increment + 1 /\ inserting'.max = increment + 1
         /\ inserting'.level = 0 /\ inserting'.mutation = 0
         /\ increment \in Nat /\ increment' = increment + 1
         /\ Active' = Active /\ DOMAIN parts' = DOMAIN parts \cup {inserting'}
         /\ \A q \in DOMAIN parts : parts'[q] = parts[q]
         /\ parts'[inserting'] = "PreActive"
         /\ NewDirectory(inserting', [r \in {used.rows + 1} |-> <<>>])
         /\ UsedInv' /\ used.rows \in Nat /\ used'.rows = used.rows + 1
         /\ UNCHANGED <<current_mutations, files, starting, tasks, drop, cleaner, unloaded,
                        reading, table, muts>>
<1> DEFINE n == increment + 1
           p == [min |-> n, max |-> n, level |-> 0, mutation |-> 0]
           content == [r \in {used.rows + 1} |-> <<>>]
<1>1. increment \in Nat /\ p \in Info /\ p.min = n /\ p.max = n /\ p.level = 0 /\ p.mutation = 0
  BY DEF PartsInv, TypeInv, Info
<1>2. /\ LockFree /\ p \notin DOMAIN parts
      /\ increment' = n /\ inserting' = p
      /\ parts' = With(parts, {p}, "PreActive")
      /\ AddDirectory(p, content)
      /\ used' = [used EXCEPT !["rows"] = @ + 1]
      /\ UNCHANGED <<current_mutations, files, starting, tasks, drop, cleaner, unloaded,
                     reading, table, muts>>
  BY DEF StartInsert, MayAdd, Use
<1>3. p \notin DOMAIN disk
  <2>1. SUFFICES ASSUME p \in DOMAIN disk PROVE FALSE
    OBVIOUS
  <2>2. p.max <= increment
    BY <2>1 DEF RowsInv, LastInv
  <2>3. QED
    BY <1>1, <2>2
<1> HIDE DEF p, n, content
<1>4. NewDirectory(p, content)
  BY <1>2, <1>3, AddsDirectory
<1>5. UsedInv' /\ used.rows \in Nat /\ used'.rows = used.rows + 1
  BY <1>2 DEF RowsInv, UsedInv
<1>6. /\ Active' = Active /\ DOMAIN parts' = DOMAIN parts \cup {p}
      /\ \A q \in DOMAIN parts : parts'[q] = parts[q]
      /\ parts'[p] = "PreActive"
  BY <1>2, AddOnePreActive
<1>7. QED
  BY <1>1, <1>2, <1>4, <1>5, <1>6 DEF n, content

LEMMA StartInsertRows == PartsInv /\ RowsInv /\ StartInsert => RowsInv'
<1> SUFFICES ASSUME PartsInv, RowsInv, StartInsert PROVE RowsInv'
  OBVIOUS
<1> USE DEF RowsInv
<1>0. PICK p : p = inserting'
  OBVIOUS
<1>1. /\ p \in Info /\ p.min = increment + 1 /\ p.max = increment + 1
      /\ increment \in Nat /\ increment' = increment + 1
      /\ Active' = Active /\ DOMAIN parts' = DOMAIN parts \cup {p}
      /\ UsedInv' /\ used.rows \in Nat /\ used'.rows = used.rows + 1
      /\ UNCHANGED <<current_mutations, files, starting, tasks, drop, unloaded, table, muts>>
  BY <1>0, StartInsertEffect
<1>2. /\ p \notin DOMAIN disk /\ DOMAIN disk' = DOMAIN disk \cup {p}
      /\ \A q \in DOMAIN disk : disk'[q] = disk[q]
      /\ DOMAIN disk'[p] = {used.rows + 1}
  BY <1>0, StartInsertEffect DEF NewDirectory
<1>3. Running' = Running /\ Pending' = Pending /\ Tagged' = Tagged /\ RenamedParts' = RenamedParts
  BY <1>1, TasksSame, RenamedSame
<1>4. DOMAIN disk \subseteq Info /\ Active \subseteq Info /\ drop.cover \subseteq Info
      /\ \A q \in DOMAIN disk \cup Active \cup drop.cover : q.max <= increment
  BY ActiveInfos DEF PartsInv, TypeInv, LastInv, NumberInv
<1>5. KnownInv' /\ MutsInv'
  BY <1>1, <1>2 DEF KnownInv, MutsInv, table
<1>6. PlacesInv'
  <2>1. \A q \in DOMAIN disk : DOMAIN disk'[q] \subseteq 1..used.rows
    BY <1>2 DEF PlacesInv
  <2>2. \A q \in DOMAIN disk' : DOMAIN disk'[q] \subseteq 1..used'.rows
    BY <1>1, <1>2, <2>1
  <2>3. \A q \in DOMAIN disk : DOMAIN disk'[p] \cap DOMAIN disk'[q] = {}
    BY <1>1, <1>2, <2>1
  <2>4. \A q, x \in DOMAIN disk : Disjoint(q, x) => DOMAIN disk'[q] \cap DOMAIN disk'[x] = {}
    BY <1>2 DEF PlacesInv
  <2>5. ~Disjoint(p, p)
    BY <1>1 DEF Disjoint
  <2>6. \A q, x \in DOMAIN disk' : Disjoint(q, x) => DOMAIN disk'[q] \cap DOMAIN disk'[x] = {}
    BY <1>2, <2>3, <2>4, <2>5
  <2>7. QED
    BY <1>0, <1>1, <1>2, <2>2, <2>6 DEF PlacesInv
<1>7. LastInv'
  BY <1>0, <1>1, <1>2, <1>4 DEF LastInv, Info
<1>8. AboveInv'
  <2>1. \A a \in Active \cup drop.cover : ~Contains(p, a) /\ p # a
    BY <1>1, <1>4 DEF Contains, Info
  <2>2. QED
    BY <1>1, <1>2, <1>3, <2>1 DEF AboveInv
<1>9. TaskRowsInv'
  <2>1. \A k \in Pending : tasks[k].src \subseteq DOMAIN disk
    BY DEF PartsInv, HeldPartsOnDisk, Tagged, Pending
  <2>2. \A k \in Pending : tasks[k].phase = "renamed" => tasks[k].info \in DOMAIN disk
    BY DEF PartsInv, PlaceInv, Pending
  <2>3. limbo' = limbo
    BY <1>1 DEF table
  <2>4. QED
    BY <1>1, <1>2, <1>3, <2>1, <2>2, <2>3 DEF TaskRowsInv
<1>10. DropRowsInv' /\ AckInv'
  <2>1. Active \subseteq DOMAIN disk /\ acked' = acked /\ limbo' = limbo
    BY <1>1 DEF PartsInv, HeldPartsOnDisk, table
  <2>2. QED
    BY <1>1, <1>2, <2>1 DEF DropRowsInv, AckInv
<1>11. QED
  BY <1>1, <1>5, <1>6, <1>7, <1>8, <1>9, <1>10

LEMMA CommitInsertEffect ==
  ASSUME PartsInv, CommitInsert
  PROVE  /\ inserting \in Info /\ inserting \in DOMAIN disk /\ inserting \notin Active
         /\ \A q \in Active \cup drop.cover : q.max < inserting.min
         /\ Active' = Active \cup {inserting}
         /\ DOMAIN parts' = DOMAIN parts
         /\ \A q \in DOMAIN parts \ {inserting} : parts'[q] = parts[q]
         /\ ~LockFree /\ LockFree' /\ acked' = acked \cup {used.rows}
         /\ UNCHANGED <<disk, increment, current_mutations, files, starting, tasks, drop, cleaner,
                        unloaded, reading, used, dropped, limbo, muts, crossed>>
<1> USE DEF PartsInv
<1> DEFINE p == inserting
<1>1. /\ ~LockFree /\ parts' = Committed({p}) /\ LockFree' /\ acked' = acked \cup {used.rows}
      /\ UNCHANGED <<disk, increment, current_mutations, files, starting, tasks, drop, cleaner,
                     unloaded, reading, used, dropped, limbo, muts, crossed>>
  BY DEF CommitInsert, LockFree, Row
<1>2. /\ p \in Info /\ p \in DOMAIN disk /\ p \in DOMAIN parts
      /\ parts[p] = "PreActive"
      /\ \A q \in Active \cup drop.cover : q.max < p.min
  BY <1>1 DEF NumberInv, PlaceInv
<1> HIDE DEF p
<1>3. Active \subseteq Info /\ p \notin Active
  BY <1>2, ActiveInfos DEF Active, InState
<1>4. \A q \in Active : Disjoint(p, q) /\ ~Contains(p, q)
  BY <1>2, <1>3 DEF Disjoint, Contains, Info
<1>5. Fits(p, {}, Active)
  BY <1>2, <1>3, <1>4 DEF Fits
<1>6. Covered(p, Active) = {} /\ Covering(p, Active) = {}
  BY <1>3, <1>5, FitsReached DEF TaskInv
<1>7. parts' = [q \in DOMAIN parts |-> IF q = p THEN "Active" ELSE parts[q]]
  BY <1>1, <1>6 DEF Committed
<1>8. Active' = Active \cup {p}
  BY <1>2, <1>7 DEF Active, InState
<1>9. QED
  BY <1>1, <1>2, <1>3, <1>7, <1>8 DEF p

LEMMA CommitInsertRows == PartsInv /\ RowsInv /\ CommitInsert => RowsInv'
<1> SUFFICES ASSUME PartsInv, RowsInv, CommitInsert PROVE RowsInv'
  OBVIOUS
<1> USE DEF RowsInv
<1>0. PICK p : p = inserting
  OBVIOUS
<1>1. /\ p \in Info /\ p \in DOMAIN disk /\ ~LockFree /\ LockFree'
      /\ \A q \in Active \cup drop.cover : q.max < p.min
      /\ Active' = Active \cup {p} /\ DOMAIN parts' = DOMAIN parts
      /\ acked' = acked \cup {used.rows}
      /\ UNCHANGED <<disk, increment, current_mutations, files, starting, tasks, drop, unloaded,
                     used, limbo, muts>>
  BY <1>0, CommitInsertEffect
<1>2. Running' = Running /\ Pending' = Pending /\ Tagged' = Tagged /\ RenamedParts' = RenamedParts
  BY <1>1, TasksSame, RenamedSame
<1>3. UsedInv' /\ KnownInv' /\ MutsInv'
  BY <1>1 DEF UsedInv, KnownInv, MutsInv
<1>4. PlacesInv' /\ LastInv'
  BY <1>1 DEF PlacesInv, LastInv
<1>5. AboveInv'
  <2>1. ASSUME NEW d \in DOMAIN disk, Contains(d, p) PROVE d = p
    <3>1. d = p \/ d.max < p.min
      BY <1>0, <1>1 DEF LastInv
    <3>2. QED
      BY <1>1, <2>1, <3>1 DEF Contains, Info, PartsInv, TypeInv
  <2>2. QED
    BY <1>1, <1>2, <2>1 DEF AboveInv
<1>6. TaskRowsInv'
  BY <1>1, <1>2 DEF TaskRowsInv
<1>7. DropRowsInv'
  <2>1. \A c \in drop.cover : ~Contains(c, p)
    BY <1>1 DEF Contains, Info, PartsInv, TypeInv
  <2>2. QED
    BY <1>1, <2>1 DEF DropRowsInv
<1>8. AckInv'
  <2>1. used.rows \in DOMAIN disk[p]
    BY <1>0, <1>1 DEF PlacesInv
  <2>2. QED
    BY <1>1, <2>1 DEF AckInv
<1>9. QED
  BY <1>3, <1>4, <1>5, <1>6, <1>7, <1>8

LEMMA StartRows ==
  ASSUME PartsInv, RowsInv, NEW k \in Tasks, tasks[k] = NoTask, NEW S, S \subseteq Active,
         NEW kind, NEW m, NEW content, Start(k, kind, S, m, content),
         \A r \in DOMAIN content : \E q \in S : r \in DOMAIN disk[q],
         \A q \in S : DOMAIN disk[q] \subseteq DOMAIN content \cup limbo
  PROVE  RowsInv'
<1> USE DEF RowsInv
<1> DEFINE new == [kind |-> kind, src |-> S, info |-> m, content |-> content,
                   phase |-> "running"]
<1>1. /\ tasks' = [tasks EXCEPT ![k] = new]
      /\ UNCHANGED <<parts, disk, inserting, increment, current_mutations, files, starting, drop,
                     unloaded, used, table, muts>>
  BY DEF Start
<1>2. new.src = S /\ new.info = m /\ new.phase = "running" /\ new.content = content
  OBVIOUS
<1> HIDE DEF new
<1>3. tasks'[k] = new /\ \A j \in Tasks \ {k} : tasks'[j] = tasks[j]
  BY <1>1 DEF PartsInv, TypeInv
<1>4. Pending' \subseteq Pending \cup {k} /\ k \notin Running /\ Pending \subseteq Tasks
  BY <1>3 DEF Pending, Running
<1>5. RenamedParts \subseteq RenamedParts'
  BY <1>3, <1>4 DEF RenamedParts, Running
<1>6. Active' = Active /\ limbo' = limbo /\ acked' = acked
  BY <1>1, ActiveSame DEF table
<1>7. UsedInv' /\ KnownInv' /\ MutsInv' /\ PlacesInv' /\ LastInv'
  BY <1>1, <1>6 DEF UsedInv, KnownInv, MutsInv, PlacesInv, LastInv, LockFree
<1>8. AboveInv' /\ DropRowsInv' /\ AckInv'
  BY <1>1, <1>5, <1>6 DEF AboveInv, DropRowsInv, AckInv
<1>9. TaskRowsInv'
  <2>1. ASSUME NEW j \in Pending'
        PROVE  /\ \A r \in DOMAIN tasks'[j].content : \E q \in tasks'[j].src : r \in DOMAIN disk[q]
               /\ \A q \in tasks'[j].src : DOMAIN disk[q] \subseteq DOMAIN tasks'[j].content \cup limbo
               /\ tasks'[j].phase = "renamed" => disk[tasks'[j].info] = tasks'[j].content
    <3>1. CASE j = k
      BY <1>2, <1>3, <3>1
    <3>2. CASE j # k
      BY <1>3, <1>4, <3>2 DEF TaskRowsInv
    <3>3. QED
      BY <3>1, <3>2
  <2>2. QED
    BY <1>1, <1>6, <2>1 DEF TaskRowsInv
<1>10. QED
  BY <1>7, <1>8, <1>9

LEMMA SelectMergeRows ==
  ASSUME PartsInv, RowsInv, NEW k \in Tasks, Merging(k)
  PROVE  RowsInv'
<1>1. PICK S \in SUBSET (Active \ Tagged) :
        Start(k, "merge", S, MergedInfo(S), MergedContent(S))
  BY DEF Merging
<1>2. DOMAIN MergedContent(S) = UNION {DOMAIN disk[p] : p \in S}
  BY DEF MergedContent
<1>3. tasks[k] = NoTask
  BY DEF Merging
<1> DEFINE m == MergedInfo(S)
           content == MergedContent(S)
<1>4. Start(k, "merge", S, m, content) /\ DOMAIN content = UNION {DOMAIN disk[p] : p \in S}
  BY <1>1, <1>2
<1> HIDE DEF m, content
<1>5. QED
  BY <1>3, <1>4, StartRows

LEMMA SelectMutateRows ==
  ASSUME PartsInv, RowsInv, NEW k \in Tasks, SelectMutate(k)
  PROVE  RowsInv'
<1>1. PICK p \in Active \ Tagged, last \in current_mutations :
        LET todo == {v \in current_mutations : v > DataVersion(p) /\ v <= last}
            new == Sorted(todo)
        IN Start(k, "mutate", {p}, [p EXCEPT !.mutation = last],
                 [r \in DOMAIN disk[p] \ UNION {muts[v].del : v \in todo} |-> disk[p][r] \o new])
  BY DEF SelectMutate
<1>2. tasks[k] = NoTask
  BY DEF SelectMutate
<1> DEFINE todo == {v \in current_mutations : v > DataVersion(p) /\ v <= last}
           new == Sorted(todo)
           gone == UNION {muts[v].del : v \in todo}
           m == [p EXCEPT !.mutation = last]
           S == {p}
           content == [r \in DOMAIN disk[p] \ gone |-> disk[p][r] \o new]
<1>3. gone \subseteq limbo
  BY DEF RowsInv, MutsInv
<1>4. Start(k, "mutate", S, m, content)
  BY <1>1
<1>5. DOMAIN content = DOMAIN disk[p] \ gone /\ S \subseteq Active /\ S = {p}
  OBVIOUS
<1> HIDE DEF m, content, gone, S
<1>6. /\ \A r \in DOMAIN content : \E q \in S : r \in DOMAIN disk[q]
      /\ \A q \in S : DOMAIN disk[q] \subseteq DOMAIN content \cup limbo
  BY <1>3, <1>5
<1>7. QED
  BY <1>2, <1>4, <1>5, <1>6, StartRows

\* The directory of a task's part holds rows of its range.
LEMMA TaskPlaces ==
  ASSUME PartsInv, RowsInv, NEW k \in Pending, NEW m, m = tasks[k].info, LockFree',
         DOMAIN disk' = DOMAIN disk \cup {m}, disk'[m] = tasks[k].content,
         \A q \in DOMAIN disk \ {m} : disk'[q] = disk[q],
         used' = used
  PROVE  PlacesInv'
<1> USE DEF PartsInv, RowsInv
<1>1. /\ tasks[k].src \subseteq DOMAIN disk /\ m \in Info
      /\ \A q \in tasks[k].src : Contains(m, q)
      /\ \A r \in DOMAIN disk'[m] : \E q \in tasks[k].src : r \in DOMAIN disk[q]
  BY DEF TaskInv, Fits, HeldPartsOnDisk, Tagged, Pending, TaskRowsInv
<1>2. DOMAIN disk \subseteq Info /\ DOMAIN disk' \subseteq Info
  BY <1>1 DEF TypeInv
<1>3. \A q \in DOMAIN disk' : DOMAIN disk'[q] \subseteq 1..used'.rows
  BY <1>1 DEF PlacesInv
<1>4. ASSUME NEW x \in DOMAIN disk \ {m}, Disjoint(m, x) \/ Disjoint(x, m)
      PROVE  DOMAIN disk'[m] \cap DOMAIN disk'[x] = {}
  <2>1. SUFFICES ASSUME NEW r \in DOMAIN disk'[m], r \in DOMAIN disk[x] PROVE FALSE
    OBVIOUS
  <2>2. PICK q \in tasks[k].src : r \in DOMAIN disk[q]
    BY <1>1
  <2>3. Disjoint(m, x) /\ q \in Info /\ x \in Info /\ Contains(m, q)
    BY <1>1, <1>2, <1>4, DisjointSymmetric
  <2>4. Disjoint(q, x)
    BY <1>1, <2>3, DisjointInside
  <2>5. QED
    BY <1>1, <2>1, <2>2, <2>4 DEF PlacesInv
<1>5. ~Disjoint(m, m)
  BY <1>1 DEF Disjoint, Info
<1>6. ASSUME NEW q \in DOMAIN disk', NEW x \in DOMAIN disk', Disjoint(q, x)
      PROVE  DOMAIN disk'[q] \cap DOMAIN disk'[x] = {}
  <2>1. CASE q = m
    BY <1>4, <1>5, <1>6, <2>1
  <2>2. CASE x = m
    BY <1>4, <1>5, <1>6, <2>2
  <2>3. CASE q # m /\ x # m
    BY <1>6, <2>3 DEF PlacesInv
  <2>4. QED
    BY <2>1, <2>2, <2>3
<1>7. QED
  BY <1>3, <1>6 DEF PlacesInv

LEMMA RenameMergeEffect ==
  ASSUME PartsInv, RowsInv, NEW k \in Tasks, Renames(k)
  PROVE  /\ k \in Pending /\ tasks[k].phase = "running" /\ LockFree
         /\ tasks[k].info \notin DOMAIN parts
         /\ Active' = Active /\ DOMAIN parts' = DOMAIN parts \cup {tasks[k].info}
         /\ \A q \in DOMAIN parts : parts'[q] = parts[q]
         /\ parts'[tasks[k].info] = "PreActive"
         /\ NewDirectory(tasks[k].info, tasks[k].content)
         /\ tasks' = [tasks EXCEPT ![k].phase = "renamed"]
         /\ UNCHANGED <<inserting, increment, current_mutations, files, starting, drop, cleaner,
                        unloaded, reading, used, table, muts>>
<1>0. PICK m : m = tasks[k].info
  OBVIOUS
<1>1. /\ k \in Running /\ tasks[k].phase = "running" /\ LockFree /\ m \notin DOMAIN parts
      /\ parts' = With(parts, {m}, "PreActive")
      /\ AddDirectory(m, tasks[k].content)
      /\ tasks' = [tasks EXCEPT ![k].phase = "renamed"]
      /\ UNCHANGED <<inserting, increment, current_mutations, files, starting, drop, cleaner,
                     unloaded, reading, used, table, muts>>
  BY <1>0 DEF Renames, MayAdd
<1>2. k \in Pending /\ FitsSome(m, Active)
  BY <1>0, <1>1 DEF PartsInv, TaskInv, Pending, Fits, FitsSome
<1>3. m \notin DOMAIN disk
  BY <1>1, <1>2, FitsIsNew DEF RowsInv
<1>4. NewDirectory(m, tasks[k].content)
  BY <1>1, <1>3, AddsDirectory
<1>5. /\ Active' = Active /\ DOMAIN parts' = DOMAIN parts \cup {m}
      /\ \A q \in DOMAIN parts : parts'[q] = parts[q]
      /\ parts'[m] = "PreActive"
  BY <1>1, AddOnePreActive
<1>6. QED
  BY <1>0, <1>1, <1>2, <1>4, <1>5

LEMMA TaskOnDisk ==
  ASSUME PartsInv, NEW k \in Pending
  PROVE  /\ tasks[k].src \subseteq DOMAIN disk
         /\ tasks[k].phase = "renamed" => tasks[k].info \in DOMAIN disk
BY DEF PartsInv, PlaceInv, HeldPartsOnDisk, Tagged, Pending

LEMMA NoCover ==
  ASSUME PartsInv, Running # {}
  PROVE  drop.cover = {}
BY DEF PartsInv, DropInv

LEMMA RenameMergeRows ==
  ASSUME PartsInv, RowsInv, NEW k \in Tasks, Renames(k)
  PROVE  RowsInv'
<1> USE DEF RowsInv
<1>0. PICK m : m = tasks[k].info
  OBVIOUS
<1>1. /\ k \in Pending /\ tasks[k].phase = "running" /\ LockFree
      /\ Active' = Active /\ DOMAIN parts' = DOMAIN parts \cup {m}
      /\ m \notin DOMAIN disk /\ DOMAIN disk' = DOMAIN disk \cup {m}
      /\ disk'[m] = tasks[k].content /\ \A q \in DOMAIN disk : disk'[q] = disk[q]
      /\ tasks' = [tasks EXCEPT ![k].phase = "renamed"]
      /\ UNCHANGED <<inserting, increment, current_mutations, files, starting, drop, unloaded,
                     used, table, muts>>
  BY <1>0, RenameMergeEffect DEF NewDirectory
<1>2. k \in Running /\ drop.cover = {} /\ LockFree' /\ limbo' = limbo /\ acked' = acked
  BY <1>1, NoCover DEF Pending, LockFree, table
<1>3. /\ Running' = Running
      /\ \A j \in Running :
           /\ tasks'[j].src = tasks[j].src /\ tasks'[j].info = tasks[j].info
           /\ tasks'[j].content = tasks[j].content
           /\ tasks'[j].phase = IF j = k THEN "renamed" ELSE tasks[j].phase
  <2>1. TypeInv
    BY DEF PartsInv
  <2>2. GoesOn(k, "renamed")
    BY <1>1 DEF GoesOn
  <2>3. QED
    BY <1>2, <2>1, <2>2, PhaseFields
<1>4. Pending' = Pending /\ RenamedParts' = RenamedParts \cup {m}
  BY <1>0, <1>1, <1>2, <1>3 DEF Pending, RenamedParts
<1>5. UsedInv' /\ KnownInv' /\ MutsInv'
  BY <1>1, <1>2 DEF UsedInv, KnownInv, MutsInv
<1>6. PlacesInv'
  BY <1>0, <1>1, <1>2, TaskPlaces
<1>7. LastInv'
  <2>1. m.max <= increment
    BY <1>0, <1>1, TaskBelow DEF PartsInv
  <2>2. QED
    BY <1>1, <1>2, <2>1 DEF LastInv
<1>8. AboveInv'
  BY <1>1, <1>2, <1>4 DEF AboveInv
<1>9. TaskRowsInv'
  <2>1. ASSUME NEW j \in Pending
        PROVE  /\ \A r \in DOMAIN tasks'[j].content :
                    \E q \in tasks'[j].src : r \in DOMAIN disk'[q]
               /\ \A q \in tasks'[j].src : DOMAIN disk'[q] \subseteq DOMAIN tasks'[j].content \cup limbo
               /\ tasks'[j].phase = "renamed" => disk'[tasks'[j].info] = tasks'[j].content
    <3>1. j \in Running /\ tasks[j].src \subseteq DOMAIN disk
      BY TaskOnDisk DEF Pending
    <3>2. \A q \in tasks[j].src : disk'[q] = disk[q]
      BY <1>1, <3>1
    <3>3. tasks'[j].phase = "renamed" => disk'[tasks'[j].info] = tasks'[j].content
      <4>1. CASE j = k
        BY <1>0, <1>1, <1>3, <3>1, <4>1
      <4>2. CASE j # k
        BY <1>1, <1>3, <3>1, <4>2, TaskOnDisk DEF TaskRowsInv
      <4>3. QED
        BY <4>1, <4>2
    <3>4. QED
      BY <1>3, <3>1, <3>2, <3>3 DEF TaskRowsInv
  <2>2. QED
    BY <1>2, <1>4, <2>1 DEF TaskRowsInv
<1>10. DropRowsInv'
  BY <1>1, <1>2 DEF DropRowsInv
<1>11. AckInv'
  <2>1. \A p \in Active : disk'[p] = disk[p]
    BY <1>1 DEF PartsInv, HeldPartsOnDisk
  <2>2. QED
    BY <1>1, <1>2, <2>1 DEF AckInv
<1>12. QED
  BY <1>5, <1>6, <1>7, <1>8, <1>9, <1>10, <1>11

LEMMA CommitTaskEffect ==
  ASSUME PartsInv, RowsInv, NEW k \in Tasks, CommitMerge(k) \/ CommitMutate(k),
         NEW m, m = tasks[k].info
  PROVE  /\ k \in Pending /\ LockFree
         /\ Active' = (Active \ tasks[k].src) \cup {m}
         /\ DOMAIN parts' = DOMAIN parts \cup {m}
         /\ \A p \in DOMAIN parts \ {m} : parts[p] # "Active" => parts'[p] = parts[p]
         /\ DOMAIN disk' = DOMAIN disk \cup {m} /\ disk'[m] = tasks[k].content
         /\ \A q \in DOMAIN disk : disk'[q] = disk[q]
         /\ tasks' = [tasks EXCEPT ![k].phase = "committed"]
         /\ UNCHANGED <<inserting, increment, current_mutations, files, starting, drop, cleaner,
                        unloaded, reading, used, table, muts>>
<1> USE DEF PartsInv
<1>1. /\ k \in Running /\ LockFree /\ tasks[k].phase \in {"running", "renamed"}
      /\ tasks' = [tasks EXCEPT ![k].phase = "committed"]
      /\ UNCHANGED <<inserting, increment, current_mutations, files, starting, drop, cleaner,
                     unloaded, reading, used, table, muts>>
  BY DEF CommitMerge, CommitMutate
<1>2. k \in Pending /\ Fits(m, tasks[k].src, Active)
  BY <1>1 DEF TaskInv, Pending
<1>3. Replace(Active, {m}) = (Active \ tasks[k].src) \cup {m}
  <2>1. \A q \in Active : Contains(m, q) <=> q \in tasks[k].src
    BY <1>2, ActiveInfos, ContainedNotDisjoint DEF Fits
  <2>2. QED
    BY <2>1 DEF Replace
<1>4. FitsSome(m, Active) /\ tasks[k].src \subseteq Active
  BY <1>2 DEF FitsSome, Fits
<1>5. CASE CommitMerge(k)
  <2>1. parts' = Committed({m}) /\ disk' = disk /\ tasks[k].phase = "renamed"
    BY <1>5 DEF CommitMerge
  <2>2. m \in DOMAIN parts /\ m \in DOMAIN disk /\ disk[m] = tasks[k].content
    BY <1>1, <1>2, <2>1 DEF PlaceInv, RowsInv, TaskRowsInv
  <2>3. /\ Active' = Replace(Active, {m})
        /\ DOMAIN parts' = DOMAIN parts
        /\ \A p \in DOMAIN parts \ {m} : parts[p] # "Active" => parts'[p] = parts[p]
    BY <1>4, <2>1, <2>2, CommitParts DEF TaskInv
  <2>4. QED
    BY <1>1, <1>2, <1>3, <2>1, <2>2, <2>3
<1>6. CASE CommitMutate(k)
  <2>1. /\ m \notin DOMAIN parts /\ AddDirectory(m, tasks[k].content)
        /\ parts' = [q \in DOMAIN parts \cup {m} |->
                      IF q = m THEN IF Covering(m, Active) = {} THEN "Active" ELSE "Outdated"
                      ELSE IF Covering(m, Active) = {} /\ q \in Covered(m, Active) THEN "Outdated"
                      ELSE parts[q]]
    BY <1>6 DEF CommitMutate, MayAdd, With
  <2>2. NewDirectory(m, tasks[k].content)
    BY <1>4, <2>1, FitsIsNew, AddsDirectory DEF RowsInv
  <2>3. Covered(m, Active) = tasks[k].src /\ Covering(m, Active) = {}
    BY <1>2, ActiveInfos, FitsReached DEF TaskInv
  <2>4. parts' = [q \in DOMAIN parts \cup {m} |->
                    IF q = m THEN "Active" ELSE IF q \in tasks[k].src THEN "Outdated" ELSE parts[q]]
    BY <2>1, <2>3
  <2>5. Active' = (Active \ tasks[k].src) \cup {m}
    BY <2>1, <2>4 DEF Active, InState
  <2>6. /\ DOMAIN parts' = DOMAIN parts \cup {m}
        /\ \A p \in DOMAIN parts \ {m} : parts[p] # "Active" => parts'[p] = parts[p]
    BY <1>4, <2>4 DEF Active, InState
  <2>7. QED
    BY <1>1, <1>2, <2>2, <2>5, <2>6 DEF NewDirectory
<1>7. QED
  BY <1>5, <1>6

\* Nothing on disk contains the part that a task makes.
LEMMA NothingAboveTask ==
  ASSUME PartsInv, AboveInv, NEW k \in Pending, NEW d \in DOMAIN disk, Contains(d, tasks[k].info)
  PROVE  d = tasks[k].info
<1> USE DEF PartsInv
<1>1. SUFFICES ASSUME d # tasks[k].info PROVE FALSE
  OBVIOUS
<1>2. k \in Running /\ Fits(tasks[k].info, tasks[k].src, Active) /\ tasks[k].src # {}
  BY DEF TaskInv, Pending
<1>3. PICK q \in tasks[k].src : q \in Active /\ Contains(tasks[k].info, q)
  BY <1>2 DEF Fits
<1>4. tasks[k].info \in Info /\ d \in Info /\ q \in Info /\ tasks[k].info \notin Active
  BY <1>2, <1>3, ActiveInfos DEF Fits, TypeInv
<1>5. Contains(d, q) /\ d # q
  BY <1>3, <1>4, ContainsTransitive, ContainsAntisymmetric
<1>6. drop.cover = {}
  BY <1>2, NoCover
<1>7. PICK j \in Running : tasks[j].phase = "renamed" /\ d = tasks[j].info
  BY <1>3, <1>5, <1>6 DEF AboveInv, RenamedParts
<1>8. j \in Pending /\ j # k
  BY <1>1, <1>7 DEF Pending
<1>9. Disjoint(d, tasks[k].info)
  BY <1>7, <1>8 DEF TaskInv
<1>10. QED
  BY <1>4, <1>9, ContainedNotDisjoint

LEMMA CommitTaskRows ==
  ASSUME PartsInv, PartsInv', RowsInv, NEW k \in Tasks, CommitMerge(k) \/ CommitMutate(k)
  PROVE  RowsInv'
<1> USE DEF RowsInv
<1>0. PICK m : m = tasks[k].info
  OBVIOUS
<1>1. /\ k \in Pending /\ LockFree
      /\ Active' = (Active \ tasks[k].src) \cup {m}
      /\ DOMAIN parts' = DOMAIN parts \cup {m}
      /\ DOMAIN disk' = DOMAIN disk \cup {m} /\ disk'[m] = tasks[k].content
      /\ \A q \in DOMAIN disk : disk'[q] = disk[q]
      /\ tasks' = [tasks EXCEPT ![k].phase = "committed"]
      /\ UNCHANGED <<inserting, increment, current_mutations, files, starting, drop, unloaded,
                     used, table, muts>>
  BY <1>0, CommitTaskEffect
<1>2. k \in Running /\ drop.cover = {} /\ LockFree' /\ limbo' = limbo /\ acked' = acked
  BY <1>1, NoCover DEF Pending, LockFree, table
<1>3. /\ Running' = Running
      /\ \A j \in Running :
           /\ tasks'[j].src = tasks[j].src /\ tasks'[j].info = tasks[j].info
           /\ tasks'[j].content = tasks[j].content
           /\ tasks'[j].phase = IF j = k THEN "committed" ELSE tasks[j].phase
  <2>1. TypeInv
    BY DEF PartsInv
  <2>2. GoesOn(k, "committed")
    BY <1>1 DEF GoesOn
  <2>3. QED
    BY <1>2, <2>1, <2>2, PhaseFields
<1>4. Pending' = Pending \ {k} /\ RenamedParts \subseteq RenamedParts' \cup {m}
  BY <1>0, <1>3 DEF Pending, RenamedParts
<1>5. UsedInv' /\ KnownInv' /\ MutsInv'
  BY <1>1, <1>2 DEF UsedInv, KnownInv, MutsInv
<1>6. PlacesInv'
  BY <1>0, <1>1, <1>2, TaskPlaces
<1>7. LastInv'
  <2>1. m.max <= increment
    BY <1>0, <1>1, TaskBelow DEF PartsInv
  <2>2. QED
    BY <1>1, <1>2, <2>1 DEF LastInv
<1>8. AboveInv'
  <2>1. ASSUME NEW d \in DOMAIN disk', NEW a \in Active', Contains(d, a), d # a
        PROVE  d \in RenamedParts'
    <3>1. d # m
      <4>1. SUFFICES ASSUME d = m PROVE FALSE
        OBVIOUS
      <4>2. Disjoint(d, a) /\ d \in Info /\ a \in Info
        BY <1>1, <2>1, <4>1, ActiveInfos DEF PartsInv, TaskInv, AllDisjoint, TypeInv
      <4>3. QED
        BY <2>1, <4>2, ContainedNotDisjoint
    <3>2. d \in DOMAIN disk
      BY <1>1, <2>1, <3>1
    <3>3. a # m
      BY <1>0, <1>1, <2>1, <3>1, <3>2, NothingAboveTask
    <3>4. a \in Active
      BY <1>1, <3>3
    <3>5. d \in RenamedParts
      BY <1>2, <2>1, <3>2, <3>4 DEF AboveInv
    <3>6. QED
      BY <1>4, <3>1, <3>5
  <2>2. QED
    BY <1>1, <1>2, <2>1 DEF AboveInv
<1>9. TaskRowsInv'
  <2>1. ASSUME NEW j \in Pending'
        PROVE  /\ \A r \in DOMAIN tasks'[j].content :
                    \E q \in tasks'[j].src : r \in DOMAIN disk'[q]
               /\ \A q \in tasks'[j].src : DOMAIN disk'[q] \subseteq DOMAIN tasks'[j].content \cup limbo
               /\ tasks'[j].phase = "renamed" => disk'[tasks'[j].info] = tasks'[j].content
    <3>1. j \in Pending /\ j \in Running /\ j # k /\ tasks[j].src \subseteq DOMAIN disk
      BY <1>4, TaskOnDisk DEF Pending
    <3>2. \A q \in tasks[j].src : disk'[q] = disk[q]
      BY <1>1, <3>1
    <3>3. tasks[j].phase = "renamed" => disk'[tasks[j].info] = tasks[j].content
      BY <1>1, <3>1, TaskOnDisk DEF TaskRowsInv
    <3>4. QED
      BY <1>3, <3>1, <3>2, <3>3 DEF TaskRowsInv
  <2>2. QED
    BY <1>2, <2>1 DEF TaskRowsInv
<1>10. DropRowsInv'
  BY <1>1, <1>2 DEF DropRowsInv
<1>11. AckInv'
  <2>1. \A p \in Active : disk'[p] = disk[p]
    BY <1>1 DEF PartsInv, HeldPartsOnDisk
  <2>2. ASSUME NEW r \in acked \ limbo PROVE \E p \in Active' : r \in DOMAIN disk'[p]
    <3>1. PICK p \in Active : r \in DOMAIN disk[p]
      BY DEF AckInv
    <3>2. CASE p \in tasks[k].src
      BY <1>1, <3>1, <3>2 DEF TaskRowsInv
    <3>3. CASE p \notin tasks[k].src
      BY <1>1, <2>1, <3>1, <3>3
    <3>4. QED
      BY <3>2, <3>3
  <2>3. QED
    BY <1>2, <2>2 DEF AckInv
<1>12. QED
  BY <1>5, <1>6, <1>7, <1>8, <1>9, <1>10, <1>11

LEMMA PrepareDropEffect ==
  ASSUME PartsInv, PrepareDrop
  PROVE  \E S \in SUBSET Active :
           /\ Running = {} /\ drop.phase = "stopped" /\ drop.cover = {} /\ LockFree
           /\ drop'.phase = "covering" /\ drop'.cover = {EmptyCover(p) : p \in S}
           /\ \A p \in S :
                /\ EmptyCover(p) \in Info
                /\ EmptyCover(p).min = p.min /\ EmptyCover(p).max = p.max
                /\ EmptyCover(p).mutation = p.mutation
                /\ Contains(EmptyCover(p), p) /\ EmptyCover(p) # p
           /\ limbo' = limbo \cup UNION {DOMAIN disk[p] : p \in S}
           /\ UNCHANGED <<parts, disk, inserting, increment, current_mutations, files, starting,
                          tasks, cleaner, unloaded, reading, used, acked, dropped, muts, crossed>>
<1>1. PICK S \in SUBSET Active :
        /\ drop' = [phase |-> "covering", cover |-> {EmptyCover(p) : p \in S}]
        /\ limbo' = limbo \cup UNION {DOMAIN disk[p] : p \in S}
  BY DEF PrepareDrop
<1>2. /\ drop.phase = "stopped" /\ LockFree
      /\ UNCHANGED <<parts, disk, inserting, increment, current_mutations, files, starting, tasks,
                     cleaner, unloaded, reading, used, acked, dropped, muts, crossed>>
  BY DEF PrepareDrop
<1>3. Running = {} /\ drop.cover = {}
  BY <1>2 DEF PartsInv, DropInv
<1>4. drop'.phase = "covering" /\ drop'.cover = {EmptyCover(p) : p \in S}
  BY <1>1
<1>5. \A p \in S : EmptyCover(p) # p
  BY EmptyCoverFits DEF Fits
<1>6. QED
  BY <1>1, <1>2, <1>3, <1>4, <1>5, EmptyCoverFits

LEMMA PrepareDropRows == PartsInv /\ RowsInv /\ PrepareDrop => RowsInv'
<1> SUFFICES ASSUME PartsInv, RowsInv, PrepareDrop PROVE RowsInv'
  OBVIOUS
<1> USE DEF RowsInv
<1>1. PICK S \in SUBSET Active :
        /\ Running = {} /\ drop.cover = {}
        /\ drop'.cover = {EmptyCover(p) : p \in S}
        /\ \A p \in S :
             /\ EmptyCover(p) \in Info
             /\ EmptyCover(p).min = p.min /\ EmptyCover(p).max = p.max
             /\ Contains(EmptyCover(p), p) /\ EmptyCover(p) # p
        /\ limbo' = limbo \cup UNION {DOMAIN disk[p] : p \in S}
        /\ UNCHANGED <<parts, disk, inserting, increment, current_mutations, files, starting, tasks,
                       unloaded, used, acked, muts>>
  BY PrepareDropEffect
<1>2. /\ Running' = {} /\ Pending' = {} /\ RenamedParts = {} /\ RenamedParts' = {}
      /\ Active' = Active
  BY <1>1, TasksSame, RenamedSame, ActiveSame DEF Pending, RenamedParts
<1>3. limbo \subseteq limbo' /\ \A p \in S : DOMAIN disk[p] \subseteq limbo'
  BY <1>1
<1>4. ASSUME NEW c \in drop'.cover PROVE \E p \in S : c = EmptyCover(p)
  BY <1>1
<1>5. Active \subseteq Info /\ Active \subseteq DOMAIN parts /\ DOMAIN disk \subseteq Info
  BY ActiveInfos DEF PartsInv, TypeInv
<1>6. UsedInv' /\ KnownInv' /\ MutsInv'
  BY <1>1, <1>3 DEF UsedInv, KnownInv, MutsInv
<1>7. PlacesInv' /\ LastInv'
  BY <1>1 DEF PlacesInv, LastInv, LockFree
<1>8. AboveInv'
  <2>1. ASSUME NEW d \in DOMAIN disk, NEW a \in Active, Contains(d, a) PROVE d = a
    BY <1>1, <1>2, <2>1 DEF AboveInv
  <2>2. ASSUME NEW d \in DOMAIN disk, NEW c \in drop'.cover, Contains(d, c) PROVE FALSE
    <3>1. PICK p \in S : c = EmptyCover(p)
      BY <1>4
    <3>2. Contains(c, p) /\ c \in Info /\ d \in Info /\ p \in Info /\ p # c
      BY <1>1, <1>5, <3>1
    <3>3. Contains(d, p)
      BY <2>2, <3>2, ContainsTransitive
    <3>4. d = p
      BY <2>1, <3>3
    <3>5. QED
      BY <2>2, <3>2, <3>4, ContainsAntisymmetric
  <2>3. drop'.cover \cap DOMAIN disk = {}
    <3>1. ASSUME NEW c \in drop'.cover PROVE Contains(c, c)
      BY <1>1, <3>1 DEF Contains, Info
    <3>2. QED
      BY <2>2, <3>1
  <2>4. QED
    BY <1>1, <1>2, <2>1, <2>2, <2>3 DEF AboveInv
<1>9. TaskRowsInv'
  BY <1>2 DEF TaskRowsInv
<1>10. DropRowsInv'
  <2>1. ASSUME NEW c \in drop'.cover, NEW q \in Active, Contains(c, q)
        PROVE  DOMAIN disk[q] \subseteq limbo'
    <3>1. PICK p \in S : c = EmptyCover(p)
      BY <1>4
    <3>2. q = p
      <4>1. SUFFICES ASSUME q # p PROVE FALSE
        OBVIOUS
      <4>2. Disjoint(p, q) /\ c.min = p.min /\ c.max = p.max
        BY <1>1, <3>1, <4>1 DEF PartsInv, TaskInv, AllDisjoint
      <4>3. Disjoint(c, q) /\ c \in Info /\ q \in Info
        BY <1>1, <1>5, <3>1, <4>2 DEF Disjoint
      <4>4. QED
        BY <2>1, <4>3, ContainedNotDisjoint
    <3>3. QED
      BY <1>3, <3>2
  <2>2. QED
    BY <1>1, <1>2, <2>1 DEF DropRowsInv
<1>11. AckInv'
  BY <1>1, <1>2, <1>3 DEF AckInv
<1>12. QED
  BY <1>6, <1>7, <1>8, <1>9, <1>10, <1>11

LEMMA RenameCoverEffect ==
  ASSUME PartsInv, RenameCover
  PROVE  \E m \in drop.cover :
           /\ NewDirectory(m, Nothing)
           /\ drop.phase = "renaming" /\ Running = {}
           /\ UNCHANGED <<parts, inserting, increment, current_mutations, files, starting, tasks,
                          drop, cleaner, unloaded, reading, used, table, muts>>
<1> USE DEF PartsInv
<1> DEFINE todo == drop.cover \ DOMAIN disk
<1>1. PICK m : m = CHOOSE p \in todo : \A q \in todo \ {p} : Less(p, q)
  OBVIOUS
<1>2. /\ todo # {} /\ AddDirectory(m, Nothing)
      /\ UNCHANGED <<parts, inserting, increment, current_mutations, files, starting, tasks,
                     drop, cleaner, unloaded, reading, used, table, muts>>
  BY <1>1 DEF RenameCover
<1>3. todo \subseteq Info /\ AllDisjoint(todo)
  BY DEF TypeInv, DropInv, AllDisjoint
<1>4. m \in todo
  <2> HIDE DEF todo
  <2>1. \E p \in todo : \A q \in todo \ {p} : Less(p, q)
    BY <1>2, <1>3, FirstOfDisjoint
  <2>2. QED
    BY <1>1, <2>1
<1>5. NewDirectory(m, Nothing)
  BY <1>2, <1>4, AddsDirectory
<1>6. drop.phase = "renaming" /\ Running = {}
  BY DEF DropInv, RenameCover
<1>7. QED
  BY <1>2, <1>4, <1>5, <1>6

LEMMA RenameCoverRows == PartsInv /\ RowsInv /\ RenameCover => RowsInv'
<1> SUFFICES ASSUME PartsInv, RowsInv, RenameCover PROVE RowsInv'
  OBVIOUS
<1> USE DEF RowsInv
<1>1. PICK m \in drop.cover :
        /\ m \notin DOMAIN disk /\ DOMAIN disk' = DOMAIN disk \cup {m}
        /\ disk'[m] = Nothing /\ \A q \in DOMAIN disk : disk'[q] = disk[q]
        /\ drop.phase = "renaming" /\ Running = {}
        /\ UNCHANGED <<parts, inserting, increment, current_mutations, files, starting, tasks,
                       drop, unloaded, used, table, muts>>
  BY RenameCoverEffect DEF NewDirectory
<1>2. DOMAIN disk'[m] = {} /\ limbo' = limbo /\ acked' = acked
  BY <1>1 DEF Nothing, table
<1>3. Pending' = {} /\ RenamedParts' = RenamedParts /\ Active' = Active
  BY <1>1, TasksSame, RenamedSame, ActiveSame DEF Pending
<1>4. Active \subseteq DOMAIN disk /\ m \in DOMAIN parts /\ m \in Info /\ m.max <= increment
      /\ (~LockFree => inserting \in DOMAIN disk /\ m.max < inserting.min)
  BY <1>1 DEF PartsInv, HeldPartsOnDisk, PlaceInv, TypeInv, NumberInv
<1>5. UsedInv' /\ KnownInv' /\ MutsInv'
  BY <1>1, <1>2, <1>4 DEF UsedInv, KnownInv, MutsInv
<1>6. PlacesInv'
  <2>1. \A q \in DOMAIN disk' : DOMAIN disk'[q] \subseteq 1..used'.rows
    BY <1>1, <1>2 DEF PlacesInv
  <2>2. \A q, x \in DOMAIN disk' : Disjoint(q, x) => DOMAIN disk'[q] \cap DOMAIN disk'[x] = {}
    BY <1>1, <1>2 DEF PlacesInv
  <2>3. QED
    BY <1>1, <1>4, <2>1, <2>2 DEF PlacesInv, LockFree
<1>7. LastInv'
  BY <1>1, <1>4 DEF LastInv, LockFree
<1>8. AboveInv'
  <2>1. ASSUME NEW c \in drop.cover, Contains(m, c) PROVE m = c
    <3>1. m \in Info /\ c \in Info /\ (m # c => Disjoint(m, c))
      BY <1>4 DEF PartsInv, TypeInv, DropInv, AllDisjoint
    <3>2. QED
      BY <2>1, <3>1, ContainedNotDisjoint
  <2>2. QED
    BY <1>1, <1>3, <2>1 DEF AboveInv
<1>9. TaskRowsInv'
  BY <1>3 DEF TaskRowsInv
<1>10. DropRowsInv' /\ AckInv'
  BY <1>1, <1>2, <1>3, <1>4 DEF DropRowsInv, AckInv
<1>11. QED
  BY <1>5, <1>6, <1>7, <1>8, <1>9, <1>10

LEMMA CommitDropEffect ==
  ASSUME PartsInv, CommitDrop
  PROVE  /\ Running = {} /\ LockFree /\ drop.cover \subseteq DOMAIN disk
         /\ Active' = Replace(Active, drop.cover)
         /\ DOMAIN parts' = DOMAIN parts
         /\ \A p \in DOMAIN parts \ drop.cover : parts[p] # "Active" => parts'[p] = parts[p]
         /\ \A c \in drop.cover : Covered(c, Active) = {q \in Active : Contains(c, q)}
         /\ drop' = [phase |-> "idle", cover |-> {}]
         /\ UNCHANGED <<disk, inserting, increment, current_mutations, files, starting, tasks,
                        cleaner, unloaded, reading, used, acked, limbo, muts, crossed>>
<1> USE DEF PartsInv
<1>0. PICK N : N = drop.cover
  OBVIOUS
<1>1. /\ drop.phase = "renaming" /\ N \subseteq DOMAIN disk /\ LockFree
      /\ parts' = Committed(N)
      /\ drop' = [phase |-> "idle", cover |-> {}]
      /\ UNCHANGED <<disk, inserting, increment, current_mutations, files, starting, tasks,
                     cleaner, unloaded, reading, used, acked, limbo, muts, crossed>>
  BY <1>0 DEF CommitDrop
<1>2. /\ \A p \in N : FitsSome(p, Active) /\ p \in DOMAIN parts
      /\ Running = {}
  BY <1>0, <1>1 DEF DropInv, PlaceInv
<1>3. /\ Active' = Replace(Active, N)
      /\ DOMAIN parts' = DOMAIN parts
      /\ \A p \in DOMAIN parts \ N : parts[p] # "Active" => parts'[p] = parts[p]
  BY <1>1, <1>2, CommitParts DEF TaskInv
<1>4. ASSUME NEW c \in N PROVE Covered(c, Active) = {q \in Active : Contains(c, q)}
  <2>1. PICK S \in SUBSET Active : Fits(c, S, Active)
    BY <1>2 DEF FitsSome
  <2>2. Covered(c, Active) = S
    BY <2>1, ActiveInfos, FitsReached DEF TaskInv
  <2>3. S = {q \in Active : Contains(c, q)}
    BY <2>1, ActiveInfos, ContainedNotDisjoint DEF Fits
  <2>4. QED
    BY <2>2, <2>3
<1>5. QED
  BY <1>0, <1>1, <1>2, <1>3, <1>4

LEMMA CommitDropRows == PartsInv /\ PartsInv' /\ RowsInv /\ CommitDrop => RowsInv'
<1> SUFFICES ASSUME PartsInv, PartsInv', RowsInv, CommitDrop PROVE RowsInv'
  OBVIOUS
<1> USE DEF RowsInv
<1>1. /\ Running = {} /\ LockFree /\ drop.cover \subseteq DOMAIN disk
      /\ Active' = Replace(Active, drop.cover) /\ DOMAIN parts' = DOMAIN parts
      /\ drop'.cover = {}
      /\ UNCHANGED <<disk, inserting, increment, current_mutations, files, starting, tasks,
                     unloaded, used, acked, limbo, muts>>
  BY CommitDropEffect
<1>2. Pending' = {} /\ RenamedParts = {}
  BY <1>1, TasksSame DEF Pending, RenamedParts
<1>3. UsedInv' /\ KnownInv' /\ MutsInv'
  BY <1>1 DEF UsedInv, KnownInv, MutsInv
<1>4. PlacesInv' /\ LastInv'
  BY <1>1 DEF PlacesInv, LastInv, LockFree
<1>5. AboveInv'
  <2>1. ASSUME NEW d \in DOMAIN disk, NEW a \in Active', Contains(d, a) PROVE d = a
    <3>1. CASE a \in drop.cover
      BY <2>1, <3>1 DEF AboveInv
    <3>2. CASE d \in drop.cover
      <4>1. SUFFICES ASSUME d # a PROVE FALSE
        OBVIOUS
      <4>2. d \in Active' /\ AllDisjoint(Active') /\ Active' \subseteq Info
        BY <1>1, <3>2 DEF Replace, PartsInv, TaskInv, TypeInv, HeldPartsOnDisk
      <4>3. Disjoint(d, a)
        BY <4>1, <4>2 DEF AllDisjoint
      <4>4. QED
        BY <2>1, <4>2, <4>3, ContainedNotDisjoint
    <3>3. CASE a \notin drop.cover /\ d \notin drop.cover
      <4>1. a \in Active
        BY <1>1, <3>3 DEF Replace
      <4>2. QED
        BY <1>2, <2>1, <3>3, <4>1 DEF AboveInv
    <3>4. QED
      BY <3>1, <3>2, <3>3
  <2>2. QED
    BY <1>1, <2>1 DEF AboveInv
<1>6. TaskRowsInv' /\ DropRowsInv'
  BY <1>1, <1>2 DEF TaskRowsInv, DropRowsInv
<1>7. AckInv'
  <2>1. ASSUME NEW r \in acked \ limbo PROVE \E p \in Active' : r \in DOMAIN disk[p]
    <3>1. PICK p \in Active : r \in DOMAIN disk[p]
      BY DEF AckInv
    <3>2. \A c \in drop.cover : ~Contains(c, p)
      BY <3>1 DEF DropRowsInv
    <3>3. QED
      BY <1>1, <3>1, <3>2 DEF Replace
  <2>2. QED
    BY <1>1, <2>1 DEF AckInv
<1>8. QED
  BY <1>3, <1>4, <1>5, <1>6, <1>7

LEMMA RemovePartEffect ==
  ASSUME PartsInv, NEW c \in Cleaners, RemovePart(c)
  PROVE  /\ cleaner[c].part # NoPart /\ LockFree
         /\ cleaner[c].part \in DOMAIN parts /\ parts[cleaner[c].part] = "Deleting"
         /\ Active' = Active
         /\ \/ /\ DOMAIN disk' = DOMAIN disk \ {cleaner[c].part}
               /\ \A q \in DOMAIN disk' : disk'[q] = disk[q]
               /\ parts' = Restrict(parts, DOMAIN parts \ {cleaner[c].part})
               /\ DOMAIN parts' = DOMAIN parts \ {cleaner[c].part}
            \/ /\ disk' = disk /\ DOMAIN parts' = DOMAIN parts
               /\ parts' = [parts EXCEPT ![cleaner[c].part] = "Outdated"]
         /\ \A q \in DOMAIN parts \ {cleaner[c].part} : parts'[q] = parts[q]
         /\ cleaner' = [cleaner EXCEPT ![c].part = NoPart]
         /\ UNCHANGED <<inserting, increment, current_mutations, files, starting, tasks, drop,
                        unloaded, reading, used, table, muts, crossed>>
<1>0. PICK p : p = cleaner[c].part
  OBVIOUS
<1>1. /\ p # NoPart /\ LockFree
      /\ \/ /\ disk' = Restrict(disk, DOMAIN disk \ {p})
            /\ parts' = Restrict(parts, DOMAIN parts \ {p})
         \/ /\ parts' = [parts EXCEPT ![p] = "Outdated"]
            /\ UNCHANGED disk
      /\ cleaner' = [cleaner EXCEPT ![c].part = NoPart]
      /\ UNCHANGED <<inserting, increment, current_mutations, files, starting, tasks, drop,
                     unloaded, reading, used, table, muts, crossed>>
  BY <1>0 DEF RemovePart
<1>2. p \in DOMAIN parts /\ parts[p] = "Deleting"
  BY <1>0, <1>1 DEF PartsInv, CleanerInv
<1>3. CASE /\ disk' = Restrict(disk, DOMAIN disk \ {p})
           /\ parts' = Restrict(parts, DOMAIN parts \ {p})
  <2>1. /\ DOMAIN disk' = DOMAIN disk \ {p} /\ \A q \in DOMAIN disk' : disk'[q] = disk[q]
        /\ DOMAIN parts' = DOMAIN parts \ {p} /\ \A q \in DOMAIN parts' : parts'[q] = parts[q]
    BY <1>3 DEF Restrict
  <2>2. Active' = Active
    BY <1>2, <2>1 DEF Active, InState
  <2>3. QED
    BY <1>0, <1>1, <1>2, <1>3, <2>1, <2>2
<1>4. CASE parts' = [parts EXCEPT ![p] = "Outdated"] /\ UNCHANGED disk
  <2>1. DOMAIN parts' = DOMAIN parts /\ \A q \in DOMAIN parts \ {p} : parts'[q] = parts[q]
    BY <1>4
  <2>2. Active' = Active
    BY <1>2, <1>4 DEF Active, InState
  <2>3. QED
    BY <1>0, <1>1, <1>2, <1>4, <2>1, <2>2
<1>5. QED
  BY <1>1, <1>3, <1>4

LEMMA RemovePartRows ==
  ASSUME PartsInv, PartsInv', RowsInv, NEW c \in Cleaners, RemovePart(c)
  PROVE  RowsInv'
<1> USE DEF RowsInv
<1>0. PICK p : p = cleaner[c].part
  OBVIOUS
<1>1. /\ LockFree /\ Active' = Active
      /\ DOMAIN disk' \subseteq DOMAIN disk /\ \A q \in DOMAIN disk' : disk'[q] = disk[q]
      /\ DOMAIN disk' \subseteq DOMAIN parts' \cup unloaded'
      /\ UNCHANGED <<inserting, increment, current_mutations, files, starting, tasks, drop,
                     used, table, muts>>
  BY RemovePartEffect DEF KnownInv
<1>2. Running' = Running /\ Pending' = Pending /\ RenamedParts' = RenamedParts
  BY <1>1, TasksSame, RenamedSame
<1>3. limbo' = limbo /\ acked' = acked /\ LockFree'
  BY <1>1 DEF table, LockFree
<1>4. Active' \subseteq DOMAIN disk'
  BY DEF PartsInv, HeldPartsOnDisk
<1>5. \A k \in Pending : /\ tasks[k].src \subseteq DOMAIN disk'
                         /\ tasks[k].phase = "renamed" => tasks[k].info \in DOMAIN disk'
  <2>1. \A k \in Running' : /\ tasks'[k].src \subseteq DOMAIN disk'
                            /\ tasks'[k].phase = "renamed" => tasks'[k].info \in DOMAIN disk'
    BY DEF PartsInv, HeldPartsOnDisk, PlaceInv, Tagged
  <2>2. QED
    BY <1>1, <1>2, <2>1 DEF Pending
<1>6. UsedInv' /\ KnownInv' /\ MutsInv'
  BY <1>1, <1>3 DEF UsedInv, KnownInv, MutsInv
<1>7. PlacesInv' /\ LastInv'
  BY <1>1, <1>3 DEF PlacesInv, LastInv
<1>8. AboveInv'
  BY <1>1, <1>2 DEF AboveInv
<1>9. TaskRowsInv'
  BY <1>1, <1>2, <1>3, <1>5 DEF TaskRowsInv
<1>10. DropRowsInv' /\ AckInv'
  BY <1>1, <1>3, <1>4 DEF DropRowsInv, AckInv
<1>11. QED
  BY <1>6, <1>7, <1>8, <1>9, <1>10

LEMMA ClearEmptyEffect ==
  ASSUME PartsInv, NEW c \in Cleaners, ClearEmpty(c)
  PROVE  \E p \in Active \ Tagged :
           /\ p \in DOMAIN disk /\ disk[p] = Nothing
           /\ parts' = [parts EXCEPT ![p] = "Outdated"]
           /\ Active' = Active \ {p} /\ DOMAIN parts' = DOMAIN parts
           /\ \A q \in DOMAIN parts \ {p} : parts'[q] = parts[q]
           /\ LockFree /\ unloaded = {} /\ cleaner[c].part = NoPart
           /\ UNCHANGED <<disk, inserting, increment, current_mutations, files, starting, tasks,
                          drop, cleaner, unloaded, reading, used, table, muts, crossed>>
<1>1. PICK p \in Active \ Tagged : Empty(p) /\ parts' = [parts EXCEPT ![p] = "Outdated"]
  BY DEF ClearEmpty
<1>2. /\ LockFree /\ unloaded = {} /\ cleaner[c].part = NoPart
      /\ UNCHANGED <<disk, inserting, increment, current_mutations, files, starting, tasks,
                     drop, cleaner, unloaded, reading, used, table, muts, crossed>>
  BY DEF ClearEmpty, MayClean, Idle
<1>3. p \in DOMAIN disk /\ disk[p] = Nothing
  BY <1>1 DEF PartsInv, HeldPartsOnDisk, Empty
<1>4. DOMAIN parts' = DOMAIN parts /\ \A q \in DOMAIN parts \ {p} : parts'[q] = parts[q]
  BY <1>1
<1>5. Active' = Active \ {p}
  BY <1>1 DEF Active, InState
<1>6. QED
  BY <1>1, <1>2, <1>3, <1>4, <1>5

LEMMA ClearEmptyRows ==
  ASSUME PartsInv, RowsInv, NEW c \in Cleaners, ClearEmpty(c)
  PROVE  RowsInv'
<1> USE DEF RowsInv
<1>1. PICK p \in Active \ Tagged :
        /\ disk[p] = Nothing
        /\ Active' = Active \ {p} /\ DOMAIN parts' = DOMAIN parts
        /\ UNCHANGED <<disk, inserting, increment, current_mutations, files, starting, tasks,
                       drop, unloaded, used, table, muts>>
  BY ClearEmptyEffect
<1>2. Running' = Running /\ Pending' = Pending /\ RenamedParts' = RenamedParts
  BY <1>1, TasksSame, RenamedSame
<1>3. limbo' = limbo /\ acked' = acked /\ DOMAIN disk[p] = {}
  BY <1>1 DEF table, Nothing
<1>4. UsedInv' /\ KnownInv' /\ MutsInv' /\ PlacesInv' /\ LastInv'
  BY <1>1, <1>3 DEF UsedInv, KnownInv, MutsInv, PlacesInv, LastInv, LockFree
<1>5. AboveInv'
  BY <1>1, <1>2 DEF AboveInv
<1>6. TaskRowsInv' /\ DropRowsInv'
  BY <1>1, <1>2, <1>3 DEF TaskRowsInv, DropRowsInv
<1>7. AckInv'
  BY <1>1, <1>3 DEF AckInv
<1>8. QED
  BY <1>4, <1>5, <1>6, <1>7

\* What a start finds: a row that is promised is in a part it loads.
LEMMA TopPresence ==
  ASSUME PartsInv, RowsInv, NEW r \in acked \ limbo
  PROVE  \E t \in TopLevel : r \in DOMAIN disk[t]
<1> USE DEF PartsInv, RowsInv
<1>1. PICK p \in Active : r \in DOMAIN disk[p]
  BY DEF AckInv
<1>2. p \in DOMAIN disk /\ p \in Info
  BY ActiveInfos DEF HeldPartsOnDisk
<1>3. PICK t \in TopLevel : t = p \/ Contains(t, p)
  BY <1>2, TopDominates
<1>4. t \in DOMAIN disk
  BY DEF TopLevel
<1>5. CASE t = p
  BY <1>1, <1>5
<1>6. CASE Contains(t, p) /\ t \in drop.cover
  BY <1>1, <1>6 DEF DropRowsInv
<1>7. CASE Contains(t, p) /\ t \in RenamedParts
  <2>1. PICK k \in Running : tasks[k].phase = "renamed" /\ t = tasks[k].info
    BY <1>7 DEF RenamedParts
  <2>2. k \in Pending /\ Fits(t, tasks[k].src, Active) /\ disk[t] = tasks[k].content
    BY <2>1 DEF Pending, TaskInv, TaskRowsInv
  <2>3. p \in tasks[k].src
    BY <1>2, <1>7, <2>2, ContainedNotDisjoint DEF Fits
  <2>4. r \in DOMAIN disk[t]
    BY <1>1, <2>2, <2>3 DEF TaskRowsInv
  <2>5. QED
    BY <2>4
<1>8. QED
  BY <1>3, <1>4, <1>5, <1>6, <1>7 DEF AboveInv

LEMMA RestartRows == PartsInv /\ PartsInv' /\ RowsInv /\ Restart => RowsInv'
<1> SUFFICES ASSUME PartsInv, PartsInv', RowsInv, Restart PROVE RowsInv'
  OBVIOUS
<1> USE DEF RowsInv
<1>1. /\ parts' = [p \in TopLevel |-> "Active"]
      /\ unloaded' = DOMAIN disk \ TopLevel
      /\ current_mutations' = files
      /\ muts' = [v \in DOMAIN muts |->
                    IF v = starting THEN [muts[v] EXCEPT !.post = RowsOnDisk] ELSE muts[v]]
      /\ used' = [used EXCEPT !["crashes"] = @ + 1]
      /\ inserting' = NoPart /\ starting' = 0
      /\ tasks' = [k \in Tasks |-> NoTask]
      /\ drop' = [phase |-> "idle", cover |-> {}]
      /\ disk' = disk /\ files' = files /\ acked' = acked /\ limbo' = limbo
  BY DEF Restart, table
<1>2. Active' = TopLevel /\ DOMAIN parts' = TopLevel /\ TopLevel \subseteq DOMAIN disk
  BY <1>1 DEF Active, InState, TopLevel
<1>3. Running' = {} /\ Pending' = {} /\ LockFree' /\ drop'.cover = {}
  BY <1>1 DEF Running, Pending, LockFree
<1>4. UsedInv' /\ used'.rows = used.rows
  BY <1>1, UsedStep
<1>5. KnownInv'
  BY <1>1, <1>2 DEF KnownInv
<1>6. MutsInv'
  <2>1. \A v \in DOMAIN muts : DOMAIN muts[v] = {"del", "pre", "post"} /\ muts[v].del \subseteq limbo
    BY DEF MutsInv
  <2>2. ASSUME NEW v \in DOMAIN muts
        PROVE  DOMAIN muts'[v] = {"del", "pre", "post"} /\ muts'[v].del = muts[v].del
    <3>1. CASE v = starting
      BY <1>1, <2>1, <3>1
    <3>2. CASE v # starting
      BY <1>1, <2>1, <3>2
    <3>3. QED
      BY <3>1, <3>2
  <2>3. DOMAIN muts' = DOMAIN muts
    BY <1>1
  <2>4. QED
    BY <1>1, <2>1, <2>2, <2>3 DEF MutsInv
<1>7. PlacesInv'
  BY <1>1, <1>3, <1>4 DEF PlacesInv
<1>8. LastInv'
  <2>1. ASSUME NEW p \in DOMAIN disk PROVE p.max <= increment'
    <3>1. PICK t \in TopLevel : t = p \/ Contains(t, p)
      BY TopDominates DEF PartsInv
    <3>2. t.max <= increment' /\ increment' \in Nat
      BY <1>2, <3>1 DEF PartsInv, NumberInv, TypeInv
    <3>3. t \in Info /\ p \in Info
      BY <1>2 DEF PartsInv, TypeInv
    <3>4. QED
      BY <3>1, <3>2, <3>3 DEF Contains, Info
  <2>2. QED
    BY <1>1, <1>3, <2>1 DEF LastInv
<1>9. AboveInv'
  BY <1>1, <1>2, <1>3 DEF AboveInv, TopLevel
<1>10. TaskRowsInv' /\ DropRowsInv'
  BY <1>3 DEF TaskRowsInv, DropRowsInv
<1>11. AckInv'
  BY <1>1, <1>2, TopPresence DEF AckInv
<1>12. QED
  BY <1>4, <1>5, <1>6, <1>7, <1>8, <1>9, <1>10, <1>11

-----------------------------------------------------------------------------
LEMMA RowsNext == PartsInv /\ PartsInv' /\ RowsInv /\ Step => RowsInv'
<1> SUFFICES ASSUME PartsInv, PartsInv', RowsInv, Step PROVE RowsInv'
  OBVIOUS
<1>1. ASSUME NEW k \in Tasks,
             \/ Merging(k) \/ SelectMutate(k)
             \/ Renames(k) \/ CommitMerge(k) \/ CommitMutate(k) \/ FinishTask(k)
      PROVE  RowsInv'
  BY <1>1, SelectMergeRows, SelectMutateRows, RenameMergeRows, CommitTaskRows, FinishTaskRows
<1>2. ASSUME NEW c \in Cleaners,
             \/ Grab(c) \/ RemovePart(c) \/ ClearEmpty(c)
             \/ ClearOldMutations(c) \/ RemoveFile(c)
      PROVE  RowsInv'
  BY <1>2, GrabRows, RemovePartRows, ClearEmptyRows, CleanMutationsRows
<1>3. ASSUME NEW p \in unloaded, LoadOutdated(p) PROVE RowsInv'
  BY <1>3, LoadOutdatedRows
<1>4. QED
  BY <1>1, <1>2, <1>3, StutterRows, StartInsertRows, CommitInsertRows, StartMutationRows,
     RegisterMutationRows, StopMergesRows, DropGoesOnRows, PrepareDropRows, RenameCoverRows, CommitDropRows,
     ReaderRows, RestartRows
     DEF Step

LEMMA RowsAlways == Spec => [](~raced => PartsInv /\ RowsInv)
<1>1. Init => PartsInv /\ RowsInv
  BY PartsInit, RowsInit
<1>2. (~raced => PartsInv /\ RowsInv) /\ [Next]_vars => (~raced => PartsInv /\ RowsInv)'
  BY RacedStays, StepIs, PartsNext, RowsNext
<1>3. QED
  BY <1>1, <1>2, PTL DEF Spec

LEMMA TopDisjoint ==
  ASSUME Clashes = {}
  PROVE  AllDisjoint(TopLevel)
<1>1. ASSUME NEW p \in TopLevel, NEW q \in TopLevel, p # q PROVE Disjoint(p, q)
  <2>1. <<p, q>> \notin Clashes /\ <<p, q>> \in (DOMAIN disk) \X (DOMAIN disk)
    BY DEF TopLevel
  <2>2. Disjoint(p, q) \/ Contains(p, q) \/ Contains(q, p)
    BY <1>1, <2>1 DEF Clashes, Clash
  <2>3. QED
    BY <1>1, <2>2 DEF TopLevel
<1>2. QED
  BY <1>1 DEF AllDisjoint

\* A row of a finished INSERT is in exactly one part of the table, now and after
\* a crash at this point, until a statement is asked to remove it: whatever is
\* merged, mutated, dropped and cleaned up meanwhile, by any number of threads.
\* Proved as long as no OPTIMIZE FINAL has taken parts from under a DROP.
THEOREM RowsAlwaysVisibleOnce == Spec => [](~raced => RowsVisibleOnce)
<1>1. PartsInv /\ RowsInv => RowsVisibleOnce
  <2>1. ASSUME PartsInv, RowsInv, NEW S, S \subseteq DOMAIN disk, AllDisjoint(S), NEW r
        PROVE  Cardinality(Holders(r, S)) <= 1
    <3>1. ASSUME NEW p \in Holders(r, S), NEW q \in Holders(r, S) PROVE p = q
      <4>1. p \in S /\ q \in S /\ r \in DOMAIN disk[p] \cap DOMAIN disk[q]
        BY DEF Holders
      <4>2. ~Disjoint(p, q)
        BY <2>1, <4>1 DEF RowsInv, PlacesInv
      <4>3. QED
        BY <2>1, <4>1, <4>2 DEF AllDisjoint
    <3>2. CASE Holders(r, S) = {}
      BY <3>2, FS_EmptySet
    <3>3. CASE \E p : p \in Holders(r, S)
      <4>1. PICK p : Holders(r, S) = {p}
        BY <3>1, <3>3
      <4>2. Cardinality({p}) = 1
        BY FS_Singleton
      <4>3. QED
        BY <4>1, <4>2
    <3>4. QED
      BY <3>2, <3>3
  <2>2. ASSUME PartsInv, RowsInv, NEW r \in Rows
        PROVE  /\ Cardinality(Holders(r, Active)) <= 1
               /\ r \in acked \ limbo => Holders(r, Active) # {}
    <3>1. Active \subseteq DOMAIN disk /\ AllDisjoint(Active)
      BY <2>2 DEF PartsInv, HeldPartsOnDisk, TaskInv
    <3>2. r \in acked \ limbo => Holders(r, Active) # {}
      BY <2>2 DEF RowsInv, AckInv, Holders
    <3>3. QED
      BY <2>1, <2>2, <3>1, <3>2
  <2>3. ASSUME PartsInv, RowsInv, Clashes = {}, NEW r \in Rows
        PROVE  /\ Cardinality(Holders(r, TopLevel)) <= 1
               /\ r \in acked \ limbo => Holders(r, TopLevel) # {}
    <3>1. TopLevel \subseteq DOMAIN disk /\ AllDisjoint(TopLevel)
      BY <2>3, TopDisjoint DEF TopLevel
    <3>2. r \in acked \ limbo => Holders(r, TopLevel) # {}
      BY <2>3, TopPresence DEF Holders
    <3>3. QED
      BY <2>1, <2>3, <3>1, <3>2
  <2>4. QED
    BY <2>2, <2>3 DEF RowsVisibleOnce, Views
<1>2. QED
  BY <1>1, RowsAlways, PTL

-----------------------------------------------------------------------------
(* What a crash leaves: nothing that was removed comes back *)

Cleaning == {cleaner[c].part : c \in Cleaners}

\* The parts that are about to be committed.
Coming ==
  (IF drop.phase = "renaming" THEN drop.cover ELSE {}) \cup RenamedParts
    \cup ({inserting} \ {NoPart})

\* Where a part is, by its state.
StatesInv ==
  \A p \in DOMAIN parts :
    \/ parts[p] = "Active"
    \/ parts[p] = "PreActive" /\ p \in Coming
    \/ parts[p] = "Outdated" /\ p \in DOMAIN disk
    \/ parts[p] = "Deleting" /\ p \in DOMAIN disk /\ p \in Cleaning

\* What the parts hold that are about to be committed.
FreshInv ==
  /\ acked \cup dropped \subseteq 1..used.rows
  /\ ~LockFree => DOMAIN disk[inserting] = {used.rows} /\ used.rows \notin acked \cup dropped
  /\ \A p \in drop.cover \cap DOMAIN disk : disk[p] = Nothing

ClashInv == ~crossed => \A p, q \in DOMAIN disk : ~Clash(p, q)

\* A directory that contains t and that nobody is removing.
Kept(t) == \E s \in DOMAIN disk : s # t /\ s \notin Cleaning /\ Contains(s, t)

\* What is replaced goes before what replaced it.
KeptInv == ~crossed =>
  \A t \in DOMAIN disk : disk[t] = Nothing \/ t \in Active \cup Coming \/ Kept(t)

DroppedInv == ~crossed => \A p \in Active : DOMAIN disk[p] \cap dropped = {}

\* The version of a task's part is not below those of all its sources.
VersionInv ==
  /\ \A v \in current_mutations \cup files \cup {starting} : v <= increment
  /\ \A k \in Pending : \E q \in tasks[k].src : DataVersion(q) <= DataVersion(tasks[k].info)

GoneInv == StatesInv /\ FreshInv /\ ClashInv /\ KeptInv /\ DroppedInv /\ VersionInv

LEMMA GoneInit == Init => GoneInv
<1> SUFFICES ASSUME Init PROVE GoneInv
  OBVIOUS
<1>1. /\ DOMAIN parts = {} /\ DOMAIN disk = {} /\ Active = {} /\ LockFree
      /\ drop.cover = {} /\ acked = {} /\ dropped = {} /\ Running = {}
      /\ increment = 0 /\ starting = 0 /\ current_mutations = {} /\ files = {}
  BY DEF Init, Active, InState, LockFree, Running
<1>2. StatesInv /\ FreshInv /\ ClashInv /\ KeptInv /\ DroppedInv
  BY <1>1 DEF StatesInv, FreshInv, ClashInv, KeptInv, DroppedInv
<1>3. VersionInv
  BY <1>1 DEF VersionInv, Pending
<1>4. QED
  BY <1>2, <1>3 DEF GoneInv

\* Numbers are given in order, and the tasks' parts stay as they are.
LEMMA VersionStep ==
  ASSUME PartsInv, VersionInv, increment' \in Nat, increment <= increment',
         \A v \in current_mutations' \cup files' \cup {starting'} :
           v \in current_mutations \cup files \cup {starting} \/ v = 0 \/ v = increment',
         \A j \in Pending' :
           j \in Pending /\ tasks'[j].src = tasks[j].src /\ tasks'[j].info = tasks[j].info
  PROVE  VersionInv'
<1>1. ASSUME NEW v \in current_mutations' \cup files' \cup {starting'} PROVE v <= increment'
  <2>1. CASE v \in current_mutations \cup files \cup {starting}
    <3>1. v \in Nat /\ v <= increment /\ increment \in Nat
      BY <2>1 DEF VersionInv, PartsInv, TypeInv
    <3>2. QED
      BY <3>1
  <2>2. QED
    BY <2>1
<1>2. \A j \in Pending' : \E q \in tasks'[j].src : DataVersion(q) <= DataVersion(tasks'[j].info)
  BY DEF VersionInv
<1>3. QED
  BY <1>1, <1>2 DEF VersionInv

LEMMA ComingSame ==
  ASSUME drop'.phase = "renaming" <=> drop.phase = "renaming",
         drop'.phase = "renaming" => drop'.cover = drop.cover,
         RenamedParts' = RenamedParts, inserting' = inserting
  PROVE  Coming' = Coming
BY DEF Coming

\* A step that changes neither parts nor directories.
LEMMA GoneQuiet ==
  ASSUME GoneInv, UNCHANGED <<parts, disk, inserting, acked, dropped, crossed>>,
         drop'.phase = "renaming" <=> drop.phase = "renaming",
         drop'.phase = "renaming" => drop'.cover = drop.cover,
         \A p \in drop'.cover \cap DOMAIN disk : p \in drop.cover,
         used'.rows = used.rows, RenamedParts' = RenamedParts, Cleaning' = Cleaning, VersionInv'
  PROVE  GoneInv'
<1> USE DEF GoneInv
<1>1. Active' = Active /\ Coming' = Coming
  BY ActiveSame, ComingSame
<1>2. StatesInv'
  BY <1>1 DEF StatesInv
<1>3. FreshInv' /\ ClashInv' /\ DroppedInv'
  BY <1>1 DEF FreshInv, ClashInv, DroppedInv, LockFree
<1>4. KeptInv'
  BY <1>1 DEF KeptInv, Kept
<1>5. QED
  BY <1>2, <1>3, <1>4

LEMMA StutterGone == PartsInv /\ GoneInv /\ Still => GoneInv'
<1> SUFFICES ASSUME PartsInv, GoneInv, Still PROVE GoneInv'
  OBVIOUS
<1>1. UNCHANGED <<parts, disk, inserting, increment, current_mutations, files, starting, tasks,
                  drop, cleaner, used, acked, dropped, crossed>>
  BY DEF Still, table
<1>2. Pending' = Pending /\ RenamedParts' = RenamedParts /\ Cleaning' = Cleaning
  BY <1>1, TasksSame, RenamedSame DEF Cleaning
<1>3. VersionInv'
  BY <1>1, <1>2 DEF GoneInv, VersionInv
<1>4. QED
  BY <1>1, <1>2, <1>3, GoneQuiet

LEMMA ReaderGone == PartsInv /\ RowsInv /\ GoneInv /\ (Read \/ EndRead) => GoneInv'
<1> SUFFICES ASSUME PartsInv, RowsInv, GoneInv, Read \/ EndRead PROVE GoneInv'
  OBVIOUS
<1>1. /\ used' = used \/ used' = [used EXCEPT !["reads"] = @ + 1]
      /\ UNCHANGED <<parts, disk, inserting, increment, current_mutations, files, starting, tasks,
                     drop, cleaner, acked, dropped, crossed>>
  BY DEF Read, EndRead, Use, table
<1>2. Pending' = Pending /\ RenamedParts' = RenamedParts /\ Cleaning' = Cleaning
  BY <1>1, TasksSame, RenamedSame DEF Cleaning
<1>3. VersionInv'
  BY <1>1, <1>2 DEF GoneInv, VersionInv
<1>4. used'.rows = used.rows
  BY <1>1, UsedStep DEF RowsInv
<1>5. QED
  BY <1>1, <1>2, <1>3, <1>4, GoneQuiet

\* The steps of a DROP that move no part.
LEMMA DropPhaseGone ==
  PartsInv /\ RowsInv /\ GoneInv /\ (StopMerges \/ MergesStopped \/ PrepareDrop \/ DropFails)
    => GoneInv'
<1> SUFFICES ASSUME PartsInv, RowsInv, GoneInv,
                    StopMerges \/ MergesStopped \/ PrepareDrop \/ DropFails
             PROVE  GoneInv'
  OBVIOUS
<1>1. /\ used' = used \/ used' = [used EXCEPT !["drops"] = @ + 1]
      /\ drop'.phase # "renaming" /\ drop.phase # "renaming"
      /\ UNCHANGED <<parts, disk, inserting, increment, current_mutations, files, starting, tasks,
                     cleaner, acked, dropped, crossed>>
  BY DEF StopMerges, MergesStopped, PrepareDrop, DropFails, Use, table, PartsInv, TypeInv
<1>2. drop'.cover \cap DOMAIN disk = {}
  <2>1. CASE PrepareDrop
    <3>1. AboveInv' /\ drop'.phase = "covering"
      BY <2>1, PrepareDropRows, PrepareDropEffect DEF RowsInv
    <3>2. QED
      BY <1>1, <3>1 DEF AboveInv
  <2>2. CASE StopMerges \/ MergesStopped \/ DropFails
    BY <2>2 DEF StopMerges, MergesStopped, DropFails, PartsInv, TypeInv, DropInv
  <2>3. QED
    BY <2>1, <2>2
<1>3. Pending' = Pending /\ RenamedParts' = RenamedParts /\ Cleaning' = Cleaning
  BY <1>1, TasksSame, RenamedSame DEF Cleaning
<1>4. VersionInv'
  BY <1>1, <1>3 DEF GoneInv, VersionInv
<1>5. used'.rows = used.rows
  BY <1>1, UsedStep DEF RowsInv
<1>6. QED
  BY <1>1, <1>2, <1>3, <1>4, <1>5, GoneQuiet

LEMMA MutationGone ==
  PartsInv /\ RowsInv /\ GoneInv /\ (StartMutation \/ RegisterMutation) => GoneInv'
<1> SUFFICES ASSUME PartsInv, RowsInv, GoneInv, StartMutation \/ RegisterMutation PROVE GoneInv'
  OBVIOUS
<1>1. /\ used' = used \/ used' = [used EXCEPT !["mutations"] = @ + 1]
      /\ increment' = increment \/ increment' = increment + 1
      /\ \A v \in current_mutations' \cup files' \cup {starting'} :
           v \in current_mutations \cup files \cup {starting} \/ v = 0 \/ v = increment'
      /\ UNCHANGED <<parts, disk, inserting, tasks, drop, cleaner, acked, dropped, crossed>>
  BY DEF StartMutation, RegisterMutation, Use, table
<1>2. Pending' = Pending /\ RenamedParts' = RenamedParts /\ Cleaning' = Cleaning
  BY <1>1, TasksSame, RenamedSame DEF Cleaning
<1>3. VersionInv'
  BY <1>1, <1>2, VersionStep DEF GoneInv, PartsInv, TypeInv
<1>4. used'.rows = used.rows
  BY <1>1, UsedStep DEF RowsInv
<1>5. QED
  BY <1>1, <1>2, <1>3, <1>4, GoneQuiet

\* A cleaner that takes other mutation files removes the same part.
LEMMA CleaningSame ==
  ASSUME TypeInv, NEW c \in Cleaners, NEW f, cleaner' = [cleaner EXCEPT ![c].files = f]
  PROVE  Cleaning' = Cleaning
<1> DEFINE one == [cleaner[c] EXCEPT !.files = f]
<1>1. cleaner' = [cleaner EXCEPT ![c] = one] /\ DOMAIN cleaner = Cleaners
  BY DEF TypeInv
<1>2. one.part = cleaner[c].part
  BY DEF TypeInv
<1> HIDE DEF one
<1>3. \A d \in Cleaners : cleaner'[d].part = cleaner[d].part
  BY <1>1, <1>2
<1>4. QED
  BY <1>3 DEF Cleaning

LEMMA CleanMutationsGone ==
  ASSUME PartsInv, RowsInv, GoneInv, NEW c \in Cleaners, ClearOldMutations(c) \/ RemoveFile(c)
  PROVE  GoneInv'
<1>1. /\ current_mutations' \subseteq current_mutations /\ files' \subseteq files
      /\ UNCHANGED <<parts, disk, inserting, increment, starting, tasks, drop, used, acked, dropped,
                     crossed>>
  BY DEF ClearOldMutations, RemoveFile, table
<1>2. \E f : cleaner' = [cleaner EXCEPT ![c].files = f]
  BY DEF ClearOldMutations, RemoveFile
<1>3. Pending' = Pending /\ RenamedParts' = RenamedParts /\ Cleaning' = Cleaning
  BY <1>1, <1>2, TasksSame, RenamedSame, CleaningSame DEF PartsInv
<1>4. VersionInv'
  BY <1>1, <1>3, VersionStep DEF GoneInv, PartsInv, TypeInv
<1>5. QED
  BY <1>1, <1>3, <1>4, GoneQuiet

LEMMA FinishTaskGone ==
  ASSUME PartsInv, RowsInv, GoneInv, NEW k \in Tasks, FinishTask(k)
  PROVE  GoneInv'
<1>1. /\ k \in Running /\ tasks' = [tasks EXCEPT ![k] = NoTask] /\ tasks[k].phase # "renamed"
      /\ UNCHANGED <<parts, disk, inserting, increment, current_mutations, files, starting, drop,
                     cleaner, used, acked, dropped, crossed>>
  BY DEF FinishTask, table
<1>2. Running' = Running \ {k} /\ \A j \in Running' : tasks'[j] = tasks[j]
  BY <1>1 DEF PartsInv, TypeInv, Running
<1>3. \A j \in Pending' : j \in Pending /\ tasks'[j] = tasks[j]
  BY <1>2 DEF Pending
<1>4. RenamedParts' = RenamedParts
  BY <1>1, <1>2 DEF RenamedParts
<1>5. VersionInv'
  BY <1>1, <1>3, VersionStep DEF GoneInv, PartsInv, TypeInv
<1>6. Cleaning' = Cleaning
  BY <1>1 DEF Cleaning
<1>7. QED
  BY <1>1, <1>4, <1>5, <1>6, GoneQuiet

LEMMA StartGone ==
  ASSUME PartsInv, GoneInv, NEW k \in Tasks, tasks[k] = NoTask, NEW S,
         NEW kind, NEW m, NEW content, Start(k, kind, S, m, content),
         \E q \in S : DataVersion(q) <= DataVersion(m)
  PROVE  GoneInv'
<1> DEFINE new == [kind |-> kind, src |-> S, info |-> m, content |-> content,
                   phase |-> "running"]
<1>1. /\ tasks' = [tasks EXCEPT ![k] = new]
      /\ UNCHANGED <<parts, disk, inserting, increment, current_mutations, files, starting, drop,
                     cleaner, used, acked, dropped, crossed>>
  BY DEF Start, table
<1>2. new.src = S /\ new.info = m /\ new.phase = "running"
  OBVIOUS
<1> HIDE DEF new
<1>3. tasks'[k] = new /\ \A j \in Tasks \ {k} : tasks'[j] = tasks[j]
  BY <1>1 DEF PartsInv, TypeInv
<1>4. Pending' \subseteq Pending \cup {k} /\ k \notin Running /\ Pending \subseteq Tasks
  BY <1>3 DEF Pending, Running
<1>5. RenamedParts' = RenamedParts
  <2>1. \A j \in Tasks : j \in Running' /\ tasks'[j].phase = "renamed"
                           <=> j \in Running /\ tasks[j].phase = "renamed"
    BY <1>2, <1>3, <1>4 DEF Running
  <2>2. \A j \in Running : tasks'[j] = tasks[j]
    BY <1>3, <1>4 DEF Running
  <2>3. QED
    BY <2>1, <2>2 DEF RenamedParts, Running
<1>6. VersionInv'
  <2>1. ASSUME NEW j \in Pending'
        PROVE  \E q \in tasks'[j].src : DataVersion(q) <= DataVersion(tasks'[j].info)
    <3>1. CASE j = k
      BY <1>2, <1>3, <3>1
    <3>2. CASE j # k
      BY <1>3, <1>4, <3>2 DEF GoneInv, VersionInv
    <3>3. QED
      BY <3>1, <3>2
  <2>2. QED
    BY <1>1, <2>1 DEF GoneInv, VersionInv
<1>7. Cleaning' = Cleaning
  BY <1>1 DEF Cleaning
<1>8. QED
  BY <1>1, <1>5, <1>6, <1>7, GoneQuiet

\* A merged part is not below all its sources.
LEMMA MergedVersion ==
  ASSUME PartsInv, NEW S, S \subseteq Active, S # {}, NEW m, m = MergedInfo(S)
  PROVE  \E q \in S : DataVersion(q) <= DataVersion(m)
<1>1. /\ \E q \in S : q.min = m.min
      /\ \E q \in S : q.mutation = m.mutation
      /\ \A q \in S : m.min <= q.min /\ q.mutation <= m.mutation
      /\ m.min \in Nat /\ m.mutation \in Nat
  BY MergedNumbers DEF Info
<1>2. S \subseteq Info
  BY ActiveInfos DEF PartsInv
<1>3. CASE m.mutation = 0
  <2>1. PICK q \in S : q.min = m.min
    BY <1>1
  <2>2. q.mutation = 0
    BY <1>1, <1>2, <1>3 DEF Info
  <2>3. QED
    BY <1>3, <1>1, <2>1, <2>2 DEF DataVersion
<1>4. CASE m.mutation # 0
  <2>1. PICK q \in S : q.mutation = m.mutation
    BY <1>1
  <2>2. QED
    BY <1>1, <1>4, <2>1 DEF DataVersion
<1>5. QED
  BY <1>3, <1>4

LEMMA SelectMergeGone ==
  ASSUME PartsInv, GoneInv, NEW k \in Tasks, Merging(k)
  PROVE  GoneInv'
<1>1. PICK S \in SUBSET (Active \ Tagged) :
        Mergeable(S) /\ Start(k, "merge", S, MergedInfo(S), MergedContent(S))
  BY DEF Merging
<1>2. S # {} /\ S \subseteq Active
  BY <1>1, FS_EmptySet DEF Mergeable
<1>3. PICK m : m = MergedInfo(S)
  OBVIOUS
<1>4. PICK content : content = MergedContent(S)
  OBVIOUS
<1>5. Start(k, "merge", S, m, content) /\ tasks[k] = NoTask
  BY <1>1, <1>3, <1>4 DEF Merging
<1>6. \E q \in S : DataVersion(q) <= DataVersion(m)
  BY <1>2, <1>3, MergedVersion
<1>7. QED
  BY <1>5, <1>6, StartGone

LEMMA SelectMutateGone ==
  ASSUME PartsInv, GoneInv, NEW k \in Tasks, SelectMutate(k)
  PROVE  GoneInv'
<1>1. PICK p \in Active \ Tagged, v \in current_mutations :
        /\ v > DataVersion(p)
        /\ \E content : Start(k, "mutate", {p}, [p EXCEPT !.mutation = v], content)
  BY DEF SelectMutate
<1>2. PICK content : Start(k, "mutate", {p}, [p EXCEPT !.mutation = v], content)
  BY <1>1
<1>3. p \in Info /\ v \in Nat
  BY ActiveInfos DEF PartsInv, TypeInv
<1>4. PICK m : m = [p EXCEPT !.mutation = v]
  OBVIOUS
<1>5. m.min = p.min /\ m.mutation = v
  BY <1>3, <1>4 DEF Info
<1>6. DataVersion(p) \in Nat /\ DataVersion(m) = v
  BY <1>1, <1>3, <1>5 DEF DataVersion, Info
<1>7. PICK S : S = {p}
  OBVIOUS
<1>8. Start(k, "mutate", S, m, content) /\ tasks[k] = NoTask
  BY <1>2, <1>4, <1>7 DEF SelectMutate
<1>9. \E q \in S : DataVersion(q) <= DataVersion(m)
  BY <1>1, <1>3, <1>6, <1>7
<1>10. QED
  BY <1>8, <1>9, StartGone

-----------------------------------------------------------------------------
(* The steps that change parts or directories *)

LEMMA NoPartIsNone == NoPart \notin Info
BY NoPartAssumption DEF Info

\* What is being removed is neither active nor about to be committed.
LEMMA NotCleaned ==
  ASSUME PartsInv, NEW s \in Info, s \in DOMAIN parts => parts[s] # "Deleting"
  PROVE  s \notin Cleaning
BY NoPartIsNone DEF PartsInv, CleanerInv, Cleaning

\* Parts and directories are added, and those that leave the working set are
\* empty or lie in one that is not being removed.
LEMMA KeptStep ==
  ASSUME KeptInv, crossed => crossed', Cleaning' = Cleaning,
         DOMAIN disk \subseteq DOMAIN disk', \A q \in DOMAIN disk : disk'[q] = disk[q],
         \A t \in DOMAIN disk' \ DOMAIN disk : t \in Active' \cup Coming',
         \A t \in (Active \cup Coming) \cap DOMAIN disk :
           \/ disk[t] = Nothing \/ t \in Active' \cup Coming'
           \/ \E s \in DOMAIN disk' : s # t /\ s \notin Cleaning /\ Contains(s, t)
  PROVE  KeptInv'
<1> SUFFICES ASSUME ~crossed', NEW t \in DOMAIN disk'
             PROVE  disk'[t] = Nothing \/ t \in Active' \cup Coming' \/ Kept(t)'
  BY DEF KeptInv
<1>1. CASE t \in DOMAIN disk
  <2>1. disk[t] = Nothing \/ t \in Active \cup Coming \/ Kept(t)
    BY <1>1 DEF KeptInv
  <2>2. CASE Kept(t)
    BY <2>2 DEF Kept
  <2>3. CASE t \in Active \cup Coming
    BY <1>1, <2>3 DEF Kept
  <2>4. QED
    BY <1>1, <2>1, <2>2, <2>3
<1>2. QED
  BY <1>1

LEMMA ClashStep ==
  ASSUME TypeInv, ClashInv, NEW m \in Info, NEW content, AddDirectory(m, content)
  PROVE  ClashInv' /\ (crossed => crossed')
<1>1. DOMAIN disk' = DOMAIN disk \cup {m}
  BY DEF AddDirectory, With
<1>2. ~crossed' => ~crossed /\ \A q \in DOMAIN disk : ~Clash(m, q)
  BY DEF AddDirectory
<1>3. ASSUME ~crossed', NEW p \in DOMAIN disk', NEW q \in DOMAIN disk' PROVE ~Clash(p, q)
  <2>1. CASE p \in DOMAIN disk /\ q \in DOMAIN disk
    BY <1>2, <1>3, <2>1 DEF ClashInv
  <2>2. CASE p = m /\ q \in DOMAIN disk
    BY <1>2, <1>3, <2>2
  <2>3. CASE p \in DOMAIN disk /\ q = m
    <3>1. ~Clash(m, p) /\ p \in Info
      BY <1>2, <1>3, <2>3 DEF TypeInv
    <3>2. QED
      BY <2>3, <3>1, DisjointSymmetric DEF Clash
  <2>4. CASE p = m /\ q = m
    BY <2>4 DEF Clash
  <2>5. QED
    BY <1>1, <2>1, <2>2, <2>3, <2>4
<1>4. QED
  BY <1>2, <1>3 DEF ClashInv

LEMMA LoadOutdatedGone ==
  ASSUME PartsInv, RowsInv, GoneInv, NEW p \in unloaded, LoadOutdated(p)
  PROVE  GoneInv'
<1> USE DEF GoneInv
<1>1. /\ parts' = With(parts, {p}, "Outdated")
      /\ UNCHANGED <<disk, inserting, increment, current_mutations, files, starting, tasks, drop,
                     cleaner, used, acked, dropped, crossed>>
  BY DEF LoadOutdated, table
<1>2. p \notin DOMAIN parts /\ p \in DOMAIN disk
  BY DEF PartsInv, UnloadedInv
<1>3. /\ DOMAIN parts' = DOMAIN parts \cup {p} /\ parts'[p] = "Outdated"
      /\ \A q \in DOMAIN parts : parts'[q] = parts[q]
  BY <1>1, <1>2 DEF With
<1>4. Active' = Active
  BY <1>2, <1>3 DEF Active, InState
<1>5. Pending' = Pending /\ RenamedParts' = RenamedParts /\ Cleaning' = Cleaning
  BY <1>1, TasksSame, RenamedSame DEF Cleaning
<1>6. Coming' = Coming
  BY <1>1, <1>5, ComingSame
<1>7. StatesInv'
  BY <1>1, <1>2, <1>3, <1>5, <1>6 DEF StatesInv
<1>8. FreshInv' /\ ClashInv' /\ DroppedInv' /\ VersionInv'
  BY <1>1, <1>4, <1>5 DEF FreshInv, ClashInv, DroppedInv, VersionInv, LockFree
<1>9. KeptInv'
  BY <1>1, <1>4, <1>5, <1>6 DEF KeptInv, Kept
<1>10. QED
  BY <1>7, <1>8, <1>9

LEMMA ClearEmptyGone ==
  ASSUME PartsInv, RowsInv, GoneInv, NEW c \in Cleaners, ClearEmpty(c)
  PROVE  GoneInv'
<1> USE DEF GoneInv
<1>1. PICK p \in Active \ Tagged :
           /\ p \in DOMAIN disk /\ disk[p] = Nothing
           /\ parts' = [parts EXCEPT ![p] = "Outdated"]
           /\ Active' = Active \ {p} /\ DOMAIN parts' = DOMAIN parts
           /\ \A q \in DOMAIN parts \ {p} : parts'[q] = parts[q]
           /\ UNCHANGED <<disk, inserting, increment, current_mutations, files, starting, tasks,
                          drop, cleaner, used, table, crossed>>
  BY ClearEmptyEffect
<1>2. acked' = acked /\ dropped' = dropped
  BY <1>1 DEF table
<1>3. Pending' = Pending /\ RenamedParts' = RenamedParts /\ Cleaning' = Cleaning
  BY <1>1, TasksSame, RenamedSame DEF Cleaning
<1>4. Coming' = Coming
  BY <1>1, <1>3, ComingSame
<1>5. p \in DOMAIN parts /\ parts'[p] = "Outdated"
  BY <1>1 DEF Active, InState
<1>6. StatesInv'
  BY <1>1, <1>3, <1>4, <1>5 DEF StatesInv
<1>7. FreshInv' /\ ClashInv' /\ DroppedInv' /\ VersionInv'
  BY <1>1, <1>2, <1>3 DEF FreshInv, ClashInv, DroppedInv, VersionInv, LockFree
<1>8. KeptInv'
  BY <1>1, <1>3, <1>4, KeptStep
<1>9. QED
  BY <1>6, <1>7, <1>8

LEMMA StartInsertGone == PartsInv /\ RowsInv /\ GoneInv /\ StartInsert => GoneInv'
<1> SUFFICES ASSUME PartsInv, RowsInv, GoneInv, StartInsert PROVE GoneInv'
  OBVIOUS
<1> USE DEF GoneInv
<1>0. PICK m : m = inserting'
  OBVIOUS
<1>1. /\ LockFree /\ m \in Info /\ m \notin DOMAIN parts
      /\ increment \in Nat /\ increment' = increment + 1
      /\ Active' = Active /\ DOMAIN parts' = DOMAIN parts \cup {m}
      /\ \A q \in DOMAIN parts : parts'[q] = parts[q]
      /\ parts'[m] = "PreActive"
      /\ NewDirectory(m, [r \in {used.rows + 1} |-> <<>>])
      /\ used.rows \in Nat /\ used'.rows = used.rows + 1
      /\ UNCHANGED <<current_mutations, files, starting, tasks, drop, cleaner, table>>
  BY <1>0, StartInsertEffect
<1>2. acked' = acked /\ dropped' = dropped
  BY <1>1 DEF table
<1>3. /\ m \notin DOMAIN disk /\ DOMAIN disk' = DOMAIN disk \cup {m}
      /\ \A q \in DOMAIN disk : disk'[q] = disk[q]
      /\ DOMAIN disk'[m] = {used.rows + 1}
  BY <1>1 DEF NewDirectory
<1>4. \E content : AddDirectory(m, content)
  BY <1>0 DEF StartInsert
<1>5. ClashInv' /\ (crossed => crossed')
  BY <1>1, <1>4, ClashStep DEF PartsInv
<1>6. Pending' = Pending /\ RenamedParts' = RenamedParts /\ Cleaning' = Cleaning
  BY <1>1, TasksSame, RenamedSame DEF Cleaning
<1>7. Coming' = Coming \cup {m} /\ ~LockFree'
  BY <1>0, <1>1, <1>6, NoPartIsNone DEF Coming, LockFree
<1>8. StatesInv'
  BY <1>1, <1>3, <1>6, <1>7 DEF StatesInv
<1>9. FreshInv'
  <2>1. acked' \cup dropped' \subseteq 1..used'.rows
    BY <1>1, <1>2 DEF FreshInv
  <2>2. DOMAIN disk'[m] = {used'.rows} /\ used'.rows \notin acked' \cup dropped'
    <3>1. used.rows + 1 \notin 1..used.rows
      BY <1>1
    <3>2. used.rows + 1 \notin acked \cup dropped
      BY <3>1 DEF FreshInv
    <3>3. used'.rows = used.rows + 1
      BY <1>1
    <3>4. QED
      BY <1>2, <1>3, <3>2, <3>3
  <2>3. \A p \in drop'.cover \cap DOMAIN disk' : disk'[p] = Nothing
    <3>1. m \notin drop.cover
      BY <1>0, <1>1, StartInsertEffect DEF PartsInv, NumberInv, TypeInv
    <3>2. QED
      BY <1>1, <1>3, <3>1 DEF FreshInv
  <2>4. QED
    BY <1>0, <2>1, <2>2, <2>3 DEF FreshInv
<1>10. KeptInv'
  BY <1>1, <1>3, <1>5, <1>6, <1>7, KeptStep
<1>11. DroppedInv'
  <2>1. Active \subseteq DOMAIN disk
    BY DEF PartsInv, HeldPartsOnDisk
  <2>2. QED
    BY <1>1, <1>2, <1>3, <1>5, <2>1 DEF DroppedInv
<1>12. VersionInv'
  BY <1>1, <1>6, VersionStep
<1>13. QED
  BY <1>5, <1>8, <1>9, <1>10, <1>11, <1>12

LEMMA CommitInsertGone == PartsInv /\ RowsInv /\ GoneInv /\ CommitInsert => GoneInv'
<1> SUFFICES ASSUME PartsInv, RowsInv, GoneInv, CommitInsert PROVE GoneInv'
  OBVIOUS
<1> USE DEF GoneInv
<1>1. /\ inserting \in DOMAIN disk
      /\ Active' = Active \cup {inserting}
      /\ DOMAIN parts' = DOMAIN parts
      /\ \A q \in DOMAIN parts \ {inserting} : parts'[q] = parts[q]
      /\ ~LockFree /\ LockFree' /\ acked' = acked \cup {used.rows}
      /\ UNCHANGED <<disk, increment, current_mutations, files, starting, tasks, drop, cleaner,
                     used, dropped, crossed>>
  BY CommitInsertEffect
<1>2. Pending' = Pending /\ RenamedParts' = RenamedParts /\ Cleaning' = Cleaning
  BY <1>1, TasksSame, RenamedSame DEF Cleaning
<1>3. Coming \subseteq Coming' \cup {inserting} /\ Active \cup Coming \subseteq Active' \cup Coming'
  BY <1>1, <1>2 DEF Coming, LockFree
<1>4. StatesInv'
  <2>1. parts'[inserting] = "Active"
    BY <1>1 DEF Active, InState
  <2>2. QED
    BY <1>1, <1>2, <1>3, <2>1 DEF StatesInv
<1>5. FreshInv'
  <2>1. used.rows \in 1..used.rows
    BY <1>1 DEF FreshInv, RowsInv, PlacesInv
  <2>2. QED
    BY <1>1, <2>1 DEF FreshInv
<1>6. ClashInv' /\ VersionInv'
  BY <1>1, <1>2 DEF ClashInv, VersionInv
<1>7. KeptInv'
  BY <1>1, <1>2, <1>3, KeptStep
<1>8. DroppedInv'
  BY <1>1 DEF DroppedInv, FreshInv
<1>9. QED
  BY <1>4, <1>5, <1>6, <1>7, <1>8

LEMMA RenameMergeGone ==
  ASSUME PartsInv, RowsInv, GoneInv, NEW k \in Tasks, Renames(k)
  PROVE  GoneInv'
<1> USE DEF GoneInv
<1>0. PICK m : m = tasks[k].info
  OBVIOUS
<1>1. /\ k \in Pending /\ LockFree /\ m \notin DOMAIN parts
      /\ Active' = Active /\ DOMAIN parts' = DOMAIN parts \cup {m}
      /\ \A q \in DOMAIN parts : parts'[q] = parts[q]
      /\ parts'[m] = "PreActive"
      /\ NewDirectory(m, tasks[k].content)
      /\ GoesOn(k, "renamed")
      /\ UNCHANGED <<inserting, increment, current_mutations, files, starting, drop, cleaner,
                     used, table>>
  BY <1>0, RenameMergeEffect DEF GoesOn
<1>2. acked' = acked /\ dropped' = dropped /\ LockFree'
  BY <1>1 DEF table, LockFree
<1>3. /\ m \notin DOMAIN disk /\ DOMAIN disk' = DOMAIN disk \cup {m}
      /\ \A q \in DOMAIN disk : disk'[q] = disk[q]
  BY <1>1 DEF NewDirectory
<1>4. AddDirectory(m, tasks[k].content) /\ m \in Info /\ k \in Running
  BY <1>0, <1>1 DEF Renames, PartsInv, TaskInv, Fits, Pending
<1>5. ClashInv' /\ (crossed => crossed')
  BY <1>4, ClashStep DEF PartsInv
<1>6. /\ Running' = Running
      /\ \A j \in Running :
              /\ tasks'[j].src = tasks[j].src /\ tasks'[j].info = tasks[j].info
              /\ tasks'[j].phase = IF j = k THEN "renamed" ELSE tasks[j].phase
  BY <1>1, <1>4, PhaseFields DEF PartsInv
<1>7. Pending' \subseteq Pending /\ RenamedParts \cup {m} \subseteq RenamedParts'
  BY <1>0, <1>1, <1>4, <1>6 DEF Pending, RenamedParts
<1>8. Cleaning' = Cleaning /\ Coming \cup {m} \subseteq Coming'
  BY <1>1, <1>7 DEF Cleaning, Coming
<1>9. StatesInv'
  BY <1>1, <1>3, <1>8 DEF StatesInv
<1>10. FreshInv'
  <2>1. drop.cover = {}
    BY <1>4 DEF PartsInv, DropInv
  <2>2. QED
    BY <1>1, <1>2, <1>3, <2>1 DEF FreshInv
<1>11. KeptInv'
  BY <1>1, <1>3, <1>5, <1>8, KeptStep
<1>12. DroppedInv'
  <2>1. Active \subseteq DOMAIN disk
    BY DEF PartsInv, HeldPartsOnDisk
  <2>2. QED
    BY <1>1, <1>2, <1>3, <1>5, <2>1 DEF DroppedInv
<1>13. VersionInv'
  <2>1. \A j \in Pending' :
           j \in Pending /\ tasks'[j].src = tasks[j].src /\ tasks'[j].info = tasks[j].info
    BY <1>6, <1>7 DEF Pending
  <2>2. QED
    BY <1>1, <2>1 DEF VersionInv
<1>14. QED
  BY <1>5, <1>9, <1>10, <1>11, <1>12, <1>13

\* The states that Transaction::commit leaves.
LEMMA CommittedStates ==
  ASSUME NEW N, N \subseteq DOMAIN parts, parts' = Committed(N), NEW p \in DOMAIN parts
  PROVE  \/ parts'[p] = "Active"
         \/ parts'[p] = "Outdated" /\ p \in N \cup Active
         \/ parts'[p] = parts[p] /\ p \notin N
<1> DEFINE fresh == {q \in N : Covering(q, Active) = {}}
           old == UNION {Covered(q, Active) : q \in fresh}
<1>1. parts' = [q \in DOMAIN parts |->
                  IF q \in fresh THEN "Active"
                  ELSE IF q \in N \cup old THEN "Outdated" ELSE parts[q]]
  BY DEF Committed
<1>2. old \subseteq Active
  BY DEF Covered, Reached
<1> HIDE DEF fresh, old
<1>3. QED
  BY <1>1, <1>2

LEMMA CommitTaskStates ==
  ASSUME PartsInv, NEW k \in Tasks, CommitMerge(k) \/ CommitMutate(k), NEW m, m = tasks[k].info,
         NEW p \in DOMAIN parts'
  PROVE  \/ parts'[p] = "Active"
         \/ parts'[p] = "Outdated" /\ p \in {m} \cup Active
         \/ p \in DOMAIN parts \ {m} /\ parts'[p] = parts[p]
<1>1. CASE CommitMerge(k)
  <2>1. PICK N : N = {m}
    OBVIOUS
  <2>2. parts' = Committed(N) /\ N \subseteq DOMAIN parts /\ DOMAIN parts' = DOMAIN parts
    BY <1>1, <2>1 DEF CommitMerge, PartsInv, PlaceInv, Committed
  <2>3. QED
    BY <2>1, <2>2, CommittedStates
<1>2. CASE CommitMutate(k)
  <2>1. /\ parts' = [q \in DOMAIN parts \cup {m} |->
                      IF q = m THEN IF Covering(m, Active) = {} THEN "Active" ELSE "Outdated"
                      ELSE IF Covering(m, Active) = {} /\ q \in Covered(m, Active) THEN "Outdated"
                      ELSE parts[q]]
    BY <1>2 DEF CommitMutate, With
  <2>2. Covered(m, Active) \subseteq Active
    BY DEF Covered, Reached
  <2>3. QED
    BY <2>1, <2>2
<1>3. QED
  BY <1>1, <1>2

LEMMA CommitTaskGone ==
  ASSUME PartsInv, RowsInv, GoneInv, NEW k \in Tasks, CommitMerge(k) \/ CommitMutate(k)
  PROVE  GoneInv'
<1> USE DEF GoneInv
<1>0. PICK m : m = tasks[k].info
  OBVIOUS
<1>1. /\ k \in Pending /\ LockFree
      /\ Active' = (Active \ tasks[k].src) \cup {m}
      /\ DOMAIN parts' = DOMAIN parts \cup {m}
      /\ DOMAIN disk' = DOMAIN disk \cup {m} /\ disk'[m] = tasks[k].content
      /\ \A q \in DOMAIN disk : disk'[q] = disk[q]
      /\ GoesOn(k, "committed")
      /\ UNCHANGED <<inserting, increment, current_mutations, files, starting, drop, cleaner,
                     used, table>>
  BY <1>0, CommitTaskEffect DEF GoesOn
<1>2. acked' = acked /\ dropped' = dropped /\ LockFree'
  BY <1>1 DEF table, LockFree
<1>3. k \in Running /\ Fits(m, tasks[k].src, Active) /\ m \in Info
  BY <1>0, <1>1 DEF Pending, PartsInv, TaskInv, Fits
<1>4. Active \subseteq DOMAIN disk /\ tasks[k].src \subseteq DOMAIN disk
  BY <1>3 DEF PartsInv, HeldPartsOnDisk, Tagged
<1>5. ClashInv' /\ (crossed => crossed')
  <2>1. CASE CommitMerge(k)
    BY <2>1 DEF CommitMerge, ClashInv
  <2>2. CASE CommitMutate(k)
    <3>1. AddDirectory(m, tasks[k].content)
      BY <1>0, <2>2 DEF CommitMutate
    <3>2. QED
      BY <1>3, <3>1, ClashStep DEF PartsInv
  <2>3. QED
    BY <2>1, <2>2
<1>6. /\ Running' = Running
      /\ \A j \in Running :
              /\ tasks'[j].src = tasks[j].src /\ tasks'[j].info = tasks[j].info
              /\ tasks'[j].phase = IF j = k THEN "committed" ELSE tasks[j].phase
  BY <1>1, <1>3, PhaseFields DEF PartsInv
<1>7. Pending' \subseteq Pending /\ RenamedParts \subseteq RenamedParts' \cup {m}
  BY <1>0, <1>3, <1>6 DEF Pending, RenamedParts
<1>8. Cleaning' = Cleaning /\ Coming \subseteq Coming' \cup {m}
  BY <1>1, <1>7 DEF Cleaning, Coming
<1>9. m \notin Cleaning
  <2>1. m \in DOMAIN parts => parts[m] # "Deleting"
    <3>1. CASE CommitMerge(k)
      BY <1>0, <3>1 DEF CommitMerge, PartsInv, PlaceInv
    <3>2. CASE CommitMutate(k)
      BY <1>0, <3>2 DEF CommitMutate, MayAdd
    <3>3. QED
      BY <3>1, <3>2
  <2>2. QED
    BY <1>3, <2>1, NotCleaned
<1>10. StatesInv'
  <2>1. ASSUME NEW p \in DOMAIN parts'
        PROVE  \/ parts'[p] = "Active"
               \/ parts'[p] = "PreActive" /\ p \in Coming'
               \/ parts'[p] = "Outdated" /\ p \in DOMAIN disk'
               \/ parts'[p] = "Deleting" /\ p \in DOMAIN disk' /\ p \in Cleaning'
    <3>1. \/ parts'[p] = "Active"
          \/ parts'[p] = "Outdated" /\ p \in {m} \cup Active
          \/ p \in DOMAIN parts \ {m} /\ parts'[p] = parts[p]
      BY <1>0, CommitTaskStates
    <3>2. CASE p \in DOMAIN parts \ {m} /\ parts'[p] = parts[p]
      BY <1>1, <1>8, <3>2 DEF StatesInv
    <3>3. QED
      BY <1>1, <1>4, <3>1, <3>2
  <2>2. QED
    BY <2>1 DEF StatesInv
<1>11. FreshInv'
  <2>1. drop.cover = {}
    BY <1>3, NoCover
  <2>2. QED
    BY <1>1, <1>2, <2>1 DEF FreshInv
<1>12. KeptInv'
  <2>1. ASSUME NEW t \in (Active \cup Coming) \cap DOMAIN disk
        PROVE  \/ t \in Active' \cup Coming'
               \/ \E s \in DOMAIN disk' : s # t /\ s \notin Cleaning /\ Contains(s, t)
    <3>1. CASE t \in tasks[k].src
      BY <1>1, <1>3, <1>9, <3>1 DEF Fits
    <3>2. CASE t \notin tasks[k].src
      BY <1>1, <1>8, <3>2
    <3>3. QED
      BY <3>1, <3>2
  <2>2. QED
    BY <1>1, <1>5, <1>8, <2>1, KeptStep
<1>13. DroppedInv'
  <2>1. SUFFICES ASSUME ~crossed', NEW p \in Active' PROVE DOMAIN disk'[p] \cap dropped = {}
    BY <1>2 DEF DroppedInv
  <2>2. CASE p = m
    <3>1. \A r \in DOMAIN tasks[k].content : \E q \in tasks[k].src : r \in DOMAIN disk[q]
      BY <1>1 DEF RowsInv, TaskRowsInv
    <3>2. tasks[k].src \subseteq Active
      BY <1>3 DEF Fits
    <3>3. QED
      BY <1>1, <1>5, <2>1, <2>2, <3>1, <3>2 DEF DroppedInv
  <2>3. CASE p \in Active
    BY <1>1, <1>4, <1>5, <2>1, <2>3 DEF DroppedInv
  <2>4. QED
    BY <1>1, <2>2, <2>3
<1>14. VersionInv'
  <2>1. \A j \in Pending' :
           j \in Pending /\ tasks'[j].src = tasks[j].src /\ tasks'[j].info = tasks[j].info
    BY <1>6, <1>7 DEF Pending
  <2>2. QED
    BY <1>1, <2>1 DEF VersionInv
<1>15. QED
  BY <1>5, <1>10, <1>11, <1>12, <1>13, <1>14

LEMMA AddCoverGone == PartsInv /\ RowsInv /\ GoneInv /\ AddCover => GoneInv'
<1> SUFFICES ASSUME PartsInv, RowsInv, GoneInv, AddCover PROVE GoneInv'
  OBVIOUS
<1> USE DEF GoneInv
<1>0. PICK N : N = drop.cover
  OBVIOUS
<1>1. /\ parts' = With(parts, N, "PreActive") /\ N \cap DOMAIN parts = {}
      /\ drop.phase = "covering" /\ drop'.phase = "renaming" /\ drop'.cover = N
      /\ UNCHANGED <<disk, inserting, increment, current_mutations, files, starting, tasks,
                     cleaner, used, acked, dropped, crossed>>
  BY <1>0 DEF AddCover, MayAdd, table, PartsInv, TypeInv
<1>2. /\ Active' = Active /\ DOMAIN parts' = DOMAIN parts \cup N
      /\ \A p \in DOMAIN parts : parts'[p] = parts[p]
      /\ \A p \in N : parts'[p] = "PreActive"
  BY <1>1, AddPreActive
<1>3. Pending' = Pending /\ RenamedParts' = RenamedParts /\ Cleaning' = Cleaning
  BY <1>1, TasksSame, RenamedSame DEF Cleaning
<1>4. Coming' = Coming \cup N
  BY <1>0, <1>1, <1>3 DEF Coming
<1>5. StatesInv'
  BY <1>1, <1>2, <1>3, <1>4 DEF StatesInv
<1>6. FreshInv'
  BY <1>0, <1>1 DEF FreshInv, LockFree
<1>7. ClashInv' /\ DroppedInv' /\ VersionInv'
  BY <1>1, <1>2, <1>3 DEF ClashInv, DroppedInv, VersionInv
<1>8. KeptInv'
  BY <1>1, <1>2, <1>3, <1>4, KeptStep
<1>9. QED
  BY <1>5, <1>6, <1>7, <1>8

LEMMA RenameCoverGone == PartsInv /\ RowsInv /\ GoneInv /\ RenameCover => GoneInv'
<1> SUFFICES ASSUME PartsInv, RowsInv, GoneInv, RenameCover PROVE GoneInv'
  OBVIOUS
<1> USE DEF GoneInv
<1>1. PICK m \in drop.cover \ DOMAIN disk :
        /\ AddDirectory(m, Nothing)
        /\ UNCHANGED <<parts, inserting, increment, current_mutations, files, starting, tasks,
                       drop, cleaner, used, table>>
  <2> DEFINE todo == drop.cover \ DOMAIN disk
             m == CHOOSE p \in todo : \A q \in todo \ {p} : Less(p, q)
  <2>1. PICK n \in drop.cover : NewDirectory(n, Nothing)
    BY RenameCoverEffect
  <2>2. AddDirectory(m, Nothing)
        /\ UNCHANGED <<parts, inserting, increment, current_mutations, files, starting, tasks,
                       drop, cleaner, used, table>>
    BY DEF RenameCover
  <2>3. n = m
    <3> HIDE DEF m
    <3> QED
      BY <2>1, <2>2 DEF NewDirectory, AddDirectory, With
  <2>4. QED
    BY <2>1, <2>2, <2>3 DEF NewDirectory
<1>2. acked' = acked /\ dropped' = dropped /\ m \in Info
  BY <1>1 DEF table, PartsInv, TypeInv
<1>3. ClashInv' /\ (crossed => crossed')
  BY <1>1, <1>2, ClashStep DEF PartsInv
<1>4. /\ DOMAIN disk' = DOMAIN disk \cup {m} /\ disk'[m] = Nothing
      /\ \A q \in DOMAIN disk : disk'[q] = disk[q]
  BY <1>1 DEF AddDirectory, With
<1>5. Pending' = Pending /\ RenamedParts' = RenamedParts /\ Cleaning' = Cleaning
  BY <1>1, TasksSame, RenamedSame DEF Cleaning
<1>6. Coming' = Coming /\ Active' = Active /\ m \in Coming
  BY <1>1, <1>5, ComingSame, ActiveSame DEF Coming, RenameCover
<1>7. StatesInv'
  BY <1>1, <1>4, <1>5, <1>6 DEF StatesInv
<1>8. FreshInv'
  <2>1. ~LockFree => disk'[inserting] = disk[inserting]
    BY <1>4 DEF PartsInv, PlaceInv
  <2>2. QED
    BY <1>1, <1>2, <1>4, <2>1 DEF FreshInv, LockFree
<1>9. KeptInv'
  BY <1>3, <1>4, <1>5, <1>6, KeptStep
<1>10. DroppedInv'
  <2>1. Active \subseteq DOMAIN disk
    BY DEF PartsInv, HeldPartsOnDisk
  <2>2. QED
    BY <1>2, <1>3, <1>4, <1>6, <2>1 DEF DroppedInv
<1>11. VersionInv'
  BY <1>1, <1>5 DEF VersionInv
<1>12. QED
  BY <1>3, <1>7, <1>8, <1>9, <1>10, <1>11

LEMMA CommitDropGone == PartsInv /\ RowsInv /\ GoneInv /\ CommitDrop => GoneInv'
<1> SUFFICES ASSUME PartsInv, RowsInv, GoneInv, CommitDrop PROVE GoneInv'
  OBVIOUS
<1> USE DEF GoneInv
<1> DEFINE gone == UNION {DOMAIN disk[p] : p \in UNION {Covered(q, Active) : q \in drop.cover}}
<1>1. /\ LockFree /\ drop.cover \subseteq DOMAIN disk
      /\ Active' = Replace(Active, drop.cover)
      /\ DOMAIN parts' = DOMAIN parts
      /\ \A c \in drop.cover : Covered(c, Active) = {q \in Active : Contains(c, q)}
      /\ drop'.cover = {}
      /\ UNCHANGED <<disk, inserting, increment, current_mutations, files, starting, tasks,
                     cleaner, used, acked, crossed>>
  BY CommitDropEffect
<1>2. dropped' = dropped \cup gone /\ parts' = Committed(drop.cover)
  BY DEF CommitDrop
<1>3. \A r \in gone : \E q \in Active, c \in drop.cover : Contains(c, q) /\ r \in DOMAIN disk[q]
  BY <1>1
<1> HIDE DEF gone
<1>4. \A p \in drop.cover : p \in Info /\ p \in DOMAIN parts /\ parts[p] = "PreActive"
  BY DEF PartsInv, TypeInv, PlaceInv, CommitDrop
<1>5. Active \subseteq DOMAIN disk
  BY DEF PartsInv, HeldPartsOnDisk
<1>6. Pending' = Pending /\ RenamedParts' = RenamedParts /\ Cleaning' = Cleaning
  BY <1>1, TasksSame, RenamedSame DEF Cleaning
<1>7. Coming \subseteq Coming' \cup drop.cover /\ LockFree'
  BY <1>1, <1>6 DEF Coming, LockFree
<1>8. \A p : p \in Active' <=> p \in drop.cover \/ (p \in Active /\ \A c \in drop.cover : ~Contains(c, p))
  BY <1>1 DEF Replace
<1>9. StatesInv'
  <2>1. ASSUME NEW p \in DOMAIN parts'
        PROVE  \/ parts'[p] = "Active"
               \/ parts'[p] = "PreActive" /\ p \in Coming'
               \/ parts'[p] = "Outdated" /\ p \in DOMAIN disk'
               \/ parts'[p] = "Deleting" /\ p \in DOMAIN disk' /\ p \in Cleaning'
    <3>1. \/ parts'[p] = "Active"
          \/ parts'[p] = "Outdated" /\ p \in drop.cover \cup Active
          \/ parts'[p] = parts[p] /\ p \notin drop.cover
      BY <1>1, <1>2, <1>4, CommittedStates
    <3>2. CASE parts'[p] = parts[p] /\ p \notin drop.cover
      BY <1>1, <1>6, <1>7, <3>2 DEF StatesInv
    <3>3. QED
      BY <1>1, <1>5, <3>1, <3>2
  <2>2. QED
    BY <2>1 DEF StatesInv
<1>10. FreshInv'
  <2>1. gone \subseteq 1..used.rows
    BY <1>3, <1>5 DEF RowsInv, PlacesInv
  <2>2. QED
    BY <1>1, <1>2, <1>7, <2>1 DEF FreshInv
<1>11. ClashInv' /\ VersionInv'
  BY <1>1, <1>6 DEF ClashInv, VersionInv
<1>12. KeptInv'
  <2>1. ASSUME NEW t \in (Active \cup Coming) \cap DOMAIN disk
        PROVE  \/ t \in Active' \cup Coming'
               \/ \E s \in DOMAIN disk' : s # t /\ s \notin Cleaning /\ Contains(s, t)
    <3>1. CASE t \in Active /\ t \notin Active'
      <4>1. PICK c \in drop.cover : Contains(c, t)
        BY <1>8, <3>1
      <4>2. c # t
        BY <1>4, <3>1 DEF Active, InState
      <4>3. c \notin Cleaning
        BY <1>4, NotCleaned
      <4>4. QED
        BY <1>1, <4>1, <4>2, <4>3
    <3>2. CASE t \in Coming
      BY <1>7, <1>8, <3>2
    <3>3. QED
      BY <3>1, <3>2
  <2>2. QED
    BY <1>1, <1>6, <2>1, KeptStep
<1>13. DroppedInv'
  <2>1. SUFFICES ASSUME ~crossed, NEW p \in Active', NEW r \in DOMAIN disk[p], r \in dropped \cup gone
                 PROVE  FALSE
    BY <1>1, <1>2 DEF DroppedInv
  <2>2. p \notin drop.cover
    <3>1. DOMAIN Nothing = {}
      BY DEF Nothing
    <3>2. QED
      BY <1>1, <2>1, <3>1 DEF FreshInv
  <2>3. p \in Active /\ \A c \in drop.cover : ~Contains(c, p)
    BY <1>8, <2>2
  <2>4. r \in gone
    BY <2>1, <2>3 DEF DroppedInv
  <2>5. PICK q \in Active : r \in DOMAIN disk[q] /\ \E c \in drop.cover : Contains(c, q)
    BY <1>3, <2>4
  <2>6. Disjoint(p, q)
    BY <2>3, <2>5 DEF PartsInv, TaskInv, AllDisjoint
  <2>7. QED
    BY <1>5, <2>1, <2>3, <2>5, <2>6 DEF RowsInv, PlacesInv
<1>14. QED
  BY <1>9, <1>10, <1>11, <1>12, <1>13

-----------------------------------------------------------------------------
(* The cleanup, and the start after a crash *)

\* What lies, in the order of parts, between a part and one that it contains,
\* overlaps it.
LEMMA BetweenOverlaps ==
  ASSUME NEW p \in Info, NEW t \in Info, NEW x \in Info, Contains(p, t), Between(x, p, t)
  PROVE  ~Disjoint(p, x) /\ x # p
BY DEF Contains, Between, Less, Disjoint, Info

\* grabOldParts takes an empty part only after the outdated ones it covers:
\* what it covers lies in an active part too, or in one that covers both.
LEMMA EmptyGoesLast ==
  ASSUME PartsInv, RowsInv, GoneInv, ~crossed,
         NEW p \in InState("Outdated"), disk[p] = Nothing, Removable(p),
         ~\E q \in InState("Deleting") : Contains(p, q),
         NEW t \in DOMAIN disk, t # p, Contains(p, t), t \notin Active \cup Coming
  PROVE  \E s \in DOMAIN disk :
           /\ s \notin {t, p} /\ s \notin Cleaning /\ Contains(s, t)
           /\ s \in Active \/ Contains(s, p)
<1> USE DEF GoneInv
<1> DEFINE O == InState("Outdated")
<1>1. O \subseteq DOMAIN disk /\ DOMAIN disk \subseteq Info /\ O \cap Active = {}
  BY DEF StatesInv, InState, PartsInv, TypeInv, Active
<1>2. CASE t \in unloaded
  <2>1. PICK a \in Active : Contains(a, t)
    BY <1>2 DEF PartsInv, UnloadedInv
  <2>2. a \in DOMAIN disk /\ a # p /\ a \in Info
    BY <1>1 DEF PartsInv, HeldPartsOnDisk
  <2>3. a \notin Cleaning
    BY <2>2, NotCleaned DEF Active, InState
  <2>4. a # t
    OBVIOUS
  <2>5. QED
    BY <2>1, <2>2, <2>3, <2>4
<1>3. CASE t \in DOMAIN parts
  <2>1. t \in O
    <3>1. parts[t] # "Deleting"
      BY <1>3 DEF InState
    <3>2. QED
      BY <1>3, <3>1 DEF StatesInv, InState, Active
  <2>2. Covered(p, O) = {}
    BY DEF Removable, Empty
  <2>3. t \notin Reached(p, O)
    BY <2>2 DEF Covered
  <2>4. PICK x \in O : Between(x, p, t) /\ ~Contains(p, x)
    BY <2>1, <2>3 DEF Reached
  <2>5. p \in Info /\ x \in Info /\ t \in Info /\ p \in DOMAIN disk /\ x \in DOMAIN disk
    BY <1>1
  <2>6. ~Disjoint(p, x) /\ x # p
    BY <2>4, <2>5, BetweenOverlaps
  <2>7. Contains(x, p)
    BY <2>4, <2>5, <2>6 DEF ClashInv, Clash
  <2>8. Contains(x, t) /\ x # t
    BY <2>5, <2>7, ContainsTransitive, ContainsAntisymmetric
  <2>9. x \notin Cleaning
    BY <2>4, <2>5, NotCleaned DEF InState
  <2>10. QED
    BY <2>5, <2>6, <2>7, <2>8, <2>9
<1>4. QED
  BY <1>2, <1>3 DEF RowsInv, KnownInv

\* A cleaning thread takes a part, or gives it back.
LEMMA CleanerTakes ==
  ASSUME TypeInv, NEW c \in Cleaners, NEW p, cleaner' = [cleaner EXCEPT ![c].part = p]
  PROVE  /\ cleaner'[c].part = p
         /\ \A d \in Cleaners \ {c} : cleaner'[d] = cleaner[d]
<1> DEFINE one == [cleaner[c] EXCEPT !.part = p]
<1>1. cleaner' = [cleaner EXCEPT ![c] = one] /\ DOMAIN cleaner = Cleaners
  BY DEF TypeInv
<1>2. one.part = p
  BY DEF TypeInv
<1> HIDE DEF one
<1>3. QED
  BY <1>1, <1>2

LEMMA GrabGone ==
  ASSUME PartsInv, RowsInv, GoneInv, NEW c \in Cleaners, Grab(c), ~early'
  PROVE  GoneInv'
<1> USE DEF GoneInv
<1>1. PICK p \in InState("Outdated") \ Held :
        /\ Removable(p)
        /\ parts' = [parts EXCEPT ![p] = "Deleting"]
        /\ cleaner' = [cleaner EXCEPT ![c].part = p]
        /\ Empty(p) => ~\E q \in InState("Deleting") : Contains(p, q)
  BY DEF Grab
<1>2. /\ cleaner[c].part = NoPart
      /\ UNCHANGED <<disk, inserting, increment, current_mutations, files, starting, tasks, drop,
                     used, acked, dropped, crossed>>
  BY DEF Grab, MayClean, Idle, table
<1>3. Cleaning' \subseteq Cleaning \cup {p} /\ Cleaning \subseteq Cleaning' \cup {NoPart}
      /\ p \in Cleaning'
  <2>1. cleaner'[c].part = p /\ \A d \in Cleaners \ {c} : cleaner'[d] = cleaner[d]
    BY <1>1, CleanerTakes DEF PartsInv
  <2>2. \A x : x \in Cleaning' <=> \E d \in Cleaners : x = cleaner'[d].part
    BY DEF Cleaning
  <2>3. \A x : x \in Cleaning <=> \E d \in Cleaners : x = cleaner[d].part
    BY DEF Cleaning
  <2>4. QED
    BY <1>2, <2>1, <2>2, <2>3
<1>4. /\ p \in DOMAIN parts /\ parts[p] = "Outdated" /\ p \in DOMAIN disk /\ p \in Info
      /\ DOMAIN disk \subseteq Info /\ DOMAIN parts \subseteq Info
  BY DEF InState, StatesInv, PartsInv, TypeInv
<1>5. /\ DOMAIN parts' = DOMAIN parts /\ parts'[p] = "Deleting"
      /\ \A q \in DOMAIN parts \ {p} : parts'[q] = parts[q]
      /\ Active' = Active /\ p \notin Active
  BY <1>1, <1>4 DEF Active, InState
<1>6. Pending' = Pending /\ RenamedParts' = RenamedParts
  BY <1>2, TasksSame, RenamedSame
<1>7. Coming' = Coming /\ p \notin Coming
  <2>1. \A q \in Coming : parts[q] = "PreActive"
    BY DEF Coming, RenamedParts, PartsInv, PlaceInv, LockFree
  <2>2. QED
    BY <1>2, <1>4, <1>6, <2>1, ComingSame
<1>8. StatesInv'
  <2>1. \A q \in DOMAIN parts : q # NoPart
    BY <1>4, NoPartIsNone
  <2>2. QED
    BY <1>2, <1>3, <1>4, <1>5, <1>7, <2>1 DEF StatesInv
<1>9. FreshInv' /\ ClashInv' /\ DroppedInv' /\ VersionInv'
  BY <1>2, <1>5, <1>6 DEF FreshInv, ClashInv, DroppedInv, VersionInv, LockFree
<1>10. KeptInv'
  <2>1. SUFFICES ASSUME ~crossed, NEW t \in DOMAIN disk, t \notin Active \cup Coming, Kept(t)
                 PROVE  \E s \in DOMAIN disk : s \notin {t, p} /\ s \notin Cleaning /\ Contains(s, t)
    BY <1>2, <1>3, <1>5, <1>7 DEF KeptInv, Kept
  <2>2. PICK s \in DOMAIN disk : s # t /\ s \notin Cleaning /\ Contains(s, t)
    BY <2>1 DEF Kept
  <2>3. CASE s # p
    BY <2>2, <2>3
  <2>4. CASE s = p /\ disk[p] # Nothing
    <3>1. PICK x \in DOMAIN disk : x # p /\ x \notin Cleaning /\ Contains(x, p)
      BY <1>4, <1>5, <1>7, <2>1, <2>4 DEF KeptInv, Kept
    <3>2. Contains(x, t) /\ x # t
      BY <1>4, <2>2, <2>4, <3>1, ContainsTransitive, ContainsAntisymmetric
    <3>3. QED
      BY <3>1, <3>2
  <2>5. CASE s = p /\ disk[p] = Nothing
    <3>1. ~\E q \in InState("Deleting") : Contains(p, q)
      BY <1>1, <2>5 DEF Empty
    <3>2. QED
      BY <1>1, <2>1, <2>2, <2>5, <3>1, EmptyGoesLast
  <2>6. QED
    BY <2>3, <2>4, <2>5
<1>11. QED
  BY <1>8, <1>9, <1>10

LEMMA RemovePartGone ==
  ASSUME PartsInv, RowsInv, GoneInv, NEW c \in Cleaners, RemovePart(c)
  PROVE  GoneInv'
<1> USE DEF GoneInv
<1>0. PICK d : d = cleaner[c].part
  OBVIOUS
<1>1. /\ d # NoPart /\ LockFree /\ d \in DOMAIN parts /\ parts[d] = "Deleting"
      /\ Active' = Active
      /\ \/ /\ DOMAIN disk' = DOMAIN disk \ {d}
            /\ \A q \in DOMAIN disk' : disk'[q] = disk[q]
            /\ DOMAIN parts' = DOMAIN parts \ {d}
         \/ /\ disk' = disk /\ DOMAIN parts' = DOMAIN parts
            /\ parts' = [parts EXCEPT ![d] = "Outdated"]
      /\ \A q \in DOMAIN parts \ {d} : parts'[q] = parts[q]
      /\ cleaner' = [cleaner EXCEPT ![c].part = NoPart]
      /\ UNCHANGED <<inserting, increment, current_mutations, files, starting, tasks, drop,
                     used, table, crossed>>
  BY <1>0, RemovePartEffect
<1>2. acked' = acked /\ dropped' = dropped /\ LockFree'
  BY <1>1 DEF table, LockFree
<1>3. Cleaning' \subseteq Cleaning \cup {NoPart} /\ Cleaning \subseteq Cleaning' \cup {d}
      /\ d \in Cleaning
  BY <1>0, <1>1, CleanerTakes DEF PartsInv, Cleaning
<1>4. Pending' = Pending /\ RenamedParts' = RenamedParts
  BY <1>1, TasksSame, RenamedSame
<1>5. Coming' = Coming
  BY <1>1, <1>4, ComingSame
<1>6. /\ DOMAIN disk' \subseteq DOMAIN disk /\ DOMAIN disk \subseteq DOMAIN disk' \cup {d}
      /\ \A q \in DOMAIN disk' : disk'[q] = disk[q]
      /\ DOMAIN parts' \subseteq DOMAIN parts
  BY <1>1
<1>7. StatesInv'
  <2>1. ASSUME NEW q \in DOMAIN parts', q # d
        PROVE  \/ parts'[q] = "Active"
               \/ parts'[q] = "PreActive" /\ q \in Coming'
               \/ parts'[q] = "Outdated" /\ q \in DOMAIN disk'
               \/ parts'[q] = "Deleting" /\ q \in DOMAIN disk' /\ q \in Cleaning'
    <3>1. q \in DOMAIN parts /\ parts'[q] = parts[q]
      BY <1>1, <1>6, <2>1
    <3>2. QED
      BY <1>3, <1>5, <1>6, <2>1, <3>1 DEF StatesInv
  <2>2. d \in DOMAIN parts' => parts'[d] = "Outdated" /\ d \in DOMAIN disk'
    BY <1>1 DEF StatesInv
  <2>3. QED
    BY <2>1, <2>2 DEF StatesInv
<1>8. FreshInv'
  BY <1>1, <1>2, <1>6 DEF FreshInv
<1>9. ClashInv' /\ VersionInv'
  BY <1>1, <1>4, <1>6 DEF ClashInv, VersionInv
<1>10. DroppedInv'
  <2>1. Active \subseteq DOMAIN disk'
    BY <1>1, <1>6 DEF PartsInv, HeldPartsOnDisk, Active, InState
  <2>2. QED
    BY <1>1, <1>2, <1>6, <2>1 DEF DroppedInv
<1>11. KeptInv'
  <2>1. NoPart \notin DOMAIN disk
    BY NoPartIsNone DEF PartsInv, TypeInv
  <2>2. QED
    BY <1>1, <1>3, <1>5, <1>6, <2>1 DEF KeptInv, Kept
<1>12. QED
  BY <1>7, <1>8, <1>9, <1>10, <1>11

\* What a start finds: a part with rows that no other contains is active or
\* about to be committed.
LEMMA TopIsKnown ==
  ASSUME GoneInv, ~crossed, NEW t \in TopLevel, disk[t] # Nothing
  PROVE  t \in Active \cup RenamedParts \cup ({inserting} \ {NoPart})
<1>1. t \in DOMAIN disk /\ ~Kept(t)
  BY DEF TopLevel, Kept
<1>2. t \in Active \cup Coming
  BY <1>1 DEF GoneInv, KeptInv
<1>3. t \notin drop.cover
  BY <1>1 DEF GoneInv, FreshInv
<1>4. QED
  BY <1>2, <1>3 DEF Coming

\* The rows it shows were there before.
LEMMA TopRows ==
  ASSUME PartsInv, RowsInv, GoneInv, ~crossed, NEW t \in TopLevel, NEW r \in DOMAIN disk[t],
         r \in acked \cup dropped
  PROVE  \E p \in Active : r \in DOMAIN disk[p]
<1>1. disk[t] # Nothing
  BY DEF Nothing
<1>2. t \in Active \cup RenamedParts \cup ({inserting} \ {NoPart})
  BY <1>1, TopIsKnown
<1>3. t # inserting \/ LockFree
  BY DEF GoneInv, FreshInv
<1>4. CASE t \in RenamedParts
  <2>1. PICK k \in Running : tasks[k].phase = "renamed" /\ t = tasks[k].info
    BY <1>4 DEF RenamedParts
  <2>2. k \in Pending /\ tasks[k].src \subseteq Active /\ disk[t] = tasks[k].content
    BY <2>1 DEF Pending, PartsInv, TaskInv, Fits, RowsInv, TaskRowsInv
  <2>3. QED
    BY <2>2 DEF RowsInv, TaskRowsInv
<1>5. QED
  BY <1>2, <1>3, <1>4 DEF LockFree

LEMMA RestartGone == PartsInv /\ RowsInv /\ GoneInv /\ Restart => GoneInv'
<1> SUFFICES ASSUME PartsInv, RowsInv, GoneInv, Restart PROVE GoneInv'
  OBVIOUS
<1>1. /\ parts' = [p \in TopLevel |-> "Active"]
      /\ increment' = LastNumber
      /\ current_mutations' = files /\ starting' = 0
      /\ used' = [used EXCEPT !["crashes"] = @ + 1]
      /\ inserting' = NoPart
      /\ tasks' = [k \in Tasks |-> NoTask]
      /\ drop' = [phase |-> "idle", cover |-> {}]
      /\ cleaner' = NotCleaning
      /\ disk' = disk /\ files' = files /\ acked' = acked /\ dropped' = dropped /\ crossed' = crossed
  BY DEF Restart, table
<1>2. Active' = TopLevel /\ DOMAIN parts' = TopLevel /\ TopLevel \subseteq DOMAIN disk
  BY <1>1 DEF Active, InState, TopLevel
<1>3. Running' = {} /\ Pending' = {} /\ LockFree' /\ drop'.cover = {}
  BY <1>1 DEF Running, Pending, LockFree
<1>4. Cleaning' \subseteq {NoPart}
  BY <1>1 DEF Cleaning, NotCleaning
<1>5. used'.rows = used.rows
  BY <1>1, UsedStep DEF RowsInv
<1>6. StatesInv'
  BY <1>1, <1>2 DEF StatesInv
<1>7. FreshInv' /\ ClashInv'
  BY <1>1, <1>3, <1>5 DEF GoneInv, FreshInv, ClashInv
<1>8. KeptInv'
  <2>1. NoPart \notin DOMAIN disk
    BY NoPartIsNone DEF PartsInv, TypeInv
  <2>2. \A t \in DOMAIN disk : t \in Active' \/ Kept(t)'
    BY <1>1, <1>2, <1>4, <2>1 DEF Kept, TopLevel
  <2>3. QED
    BY <1>1, <2>2 DEF KeptInv
<1>9. DroppedInv'
  <2>1. SUFFICES ASSUME ~crossed, NEW t \in TopLevel, NEW r \in DOMAIN disk[t], r \in dropped
                 PROVE  FALSE
    BY <1>1, <1>2 DEF DroppedInv
  <2>2. PICK p \in Active : r \in DOMAIN disk[p]
    BY <2>1, TopRows
  <2>3. QED
    BY <2>1, <2>2 DEF GoneInv, DroppedInv
<1>10. VersionInv'
  BY <1>1, <1>3, LastNumberIs DEF VersionInv, PartsInv
<1>11. QED
  BY <1>6, <1>7, <1>8, <1>9, <1>10 DEF GoneInv

-----------------------------------------------------------------------------
LEMMA GoneNext ==
  PartsInv /\ PartsInv' /\ RowsInv /\ GoneInv /\ Step /\ ~early' => GoneInv'
<1> SUFFICES ASSUME PartsInv, PartsInv', RowsInv, GoneInv, Step, ~early' PROVE GoneInv'
  OBVIOUS
<1>1. ASSUME NEW k \in Tasks,
             \/ Merging(k) \/ SelectMutate(k)
             \/ Renames(k) \/ CommitMerge(k) \/ CommitMutate(k) \/ FinishTask(k)
      PROVE  GoneInv'
  BY <1>1, SelectMergeGone, SelectMutateGone, RenameMergeGone, CommitTaskGone, FinishTaskGone
<1>2. ASSUME NEW c \in Cleaners,
             \/ Grab(c) \/ RemovePart(c) \/ ClearEmpty(c)
             \/ ClearOldMutations(c) \/ RemoveFile(c)
      PROVE  GoneInv'
  BY <1>2, GrabGone, RemovePartGone, ClearEmptyGone, CleanMutationsGone
<1>3. ASSUME NEW p \in unloaded, LoadOutdated(p) PROVE GoneInv'
  BY <1>3, LoadOutdatedGone
<1>4. QED
  BY <1>1, <1>2, <1>3, StutterGone, StartInsertGone, CommitInsertGone, MutationGone,
     DropPhaseGone, AddCoverGone, RenameCoverGone, CommitDropGone, ReaderGone, RestartGone
     DEF Step

\* What was early stays so.
LEMMA EarlyStays == [Next]_vars /\ ~early' => ~early
<1> SUFFICES ASSUME [Next]_vars, ~early' PROVE ~early
  OBVIOUS
<1>1. ASSUME NEW k \in Tasks,
             \/ SelectMerge(k) \/ SelectMutate(k) \/ RenameMerge(k) \/ CommitMerge(k)
             \/ CommitMutate(k) \/ FinishTask(k) \/ Optimize(k) \/ OptimizeAgain(k)
             \/ BeginMerge(k)
      PROVE  early' = early
  BY <1>1 DEF SelectMerge, SelectMutate, RenameMerge, CommitMerge, CommitMutate, FinishTask,
     Optimize, OptimizeAgain, BeginMerge, StartMerge, Start, races
<1>2. ASSUME NEW c \in Cleaners,
             \/ Grab(c) \/ RemovePart(c) \/ ClearEmpty(c)
             \/ ClearOldMutations(c) \/ RemoveFile(c)
      PROVE  early => early'
  BY <1>2 DEF Grab, RemovePart, ClearEmpty, ClearOldMutations, RemoveFile, races
<1>3. ASSUME \/ StartInsert \/ CommitInsert \/ StartMutation \/ RegisterMutation
             \/ OptimizeWait \/ OptimizeGivesUp
             \/ StopMerges \/ MergesStopped \/ PrepareDrop \/ AddCover \/ DropFails
             \/ RenameCover \/ CommitDrop \/ Read \/ EndRead \/ Restart
             \/ \E p \in unloaded : LoadOutdated(p)
      PROVE  early' = early
  BY <1>3 DEF StartInsert, CommitInsert, StartMutation, RegisterMutation, OptimizeWait,
     OptimizeGivesUp, StopMerges, MergesStopped, PrepareDrop, AddCover, DropFails, RenameCover,
     CommitDrop, Read, EndRead, Restart, LoadOutdated, races
<1>4. QED
  BY <1>1, <1>2, <1>3 DEF Next, vars, races

LEMMA GoneAlways == Spec => [](~raced /\ ~early => PartsInv /\ RowsInv /\ GoneInv)
<1>1. Init => PartsInv /\ RowsInv /\ GoneInv
  BY PartsInit, RowsInit, GoneInit
<1>2. /\ ~raced /\ ~early => PartsInv /\ RowsInv /\ GoneInv
      /\ [Next]_vars
      => (~raced /\ ~early => PartsInv /\ RowsInv /\ GoneInv)'
  BY RacedStays, EarlyStays, StepIs, PartsNext, RowsNext, GoneNext
<1>3. QED
  BY <1>1, <1>2, PTL DEF Spec

\* What a DROP or a DELETE has removed never comes back, with any number of
\* threads cleaning up and not even after a crash at any point of the cleanup,
\* as long as the table's directories never intersected, no OPTIMIZE FINAL took
\* parts from under a DROP, and no thread took an empty part while another one
\* was still removing a part it covers.
THEOREM NothingEverResurrected == Spec => []NothingResurrected
<1>1. (~raced /\ ~early => PartsInv /\ RowsInv /\ GoneInv) => NothingResurrected
  <2>1. SUFFICES ASSUME PartsInv, RowsInv, GoneInv, ~crossed
                 PROVE  /\ \A r \in dropped : Holders(r, Active) = {}
                        /\ \A r \in acked \cup dropped :
                             Holders(r, Active) = {} => Holders(r, TopLevel) = {}
    BY DEF NothingResurrected, Undisturbed
  <2>2. \A r \in dropped : Holders(r, Active) = {}
    BY <2>1 DEF GoneInv, DroppedInv, Holders
  <2>3. ASSUME NEW r \in acked \cup dropped, Holders(r, Active) = {}
        PROVE  Holders(r, TopLevel) = {}
    BY <2>1, <2>3, TopRows DEF Holders
  <2>4. QED
    BY <2>2, <2>3
<1>2. QED
  BY <1>1, GoneAlways, PTL

-----------------------------------------------------------------------------
(* A mutation that is done stays done *)

LEMMA VersionIsNumber ==
  ASSUME NEW p \in Info
  PROVE  DataVersion(p) \in Nat
BY DEF DataVersion, Info

\* The part of a task has what all its sources have.
LEMMA TaskVersion ==
  ASSUME PartsInv, VersionInv, NEW k \in Pending, NEW v \in Nat, \A p \in Active : DataVersion(p) >= v
  PROVE  DataVersion(tasks[k].info) >= v
<1>1. PICK q \in tasks[k].src : DataVersion(q) <= DataVersion(tasks[k].info)
  BY DEF VersionInv
<1>2. q \in Active /\ tasks[k].info \in Info
  BY DEF PartsInv, TaskInv, Fits
<1>3. q \in Info
  BY <1>2, ActiveInfos DEF PartsInv
<1>4. DataVersion(q) \in Nat /\ DataVersion(tasks[k].info) \in Nat /\ DataVersion(q) >= v
  BY <1>2, <1>3, VersionIsNumber
<1>5. QED
  BY <1>1, <1>4

\* The steps after which a thread finds no other parts than before.
LEMMA NoMoreParts ==
  ASSUME PartsInv, RowsInv, Step,
         ~StartInsert, \A k \in Tasks : ~CommitMerge(k) /\ ~CommitMutate(k), ~CommitDrop, ~Restart
  PROVE  ActiveNext' \subseteq ActiveNext
<1>1. ASSUME parts' = parts, inserting' = inserting PROVE ActiveNext' = ActiveNext
  BY <1>1, ActiveSame DEF ActiveNext
<1>2. ASSUME Active' \subseteq Active, inserting' = inserting PROVE ActiveNext' \subseteq ActiveNext
  BY <1>2 DEF ActiveNext
<1>3. CASE Still
  BY <1>1, <1>3 DEF Still
<1>4. CASE \/ StartMutation \/ RegisterMutation \/ StopMerges \/ MergesStopped
           \/ PrepareDrop \/ DropFails \/ RenameCover \/ Read \/ EndRead
  <2>1. parts' = parts /\ inserting' = inserting
    BY <1>4 DEF StartMutation, RegisterMutation, StopMerges, MergesStopped, PrepareDrop,
                DropFails, RenameCover, Read, EndRead
  <2>2. QED
    BY <1>1, <2>1
<1>5. CASE CommitInsert
  <2>1. Active' = Active \cup {inserting} /\ ~LockFree /\ LockFree'
    BY <1>5, CommitInsertEffect
  <2>2. QED
    BY <2>1 DEF ActiveNext, LockFree
<1>6. CASE AddCover
  <2>1. drop.cover \cap DOMAIN parts = {} /\ parts' = With(parts, drop.cover, "PreActive")
    BY <1>6 DEF AddCover, MayAdd
  <2>2. Active' = Active /\ inserting' = inserting
    BY <1>6, <2>1, AddPreActive DEF AddCover
  <2>3. QED
    BY <1>2, <2>2
<1>7. ASSUME NEW k \in Tasks, Merging(k) \/ SelectMutate(k) \/ FinishTask(k)
      PROVE  ActiveNext' \subseteq ActiveNext
  <2>1. parts' = parts /\ inserting' = inserting
    BY <1>7 DEF Merging, SelectMutate, FinishTask, Start
  <2>2. QED
    BY <1>1, <2>1
<1>8. ASSUME NEW k \in Tasks, Renames(k) PROVE ActiveNext' \subseteq ActiveNext
  <2>1. Active' = Active /\ inserting' = inserting
    BY <1>8, RenameMergeEffect
  <2>2. QED
    BY <1>2, <2>1
<1>9. ASSUME NEW c \in Cleaners, ClearOldMutations(c) \/ RemoveFile(c)
      PROVE  ActiveNext' \subseteq ActiveNext
  <2>1. parts' = parts /\ inserting' = inserting
    BY <1>9 DEF ClearOldMutations, RemoveFile
  <2>2. QED
    BY <1>1, <2>1
<1>10. ASSUME NEW c \in Cleaners, Grab(c) PROVE ActiveNext' \subseteq ActiveNext
  <2>1. Active' \subseteq Active /\ inserting' = inserting
    BY <1>10 DEF Grab, Active, InState
  <2>2. QED
    BY <1>2, <2>1
<1>11. ASSUME NEW c \in Cleaners, RemovePart(c) PROVE ActiveNext' \subseteq ActiveNext
  <2>1. Active' = Active /\ inserting' = inserting
    BY <1>11, RemovePartEffect
  <2>2. QED
    BY <1>2, <2>1
<1>12. ASSUME NEW c \in Cleaners, ClearEmpty(c) PROVE ActiveNext' \subseteq ActiveNext
  <2>1. Active' \subseteq Active /\ inserting' = inserting
    BY <1>12, ClearEmptyEffect
  <2>2. QED
    BY <1>2, <2>1
<1>13. ASSUME NEW p \in unloaded, LoadOutdated(p) PROVE ActiveNext' \subseteq ActiveNext
  <2>1. Active' \subseteq Active /\ inserting' = inserting
    BY <1>13 DEF LoadOutdated, With, Active, InState
  <2>2. QED
    BY <1>2, <2>1
<1>14. QED
  BY <1>3, <1>4, <1>5, <1>6, <1>7, <1>8, <1>9, <1>10, <1>11, <1>12, <1>13 DEF Step

LEMMA DoneStep ==
  ASSUME PartsInv, RowsInv, GoneInv, Step, ~crossed, NEW v \in current_mutations,
         \A p \in ActiveNext : DataVersion(p) >= v, NEW p \in ActiveNext'
  PROVE  DataVersion(p) >= v \/ Empty(p)'
<1> USE DEF GoneInv
<1>1. v \in Nat /\ v <= increment /\ increment \in Nat /\ \A q \in Active : DataVersion(q) >= v
  BY DEF VersionInv, PartsInv, TypeInv, ActiveNext
<1>2. CASE StartInsert
  <2>1. /\ inserting'.min = increment + 1 /\ inserting'.mutation = 0
        /\ Active' = Active
    BY <1>2, StartInsertEffect
  <2>2. CASE p = inserting'
    BY <1>1, <2>1, <2>2 DEF DataVersion
  <2>3. QED
    BY <1>1, <2>1, <2>2 DEF ActiveNext
<1>3. ASSUME NEW k \in Tasks, CommitMerge(k) \/ CommitMutate(k)
      PROVE  DataVersion(p) >= v
  <2>1. PICK m : m = tasks[k].info
    OBVIOUS
  <2>2. k \in Pending /\ Active' = (Active \ tasks[k].src) \cup {m} /\ inserting' = inserting
    BY <1>3, <2>1, CommitTaskEffect
  <2>3. DataVersion(m) >= v
    BY <1>1, <2>1, <2>2, TaskVersion
  <2>4. QED
    BY <2>2, <2>3 DEF ActiveNext
<1>4. CASE CommitDrop
  <2>1. /\ Active' = Replace(Active, drop.cover) /\ inserting' = inserting
        /\ disk' = disk /\ drop.cover \subseteq DOMAIN disk
    BY <1>4, CommitDropEffect
  <2>2. CASE p \in drop.cover
    <3>1. disk'[p] = Nothing
      BY <2>1, <2>2 DEF FreshInv
    <3>2. QED
      BY <3>1 DEF Empty
  <2>3. QED
    BY <2>1, <2>2 DEF ActiveNext, Replace
<1>5. CASE Restart
  <2>1. parts' = [q \in TopLevel |-> "Active"] /\ inserting' = NoPart /\ disk' = disk
    BY <1>5 DEF Restart
  <2>2. p \in TopLevel
    BY <2>1 DEF ActiveNext, Active, InState
  <2>3. CASE disk[p] = Nothing
    BY <2>1, <2>3 DEF Empty
  <2>4. CASE p \in RenamedParts
    <3>1. PICK k \in Running : tasks[k].phase = "renamed" /\ p = tasks[k].info
      BY <2>4 DEF RenamedParts
    <3>2. k \in Pending
      BY <3>1 DEF Pending
    <3>3. QED
      BY <1>1, <3>1, <3>2, TaskVersion
  <2>5. CASE p \in ActiveNext
    BY <2>5
  <2>6. QED
    BY <2>2, <2>3, <2>4, <2>5, TopIsKnown DEF ActiveNext
<1>6. QED
  BY <1>2, <1>3, <1>4, <1>5, NoMoreParts

\* An OPTIMIZE that takes parts from under a DROP does nothing else yet.
LEMMA RacesOnly ==
  ASSUME [Next]_vars, ~raced, raced'
  PROVE  UNCHANGED <<parts, disk, inserting>>
<1>1. ASSUME NEW k \in Tasks,
             \/ SelectMerge(k) \/ SelectMutate(k) \/ RenameMerge(k) \/ CommitMerge(k)
             \/ CommitMutate(k) \/ FinishTask(k) \/ Optimize(k) \/ BeginMerge(k)
      PROVE  raced' = raced
  BY <1>1 DEF SelectMerge, SelectMutate, RenameMerge, CommitMerge, CommitMutate, FinishTask,
     Optimize, BeginMerge, StartMerge, Start, races
<1>2. ASSUME NEW c \in Cleaners,
             \/ Grab(c) \/ RemovePart(c) \/ ClearEmpty(c)
             \/ ClearOldMutations(c) \/ RemoveFile(c)
      PROVE  raced' = raced
  BY <1>2 DEF Grab, RemovePart, ClearEmpty, ClearOldMutations, RemoveFile, races
<1>3. ASSUME \/ StartInsert \/ CommitInsert \/ StartMutation \/ RegisterMutation
             \/ OptimizeWait \/ OptimizeGivesUp
             \/ StopMerges \/ MergesStopped \/ PrepareDrop \/ AddCover \/ DropFails
             \/ RenameCover \/ CommitDrop \/ Read \/ EndRead \/ Restart
             \/ \E p \in unloaded : LoadOutdated(p)
      PROVE  raced' = raced
  BY <1>3 DEF StartInsert, CommitInsert, StartMutation, RegisterMutation, OptimizeWait,
     OptimizeGivesUp, StopMerges, MergesStopped, PrepareDrop, AddCover, DropFails, RenameCover,
     CommitDrop, Read, EndRead, Restart, LoadOutdated, races
<1>4. ASSUME NEW k \in Tasks, OptimizeAgain(k) PROVE UNCHANGED <<parts, disk, inserting>>
  BY <1>4 DEF OptimizeAgain, StartMerge, Start
<1>5. QED
  BY <1>1, <1>2, <1>3, <1>4 DEF Next, vars, races

\* A mutation that was reported as done stays done while it is known, through
\* whatever is inserted, merged, dropped and cleaned up by any number of threads
\* and through crashes: no part with rows lacks it (a cleared empty part may be
\* back), as long as the table's directories never intersected, no OPTIMIZE
\* FINAL took parts from under a DROP, and no empty part was taken for removal
\* beside one it covers.
THEOREM DoneAlwaysStaysDone == Spec => DoneStaysDone
<1> DEFINE Inv == ~raced /\ ~early => PartsInv /\ RowsInv /\ GoneInv
           Stays ==
             Undisturbed => \A v \in current_mutations :
               v \in current_mutations' /\ (\A p \in ActiveNext : DataVersion(p) >= v)
                 => \A p \in ActiveNext' : DataVersion(p) >= v \/ Empty(p)'
<1>1. ASSUME Inv, [Next]_vars PROVE Stays
  <2>1. SUFFICES ASSUME Undisturbed, NEW v \in current_mutations,
                        \A p \in ActiveNext : DataVersion(p) >= v, NEW p \in ActiveNext'
                 PROVE  DataVersion(p) >= v \/ Empty(p)'
    OBVIOUS
  <2>2. ~crossed /\ ~raced /\ ~early /\ PartsInv /\ RowsInv /\ GoneInv
    BY <1>1, <2>1 DEF Undisturbed
  <2>3. CASE raced'
    <3>1. parts' = parts /\ inserting' = inserting
      BY <1>1, <2>2, <2>3, RacesOnly
    <3>2. ActiveNext' = ActiveNext
      BY <3>1, ActiveSame DEF ActiveNext
    <3>3. QED
      BY <2>1, <3>2
  <2>4. CASE ~raced'
    <3>1. Step
      BY <1>1, <2>2, <2>4, StepIs
    <3>2. QED
      BY <2>1, <2>2, <3>1, DoneStep
  <2>5. QED
    BY <2>3, <2>4
<1>2. Spec => []Inv
  BY GoneAlways
<1>3. Spec => [][Stays]_vars
  <2> HIDE DEF Stays, Inv
  <2> QED
    BY <1>1, <1>2, PTL DEF Spec
<1>4. QED
  BY <1>3 DEF DoneStaysDone

-----------------------------------------------------------------------------
(* Mutations reach the rows in order *)

\* A finite set of numbers can be sorted.
LEMMA SortedIs ==
  ASSUME NEW b \in Nat, NEW S, S \subseteq 1..b
  PROVE  /\ DOMAIN Sorted(S) = 1..Cardinality(S) /\ Cardinality(S) \in Nat
         /\ Range(Sorted(S)) = S /\ \A i \in DOMAIN Sorted(S) : Sorted(S)[i] \in S
         /\ Sorted(S) \in [1..Cardinality(S) -> S]
         /\ \A i, j \in DOMAIN Sorted(S) : i < j => Sorted(S)[i] < Sorted(S)[j]
<1> DEFINE IsSorted(s, T) ==
             /\ s \in [1..Cardinality(T) -> T] /\ Range(s) = T
             /\ \A i, j \in DOMAIN s : i < j => s[i] < s[j]
           bad == {n \in Nat : \E T \in SUBSET (1..b) : Cardinality(T) = n /\ ~\E s : IsSorted(s, T)}
<1>1. \A T \in SUBSET (1..b) : IsFiniteSet(T) /\ Cardinality(T) \in Nat
  <2>1. IsFiniteSet(1..b)
    BY FS_Interval
  <2>2. QED
    BY <2>1, FS_Subset, FS_CardinalityType
<1>2. bad = {}
  <2>1. SUFFICES ASSUME bad # {} PROVE FALSE
    OBVIOUS
  <2>2. PICK n \in bad : \A m \in bad : n <= m
    BY <2>1, LeastNatural
  <2>3. PICK T \in SUBSET (1..b) : Cardinality(T) = n /\ ~\E s : IsSorted(s, T)
    BY <2>2
  <2>4. T # {}
    <3>1. SUFFICES ASSUME T = {} PROVE FALSE
      OBVIOUS
    <3>2. Cardinality(T) = 0
      BY <3>1, FS_EmptySet
    <3>3. PICK s : s = [i \in 1..0 |-> 0]
      OBVIOUS
    <3>4. DOMAIN s = {} /\ s \in [1..0 -> T]
      BY <3>3
    <3>5. Range(s) = {}
      BY <3>4 DEF Range
    <3>6. IsSorted(s, T)
      BY <3>1, <3>2, <3>4, <3>5
    <3>7. QED
      BY <2>3, <3>6
  <2>5. PICK top \in T : \A x \in T : x <= top
    <3>1. T \subseteq Nat /\ \A x \in T : x <= b
      OBVIOUS
    <3>2. QED
      BY <2>4, <3>1, MaxIsGreatest
  <2> DEFINE U == T \ {top}
  <2>6. Cardinality(U) = n - 1 /\ n \in Nat /\ n - 1 \in Nat
    <3>1. IsFiniteSet(T) /\ n \in Nat
      BY <1>1, <2>3
    <3>2. Cardinality(U) = Cardinality(T) - 1
      BY <2>5, <3>1, FS_RemoveElement
    <3>3. Cardinality(U) \in Nat
      BY <1>1
    <3>4. QED
      BY <2>3, <3>1, <3>2, <3>3
  <2>7. n - 1 \notin bad
    BY <2>2, <2>6
  <2>8. U \in SUBSET (1..b)
    OBVIOUS
  <2>9. PICK g : IsSorted(g, U)
    BY <2>6, <2>7, <2>8
  <2> HIDE DEF bad
  <2>10. PICK f : f = [i \in 1..n |-> IF i = n THEN top ELSE g[i]]
    OBVIOUS
  <2>11. g \in [1..(n - 1) -> U] /\ Range(g) = U /\ \A i, j \in DOMAIN g : i < j => g[i] < g[j]
    BY <2>6, <2>9
  <2>12. /\ DOMAIN f = 1..n /\ f[n] = top
         /\ \A i \in 1..(n - 1) : f[i] = g[i] /\ f[i] \in U
    BY <2>6, <2>10, <2>11
  <2>13. \A i \in 1..n : i = n \/ i \in 1..(n - 1)
    BY <2>6
  <2>14. f \in [1..n -> T]
    <3>1. \A i \in 1..n : (IF i = n THEN top ELSE g[i]) \in T
      BY <2>5, <2>11, <2>13
    <3>2. QED
      BY <2>10, <3>1
  <2>15. Range(f) = T
    <3>1. ASSUME NEW x \in T PROVE \E i \in 1..n : f[i] = x
      <4>1. CASE x = top
        <5>1. n \in 1..n
          BY <2>6
        <5>2. QED
          BY <2>12, <4>1, <5>1
      <4>2. CASE x # top
        <5>1. PICK i \in 1..(n - 1) : g[i] = x
          BY <2>11, <4>2 DEF Range
        <5>2. i \in 1..n
          BY <2>6
        <5>3. QED
          BY <2>12, <5>1, <5>2
      <4>3. QED
        BY <4>1, <4>2
    <3>2. T \subseteq Range(f)
      BY <2>12, <3>1 DEF Range
    <3>3. Range(f) \subseteq T
      BY <2>14 DEF Range
    <3>4. QED
      BY <3>2, <3>3
  <2>16. ASSUME NEW i \in 1..n, NEW j \in 1..n, i < j PROVE f[i] < f[j]
    <3>1. i \in 1..(n - 1)
      BY <2>6, <2>16
    <3>2. CASE j = n
      <4>1. f[i] \in U /\ f[j] = top
        BY <2>12, <3>1, <3>2
      <4>2. f[i] \in T /\ f[i] # top
        BY <4>1
      <4>3. f[i] \in Nat /\ top \in Nat
        <5>1. T \subseteq Nat
          OBVIOUS
        <5>2. QED
          BY <4>2, <5>1
      <4>4. f[i] <= top
        BY <2>5, <4>2
      <4>5. QED
        BY <4>1, <4>2, <4>3, <4>4
    <3>3. CASE j \in 1..(n - 1)
      <4>1. g[i] < g[j]
        BY <2>11, <2>16, <3>1, <3>3
      <4>2. QED
        BY <2>12, <3>1, <3>3, <4>1
    <3>4. QED
      BY <2>13, <3>2, <3>3
  <2>17. IsSorted(f, T)
    BY <2>3, <2>12, <2>14, <2>15, <2>16
  <2>18. QED
    BY <2>3, <2>17
<1>3. \E s : IsSorted(s, S)
  BY <1>1, <1>2
<1>4. PICK t : t = Sorted(S)
  OBVIOUS
<1>5. t \in [1..Cardinality(S) -> S] /\ Range(t) = S /\ \A i, j \in DOMAIN t : i < j => t[i] < t[j]
  BY <1>3, <1>4 DEF Sorted
<1>6. QED
  BY <1>1, <1>4, <1>5

-----------------------------------------------------------------------------
\* A mutation that clearOldMutations has forgotten.
Forgotten(v) == v \notin current_mutations \cup {starting}

\* What is known of the mutations: their numbers, their files, and which are
\* newer than a forgotten one.
LogInv ==
  /\ DOMAIN muts \subseteq 1..increment
  /\ current_mutations \subseteq files
  /\ starting # 0 =>
       starting \in files \ current_mutations /\ \A v \in DOMAIN muts : v <= starting
  /\ \A c \in Cleaners : \A v \in cleaner[c].files : v \in DOMAIN muts /\ Forgotten(v)
  /\ \A v \in DOMAIN muts :
       /\ muts[v].pre \subseteq acked
       /\ Forgotten(v) => \E w \in current_mutations : v < w

\* The parts that are active or become so.
Future == ActiveNext \cup drop.cover \cup {tasks[k].info : k \in Pending}

\* No part has the mutation of an ALTER that has not registered it.
LevelInv(p) == p.mutation <= increment /\ (starting # 0 => p.mutation < starting)
LevelsInv == \A p \in Future : LevelInv(p)

\* What row r of part p has been through, when the mutations are M, those in C
\* are known and n is being registered: s, in order, and all it should.  It
\* lacks no forgotten mutation.
RowHistory(p, r, s, M, C, n) ==
  /\ s \in Seq(Nat)
  /\ \A i, j \in DOMAIN s : i < j => s[i] < s[j]
  /\ \A i \in DOMAIN s : s[i] \in DOMAIN M /\ s[i] <= p.mutation /\ r \in M[s[i]].post
  /\ \A v \in DOMAIN M :
       /\ r \in M[v].pre /\ (v <= DataVersion(p) \/ v \notin C \cup {n}) => v \in Range(s)
       /\ r \notin M[v].post /\ v # n => v <= DataVersion(p)
       /\ v \notin C \cup {n} => \E w \in C : v < w /\ w <= DataVersion(p)

PartHistory(p, f, M, C, n) == \A r \in DOMAIN f : RowHistory(p, r, f[r], M, C, n)

HistoryInv == ~crossed =>
  /\ \A p \in ActiveNext : PartHistory(p, disk[p], muts, current_mutations, starting)
  /\ \A k \in Pending :
       PartHistory(tasks[k].info, tasks[k].content, muts, current_mutations, starting)

OrderInv == LogInv /\ LevelsInv /\ HistoryInv

LEMMA OrderInit == Init => OrderInv
<1> SUFFICES ASSUME Init PROVE OrderInv
  OBVIOUS
<1>1. Active = {} /\ Running = {} /\ Pending = {} /\ drop.cover = {} /\ LockFree
  BY DEF Init, Active, InState, Running, Pending, LockFree
<1>2. ActiveNext = {}
  BY <1>1 DEF ActiveNext, LockFree
<1>3. LogInv
  BY DEF Init, LogInv, NotCleaning
<1>4. Future = {}
  BY <1>1, <1>2 DEF Future
<1>5. QED
  BY <1>1, <1>2, <1>3, <1>4 DEF OrderInv, LevelsInv, HistoryInv

-----------------------------------------------------------------------------
(* What the steps leave as it is *)

\* Directories do not change.
LEMMA DirectoriesStay ==
  ASSUME PartsInv, RowsInv, Step, NEW p \in DOMAIN disk, p \in DOMAIN disk'
  PROVE  disk'[p] = disk[p]
<1>1. CASE UNCHANGED disk
  BY <1>1
<1>2. ASSUME NEW m, NEW content, NewDirectory(m, content) PROVE disk'[p] = disk[p]
  BY <1>2 DEF NewDirectory
<1>3. CASE StartInsert
  BY <1>2, <1>3, StartInsertEffect
<1>4. CASE RenameCover
  <2>1. PICK m \in drop.cover : NewDirectory(m, Nothing)
    BY <1>4, RenameCoverEffect
  <2>2. QED
    BY <1>2, <2>1
<1>5. ASSUME NEW k \in Tasks, Renames(k) PROVE disk'[p] = disk[p]
  BY <1>2, <1>5, RenameMergeEffect
<1>6. ASSUME NEW k \in Tasks, CommitMerge(k) \/ CommitMutate(k) PROVE disk'[p] = disk[p]
  <2>1. PICK m : m = tasks[k].info
    OBVIOUS
  <2>2. QED
    BY <1>6, <2>1, CommitTaskEffect
<1>7. ASSUME NEW c \in Cleaners, RemovePart(c) PROVE disk'[p] = disk[p]
  BY <1>7, RemovePartEffect
<1>8. CASE Still
  BY <1>8 DEF Still
<1>9. CASE \/ CommitInsert \/ StartMutation \/ RegisterMutation \/ StopMerges \/ Preparing
           \/ CommitDrop \/ Read \/ EndRead \/ Restart
  <2>1. disk' = disk
    BY <1>9 DEF CommitInsert, StartMutation, RegisterMutation, StopMerges, CommitDrop,
                Preparing, MergesStopped, PrepareDrop, AddCover, DropFails,
                Read, EndRead, Restart
  <2>2. QED
    BY <2>1
<1>10. ASSUME NEW k \in Tasks, Merging(k) \/ SelectMutate(k) \/ FinishTask(k)
       PROVE  disk'[p] = disk[p]
  <2>1. disk' = disk
    BY <1>10 DEF Merging, SelectMutate, FinishTask, Start
  <2>2. QED
    BY <2>1
<1>11. ASSUME NEW c \in Cleaners, Grab(c) \/ ClearEmpty(c) \/ ClearOldMutations(c) \/ RemoveFile(c)
       PROVE  disk'[p] = disk[p]
  <2>1. disk' = disk
    BY <1>11 DEF Grab, ClearEmpty, ClearOldMutations, RemoveFile
  <2>2. QED
    BY <2>1
<1>12. ASSUME NEW q \in unloaded, LoadOutdated(q) PROVE disk'[p] = disk[p]
  BY <1>12 DEF LoadOutdated
<1>13. QED
  BY <1>3, <1>4, <1>5, <1>6, <1>7, <1>8, <1>9, <1>10, <1>11, <1>12 DEF Step, Preparing

Selecting == \E k \in Tasks : Merging(k) \/ SelectMutate(k)

\* A task's part stays what it is.
LEMMA PendingStay ==
  ASSUME PartsInv, Step, ~Selecting, NEW k \in Pending'
  PROVE  /\ k \in Pending /\ tasks'[k].info = tasks[k].info /\ tasks'[k].content = tasks[k].content
         /\ tasks'[k].phase = "renamed" => tasks[k].phase = "renamed" \/ Renames(k)
<1> DEFINE Stays ==
      /\ k \in Pending /\ tasks'[k].info = tasks[k].info /\ tasks'[k].content = tasks[k].content
      /\ tasks'[k].phase = "renamed" => tasks[k].phase = "renamed" \/ Renames(k)
<1>1. ASSUME tasks' = tasks PROVE Stays
  BY <1>1, TasksSame
<1>2. ASSUME NEW j \in Running, NEW phase, phase \in {"renamed", "committed"}, GoesOn(j, phase),
             tasks[j].phase # "committed", phase = "renamed" => Renames(j)
      PROVE  Stays
  <2>1. Running' = Running
    BY <1>2, PhaseFields DEF PartsInv
  <2>2. k \in Running /\ tasks'[k].phase # "committed"
    BY <2>1 DEF Pending
  <2>3. /\ tasks'[k].info = tasks[k].info /\ tasks'[k].content = tasks[k].content
        /\ tasks'[k].phase = IF k = j THEN phase ELSE tasks[k].phase
    BY <1>2, <2>2, PhaseFields DEF PartsInv
  <2>4. tasks[k].phase # "committed"
    BY <1>2, <2>2, <2>3
  <2>5. QED
    BY <1>2, <2>2, <2>3, <2>4 DEF Pending
<1>3. CASE Still
  BY <1>1, <1>3 DEF Still
<1>4. CASE \/ StartInsert \/ CommitInsert \/ StartMutation \/ RegisterMutation \/ StopMerges
           \/ Preparing \/ RenameCover \/ CommitDrop \/ Read \/ EndRead
  <2>1. tasks' = tasks
    BY <1>4 DEF StartInsert, CommitInsert, StartMutation, RegisterMutation, StopMerges,
                Preparing, MergesStopped, PrepareDrop, AddCover, DropFails,
                RenameCover, CommitDrop, Read, EndRead
  <2>2. QED
    BY <1>1, <2>1
<1>5. ASSUME NEW c \in Cleaners,
             \/ Grab(c) \/ RemovePart(c) \/ ClearEmpty(c) \/ ClearOldMutations(c) \/ RemoveFile(c)
      PROVE  Stays
  <2>1. tasks' = tasks
    BY <1>5 DEF Grab, RemovePart, ClearEmpty, ClearOldMutations, RemoveFile
  <2>2. QED
    BY <1>1, <2>1
<1>6. ASSUME NEW q \in unloaded, LoadOutdated(q) PROVE Stays
  <2>1. tasks' = tasks
    BY <1>6 DEF LoadOutdated
  <2>2. QED
    BY <1>1, <2>1
<1>7. CASE Restart
  <2>1. tasks' = [j \in Tasks |-> NoTask]
    BY <1>7 DEF Restart
  <2>2. QED
    BY <2>1 DEF Pending, Running
<1>8. ASSUME NEW j \in Tasks, Renames(j) PROVE Stays
  <2>1. j \in Running /\ GoesOn(j, "renamed") /\ tasks[j].phase # "committed"
    BY <1>8 DEF Renames, GoesOn
  <2>2. QED
    BY <1>2, <1>8, <2>1
<1>9. ASSUME NEW j \in Tasks, CommitMerge(j) \/ CommitMutate(j) PROVE Stays
  <2>1. j \in Running /\ GoesOn(j, "committed") /\ tasks[j].phase # "committed"
    BY <1>9 DEF CommitMerge, CommitMutate, GoesOn
  <2>2. QED
    BY <1>2, <2>1
<1>10. ASSUME NEW j \in Tasks, FinishTask(j) PROVE Stays
  <2>1. DOMAIN tasks = Tasks /\ tasks' = [tasks EXCEPT ![j] = NoTask] /\ j \in Tasks
    BY <1>10 DEF FinishTask, PartsInv, TypeInv
  <2>2. k \in Tasks /\ tasks'[k] # NoTask
    BY DEF Pending, Running
  <2>3. tasks'[k] = tasks[k]
    BY <2>1, <2>2
  <2>4. QED
    BY <2>2, <2>3 DEF Pending, Running
<1>11. QED
  BY <1>3, <1>4, <1>5, <1>6, <1>7, <1>8, <1>9, <1>10 DEF Step, Preparing, Selecting

\* Directories that have intersected are not forgotten.
LEMMA CrossedStays ==
  ASSUME Step, crossed
  PROVE  crossed'
<1>1. ASSUME NEW m, NEW content, AddDirectory(m, content) PROVE crossed'
  BY <1>1 DEF AddDirectory
<1>2. CASE Still
  BY <1>2 DEF Still
<1>3. CASE StartInsert \/ RenameCover
  BY <1>1, <1>3 DEF StartInsert, RenameCover
<1>4. ASSUME NEW k \in Tasks, Renames(k) \/ CommitMutate(k) PROVE crossed'
  BY <1>1, <1>4 DEF Renames, CommitMutate
<1>5. CASE \/ CommitInsert \/ StartMutation \/ RegisterMutation \/ StopMerges \/ Preparing
           \/ CommitDrop \/ Read \/ EndRead \/ Restart
  BY <1>5 DEF CommitInsert, StartMutation, RegisterMutation, StopMerges, CommitDrop,
              Preparing, MergesStopped, PrepareDrop, AddCover, DropFails,
              Read, EndRead, Restart
<1>6. ASSUME NEW k \in Tasks, Merging(k) \/ SelectMutate(k) \/ CommitMerge(k) \/ FinishTask(k)
      PROVE  crossed'
  BY <1>6 DEF Merging, SelectMutate, CommitMerge, FinishTask, Start
<1>7. ASSUME NEW c \in Cleaners,
             \/ Grab(c) \/ RemovePart(c) \/ ClearEmpty(c) \/ ClearOldMutations(c) \/ RemoveFile(c)
      PROVE  crossed'
  BY <1>7 DEF Grab, RemovePart, ClearEmpty, ClearOldMutations, RemoveFile
<1>8. ASSUME NEW q \in unloaded, LoadOutdated(q) PROVE crossed'
  BY <1>8 DEF LoadOutdated
<1>9. QED
  BY <1>2, <1>3, <1>4, <1>5, <1>6, <1>7, <1>8 DEF Step, Preparing

\* The steps that change what is known of the mutations.
Mutating ==
  \/ StartMutation \/ RegisterMutation \/ Restart
  \/ \E c \in Cleaners : ClearOldMutations(c)

LEMMA CleanerFiles ==
  ASSUME TypeInv, NEW c \in Cleaners, NEW p, cleaner' = [cleaner EXCEPT ![c].part = p]
  PROVE  \A d \in Cleaners : cleaner'[d].files = cleaner[d].files
BY DEF TypeInv

\* The other steps leave that alone; at most, a forgotten mutation's file goes.
LEMMA LogStays ==
  ASSUME PartsInv, Step, ~Mutating
  PROVE  /\ UNCHANGED <<muts, current_mutations, starting>>
         /\ increment \in Nat /\ increment' \in Nat /\ increment <= increment'
         /\ acked \subseteq acked'
         /\ \A v \in files : v \in files' \/ \E c \in Cleaners : v \in cleaner[c].files
         /\ \A c \in Cleaners : cleaner'[c].files \subseteq cleaner[c].files
<1> DEFINE LogSame == muts' = muts /\ current_mutations' = current_mutations /\ starting' = starting
           FilesSame == files' = files /\ cleaner' = cleaner
<1>1. increment \in Nat
  BY DEF PartsInv, TypeInv
<1>2. CASE Still
  BY <1>1, <1>2 DEF Still, table
<1>3. CASE StartInsert
  <2>1. LogSame /\ FilesSame /\ acked' = acked /\ increment' = increment + 1
    BY <1>3 DEF StartInsert, table
  <2>2. QED
    BY <1>1, <2>1
<1>4. CASE CommitInsert
  <2>1. LogSame /\ FilesSame /\ acked \subseteq acked' /\ increment' = increment
    BY <1>4 DEF CommitInsert
  <2>2. QED
    BY <1>1, <2>1
<1>5. CASE StopMerges \/ Preparing \/ RenameCover \/ CommitDrop \/ Read \/ EndRead
  <2>1. LogSame /\ FilesSame /\ acked' = acked /\ increment' = increment
    BY <1>5 DEF StopMerges, RenameCover, CommitDrop, Read, EndRead, table,
                Preparing, MergesStopped, PrepareDrop, AddCover, DropFails
  <2>2. QED
    BY <1>1, <2>1
<1>6. ASSUME NEW k \in Tasks,
             \/ Merging(k) \/ SelectMutate(k) \/ Renames(k) \/ CommitMerge(k)
             \/ CommitMutate(k) \/ FinishTask(k)
      PROVE  LogSame /\ FilesSame /\ acked' = acked /\ increment' = increment
  BY <1>6 DEF Merging, SelectMutate, Renames, CommitMerge, CommitMutate, FinishTask, Start, table
<1>7. ASSUME NEW q \in unloaded, LoadOutdated(q)
      PROVE  LogSame /\ FilesSame /\ acked' = acked /\ increment' = increment
  BY <1>7 DEF LoadOutdated, table
<1>8. ASSUME NEW c \in Cleaners, Grab(c) \/ RemovePart(c) \/ ClearEmpty(c)
      PROVE  /\ LogSame /\ files' = files /\ acked' = acked /\ increment' = increment
             /\ \A d \in Cleaners : cleaner'[d].files = cleaner[d].files
  <2>1. LogSame /\ files' = files /\ acked' = acked /\ increment' = increment
    BY <1>8 DEF Grab, RemovePart, ClearEmpty, table
  <2>2. cleaner' = cleaner \/ \E p : cleaner' = [cleaner EXCEPT ![c].part = p]
    BY <1>8 DEF Grab, RemovePart, ClearEmpty
  <2>3. QED
    BY <2>1, <2>2, CleanerFiles DEF PartsInv
<1>9. ASSUME NEW c \in Cleaners, RemoveFile(c)
      PROVE  /\ LogSame /\ acked' = acked /\ increment' = increment
             /\ \A v \in files : v \in files' \/ \E d \in Cleaners : v \in cleaner[d].files
             /\ \A d \in Cleaners : cleaner'[d].files \subseteq cleaner[d].files
  <2>1. LogSame /\ acked' = acked /\ increment' = increment
    BY <1>9 DEF RemoveFile, table
  <2>2. PICK m \in cleaner[c].files :
          /\ files' = files \ {m}
          /\ cleaner' = [cleaner EXCEPT ![c].files = @ \ {m}]
    BY <1>9 DEF RemoveFile
  <2>3. \A d \in Cleaners : cleaner'[d].files \subseteq cleaner[d].files
    BY <2>2 DEF PartsInv, TypeInv
  <2>4. QED
    BY <2>1, <2>2, <2>3
<1>10. QED
  BY <1>1, <1>2, <1>3, <1>4, <1>5, <1>6, <1>7, <1>8, <1>9 DEF Step, Preparing, Mutating

LEMMA LogStep ==
  ASSUME PartsInv, LogInv, Step, ~Mutating
  PROVE  LogInv'
<1>1. /\ muts' = muts /\ current_mutations' = current_mutations /\ starting' = starting
      /\ increment \in Nat /\ increment' \in Nat /\ increment <= increment'
      /\ acked \subseteq acked'
      /\ \A v \in files : v \in files' \/ \E c \in Cleaners : v \in cleaner[c].files
      /\ \A c \in Cleaners : cleaner'[c].files \subseteq cleaner[c].files
  BY LogStays
<1>2. \A v : Forgotten(v)' <=> Forgotten(v)
  BY <1>1 DEF Forgotten
<1>3. DOMAIN muts' \subseteq 1..increment'
  BY <1>1 DEF LogInv
<1>4. \A v \in files : ~Forgotten(v) => v \in files'
  BY <1>1 DEF LogInv
<1>5. current_mutations' \subseteq files' /\ (starting' # 0 => starting' \in files')
  BY <1>1, <1>4 DEF LogInv, Forgotten
<1>6. QED
  BY <1>1, <1>2, <1>3, <1>5 DEF LogInv

\* The parts of p's history, when the directories and tasks that a step leaves
\* are known.
LEMMA HistoryStep ==
  ASSUME HistoryInv, Step, UNCHANGED <<muts, current_mutations, starting>>,
         \A p \in ActiveNext' :
           \/ p \in ActiveNext /\ disk'[p] = disk[p]
           \/ \E k \in Pending : p = tasks[k].info /\ disk'[p] = tasks[k].content
           \/ ~crossed => PartHistory(p, disk'[p], muts, current_mutations, starting),
         \A k \in Pending' :
           \/ k \in Pending /\ tasks'[k].info = tasks[k].info /\ tasks'[k].content = tasks[k].content
           \/ ~crossed => PartHistory(tasks'[k].info, tasks'[k].content,
                                      muts, current_mutations, starting)
  PROVE  HistoryInv'
<1>1. SUFFICES ASSUME ~crossed'
               PROVE  /\ \A p \in ActiveNext' :
                           PartHistory(p, disk'[p], muts, current_mutations, starting)
                      /\ \A k \in Pending' :
                           PartHistory(tasks'[k].info, tasks'[k].content,
                                       muts, current_mutations, starting)
  BY DEF HistoryInv
<1>2. ~crossed
  BY <1>1, CrossedStays
<1>3. /\ \A p \in ActiveNext : PartHistory(p, disk[p], muts, current_mutations, starting)
      /\ \A k \in Pending :
           PartHistory(tasks[k].info, tasks[k].content, muts, current_mutations, starting)
  BY <1>2 DEF HistoryInv
<1>4. QED
  BY <1>2, <1>3

LEMMA EmptyHistory ==
  ASSUME NEW p, NEW M, NEW C, NEW n
  PROVE  PartHistory(p, Nothing, M, C, n)
BY DEF PartHistory, Nothing

LEMMA FutureInfos ==
  ASSUME PartsInv
  PROVE  Future \subseteq Info /\ ActiveNext \subseteq DOMAIN disk /\ increment \in Nat /\ starting \in Nat
<1>1. Active \subseteq Info /\ drop.cover \subseteq Info /\ DOMAIN disk \subseteq Info
  BY ActiveInfos DEF PartsInv, TypeInv
<1>2. \A k \in Pending : tasks[k].info \in Info
  BY DEF PartsInv, TaskInv, Fits
<1>3. ActiveNext \subseteq DOMAIN disk
  BY DEF ActiveNext, PartsInv, HeldPartsOnDisk, PlaceInv, LockFree
<1>4. increment \in Nat /\ starting \in Nat
  BY DEF PartsInv, TypeInv
<1>5. QED
  BY <1>1, <1>2, <1>3, <1>4 DEF Future

\* The same of the next state.
LEMMA NextInfos ==
  ASSUME PartsInv'
  PROVE  Future' \subseteq Info /\ ActiveNext' \subseteq DOMAIN disk'
<1>1. Active' \subseteq Info /\ drop'.cover \subseteq Info /\ DOMAIN disk' \subseteq Info
  BY DEF PartsInv, TypeInv, Active, InState
<1>2. \A k \in Pending' : tasks'[k].info \in Info
  BY DEF PartsInv, TaskInv, Fits
<1>3. ActiveNext' \subseteq DOMAIN disk'
  BY DEF ActiveNext, PartsInv, HeldPartsOnDisk, PlaceInv, LockFree
<1>4. QED
  BY <1>1, <1>2, <1>3 DEF Future

LEMMA LevelsStep ==
  ASSUME PartsInv, PartsInv', LevelsInv, Step, ~Mutating,
         \A p \in Future' : LevelInv(p) \/ \E q \in Future : p.mutation = q.mutation
  PROVE  LevelsInv'
<1>1. SUFFICES ASSUME NEW p \in Future' PROVE LevelInv(p)'
  BY DEF LevelsInv
<1>2. LevelInv(p)
  BY DEF LevelsInv, LevelInv
<1>3. starting' = starting /\ increment \in Nat /\ increment' \in Nat /\ increment <= increment'
  BY LogStays
<1>4. p.mutation \in Nat
  BY NextInfos DEF Info
<1>5. QED
  BY <1>2, <1>3, <1>4 DEF LevelInv

\* Only a DROP makes empty parts.
LEMMA CoverStays ==
  ASSUME PartsInv, Step, ~PrepareDrop
  PROVE  drop'.cover \subseteq drop.cover
<1>1. CASE Still
  BY <1>1 DEF Still
<1>2. CASE \/ StartInsert \/ CommitInsert \/ StartMutation \/ RegisterMutation \/ RenameCover
           \/ Read \/ EndRead
  <2>1. drop' = drop
    BY <1>2 DEF StartInsert, CommitInsert, StartMutation, RegisterMutation, RenameCover, Read, EndRead
  <2>2. QED
    BY <2>1
<1>3. CASE \/ StopMerges \/ MergesStopped \/ AddCover \/ DropFails \/ CommitDrop \/ Restart
  BY <1>3 DEF StopMerges, MergesStopped, AddCover, DropFails, CommitDrop, Restart, PartsInv, TypeInv
<1>4. ASSUME NEW k \in Tasks,
             \/ Merging(k) \/ SelectMutate(k) \/ Renames(k) \/ CommitMerge(k)
             \/ CommitMutate(k) \/ FinishTask(k)
      PROVE  drop' = drop
  BY <1>4 DEF Merging, SelectMutate, Renames, CommitMerge, CommitMutate, FinishTask, Start
<1>5. ASSUME NEW c \in Cleaners,
             \/ Grab(c) \/ RemovePart(c) \/ ClearEmpty(c) \/ ClearOldMutations(c) \/ RemoveFile(c)
      PROVE  drop' = drop
  BY <1>5 DEF Grab, RemovePart, ClearEmpty, ClearOldMutations, RemoveFile
<1>6. ASSUME NEW q \in unloaded, LoadOutdated(q) PROVE drop' = drop
  BY <1>6 DEF LoadOutdated
<1>7. QED
  BY <1>1, <1>2, <1>3, <1>4, <1>5, <1>6 DEF Step

\* The steps that make no new part.
LEMMA QuietOrder ==
  ASSUME PartsInv, PartsInv', RowsInv, OrderInv, Step, ~Mutating, ~Selecting,
         ActiveNext' \subseteq ActiveNext,
         \A p \in drop'.cover : \E q \in Future : p.mutation = q.mutation
  PROVE  OrderInv'
<1>1. LogInv'
  BY LogStep DEF OrderInv
<1>2. \A k \in Pending' :
        k \in Pending /\ tasks'[k].info = tasks[k].info /\ tasks'[k].content = tasks[k].content
  BY PendingStay
<1>3. LevelsInv'
  <2>1. \A p \in Future' : p \in Future \/ p \in drop'.cover
    BY <1>2 DEF Future
  <2>2. QED
    BY <2>1, LevelsStep DEF OrderInv
<1>4. \A p \in ActiveNext' : p \in ActiveNext /\ disk'[p] = disk[p]
  BY DirectoriesStay, FutureInfos, NextInfos
<1>5. HistoryInv'
  BY <1>2, <1>4, HistoryStep, LogStays DEF OrderInv
<1>6. QED
  BY <1>1, <1>3, <1>5 DEF OrderInv

LEMMA PrepareDropOrder ==
  ASSUME PartsInv, PartsInv', RowsInv, OrderInv, PrepareDrop, ~Mutating, ~Selecting
  PROVE  OrderInv'
<1>1. PICK S \in SUBSET Active :
        /\ drop'.cover = {EmptyCover(p) : p \in S}
        /\ \A p \in S : EmptyCover(p).mutation = p.mutation
        /\ parts' = parts /\ inserting' = inserting
  BY PrepareDropEffect
<1>2. ActiveNext' = ActiveNext /\ S \subseteq Future
  BY <1>1, ActiveSame DEF ActiveNext, Future
<1>3. \A p \in drop'.cover : \E q \in Future : p.mutation = q.mutation
  BY <1>1, <1>2
<1>4. QED
  BY <1>2, <1>3, QuietOrder DEF Step

\* A task's part, committed, has the history that was made for it.
LEMMA CommitTaskOrder ==
  ASSUME PartsInv, PartsInv', RowsInv, OrderInv, NEW k \in Tasks, CommitMerge(k) \/ CommitMutate(k),
         ~Mutating, ~Selecting
  PROVE  OrderInv'
<1>1. PICK m : m = tasks[k].info
  OBVIOUS
<1>2. /\ k \in Pending /\ Active' = (Active \ tasks[k].src) \cup {m} /\ inserting' = inserting
      /\ disk'[m] = tasks[k].content /\ drop' = drop
  BY <1>1, CommitTaskEffect
<1>3. Step
  BY DEF Step
<1>4. \A j \in Pending' :
        j \in Pending /\ tasks'[j].info = tasks[j].info /\ tasks'[j].content = tasks[j].content
  BY <1>3, PendingStay
<1>5. ActiveNext' \subseteq ActiveNext \cup {m}
  BY <1>2 DEF ActiveNext
<1>6. LevelsInv'
  <2>1. Future' \subseteq Future
    BY <1>1, <1>2, <1>4, <1>5 DEF Future
  <2>2. QED
    BY <1>3, <2>1, LevelsStep DEF OrderInv
<1>7. HistoryInv'
  <2>1. \A p \in ActiveNext' : p \in ActiveNext => disk'[p] = disk[p]
    BY <1>3, DirectoriesStay, FutureInfos, NextInfos
  <2>2. QED
    BY <1>1, <1>2, <1>3, <1>4, <1>5, <2>1, HistoryStep, LogStays DEF OrderInv
<1>8. QED
  BY <1>3, <1>6, <1>7, LogStep DEF OrderInv

LEMMA CommitDropOrder ==
  ASSUME PartsInv, PartsInv', RowsInv, GoneInv, OrderInv, CommitDrop, ~Mutating, ~Selecting
  PROVE  OrderInv'
<1>1. /\ Active' = Replace(Active, drop.cover) /\ inserting' = inserting
      /\ disk' = disk /\ drop.cover \subseteq DOMAIN disk
      /\ drop' = [phase |-> "idle", cover |-> {}]
  BY CommitDropEffect
<1>2. Step
  BY DEF Step
<1>3. \A j \in Pending' :
        j \in Pending /\ tasks'[j].info = tasks[j].info /\ tasks'[j].content = tasks[j].content
  BY <1>2, PendingStay
<1>4. ActiveNext' \subseteq ActiveNext \cup drop.cover
  BY <1>1 DEF ActiveNext, Replace
<1>5. LevelsInv'
  <2>1. Future' \subseteq Future
    BY <1>1, <1>3, <1>4 DEF Future
  <2>2. QED
    BY <1>2, <2>1, LevelsStep DEF OrderInv
<1>6. HistoryInv'
  <2>1. \A p \in drop.cover : disk'[p] = Nothing
    BY <1>1 DEF GoneInv, FreshInv
  <2>2. \A p \in drop.cover : PartHistory(p, disk'[p], muts, current_mutations, starting)
    BY <2>1, EmptyHistory
  <2>3. QED
    BY <1>1, <1>2, <1>3, <1>4, <2>2, HistoryStep, LogStays DEF OrderInv
<1>7. QED
  BY <1>2, <1>5, <1>6, LogStep DEF OrderInv

\* A new row has had nothing, and needs nothing that was there before it.
LEMMA StartInsertOrder ==
  ASSUME PartsInv, PartsInv', RowsInv, GoneInv, OrderInv, StartInsert, ~Mutating, ~Selecting
  PROVE  OrderInv'
<1>1. PICK m : m = inserting'
  OBVIOUS
<1>2. /\ m \in Info /\ m.min = increment + 1 /\ m.mutation = 0 /\ increment \in Nat
      /\ Active' = Active /\ NewDirectory(m, [r \in {used.rows + 1} |-> <<>>])
      /\ used.rows \in Nat /\ drop' = drop
  BY <1>1, StartInsertEffect
<1>3. Step
  BY DEF Step
<1>4. \A j \in Pending' :
        j \in Pending /\ tasks'[j].info = tasks[j].info /\ tasks'[j].content = tasks[j].content
  BY <1>3, PendingStay
<1>5. ActiveNext' \subseteq ActiveNext \cup {m}
  BY <1>1, <1>2 DEF ActiveNext
<1>6. LevelsInv'
  <2>1. LevelInv(m)
    BY <1>2, FutureInfos DEF LevelInv
  <2>2. \A p \in Future' : p \in Future \/ p = m
    BY <1>2, <1>4, <1>5 DEF Future
  <2>3. QED
    BY <1>3, <2>1, <2>2, LevelsStep DEF OrderInv
<1>7. PartHistory(m, disk'[m], muts, current_mutations, starting)
  <2>1. PICK r : r = used.rows + 1
    OBVIOUS
  <2>2. disk'[m] = [x \in {r} |-> <<>>]
    BY <1>2, <2>1 DEF NewDirectory
  <2>3. PICK s : s = <<>>
    OBVIOUS
  <2>4. s \in Seq(Nat) /\ DOMAIN s = {}
    BY <2>3
  <2>5. DataVersion(m) = increment + 1
    BY <1>2 DEF DataVersion
  <2>6. \A v \in DOMAIN muts : v \in Nat /\ v <= increment /\ r \notin muts[v].pre
    <3>1. r \notin acked
      BY <1>2, <2>1 DEF GoneInv, FreshInv
    <3>2. QED
      BY <1>2, <3>1 DEF OrderInv, LogInv
  <2>7. \A v \in DOMAIN muts : v \notin current_mutations \cup {starting} =>
          \E w \in current_mutations : v < w /\ w <= DataVersion(m)
    <3>1. \A w \in current_mutations : w \in Nat /\ w <= increment
      BY <2>6 DEF RowsInv, MutsInv
    <3>2. QED
      BY <1>2, <2>5, <3>1 DEF OrderInv, LogInv, Forgotten
  <2>8. \A v \in DOMAIN muts : v <= DataVersion(m)
    BY <1>2, <2>5, <2>6
  <2>9. RowHistory(m, r, s, muts, current_mutations, starting)
    BY <2>4, <2>6, <2>7, <2>8 DEF RowHistory
  <2>10. QED
    BY <2>2, <2>3, <2>9 DEF PartHistory
<1>8. HistoryInv'
  <2>1. \A p \in ActiveNext' : p \in ActiveNext => disk'[p] = disk[p]
    BY <1>3, DirectoriesStay, FutureInfos, NextInfos
  <2>2. QED
    BY <1>3, <1>4, <1>5, <1>7, <2>1, HistoryStep, LogStays DEF OrderInv
<1>9. QED
  BY <1>3, <1>6, <1>8, LogStep DEF OrderInv

-----------------------------------------------------------------------------
(* The steps that change what is known of the mutations *)

LEMMA VersionBelow ==
  ASSUME PartsInv, LevelsInv, NEW p \in Future
  PROVE  DataVersion(p) \in Nat /\ DataVersion(p) <= increment
<1>1. p \in Info /\ increment \in Nat /\ p.mutation <= increment
  BY FutureInfos DEF LevelsInv, LevelInv
<1>2. p.max <= increment
  <2>1. \A k \in Pending : tasks[k].info.max <= increment
    BY TaskBelow DEF PartsInv
  <2>2. QED
    BY <2>1 DEF PartsInv, NumberInv, Future, ActiveNext, LockFree
<1>3. QED
  BY <1>1, <1>2 DEF DataVersion, Info

LEMMA StartedHistory ==
  ASSUME NEW M, NEW C, NEW b \in Nat, DOMAIN M \subseteq 1..b, NEW e, NEW N, N = With(M, {b + 1}, e),
         NEW p, DataVersion(p) \in Nat, DataVersion(p) <= b,
         NEW r, NEW s, RowHistory(p, r, s, M, C, 0)
  PROVE  RowHistory(p, r, s, N, C, b + 1)
<1>1. PICK n : n = b + 1
  OBVIOUS
<1>2. /\ DOMAIN N = DOMAIN M \cup {n} /\ n \notin DOMAIN M /\ 0 \notin DOMAIN M
      /\ \A v \in DOMAIN M : N[v] = M[v]
  BY <1>1 DEF With
<1>3. ~(n <= DataVersion(p))
  BY <1>1
<1>4. RowHistory(p, r, s, N, C, n)
  BY <1>2, <1>3 DEF RowHistory
<1>5. QED
  BY <1>1, <1>4

\* A mutation is registered, or its file is found.
LEMMA RegisteredHistory ==
  ASSUME NEW M, NEW C, NEW n, NEW N, NEW D, DOMAIN N = DOMAIN M, 0 \notin DOMAIN M,
         C \subseteq D, n # 0 => n \in D,
         NEW p, NEW r, NEW s, RowHistory(p, r, s, M, C, n),
         \A v \in DOMAIN M : N[v].pre = M[v].pre /\ (r \in M[v].post \/ v = n => r \in N[v].post)
  PROVE  RowHistory(p, r, s, N, D, 0)
<1>1. \A v \in DOMAIN M : v \notin D \cup {0} => v \notin C \cup {n}
  OBVIOUS
<1>2. \A v \in DOMAIN M : r \notin N[v].post => r \notin M[v].post /\ v # n
  OBVIOUS
<1>3. \A i \in DOMAIN s : s[i] \in DOMAIN N /\ s[i] <= p.mutation /\ r \in N[s[i]].post
  BY DEF RowHistory
<1>4. QED
  BY <1>1, <1>2, <1>3 DEF RowHistory

\* Mutations are forgotten that the part has, and a newer one of those is not.
LEMMA ClearedHistory ==
  ASSUME NEW M, NEW C, NEW n, NEW D, D \subseteq C, C \subseteq Nat, DOMAIN M \subseteq Nat,
         NEW p, DataVersion(p) \in Nat, NEW x \in D, x <= DataVersion(p), \A v \in C \ D : v < x,
         NEW r, NEW s, RowHistory(p, r, s, M, C, n)
  PROVE  RowHistory(p, r, s, M, D, n)
<1>1. \A v \in C \ D : v <= DataVersion(p)
  OBVIOUS
<1>2. ASSUME NEW v \in DOMAIN M, v \notin D \cup {n} PROVE \E w \in D : v < w /\ w <= DataVersion(p)
  <2>1. CASE v \in C
    BY <1>2, <2>1
  <2>2. CASE v \notin C
    <3>1. PICK w \in C : v < w /\ w <= DataVersion(p)
      BY <1>2, <2>2 DEF RowHistory
    <3>2. CASE w \in D
      BY <3>1, <3>2
    <3>3. CASE w \notin D
      <4>1. v < x
        BY <3>1, <3>3
      <4>2. QED
        BY <4>1
    <3>4. QED
      BY <3>2, <3>3
  <2>3. QED
    BY <2>1, <2>2
<1>3. QED
  BY <1>1, <1>2 DEF RowHistory

\* A part that is active or becomes so, and what it holds.
Holds(p, f) ==
  \/ p \in ActiveNext /\ f = disk[p]
  \/ \E k \in Pending : p = tasks[k].info /\ f = tasks[k].content

\* The steps that change neither parts nor tasks.
LEMMA HistoriesChange ==
  ASSUME HistoryInv, UNCHANGED <<parts, disk, inserting, tasks, crossed>>,
         \A p, f : Holds(p, f) /\ PartHistory(p, f, muts, current_mutations, starting)
                     => PartHistory(p, f, muts', current_mutations', starting')
  PROVE  HistoryInv'
<1>1. ActiveNext' = ActiveNext /\ Pending' = Pending
  BY ActiveSame, TasksSame DEF ActiveNext
<1>2. QED
  BY <1>1 DEF HistoryInv, Holds

LEMMA StartMutationOrder ==
  ASSUME PartsInv, RowsInv, OrderInv, StartMutation
  PROVE  OrderInv'
<1> USE DEF OrderInv
<1>1. PICK n : n = increment + 1
  OBVIOUS
<1>2. PICK e : muts' = With(muts, {n}, e) /\ e.pre = acked
  BY <1>1 DEF StartMutation
<1>3. /\ starting = 0 /\ increment' = n /\ starting' = n /\ files' = files \cup {n} /\ acked' = acked
      /\ UNCHANGED <<parts, disk, inserting, current_mutations, tasks, drop, cleaner, crossed>>
  BY <1>1 DEF StartMutation
<1>4. increment \in Nat /\ DOMAIN muts \subseteq 1..increment
  BY DEF PartsInv, TypeInv, LogInv
<1>5. /\ DOMAIN muts' = DOMAIN muts \cup {n} /\ n \notin DOMAIN muts /\ 0 \notin DOMAIN muts
      /\ \A v \in DOMAIN muts : muts'[v] = muts[v] /\ v <= n
      /\ muts'[n].pre = acked /\ n \in Nat /\ n # 0
  BY <1>1, <1>2, <1>4 DEF With
<1>6. LogInv'
  <2>1. \A v \in DOMAIN muts : Forgotten(v)' <=> Forgotten(v)
    BY <1>3, <1>5 DEF Forgotten
  <2>2. n \notin current_mutations
    BY <1>5 DEF RowsInv, MutsInv
  <2>3. DOMAIN muts' \subseteq 1..increment'
    BY <1>1, <1>3, <1>4, <1>5
  <2>4. /\ current_mutations' \subseteq files'
        /\ starting' \in files' \ current_mutations' /\ \A v \in DOMAIN muts' : v <= starting'
    BY <1>3, <1>5, <2>2 DEF LogInv
  <2>5. \A c \in Cleaners : \A v \in cleaner'[c].files : v \in DOMAIN muts' /\ Forgotten(v)'
    BY <1>3, <1>5, <2>1 DEF LogInv
  <2>6. ~Forgotten(n)'
    BY <1>3 DEF Forgotten
  <2>7. \A v \in DOMAIN muts' :
          /\ muts'[v].pre \subseteq acked'
          /\ Forgotten(v)' => \E w \in current_mutations' : v < w
    BY <1>3, <1>5, <2>1, <2>6 DEF LogInv
  <2>8. QED
    BY <2>3, <2>4, <2>5, <2>7 DEF LogInv
<1>7. LevelsInv'
  <2>1. Future' = Future
    BY <1>3, ActiveSame, TasksSame DEF Future, ActiveNext
  <2>2. \A p \in Future : p.mutation \in Nat /\ p.mutation <= increment
    BY FutureInfos DEF LevelsInv, LevelInv, Info
  <2>3. QED
    BY <1>1, <1>3, <1>4, <2>1, <2>2 DEF LevelsInv, LevelInv
<1>8. ASSUME NEW p \in Future, NEW f, PartHistory(p, f, muts, current_mutations, starting)
      PROVE  PartHistory(p, f, muts', current_mutations', starting')
  <2>1. DataVersion(p) \in Nat /\ DataVersion(p) <= increment
    BY VersionBelow
  <2>2. ASSUME NEW r \in DOMAIN f PROVE RowHistory(p, r, f[r], muts', current_mutations, n)
    <3>1. RowHistory(p, r, f[r], muts, current_mutations, 0)
      BY <1>3, <1>8 DEF PartHistory
    <3>2. QED
      BY <1>1, <1>2, <1>4, <2>1, <3>1, StartedHistory
  <2>3. QED
    BY <1>3, <2>2 DEF PartHistory
<1>9. HistoryInv'
  BY <1>3, <1>8, HistoriesChange DEF Future, Holds
<1>10. QED
  BY <1>6, <1>7, <1>9

\* The rows of the parts that are or become active are on disk.
LEMMA RowsAreOnDisk ==
  ASSUME PartsInv, RowsInv, NEW p, NEW f, Holds(p, f)
  PROVE  DOMAIN f \subseteq RowsOnDisk
<1>1. CASE p \in ActiveNext /\ f = disk[p]
  BY <1>1, FutureInfos DEF RowsOnDisk
<1>2. ASSUME NEW k \in Pending, f = tasks[k].content PROVE DOMAIN f \subseteq RowsOnDisk
  <2>1. \A r \in DOMAIN f : \E q \in tasks[k].src : r \in DOMAIN disk[q]
    BY <1>2 DEF RowsInv, TaskRowsInv
  <2>2. tasks[k].src \subseteq DOMAIN disk
    BY TaskOnDisk
  <2>3. QED
    BY <2>1, <2>2 DEF RowsOnDisk
<1>3. QED
  BY <1>1, <1>2 DEF Holds

LEMMA RegisterMutationOrder ==
  ASSUME PartsInv, RowsInv, OrderInv, RegisterMutation
  PROVE  OrderInv'
<1> USE DEF OrderInv
<1>1. /\ starting # 0 /\ starting' = 0
      /\ current_mutations' = current_mutations \cup {starting}
      /\ muts' = [muts EXCEPT ![starting].post = RowsOnDisk]
      /\ acked' = acked /\ files' = files /\ increment' = increment
      /\ UNCHANGED <<parts, disk, inserting, tasks, drop, cleaner, crossed>>
  BY DEF RegisterMutation, table
<1>2. DOMAIN muts \subseteq 1..increment /\ 0 \notin DOMAIN muts /\ starting \in DOMAIN muts
  BY <1>1 DEF LogInv, RowsInv, MutsInv
<1>3. /\ DOMAIN muts' = DOMAIN muts
      /\ \A v \in DOMAIN muts : v # starting => muts'[v] = muts[v]
      /\ muts'[starting].pre = muts[starting].pre /\ muts'[starting].post = RowsOnDisk
  BY <1>1, <1>2 DEF RowsInv, MutsInv
<1>4. LogInv'
  <2>1. \A v \in DOMAIN muts : Forgotten(v)' <=> Forgotten(v)
    BY <1>1, <1>2 DEF Forgotten
  <2>2. DOMAIN muts' \subseteq 1..increment' /\ current_mutations' \subseteq files' /\ starting' = 0
    BY <1>1, <1>2, <1>3 DEF LogInv
  <2>3. \A c \in Cleaners : \A v \in cleaner'[c].files : v \in DOMAIN muts' /\ Forgotten(v)'
    BY <1>1, <1>3, <2>1 DEF LogInv
  <2>4. \A v \in DOMAIN muts' :
          /\ muts'[v].pre \subseteq acked'
          /\ Forgotten(v)' => \E w \in current_mutations' : v < w
    BY <1>1, <1>3, <2>1 DEF LogInv
  <2>5. QED
    BY <2>2, <2>3, <2>4 DEF LogInv
<1>5. LevelsInv'
  <2>1. Future' = Future
    BY <1>1, ActiveSame, TasksSame DEF Future, ActiveNext
  <2>2. QED
    BY <1>1, <2>1 DEF LevelsInv, LevelInv
<1>6. ASSUME NEW p, NEW f, PartHistory(p, f, muts, current_mutations, starting),
             DOMAIN f \subseteq RowsOnDisk
      PROVE  PartHistory(p, f, muts', current_mutations', starting')
  <2>1. SUFFICES ASSUME NEW r \in DOMAIN f
                 PROVE  RowHistory(p, r, f[r], muts', current_mutations', 0)
    BY <1>1 DEF PartHistory
  <2>2. RowHistory(p, r, f[r], muts, current_mutations, starting) /\ r \in RowsOnDisk
    BY <1>6 DEF PartHistory
  <2>3. \A v \in DOMAIN muts :
          muts'[v].pre = muts[v].pre /\ (r \in muts[v].post \/ v = starting => r \in muts'[v].post)
    BY <1>3, <2>2
  <2>4. current_mutations \subseteq current_mutations' /\ starting \in current_mutations'
    BY <1>1
  <2>5. QED
    BY <1>2, <1>3, <2>2, <2>3, <2>4, RegisteredHistory
<1>7. HistoryInv'
  BY <1>1, <1>6, HistoriesChange, RowsAreOnDisk
<1>8. QED
  BY <1>4, <1>5, <1>7

\* The newest mutation that is done everywhere stays known.
LEMMA NewestStays ==
  ASSUME PartsInv, VersionInv, NEW c \in Cleaners, ClearOldMutations(c)
  PROVE  \E x \in current_mutations' :
           /\ current_mutations' \subseteq current_mutations /\ x \in Nat
           /\ \A p \in Active : DataVersion(p) >= x
           /\ \A v \in current_mutations \ current_mutations' : v < x
           /\ cleaner' = [cleaner EXCEPT ![c].files = current_mutations \ current_mutations']
           /\ LockFree
           /\ UNCHANGED <<parts, disk, inserting, increment, files, starting, tasks, drop, acked,
                          muts, crossed>>
<1> DEFINE done == {m \in current_mutations : \A p \in Active : DataVersion(p) >= m}
           above(m) == {y \in done : y > m}
           old == {m \in done : Cardinality(above(m)) >= Keep}
<1>1. /\ Keep > 0 /\ old # {} /\ current_mutations' = current_mutations \ old
      /\ cleaner' = [cleaner EXCEPT ![c].files = old] /\ LockFree
      /\ UNCHANGED <<parts, disk, inserting, increment, files, starting, tasks, drop, acked,
                     muts, crossed>>
  BY DEF ClearOldMutations, table
<1>2. current_mutations \subseteq Nat /\ increment \in Nat /\ \A v \in current_mutations : v <= increment
  BY DEF PartsInv, TypeInv, VersionInv
<1>3. Keep \in Nat
  BY BoundsAssumption
<1>4. ASSUME NEW m \in old PROVE above(m) # {}
  <2>1. SUFFICES ASSUME above(m) = {} PROVE FALSE
    OBVIOUS
  <2>2. Cardinality(above(m)) = 0
    BY <2>1, FS_EmptySet
  <2>3. Cardinality(above(m)) >= Keep
    OBVIOUS
  <2> HIDE DEF above, old, done
  <2>4. QED
    BY <1>1, <1>3, <2>2, <2>3
<1>5. done \subseteq Nat /\ done # {} /\ \A v \in done : v <= increment
  BY <1>1, <1>2
<1>6. PICK x : x = Max(done)
  OBVIOUS
<1>7. x \in done /\ \A v \in done : v <= x
  <2> HIDE DEF done
  <2> QED
    BY <1>2, <1>5, <1>6, MaxIsGreatest
<1>8. x \notin old
  <2>1. SUFFICES ASSUME x \in old PROVE FALSE
    OBVIOUS
  <2>2. PICK y \in done : y > x
    BY <1>4, <2>1
  <2>3. y \in Nat /\ x \in Nat /\ y <= x
    BY <1>5, <1>7, <2>2
  <2>4. QED
    BY <2>2, <2>3
<1>9. \A v \in old : v < x
  <2>1. SUFFICES ASSUME NEW v \in old PROVE v < x
    OBVIOUS
  <2>2. v \in done /\ v # x
    BY <1>8
  <2>3. v <= x /\ v \in Nat /\ x \in Nat
    BY <1>5, <1>7, <2>2
  <2>4. QED
    BY <2>2, <2>3
<1>10. current_mutations \ current_mutations' = old
  BY <1>1
<1>11. /\ x \in current_mutations' /\ x \in Nat /\ \A p \in Active : DataVersion(p) >= x
       /\ current_mutations' \subseteq current_mutations
  BY <1>1, <1>5, <1>7, <1>8
<1> HIDE DEF old, done
<1>12. QED
  BY <1>1, <1>9, <1>10, <1>11

LEMMA ClearOldMutationsOrder ==
  ASSUME PartsInv, RowsInv, GoneInv, OrderInv, NEW c \in Cleaners, ClearOldMutations(c)
  PROVE  OrderInv'
<1> USE DEF OrderInv
<1>1. PICK x \in current_mutations' :
        /\ current_mutations' \subseteq current_mutations /\ x \in Nat
        /\ \A p \in Active : DataVersion(p) >= x
        /\ \A v \in current_mutations \ current_mutations' : v < x
        /\ cleaner' = [cleaner EXCEPT ![c].files = current_mutations \ current_mutations']
        /\ LockFree
        /\ UNCHANGED <<parts, disk, inserting, increment, files, starting, tasks, drop, acked,
                       muts, crossed>>
  BY NewestStays DEF GoneInv
<1>2. DOMAIN muts \subseteq Nat /\ 0 \notin DOMAIN muts /\ current_mutations \subseteq DOMAIN muts
  BY DEF LogInv, RowsInv, MutsInv
<1>3. \A v \in DOMAIN muts : Forgotten(v)' => \E w \in current_mutations' : v < w
  <2>1. SUFFICES ASSUME NEW v \in DOMAIN muts, v \notin current_mutations', v # starting
                 PROVE  \E w \in current_mutations' : v < w
    BY <1>1 DEF Forgotten
  <2>2. CASE v \in current_mutations
    BY <1>1, <2>1, <2>2
  <2>3. CASE v \notin current_mutations
    <3>1. PICK w \in current_mutations : v < w
      BY <2>1, <2>3 DEF LogInv, Forgotten
    <3>2. w \in current_mutations' \/ (w < x /\ w \in Nat /\ v \in Nat /\ x \in Nat)
      BY <1>1, <1>2
    <3>3. QED
      BY <1>1, <3>1, <3>2
  <2>4. QED
    BY <2>2, <2>3
<1>4. \A d \in Cleaners : \A v \in cleaner'[d].files : v \in DOMAIN muts /\ Forgotten(v)'
  <2>1. \A v : Forgotten(v) => Forgotten(v)'
    BY <1>1 DEF Forgotten
  <2>2. \A v \in current_mutations \ current_mutations' : v \in DOMAIN muts /\ Forgotten(v)'
    BY <1>1, <1>2 DEF Forgotten, LogInv
  <2>3. ASSUME NEW d \in Cleaners
        PROVE  cleaner'[d].files = cleaner[d].files
               \/ cleaner'[d].files = current_mutations \ current_mutations'
    BY <1>1 DEF PartsInv, TypeInv
  <2>4. QED
    BY <2>1, <2>2, <2>3 DEF LogInv
<1>5. LogInv'
  BY <1>1, <1>3, <1>4 DEF LogInv
<1>6. LevelsInv'
  <2>1. Future' = Future
    BY <1>1, ActiveSame, TasksSame DEF Future, ActiveNext
  <2>2. QED
    BY <1>1, <2>1 DEF LevelsInv, LevelInv
<1>7. ActiveNext = Active
  BY <1>1 DEF ActiveNext, LockFree
<1>8. \A p \in ActiveNext \cup {tasks[k].info : k \in Pending} : DataVersion(p) \in Nat /\ x <= DataVersion(p)
  <2>1. \A k \in Pending : DataVersion(tasks[k].info) >= x
    BY <1>1, TaskVersion DEF GoneInv
  <2>2. \A p \in Future : DataVersion(p) \in Nat
    BY VersionBelow
  <2>3. \A k \in Pending : DataVersion(tasks[k].info) \in Nat
    BY <2>2 DEF Future
  <2>4. \A p \in ActiveNext : DataVersion(p) \in Nat
    BY <2>2 DEF Future
  <2>5. QED
    BY <1>1, <1>7, <2>1, <2>3, <2>4
<1>9. ASSUME NEW p, NEW f, PartHistory(p, f, muts, current_mutations, starting),
             DataVersion(p) \in Nat, x <= DataVersion(p)
      PROVE  PartHistory(p, f, muts', current_mutations', starting')
  <2>1. SUFFICES ASSUME NEW r \in DOMAIN f
                 PROVE  RowHistory(p, r, f[r], muts, current_mutations', starting)
    BY <1>1 DEF PartHistory
  <2>2. RowHistory(p, r, f[r], muts, current_mutations, starting)
    BY <1>9 DEF PartHistory
  <2>3. current_mutations \subseteq Nat
    BY <1>2
  <2>4. QED
    BY <1>1, <1>2, <1>9, <2>2, <2>3, ClearedHistory
<1>10. HistoryInv'
  BY <1>1, <1>8, <1>9, HistoriesChange DEF Holds
<1>11. QED
  BY <1>5, <1>6, <1>10

\* A start knows the mutations whose files it finds, which are no fewer.
LEMMA RestartOrder ==
  ASSUME PartsInv, RowsInv, GoneInv, OrderInv, Restart
  PROVE  OrderInv'
<1> USE DEF OrderInv
<1>1. /\ parts' = [p \in TopLevel |-> "Active"] /\ inserting' = NoPart
      /\ increment' = LastNumber /\ current_mutations' = files /\ starting' = 0
      /\ muts' = [v \in DOMAIN muts |->
                   IF v = starting THEN [muts[v] EXCEPT !.post = RowsOnDisk] ELSE muts[v]]
      /\ tasks' = [k \in Tasks |-> NoTask]
      /\ drop' = [phase |-> "idle", cover |-> {}]
      /\ cleaner' = NotCleaning
      /\ disk' = disk /\ files' = files /\ acked' = acked /\ crossed' = crossed
  BY DEF Restart, table
<1>2. Active' = TopLevel /\ ActiveNext' = TopLevel /\ TopLevel \subseteq DOMAIN disk
  BY <1>1 DEF Active, InState, TopLevel, ActiveNext
<1>3. Pending' = {} /\ Future' = TopLevel
  BY <1>1, <1>2 DEF Running, Pending, Future
<1>4. DOMAIN muts \subseteq 1..increment /\ 0 \notin DOMAIN muts /\ files \subseteq DOMAIN muts
  BY DEF LogInv, RowsInv, MutsInv
<1>5. /\ DOMAIN muts' = DOMAIN muts
      /\ \A v \in DOMAIN muts :
           /\ muts'[v].pre = muts[v].pre
           /\ muts'[v].post = IF v = starting THEN RowsOnDisk ELSE muts[v].post
  BY <1>1 DEF RowsInv, MutsInv
<1>6. /\ LastNumber \in Nat /\ \A v \in files : v <= LastNumber
      /\ \A p \in TopLevel : p.mutation <= LastNumber
  BY LastNumberIs DEF PartsInv
<1>7. current_mutations \subseteq files /\ (starting # 0 => starting \in files)
  BY DEF LogInv
<1>8. \A v \in DOMAIN muts : v \notin files => \E w \in files : v < w
  <2>1. \A v \in DOMAIN muts : v \notin files => Forgotten(v)
    BY <1>4, <1>7 DEF Forgotten
  <2>2. QED
    BY <1>7, <2>1 DEF LogInv
<1>9. LogInv'
  <2>1. \A v \in DOMAIN muts : v \in Nat /\ v # 0 /\ v <= LastNumber
    <3>1. \A v \in DOMAIN muts : v \in Nat /\ v # 0
      BY <1>4
    <3>2. \A v \in DOMAIN muts : v \in files \/ \E w \in files : v < w /\ w \in Nat
      BY <1>4, <1>8, <3>1
    <3>3. QED
      BY <1>6, <3>1, <3>2
  <2>2. DOMAIN muts' \subseteq 1..increment'
    BY <1>1, <1>5, <1>6, <2>1
  <2>3. \A c \in Cleaners : cleaner'[c].files = {}
    BY <1>1 DEF NotCleaning
  <2>4. \A v \in DOMAIN muts' :
          /\ muts'[v].pre \subseteq acked'
          /\ Forgotten(v)' => \E w \in current_mutations' : v < w
    BY <1>1, <1>5, <1>8 DEF LogInv, Forgotten
  <2>5. QED
    BY <1>1, <2>2, <2>3, <2>4 DEF LogInv
<1>10. LevelsInv'
  BY <1>1, <1>3, <1>6 DEF LevelsInv, LevelInv
<1>11. HistoryInv'
  <2>1. SUFFICES ASSUME ~crossed, NEW p \in TopLevel
                 PROVE  PartHistory(p, disk[p], muts', files, 0)
    BY <1>1, <1>2, <1>3 DEF HistoryInv
  <2>2. CASE disk[p] = Nothing
    BY <2>2, EmptyHistory
  <2>3. ASSUME PartHistory(p, disk[p], muts, current_mutations, starting), NEW r \in DOMAIN disk[p]
        PROVE  RowHistory(p, r, disk[p][r], muts', files, 0)
    <3>1. RowHistory(p, r, disk[p][r], muts, current_mutations, starting)
      BY <2>3 DEF PartHistory
    <3>2. r \in RowsOnDisk
      BY <1>2, <2>1, <2>3 DEF RowsOnDisk
    <3>3. \A v \in DOMAIN muts :
            muts'[v].pre = muts[v].pre /\ (r \in muts[v].post \/ v = starting => r \in muts'[v].post)
      BY <1>5, <3>2
    <3>4. QED
      BY <1>4, <1>5, <1>7, <3>1, <3>3, RegisteredHistory
  <2>4. CASE p \in ActiveNext
    <3>1. PartHistory(p, disk[p], muts, current_mutations, starting)
      BY <2>1, <2>4 DEF HistoryInv
    <3>2. QED
      BY <2>3, <3>1 DEF PartHistory
  <2>5. CASE p \in RenamedParts
    <3>1. PICK k \in Running : tasks[k].phase = "renamed" /\ p = tasks[k].info
      BY <2>5 DEF RenamedParts
    <3>2. k \in Pending /\ disk[p] = tasks[k].content
      BY <3>1 DEF Pending, RowsInv, TaskRowsInv
    <3>3. PartHistory(p, disk[p], muts, current_mutations, starting)
      BY <2>1, <3>1, <3>2 DEF HistoryInv
    <3>4. QED
      BY <2>3, <3>3 DEF PartHistory
  <2>6. QED
    BY <2>1, <2>2, <2>4, <2>5, TopIsKnown DEF ActiveNext
<1>12. QED
  BY <1>9, <1>10, <1>11

-----------------------------------------------------------------------------
(* Merges: parts with the same mutations *)

LEMMA CurrentVersion ==
  ASSUME PartsInv, NEW v \in Nat, NEW g, g = getCurrentMutationVersion(v)
  PROVE  g \in Nat /\ g <= v /\ \A w \in current_mutations : w <= v => w <= g
<1> DEFINE known == {0} \cup {m \in current_mutations : m <= v}
<1>1. known \subseteq Nat /\ known # {} /\ \A m \in known : m <= v
  <2>1. current_mutations \subseteq Nat
    BY DEF PartsInv, TypeInv
  <2>2. known # {}
    OBVIOUS
  <2>3. ASSUME NEW m \in known PROVE m \in Nat /\ m <= v
    <3>1. CASE m = 0
      BY <3>1
    <3>2. CASE m \in current_mutations /\ m <= v
      BY <2>1, <3>2
    <3>3. QED
      BY <3>1, <3>2
  <2>4. QED
    BY <2>2, <2>3
<1>2. g = Max(known)
  BY DEF getCurrentMutationVersion
<1>3. g \in known /\ \A m \in known : m <= g
  <2> HIDE DEF known
  <2> QED
    BY <1>1, <1>2, MaxIsGreatest
<1>4. QED
  BY <1>1, <1>3

\* canMergeParts looks at neighbours; the parts of a range all have the same
\* version.
LEMMA MergeChain ==
  ASSUME PartsInv, NEW S, S \subseteq Active, Mergeable(S), NEW p \in S, NEW q \in S
  PROVE  getCurrentMutationVersion(DataVersion(p)) = getCurrentMutationVersion(DataVersion(q))
<1> DEFINE G(x) == getCurrentMutationVersion(DataVersion(x))
           bad == {n \in Nat : \E x, y \in S : x.min < y.min /\ n = y.min - x.min /\ G(x) # G(y)}
<1> HIDE DEF G
<1>1. S \subseteq Info /\ AllDisjoint(S)
  BY ActiveInfos DEF PartsInv, TaskInv, AllDisjoint
<1>2. bad = {}
  <2>1. SUFFICES ASSUME bad # {} PROVE FALSE
    OBVIOUS
  <2>2. PICK n \in bad : \A m \in bad : n <= m
    BY <2>1, LeastNatural
  <2>3. PICK x \in S, y \in S : x.min < y.min /\ n = y.min - x.min /\ G(x) # G(y)
    BY <2>2
  <2>4. ~canMergeParts(x, y)
    BY <2>3 DEF canMergeParts, G
  <2>5. ~Adjacent(x, y)
    BY <2>4 DEF Mergeable
  <2>6. Less(x, y)
    BY <2>3 DEF Less
  <2>7. PICK z \in Active : Less(x, z) /\ Less(z, y)
    BY <2>5, <2>6 DEF Adjacent
  <2>8. z \in Info /\ x \in Info /\ y \in Info
    BY <1>1, ActiveInfos DEF PartsInv
  <2>9. z \in S
    <3>1. ~Less(y, z) /\ ~Less(z, x)
      BY <2>7, <2>8 DEF Less, Info
    <3>2. QED
      BY <2>3, <2>7, <3>1 DEF Mergeable
  <2>10. x.min <= z.min /\ z.min <= y.min /\ z # x /\ z # y
    BY <2>7, <2>8 DEF Less, Info
  <2>11. Disjoint(x, z) /\ Disjoint(z, y)
    BY <1>1, <2>9, <2>10 DEF AllDisjoint
  <2>12. x.min < z.min /\ z.min < y.min
    BY <2>8, <2>10, <2>11 DEF Disjoint, Info
  <2>13. /\ z.min - x.min \in Nat /\ z.min - x.min < n
         /\ y.min - z.min \in Nat /\ y.min - z.min < n /\ n \in Nat
    BY <2>3, <2>8, <2>12 DEF Info
  <2>14. z.min - x.min \notin bad /\ y.min - z.min \notin bad
    <3> HIDE DEF bad
    <3> QED
      BY <2>2, <2>13
  <2>15. G(x) = G(z) /\ G(z) = G(y)
    BY <2>9, <2>12, <2>13, <2>14
  <2>16. QED
    BY <2>3, <2>15
<1>3. \A x, y \in S : x.min < y.min => G(x) = G(y)
  <2>1. \A x, y \in S : x.min < y.min => y.min - x.min \in Nat
    BY <1>1 DEF Info
  <2>2. QED
    BY <1>2, <2>1
<1>4. p = q \/ p.min < q.min \/ q.min < p.min
  <2>1. p \in Info /\ q \in Info /\ (p = q \/ Disjoint(p, q))
    BY <1>1 DEF AllDisjoint
  <2>2. QED
    BY <2>1 DEF Disjoint, Info
<1>5. G(p) = G(q)
  BY <1>3, <1>4
<1>6. QED
  BY <1>5 DEF G

\* So a merged part has, of the known mutations, what each of its sources has.
LEMMA MergedKnows ==
  ASSUME PartsInv, LevelsInv, NEW S, S \subseteq Active, S # {}, Mergeable(S),
         NEW m, m = MergedInfo(S), NEW q \in S
  PROVE  /\ q.mutation <= m.mutation /\ q.mutation \in Nat /\ m.mutation \in Nat
         /\ DataVersion(q) \in Nat /\ DataVersion(m) \in Nat
         /\ \A w \in current_mutations : w <= DataVersion(q) <=> w <= DataVersion(m)
         /\ starting # 0 /\ starting <= DataVersion(m) => starting <= DataVersion(q)
<1>1. /\ \E x \in S : x.min = m.min
      /\ \E x \in S : x.mutation = m.mutation
      /\ \A x \in S : m.min <= x.min /\ x.mutation <= m.mutation
      /\ m.min \in Nat /\ m.mutation \in Nat
  BY MergedNumbers DEF Info
<1>2. S \subseteq Info /\ S \subseteq Future
  BY ActiveInfos DEF PartsInv, Future, ActiveNext
<1>3. \A x \in S : DataVersion(x) \in Nat
  BY <1>2, VersionIsNumber
<1>4. \E x \in S : DataVersion(x) = DataVersion(m)
  <2>1. CASE m.mutation = 0
    <3>1. PICK x \in S : x.min = m.min
      BY <1>1
    <3>2. x.mutation = 0
      BY <1>1, <1>2, <2>1 DEF Info
    <3>3. QED
      BY <2>1, <3>1, <3>2 DEF DataVersion
  <2>2. CASE m.mutation # 0
    BY <1>1, <2>2 DEF DataVersion
  <2>3. QED
    BY <2>1, <2>2
<1>5. PICK x \in S : DataVersion(x) = DataVersion(m)
  BY <1>4
<1>6. PICK g : g = getCurrentMutationVersion(DataVersion(q))
  OBVIOUS
<1>7. g = getCurrentMutationVersion(DataVersion(x))
  BY <1>6, MergeChain
<1>8. /\ g <= DataVersion(q) /\ \A w \in current_mutations : w <= DataVersion(q) => w <= g
      /\ g <= DataVersion(x) /\ \A w \in current_mutations : w <= DataVersion(x) => w <= g
      /\ g \in Nat
  BY <1>3, <1>6, <1>7, CurrentVersion
<1>9. \A w \in current_mutations : w <= DataVersion(q) <=> w <= DataVersion(x)
  <2>1. current_mutations \subseteq Nat
    BY DEF PartsInv, TypeInv
  <2>2. DataVersion(q) \in Nat /\ DataVersion(x) \in Nat
    BY <1>3
  <2>3. QED
    BY <1>8, <2>1, <2>2
<1>10. ASSUME starting # 0, starting <= DataVersion(m) PROVE starting <= DataVersion(q)
  <2>1. m.mutation < starting /\ starting \in Nat
    <3>1. PICK y \in S : y.mutation = m.mutation
      BY <1>1
    <3>2. QED
      BY <1>2, <1>10, <3>1, FutureInfos DEF LevelsInv, LevelInv
  <2>2. m.mutation = 0
    BY <1>1, <1>10, <2>1 DEF DataVersion
  <2>3. q.mutation = 0 /\ q.min \in Nat /\ m.min <= q.min
    BY <1>1, <1>2, <2>2 DEF Info
  <2>4. QED
    BY <1>1, <1>10, <2>1, <2>2, <2>3 DEF DataVersion
<1>11. QED
  BY <1>1, <1>2, <1>3, <1>5, <1>9, <1>10 DEF Info

LEMMA MergedHistory ==
  ASSUME NEW M, NEW C, NEW n, DOMAIN M \subseteq Nat, C \subseteq Nat, 0 \notin DOMAIN M,
         NEW q, NEW m, q.mutation <= m.mutation, q.mutation \in Nat, m.mutation \in Nat,
         DataVersion(q) \in Nat, DataVersion(m) \in Nat,
         \A w \in C : w <= DataVersion(q) <=> w <= DataVersion(m),
         n # 0 /\ n <= DataVersion(m) => n <= DataVersion(q),
         NEW r, NEW s, RowHistory(q, r, s, M, C, n)
  PROVE  RowHistory(m, r, s, M, C, n)
<1>1. \A i \in DOMAIN s : s[i] \in DOMAIN M /\ s[i] <= m.mutation /\ r \in M[s[i]].post
  BY DEF RowHistory
<1>2. ASSUME NEW v \in DOMAIN M, r \in M[v].pre, v <= DataVersion(m) \/ v \notin C \cup {n}
      PROVE  v \in Range(s)
  <2>1. v <= DataVersion(q) \/ v \notin C \cup {n}
    BY <1>2
  <2>2. QED
    BY <1>2, <2>1 DEF RowHistory
<1>3. ASSUME NEW v \in DOMAIN M, v \notin C \cup {n}
      PROVE  \E w \in C : v < w /\ w <= DataVersion(m)
  BY <1>3 DEF RowHistory
<1>4. ASSUME NEW v \in DOMAIN M, r \notin M[v].post, v # n PROVE v <= DataVersion(m)
  <2>1. v <= DataVersion(q)
    BY <1>4 DEF RowHistory
  <2>2. CASE v \in C
    BY <2>1, <2>2
  <2>3. CASE v \notin C
    <3>1. PICK w \in C : v < w /\ w <= DataVersion(m)
      BY <1>3, <1>4, <2>3
    <3>2. v \in Nat /\ w \in Nat
      OBVIOUS
    <3>3. QED
      BY <3>1, <3>2
  <2>4. QED
    BY <2>2, <2>3
<1>5. QED
  BY <1>1, <1>2, <1>3, <1>4 DEF RowHistory

\* A task is made.
LEMMA SelectOrder ==
  ASSUME PartsInv, PartsInv', RowsInv, OrderInv, ~Mutating, NEW k \in Tasks,
         Merging(k) \/ SelectMutate(k),
         NEW kind, NEW S, NEW m, NEW content, Start(k, kind, S, m, content), LevelInv(m),
         ~crossed => PartHistory(m, content, muts, current_mutations, starting)
  PROVE  OrderInv'
<1> DEFINE new == [kind |-> kind, src |-> S, info |-> m, content |-> content,
                   phase |-> "running"]
<1>1. /\ tasks' = [tasks EXCEPT ![k] = new]
      /\ UNCHANGED <<parts, disk, inserting, drop>>
  BY DEF Start
<1>2. new.info = m /\ new.content = content
  OBVIOUS
<1> HIDE DEF new
<1>3. tasks'[k] = new /\ \A j \in Tasks \ {k} : tasks'[j] = tasks[j]
  BY <1>1 DEF PartsInv, TypeInv
<1>4. Pending' \subseteq Pending \cup {k} /\ Pending \subseteq Tasks
  BY <1>3 DEF Pending, Running
<1>5. Step
  BY DEF Step
<1>6. ActiveNext' = ActiveNext
  BY <1>1, ActiveSame DEF ActiveNext
<1>7. \A j \in Pending' : \/ j \in Pending /\ tasks'[j] = tasks[j]
                          \/ tasks'[j].info = m /\ tasks'[j].content = content
  BY <1>2, <1>3, <1>4
<1>8. LevelsInv'
  <2>1. \A p \in Future' : p \in Future \/ p = m
    BY <1>1, <1>6, <1>7 DEF Future
  <2>2. QED
    BY <1>5, <2>1, LevelsStep DEF OrderInv
<1>9. HistoryInv'
  BY <1>1, <1>5, <1>6, <1>7, HistoryStep, LogStays DEF OrderInv
<1>10. QED
  BY <1>5, <1>8, <1>9, LogStep DEF OrderInv

LEMMA SelectMergeOrder ==
  ASSUME PartsInv, PartsInv', RowsInv, OrderInv, ~Mutating, NEW k \in Tasks, Merging(k)
  PROVE  OrderInv'
<1> USE DEF OrderInv
<1>1. PICK S \in SUBSET (Active \ Tagged) :
        Mergeable(S) /\ Start(k, "merge", S, MergedInfo(S), MergedContent(S))
  BY DEF Merging
<1>2. S # {} /\ S \subseteq Active
  BY <1>1, FS_EmptySet DEF Mergeable
<1>3. PICK m : m = MergedInfo(S)
  OBVIOUS
<1>4. PICK content : content = MergedContent(S)
  OBVIOUS
<1>5. Start(k, "merge", S, m, content)
  BY <1>1, <1>3, <1>4
<1>6. LevelInv(m)
  <2>1. PICK q \in S : q.mutation = m.mutation
    BY <1>2, <1>3, MergedNumbers
  <2>2. q \in Future
    BY <1>2 DEF Future, ActiveNext
  <2>3. QED
    BY <2>1, <2>2 DEF LevelsInv, LevelInv
<1>7. ASSUME ~crossed, NEW r \in DOMAIN content
      PROVE  RowHistory(m, r, content[r], muts, current_mutations, starting)
  <2>1. PICK q \in S : r \in DOMAIN disk[q] /\ content[r] = disk[q][r]
    BY <1>4 DEF MergedContent
  <2>2. q \in ActiveNext
    BY <1>2 DEF ActiveNext
  <2>3. RowHistory(q, r, content[r], muts, current_mutations, starting)
    BY <1>7, <2>1, <2>2 DEF HistoryInv, PartHistory
  <2>4. /\ q.mutation <= m.mutation /\ q.mutation \in Nat /\ m.mutation \in Nat
        /\ DataVersion(q) \in Nat /\ DataVersion(m) \in Nat
        /\ \A w \in current_mutations : w <= DataVersion(q) <=> w <= DataVersion(m)
        /\ starting # 0 /\ starting <= DataVersion(m) => starting <= DataVersion(q)
    BY <1>1, <1>2, <1>3, MergedKnows
  <2>5. DOMAIN muts \subseteq Nat /\ current_mutations \subseteq Nat /\ 0 \notin DOMAIN muts
    BY DEF LogInv, PartsInv, TypeInv
  <2>6. QED
    BY <2>3, <2>4, <2>5, MergedHistory
<1>8. QED
  BY <1>5, <1>6, <1>7, SelectOrder DEF PartHistory

-----------------------------------------------------------------------------
(* A part is mutated: what it lacks is added, in order *)

LEMMA AppendHistory ==
  ASSUME NEW M, NEW C, NEW n, NEW b \in Nat, DOMAIN M \subseteq 1..b, C \subseteq DOMAIN M, n \notin C,
         n # 0 => \A v \in DOMAIN M : v <= n,
         NEW p \in Info, NEW last \in C, DataVersion(p) < last,
         NEW m, m.mutation = last, DataVersion(m) = last,
         NEW todo, todo = {v \in C : v > DataVersion(p) /\ v <= last},
         NEW r, NEW s, RowHistory(p, r, s, M, C, n)
  PROVE  RowHistory(m, r, s \o Sorted(todo), M, C, n)
<1>1. PICK new : new = Sorted(todo)
  OBVIOUS
<1>2. PICK c : c = Cardinality(todo)
  OBVIOUS
<1>3. /\ DOMAIN new = 1..c /\ c \in Nat /\ Range(new) = todo
      /\ \A i \in DOMAIN new : new[i] \in todo
      /\ \A i, j \in DOMAIN new : i < j => new[i] < new[j]
      /\ new \in [1..c -> Nat]
  <2>1. todo \subseteq 1..b
    OBVIOUS
  <2>2. /\ DOMAIN new = 1..c /\ c \in Nat /\ Range(new) = todo
        /\ \A i \in DOMAIN new : new[i] \in todo
        /\ \A i, j \in DOMAIN new : i < j => new[i] < new[j]
        /\ new \in [1..c -> todo]
    BY <1>1, <1>2, <2>1, SortedIs
  <2>3. todo \subseteq Nat
    BY <2>1
  <2>4. QED
    BY <2>2, <2>3
<1>4. new \in Seq(Nat) /\ Len(new) = c
  BY <1>3, SeqDef
<1>5. s \in Seq(Nat) /\ DOMAIN s = 1..Len(s) /\ Len(s) \in Nat
  BY LenProperties DEF RowHistory
<1>6. PICK t : t = s \o new
  OBVIOUS
<1>7. /\ t \in Seq(Nat) /\ Len(t) = Len(s) + c
      /\ \A i \in 1..(Len(s) + c) : t[i] = IF i <= Len(s) THEN s[i] ELSE new[i - Len(s)]
  BY <1>4, <1>5, <1>6, ConcatProperties
<1>8. DOMAIN t = 1..(Len(s) + c)
  BY <1>7, LenProperties
<1>9. \A i \in DOMAIN t : \/ i \in DOMAIN s /\ t[i] = s[i]
                          \/ i > Len(s) /\ i - Len(s) \in DOMAIN new /\ t[i] = new[i - Len(s)]
  <2>1. PICK l \in Nat : l = Len(s)
    BY <1>5
  <2>2. ASSUME NEW i \in 1..(l + c), i <= l PROVE i \in 1..l
    BY <2>2
  <2>3. ASSUME NEW i \in 1..(l + c), ~(i <= l) PROVE i > l /\ i - l \in 1..c
    BY <1>3, <2>3
  <2>4. QED
    BY <1>3, <1>5, <1>7, <1>8, <2>1, <2>2, <2>3
<1>10. DataVersion(p) \in Nat /\ p.mutation \in Nat /\ p.mutation <= DataVersion(p)
  BY DEF DataVersion, Info
<1>11. DOMAIN M \subseteq Nat /\ C \subseteq Nat /\ last \in Nat /\ todo \subseteq C
  OBVIOUS
<1>12. \A v \in todo : v \in Nat /\ DataVersion(p) < v /\ v <= last /\ v \in DOMAIN M /\ v # n
  BY <1>10, <1>11
<1>13. \A i \in DOMAIN s : s[i] \in DOMAIN M /\ s[i] <= p.mutation /\ s[i] \in Nat
  BY <1>11 DEF RowHistory
<1>14. ASSUME NEW i \in DOMAIN t, NEW j \in DOMAIN t, i < j PROVE t[i] < t[j]
  <2>1. i \in Nat /\ j \in Nat
    BY <1>5, <1>3, <1>8
  <2>2. CASE j \in DOMAIN s /\ t[j] = s[j]
    <3>1. i \in DOMAIN s /\ t[i] = s[i]
      BY <1>5, <1>9, <1>14, <2>1, <2>2
    <3>2. QED
      BY <1>14, <2>2, <3>1 DEF RowHistory
  <2>3. CASE j > Len(s) /\ j - Len(s) \in DOMAIN new /\ t[j] = new[j - Len(s)]
    <3>1. CASE i \in DOMAIN s /\ t[i] = s[i]
      <4>1. t[i] <= p.mutation /\ t[i] \in Nat
        BY <1>13, <3>1
      <4>2. t[j] \in Nat /\ DataVersion(p) < t[j]
        BY <1>3, <1>12, <2>3
      <4>3. QED
        BY <1>10, <4>1, <4>2
    <3>2. CASE i > Len(s) /\ i - Len(s) \in DOMAIN new /\ t[i] = new[i - Len(s)]
      <4>1. i - Len(s) < j - Len(s)
        BY <1>5, <1>14, <2>1
      <4>2. QED
        BY <1>3, <2>3, <3>2, <4>1
    <3>3. QED
      BY <1>9, <3>1, <3>2
  <2>4. QED
    BY <1>9, <2>2, <2>3
<1>15. \A v \in todo : r \in M[v].post
  <2>1. SUFFICES ASSUME NEW v \in todo, r \notin M[v].post PROVE FALSE
    OBVIOUS
  <2>2. v <= DataVersion(p)
    BY <1>12, <2>1 DEF RowHistory
  <2>3. QED
    BY <1>10, <1>12, <2>2
<1>16. ASSUME NEW i \in DOMAIN t
       PROVE  t[i] \in DOMAIN M /\ t[i] <= m.mutation /\ r \in M[t[i]].post
  <2>1. CASE i \in DOMAIN s /\ t[i] = s[i]
    <3>1. t[i] <= last
      BY <1>10, <1>11, <1>13, <2>1
    <3>2. QED
      BY <2>1, <3>1 DEF RowHistory
  <2>2. CASE i - Len(s) \in DOMAIN new /\ t[i] = new[i - Len(s)]
    BY <1>3, <1>12, <1>15, <2>2
  <2>3. QED
    BY <1>9, <2>1, <2>2
<1>17. Range(s) \cup todo \subseteq Range(t)
  <2>1. ASSUME NEW v \in Range(s) PROVE v \in Range(t)
    <3>1. PICK i \in DOMAIN s : v = s[i]
      BY DEF Range
    <3>2. i \in DOMAIN t /\ t[i] = v
      BY <1>3, <1>5, <1>7, <1>8, <3>1
    <3>3. QED
      BY <3>2 DEF Range
  <2>2. ASSUME NEW v \in todo PROVE v \in Range(t)
    <3>1. PICK i \in 1..c : v = new[i]
      BY <1>3 DEF Range
    <3>2. PICK j : j = Len(s) + i
      OBVIOUS
    <3>3. j \in 1..(Len(s) + c) /\ ~(j <= Len(s)) /\ j - Len(s) = i
      BY <1>3, <1>5, <3>2
    <3>4. j \in DOMAIN t /\ t[j] = v
      BY <1>7, <1>8, <3>1, <3>3
    <3>5. QED
      BY <3>4 DEF Range
  <2>3. QED
    BY <2>1, <2>2
<1>18. ASSUME NEW v \in DOMAIN M, r \in M[v].pre, v <= last \/ v \notin C \cup {n}
       PROVE  v \in Range(t)
  <2>1. CASE v <= DataVersion(p) \/ v \notin C \cup {n}
    BY <1>17, <1>18, <2>1 DEF RowHistory
  <2>2. CASE v = n /\ v <= last
    <3>1. n # 0 /\ last <= n /\ n \in Nat
      BY <1>11, <2>2
    <3>2. last = n
      BY <1>11, <2>2, <3>1
    <3>3. QED
      BY <3>2
  <2>3. CASE v \in C /\ v <= last /\ ~(v <= DataVersion(p))
    <3>1. v \in todo
      BY <1>10, <1>11, <2>3
    <3>2. QED
      BY <1>17, <3>1
  <2>4. QED
    BY <1>18, <2>1, <2>2, <2>3
<1>19. ASSUME NEW v \in Nat, v <= DataVersion(p) PROVE v <= last
  BY <1>10, <1>11, <1>19
<1>20. ASSUME NEW v \in DOMAIN M, v \notin C \cup {n} PROVE \E w \in C : v < w /\ w <= last
  <2>1. PICK w \in C : v < w /\ w <= DataVersion(p)
    BY <1>20 DEF RowHistory
  <2>2. QED
    BY <1>11, <1>19, <2>1
<1>21. ASSUME NEW v \in DOMAIN M, r \notin M[v].post, v # n PROVE v <= last
  BY <1>11, <1>19, <1>21 DEF RowHistory
<1>22. RowHistory(m, r, t, M, C, n)
  BY <1>7, <1>14, <1>16, <1>18, <1>20, <1>21 DEF RowHistory
<1>23. QED
  BY <1>1, <1>6, <1>22

LEMMA SelectMutateOrder ==
  ASSUME PartsInv, PartsInv', RowsInv, OrderInv, ~Mutating, NEW k \in Tasks, SelectMutate(k)
  PROVE  OrderInv'
<1> USE DEF OrderInv
<1>1. PICK p \in Active \ Tagged, last \in current_mutations :
        LET todo == {v \in current_mutations : v > DataVersion(p) /\ v <= last}
            new == Sorted(todo)
        IN /\ last > DataVersion(p)
           /\ Start(k, "mutate", {p}, [p EXCEPT !.mutation = last],
                 [r \in DOMAIN disk[p] \ UNION {muts[v].del : v \in todo} |-> disk[p][r] \o new])
  BY DEF SelectMutate
<1>2. PICK todo : todo = {v \in current_mutations : v > DataVersion(p) /\ v <= last}
  OBVIOUS
<1>3. PICK content : content = [r \in DOMAIN disk[p] \ UNION {muts[v].del : v \in todo} |->
                                  disk[p][r] \o Sorted(todo)]
  OBVIOUS
<1>4. PICK m : m = [p EXCEPT !.mutation = last]
  OBVIOUS
<1>5. PICK S : S = {p}
  OBVIOUS
<1>6. Start(k, "mutate", S, m, content) /\ last > DataVersion(p)
  BY <1>1, <1>2, <1>3, <1>4, <1>5
<1>7. /\ DOMAIN content \subseteq DOMAIN disk[p]
      /\ \A r \in DOMAIN content : content[r] = disk[p][r] \o Sorted(todo)
  BY <1>3
<1>8. p \in Info /\ p \in ActiveNext
  BY ActiveInfos DEF PartsInv, ActiveNext
<1>9. /\ increment \in Nat /\ DOMAIN muts \subseteq 1..increment
      /\ current_mutations \subseteq DOMAIN muts /\ starting \notin current_mutations
      /\ starting # 0 => \A v \in DOMAIN muts : v <= starting
  BY FutureInfos DEF LogInv, RowsInv, MutsInv
<1>10. last \in 1..increment /\ DataVersion(p) < last
  BY <1>6, <1>8, <1>9, VersionIsNumber
<1>11. m.mutation = last /\ DataVersion(m) = last
  BY <1>4, <1>8, <1>10 DEF DataVersion, Info
<1>12. LevelInv(m)
  <2>1. starting # 0 => last < starting
    BY <1>9, <1>10, FutureInfos
  <2>2. QED
    BY <1>10, <1>11, <2>1 DEF LevelInv
<1>13. ASSUME ~crossed, NEW r \in DOMAIN content
       PROVE  RowHistory(m, r, content[r], muts, current_mutations, starting)
  <2>1. PICK s : s = disk[p][r]
    OBVIOUS
  <2>2. RowHistory(p, r, s, muts, current_mutations, starting)
    BY <1>7, <1>8, <1>13, <2>1 DEF HistoryInv, PartHistory
  <2>3. content[r] = s \o Sorted(todo)
    BY <1>7, <1>13, <2>1
  <2>4. RowHistory(m, r, s \o Sorted(todo), muts, current_mutations, starting)
    BY <1>2, <1>8, <1>9, <1>10, <1>11, <2>2, AppendHistory
  <2>5. QED
    BY <2>3, <2>4
<1>14. QED
  BY <1>6, <1>12, <1>13, SelectOrder DEF PartHistory

-----------------------------------------------------------------------------
LEMMA OrderNext ==
  ASSUME PartsInv, PartsInv', RowsInv, GoneInv, OrderInv, Step
  PROVE  OrderInv'
<1>1. CASE Mutating
  BY <1>1, StartMutationOrder, RegisterMutationOrder, ClearOldMutationsOrder, RestartOrder DEF Mutating
<1>2. CASE ~Mutating /\ Selecting
  BY <1>2, SelectMergeOrder, SelectMutateOrder DEF Selecting
<1>3. CASE ~Mutating /\ ~Selecting
  <2>1. CASE StartInsert
    BY <1>3, <2>1, StartInsertOrder
  <2>2. CASE CommitDrop
    BY <1>3, <2>2, CommitDropOrder
  <2>3. CASE PrepareDrop
    BY <1>3, <2>3, PrepareDropOrder
  <2>4. CASE \E k \in Tasks : CommitMerge(k) \/ CommitMutate(k)
    BY <1>3, <2>4, CommitTaskOrder
  <2>5. CASE ~StartInsert /\ ~CommitDrop /\ ~PrepareDrop
             /\ ~\E k \in Tasks : CommitMerge(k) \/ CommitMutate(k)
    <3>1. ActiveNext' \subseteq ActiveNext
      BY <1>3, <2>5, NoMoreParts DEF Mutating
    <3>2. drop'.cover \subseteq Future
      BY <2>5, CoverStays DEF Future
    <3>3. QED
      BY <1>3, <3>1, <3>2, QuietOrder
  <2>6. QED
    BY <2>1, <2>2, <2>3, <2>4, <2>5
<1>4. QED
  BY <1>1, <1>2, <1>3

\* Every row has had the mutations that its part claims, each once and in the
\* order of their numbers, and none that was asked for before the row was
\* there, whatever is merged, squashed, cleaned up or loaded again, as long as
\* the table's directories never intersected, no OPTIMIZE FINAL took parts from
\* under a DROP, and no empty part was taken for removal beside one it covers.
THEOREM MutationsAlwaysInOrder == Spec => []MutationsInOrder
<1>1. (~raced /\ ~early => PartsInv /\ OrderInv) => MutationsInOrder
  <2>1. SUFFICES ASSUME PartsInv, OrderInv, ~crossed, NEW p \in Active, NEW r \in DOMAIN disk[p],
                        NEW s, s = disk[p][r]
                 PROVE  /\ \A i, j \in DOMAIN s : i < j => s[i] < s[j]
                        /\ \A i \in DOMAIN s : s[i] <= DataVersion(p) /\ r \in muts[s[i]].post
                        /\ \A v \in DOMAIN muts :
                             v <= DataVersion(p) /\ r \in muts[v].pre => v \in Range(s)
    BY DEF MutationsInOrder, Undisturbed
  <2>2. RowHistory(p, r, s, muts, current_mutations, starting)
    BY <2>1 DEF OrderInv, HistoryInv, PartHistory, ActiveNext
  <2>3. p.mutation \in Nat /\ DataVersion(p) \in Nat /\ p.mutation <= DataVersion(p)
    BY <2>1, ActiveInfos DEF PartsInv, Info, DataVersion
  <2>4. \A i \in DOMAIN s : s[i] \in Nat /\ s[i] <= p.mutation
    BY <2>2, ElementOfSeq, LenProperties DEF RowHistory
  <2>5. QED
    BY <2>2, <2>3, <2>4 DEF RowHistory
<1> DEFINE Inv == PartsInv /\ RowsInv /\ GoneInv /\ OrderInv
<1>2. Init => Inv
  BY PartsInit, RowsInit, GoneInit, OrderInit
<1>3. (~raced /\ ~early => Inv) /\ [Next]_vars => (~raced /\ ~early => Inv)'
  BY RacedStays, EarlyStays, StepIs, PartsNext, RowsNext, GoneNext, OrderNext
<1>4. (~raced /\ ~early => Inv) => (~raced /\ ~early => PartsInv /\ OrderInv)
  OBVIOUS
<1> HIDE DEF Inv
<1>5. QED
  BY <1>1, <1>2, <1>3, <1>4, PTL DEF Spec

-----------------------------------------------------------------------------
(* How directories begin to intersect *)

\* An emptied part: on disk, neither active nor about to be.
Stray(e) == e \in DOMAIN disk /\ e \notin Active \cup Coming /\ disk[e] = Nothing

\* Directory d is e, or lies in e and e is not removed before it.
Within(d, e) == e = d \/ (Contains(e, d) /\ e \notin Cleaning)

\* Directory d lies in an emptied part with a mutation above v.
Excused(d, v) == \E e \in DOMAIN disk : Stray(e) /\ v < e.mutation /\ Within(d, e)

\* Part m can be renamed beside directory d.
Clear(m, d) == d = m \/ Disjoint(m, d) \/ Contains(m, d)

\* The parts that are being made find their place on disk free, but for what
\* lies in emptied parts with a mutation that they lack.
PathInv == ~crossed =>
  /\ \A k \in Pending : \A d \in DOMAIN disk :
       Clear(tasks[k].info, d) \/ Excused(d, tasks[k].info.mutation)
  /\ \A c \in drop.cover : \A d \in DOMAIN disk : Clear(c, d)

\* A DROP's empty part that has its directory is about to be committed.
LEMMA CoverIsComing ==
  ASSUME PartsInv, RowsInv, NEW e \in DOMAIN disk, e \in drop.cover
  PROVE  e \in Coming
BY DEF PartsInv, DropInv, RowsInv, AboveInv, Coming

LEMMA ClearInside ==
  ASSUME NEW m \in Info, NEW s \in Info, NEW d \in Info, Clear(m, s), d = s \/ Contains(s, d)
  PROVE  Clear(m, d)
<1>1. CASE d = s
  BY <1>1
<1>2. CASE Contains(s, d) /\ s = m
  BY <1>2 DEF Clear
<1>3. CASE Contains(s, d) /\ Contains(m, s)
  BY <1>3, ContainsTransitive DEF Clear
<1>4. CASE Contains(s, d) /\ Disjoint(m, s)
  <2>1. Disjoint(s, m)
    BY <1>4, DisjointSymmetric
  <2>2. QED
    BY <1>4, <2>1, DisjointInside DEF Clear
<1>5. QED
  BY <1>1, <1>2, <1>3, <1>4 DEF Clear

\* Above every directory is one that is active, about to be, or an emptied one
\* that overlaps no active part.
LEMMA ShelterOf ==
  ASSUME PartsInv, RowsInv, GoneInv, ~crossed, NEW d \in DOMAIN disk
  PROVE  \E t \in DOMAIN disk :
           /\ Within(d, t)
           /\ \/ t \in Active \cup Coming
              \/ Stray(t) /\ t \in DOMAIN parts /\ \A a \in Active : Disjoint(a, t)
<1> USE DEF PartsInv
<1>1. PICK b \in Nat : \A q \in DOMAIN disk : q.max <= b /\ q.level <= b /\ q.mutation <= b
  BY DEF BoundInv
<1>2. DOMAIN disk \subseteq Info /\ Active \subseteq DOMAIN disk
  BY DEF TypeInv, HeldPartsOnDisk
<1> DEFINE T == {q \in DOMAIN disk : Within(d, q)}
           levels == {q.level : q \in T}
<1>3. d \in T /\ levels \subseteq Nat /\ levels # {} /\ \A x \in levels : x <= b
  BY <1>1, <1>2 DEF Info, Within
<1>4. PICK l \in levels : \A x \in levels : x <= l
  <2> HIDE DEF levels
  <2> QED BY <1>3, MaxIsGreatest
<1> DEFINE M == {q \in T : q.level = l}
           versions == {q.mutation : q \in M}
<1>5. versions \subseteq Nat /\ versions # {} /\ \A x \in versions : x <= b
  BY <1>1, <1>2, <1>4 DEF Info
<1>6. PICK v \in versions : \A x \in versions : x <= v
  <2> HIDE DEF versions
  <2> QED BY <1>5, MaxIsGreatest
<1>7. PICK t \in M : t.mutation = v
  BY <1>6
<1>8. t \in DOMAIN disk /\ Within(d, t) /\ t.level = l
  BY <1>7
<1>9. ASSUME NEW q \in DOMAIN disk, q \notin Cleaning, q # t, Contains(q, t) PROVE FALSE
  <2>1. q \in Info /\ t \in Info /\ d \in Info
    BY <1>2, <1>8
  <2>2. q \in T
    BY <1>8, <1>9, <2>1, ContainsTransitive DEF Within
  <2>3. q.level <= l
    BY <1>4, <2>2
  <2>4. q.level = l
    BY <1>8, <1>9, <2>1, <2>3 DEF Contains, Info
  <2>5. q.mutation <= t.mutation
    BY <1>6, <1>7, <2>2, <2>4
  <2>6. q = t
    BY <1>8, <1>9, <2>1, <2>4, <2>5 DEF Contains, Info
  <2>7. QED
    BY <1>9, <2>6
<1> HIDE DEF T, M, levels, versions
<1>10. CASE t \notin Active \cup Coming
  <2>1. disk[t] = Nothing
    BY <1>8, <1>9, <1>10 DEF GoneInv, KeptInv, Kept
  <2>2. ASSUME NEW a \in Active PROVE ~Contains(a, t)
    <3>1. a \notin Cleaning
      BY <1>2, NotCleaned DEF Active, InState
    <3>2. QED
      BY <1>2, <1>9, <1>10, <3>1
  <2>3. ASSUME NEW a \in Active PROVE Disjoint(a, t)
    <3>1. ~Contains(t, a)
      BY <1>8, <1>10, CoverIsComing DEF RowsInv, AboveInv, Coming
    <3>2. ~Clash(a, t) /\ a # t
      BY <1>2, <1>8, <1>10 DEF GoneInv, ClashInv
    <3>3. QED
      BY <2>2, <3>1, <3>2 DEF Clash
  <2>4. t \in DOMAIN parts
    BY <1>8, <2>2 DEF RowsInv, KnownInv, UnloadedInv
  <2>5. QED
    BY <1>8, <1>10, <2>1, <2>3, <2>4 DEF Stray
<1>11. QED
  BY <1>8, <1>10

\* What a new task's part meets on disk.
LEMMA TaskMeets ==
  ASSUME PartsInv, PartsInv', RowsInv, GoneInv, ~crossed, UNCHANGED <<parts, disk>>,
         LockFree, drop.cover = {}, NEW k \in Pending', NEW m, tasks'[k].info = m,
         \A j \in Pending : j \in Pending' /\ j # k /\ tasks'[j].info = tasks[j].info,
         NEW d \in DOMAIN disk
  PROVE  \/ Clear(m, d)
         \/ \E t \in DOMAIN parts :
              /\ Stray(t) /\ Within(d, t)
              /\ (\A a \in Active : Disjoint(a, t)) /\ ~Disjoint(m, t)
<1>1. PICK t \in DOMAIN disk :
        /\ Within(d, t)
        /\ \/ t \in Active \cup Coming
           \/ Stray(t) /\ t \in DOMAIN parts /\ \A a \in Active : Disjoint(a, t)
  BY ShelterOf
<1>2. t \in Info /\ d \in Info /\ (d = t \/ Contains(t, d))
  BY <1>1 DEF PartsInv, TypeInv, Within
<1>3. Active' = Active
  BY ActiveSame
<1>4. Fits(m, tasks'[k].src, Active)
  BY <1>3 DEF PartsInv, TaskInv
<1>5. CASE t \in Active
  <2>1. Contains(m, t) \/ Disjoint(m, t)
    BY <1>4, <1>5 DEF Fits
  <2>2. QED
    BY <1>2, <1>4, <2>1, ClearInside DEF Clear, Fits
<1>6. CASE t \in Coming
  <2>1. t \in RenamedParts
    BY <1>6 DEF Coming, LockFree
  <2>2. PICK j \in Running : tasks[j].phase = "renamed" /\ t = tasks[j].info
    BY <2>1 DEF RenamedParts
  <2>3. j \in Pending
    BY <2>2 DEF Pending
  <2>4. Disjoint(m, t)
    BY <2>2, <2>3 DEF PartsInv, TaskInv
  <2>5. QED
    BY <1>2, <1>4, <2>4, ClearInside DEF Clear, Fits
<1>7. CASE Disjoint(m, t)
  BY <1>2, <1>4, <1>7, ClearInside DEF Clear, Fits
<1>8. QED
  BY <1>1, <1>5, <1>6, <1>7

\* What lies in a gap between the sources of a merge has a lower level.
LEMMA GapLevel ==
  ASSUME PartsInv, StatesInv, drop.cover = {}, NEW S, S \subseteq Active, S # {}, Mergeable(S),
         NEW m, m = MergedInfo(S),
         NEW t \in DOMAIN parts, \A a \in Active : Disjoint(a, t), ~Disjoint(m, t)
  PROVE  m.min <= t.min /\ t.max <= m.max /\ t.level < m.level
<1>1. /\ m \in Info
      /\ \E q \in S : q.min = m.min
      /\ \E q \in S : q.max = m.max
      /\ \A q \in S : m.min <= q.min /\ q.max <= m.max /\ q.level < m.level
  BY MergedNumbers
<1>2. S \subseteq Info /\ Active \subseteq Info /\ t \in Info
  BY ActiveInfos DEF PartsInv, TypeInv
<1> DEFINE gaps == {n \in Nat : \E p, q \in S : p.max < t.min /\ t.max < q.min /\ n = q.min - p.min}
<1>3. gaps # {}
  <2>1. PICK p \in S, q \in S : p.min = m.min /\ q.max = m.max
    BY <1>1
  <2>2. p.max < t.min /\ t.max < q.min
    BY <1>1, <1>2, <2>1 DEF Disjoint, Info
  <2>3. q.min - p.min \in Nat
    BY <1>2, <2>2 DEF Info
  <2>4. QED
    BY <2>2, <2>3
<1>4. PICK n \in gaps : \A x \in gaps : n <= x
  <2>1. gaps \subseteq Nat
    OBVIOUS
  <2> HIDE DEF gaps
  <2>2. QED
    BY <1>3, <2>1, LeastNatural
<1>5. PICK p \in S, q \in S : p.max < t.min /\ t.max < q.min /\ n = q.min - p.min
  BY <1>4
<1>6. Less(p, t) /\ Less(t, q) /\ Less(p, q)
  BY <1>2, <1>5 DEF Less, Info
<1>7. ASSUME NEW z \in Active, Less(p, z), Less(z, q) PROVE FALSE
  <2>1. z \in Info /\ p \in Info /\ q \in Info
    BY <1>2
  <2>2. z \in S
    <3>1. ~Less(q, z) /\ ~Less(z, p)
      BY <1>7, <2>1 DEF Less, Info
    <3>2. QED
      BY <1>7, <3>1 DEF Mergeable
  <2>3. z # p /\ z # q /\ Disjoint(p, z) /\ Disjoint(z, q)
    <3>1. z # p /\ z # q
      BY <1>7, <2>1 DEF Less, Info
    <3>2. QED
      BY <3>1 DEF PartsInv, TaskInv, AllDisjoint
  <2>4. p.min < z.min /\ z.min < q.min
    BY <1>7, <2>1, <2>3 DEF Less, Disjoint, Info
  <2>5. CASE z.max < t.min
    <3>1. q.min - z.min \in Nat /\ q.min - z.min < n
      BY <1>5, <2>1, <2>4 DEF Info
    <3>2. q.min - z.min \in gaps
      BY <1>5, <2>2, <2>5, <3>1
    <3> HIDE DEF gaps
    <3>3. n \in Nat
      BY <1>5, <1>2, <2>1, <2>4 DEF Info
    <3>4. QED
      BY <1>4, <3>1, <3>2, <3>3
  <2>6. CASE z.min > t.max
    <3>1. z.min - p.min \in Nat /\ z.min - p.min < n
      BY <1>5, <2>1, <2>4 DEF Info
    <3>2. z.min - p.min \in gaps
      BY <1>2, <1>5, <2>1, <2>2, <2>6, <3>1 DEF Info
    <3> HIDE DEF gaps
    <3>3. n \in Nat
      BY <1>5, <1>2, <2>1, <2>4 DEF Info
    <3>4. QED
      BY <1>4, <3>1, <3>2, <3>3
  <2>7. QED
    BY <1>2, <2>1, <2>5, <2>6 DEF Disjoint, Info
<1>8. canMergeParts(p, q)
  BY <1>6, <1>7 DEF Adjacent, Mergeable
<1> DEFINE levels == {x.level : x \in {y \in DOMAIN parts : y = p \/ (Less(p, y) /\ Less(y, q))}}
<1>9. t.level \in levels
  BY <1>6
<1>10. PICK b \in Nat : \A x \in DOMAIN parts : x.level <= b
  <2>1. DOMAIN parts \subseteq DOMAIN disk
    BY DEF StatesInv, Coming, RenamedParts, LockFree, PartsInv, PlaceInv, HeldPartsOnDisk, Active,
           InState
  <2>2. QED
    BY <2>1 DEF PartsInv, BoundInv
<1>11. levels \subseteq Nat /\ \A x \in levels : x <= b
  BY <1>10 DEF PartsInv, TypeInv, Info
<1>12. getMaxLevelInBetween(p, q) = Max(levels)
  BY DEF getMaxLevelInBetween
<1> HIDE DEF levels
<1>13. t.level <= Max(levels) /\ Max(levels) \in Nat
  BY <1>9, <1>10, <1>11, MaxIsGreatest
<1>14. t.level < m.level
  <2>1. PICK L : L = {p.level, q.level}
    OBVIOUS
  <2>2. m.level \in Nat /\ L \subseteq Nat /\ L # {} /\ \A x \in L : x < m.level
    BY <1>1, <1>2, <2>1 DEF Info
  <2>3. Max(L) \in L
    <3>1. \A x \in L : x <= m.level
      BY <2>2
    <3>2. QED
      BY <2>2, <3>1, MaxIsGreatest
  <2>4. Max(levels) <= Max(L)
    BY <1>8, <1>12, <2>1 DEF canMergeParts
  <2>5. Max(L) \in Nat /\ Max(L) < m.level /\ t.level \in Nat
    BY <1>2, <2>2, <2>3 DEF Info
  <2>6. QED
    BY <1>13, <2>2, <2>4, <2>5
<1>15. QED
  BY <1>1, <1>2, <1>5, <1>14 DEF Info

-----------------------------------------------------------------------------
(* The steps *)

\* A new directory is that of an INSERT, of a DROP's empty part, or of a task.
LEMMA NewDirectories ==
  ASSUME PartsInv, RowsInv, Step, NEW d \in DOMAIN disk', d \notin DOMAIN disk
  PROVE  /\ DOMAIN disk' = DOMAIN disk \cup {d}
         /\ \/ StartInsert /\ d = inserting'
            \/ RenameCover /\ d \in drop.cover
            \/ \E k \in Pending : d = tasks[k].info /\ (Renames(k) \/ CommitMutate(k))
<1> DEFINE Known ==
      /\ DOMAIN disk' = DOMAIN disk \cup {d}
      /\ \/ StartInsert /\ d = inserting'
         \/ RenameCover /\ d \in drop.cover
         \/ \E k \in Pending : d = tasks[k].info /\ (Renames(k) \/ CommitMutate(k))
<1>1. CASE StartInsert
  BY <1>1, StartInsertEffect DEF NewDirectory
<1>2. CASE RenameCover
  <2>1. PICK m \in drop.cover : NewDirectory(m, Nothing)
    BY <1>2, RenameCoverEffect
  <2>2. QED
    BY <1>2, <2>1 DEF NewDirectory
<1>3. ASSUME NEW k \in Tasks, Renames(k) PROVE Known
  <2>1. k \in Pending /\ DOMAIN disk' = DOMAIN disk \cup {tasks[k].info}
    BY <1>3, RenameMergeEffect DEF NewDirectory
  <2>2. QED
    BY <1>3, <2>1
<1>4. ASSUME NEW k \in Tasks, CommitMutate(k) PROVE Known
  <2>1. PICK m : m = tasks[k].info
    OBVIOUS
  <2>2. k \in Pending /\ DOMAIN disk' = DOMAIN disk \cup {m}
    BY <1>4, <2>1, CommitTaskEffect
  <2>3. QED
    BY <1>4, <2>1, <2>2
<1>5. CASE \/ CommitInsert \/ StartMutation \/ RegisterMutation \/ StopMerges \/ Preparing
           \/ CommitDrop \/ Read \/ EndRead \/ Restart \/ Still
  BY <1>5 DEF CommitInsert, StartMutation, RegisterMutation, StopMerges, CommitDrop,
              Preparing, MergesStopped, PrepareDrop, AddCover, DropFails,
              Read, EndRead, Restart, Still
<1>6. ASSUME NEW k \in Tasks, Merging(k) \/ SelectMutate(k) \/ CommitMerge(k) \/ FinishTask(k)
      PROVE  disk' = disk
  BY <1>6 DEF Merging, SelectMutate, CommitMerge, FinishTask, Start
<1>7. ASSUME NEW c \in Cleaners, Grab(c) \/ ClearEmpty(c) \/ ClearOldMutations(c) \/ RemoveFile(c)
      PROVE  disk' = disk
  BY <1>7 DEF Grab, ClearEmpty, ClearOldMutations, RemoveFile
<1>8. ASSUME NEW c \in Cleaners, RemovePart(c) PROVE DOMAIN disk' \subseteq DOMAIN disk
  BY <1>8, RemovePartEffect
<1>9. ASSUME NEW q \in unloaded, LoadOutdated(q) PROVE disk' = disk
  BY <1>9 DEF LoadOutdated
<1>10. QED
  BY <1>1, <1>2, <1>3, <1>4, <1>5, <1>6, <1>7, <1>8, <1>9 DEF Step, Preparing

\* An emptied part does not become active again before a start.
LEMMA StrayStays ==
  ASSUME PartsInv, RowsInv, Step, ~Selecting, ~PrepareDrop, ~Restart,
         NEW e, Stray(e), e \in DOMAIN disk'
  PROVE  Stray(e)'
<1>1. e \in DOMAIN disk /\ e \notin Active \cup Coming /\ disk[e] = Nothing
  BY DEF Stray
<1>2. disk'[e] = Nothing
  BY <1>1, DirectoriesStay
<1>3. e \notin ActiveNext
  BY <1>1 DEF ActiveNext, Coming
<1>4. e \notin ActiveNext'
  <2>1. CASE StartInsert
    <3>1. Active' = Active /\ inserting' \notin DOMAIN disk
      BY <2>1, StartInsertEffect DEF NewDirectory
    <3>2. QED
      BY <1>1, <3>1 DEF ActiveNext
  <2>2. ASSUME NEW k \in Tasks, CommitMerge(k) \/ CommitMutate(k) PROVE e \notin ActiveNext'
    <3>1. PICK m : m = tasks[k].info
      OBVIOUS
    <3>2. /\ k \in Pending /\ LockFree /\ inserting' = inserting
          /\ Active' = (Active \ tasks[k].src) \cup {m}
      BY <2>2, <3>1, CommitTaskEffect
    <3>3. e # m
      <4>1. CASE CommitMerge(k)
        <5>1. m \in RenamedParts
          BY <3>1, <4>1 DEF CommitMerge, RenamedParts
        <5>2. QED
          BY <1>1, <5>1 DEF Coming
      <4>2. CASE CommitMutate(k)
        <5>1. m \notin DOMAIN parts /\ FitsSome(m, Active)
          BY <3>1, <3>2, <4>2 DEF CommitMutate, MayAdd, PartsInv, TaskInv, FitsSome, Fits
        <5>2. QED
          BY <1>1, <5>1, FitsIsNew DEF RowsInv
      <4>3. QED
        BY <2>2, <4>1, <4>2
    <3>4. QED
      BY <1>3, <3>2, <3>3 DEF ActiveNext
  <2>3. CASE CommitDrop
    <3>1. Active' = Replace(Active, drop.cover) /\ inserting' = inserting
      BY <2>3, CommitDropEffect
    <3>2. QED
      BY <1>1, <3>1, CoverIsComing DEF Replace, ActiveNext, Coming
  <2>4. CASE ~StartInsert /\ ~CommitDrop /\ \A k \in Tasks : ~CommitMerge(k) /\ ~CommitMutate(k)
    BY <1>3, <2>4, NoMoreParts
  <2>5. QED
    BY <2>1, <2>2, <2>3, <2>4
<1>5. e \notin drop'.cover
  BY <1>1, CoverStays, CoverIsComing
<1>6. e \notin RenamedParts'
  <2>1. SUFFICES ASSUME NEW k \in Running', tasks'[k].phase = "renamed", e = tasks'[k].info
                 PROVE  FALSE
    BY DEF RenamedParts
  <2>2. k \in Pending'
    BY <2>1 DEF Pending
  <2>3. /\ k \in Pending /\ e = tasks[k].info
        /\ tasks[k].phase = "renamed" \/ Renames(k)
    BY <2>1, <2>2, PendingStay
  <2>4. tasks[k].phase # "renamed"
    BY <1>1, <2>3 DEF Coming, RenamedParts, Pending
  <2>5. tasks[k].info \notin DOMAIN disk
    BY <2>3, <2>4, RenameMergeEffect DEF NewDirectory, Pending, Running
  <2>6. QED
    BY <1>1, <2>3, <2>5
<1>7. QED
  BY <1>2, <1>4, <1>5, <1>6 DEF Stray, ActiveNext, Coming

\* A directory that nobody removes stays, and only grabOldParts lets it go.
LEMMA KeptStays ==
  ASSUME PartsInv, RowsInv, Step, \A c \in Cleaners : ~Grab(c),
         NEW e \in DOMAIN disk, e \notin Cleaning
  PROVE  e \in DOMAIN disk' /\ e \notin Cleaning'
<1> DEFINE Stays == e \in DOMAIN disk' /\ e \notin Cleaning'
<1>0. e # NoPart
  BY NoPartIsNone DEF PartsInv, TypeInv
<1>1. ASSUME DOMAIN disk \subseteq DOMAIN disk', cleaner' = cleaner PROVE Stays
  BY <1>1 DEF Cleaning
<1>2. CASE StartInsert
  BY <1>1, <1>2, StartInsertEffect DEF NewDirectory
<1>3. CASE RenameCover
  <2>1. DOMAIN disk \subseteq DOMAIN disk' /\ cleaner' = cleaner
    BY <1>3, RenameCoverEffect DEF NewDirectory
  <2>2. QED
    BY <1>1, <2>1
<1>4. ASSUME NEW k \in Tasks, Renames(k) PROVE Stays
  BY <1>1, <1>4, RenameMergeEffect DEF NewDirectory
<1>5. ASSUME NEW k \in Tasks, CommitMerge(k) \/ CommitMutate(k) PROVE Stays
  <2>1. PICK m : m = tasks[k].info
    OBVIOUS
  <2>2. QED
    BY <1>1, <1>5, <2>1, CommitTaskEffect
<1>6. CASE \/ CommitInsert \/ StartMutation \/ RegisterMutation \/ StopMerges \/ Preparing
           \/ CommitDrop \/ Read \/ EndRead \/ Still
  <2>1. disk' = disk /\ cleaner' = cleaner
    BY <1>6 DEF CommitInsert, StartMutation, RegisterMutation, StopMerges, CommitDrop,
                Preparing, MergesStopped, PrepareDrop, AddCover, DropFails,
                Read, EndRead, Still
  <2>2. QED
    BY <1>1, <2>1
<1>7. CASE Restart
  <2>1. disk' = disk /\ cleaner' = NotCleaning
    BY <1>7 DEF Restart
  <2>2. QED
    BY <1>0, <2>1 DEF Cleaning, NotCleaning
<1>8. ASSUME NEW k \in Tasks, Merging(k) \/ SelectMutate(k) \/ FinishTask(k) PROVE Stays
  <2>1. disk' = disk /\ cleaner' = cleaner
    BY <1>8 DEF Merging, SelectMutate, FinishTask, Start
  <2>2. QED
    BY <1>1, <2>1
<1>9. ASSUME NEW c \in Cleaners, ClearEmpty(c) PROVE Stays
  <2>1. disk' = disk /\ cleaner' = cleaner
    BY <1>9 DEF ClearEmpty
  <2>2. QED
    BY <1>1, <2>1
<1>10. ASSUME NEW c \in Cleaners, ClearOldMutations(c) \/ RemoveFile(c) PROVE Stays
  <2>1. disk' = disk /\ \E f : cleaner' = [cleaner EXCEPT ![c].files = f]
    BY <1>10 DEF ClearOldMutations, RemoveFile
  <2>2. QED
    BY <2>1, CleaningSame DEF PartsInv
<1>11. ASSUME NEW c \in Cleaners, RemovePart(c) PROVE Stays
  <2>1. /\ DOMAIN disk \subseteq DOMAIN disk' \cup {cleaner[c].part}
        /\ cleaner' = [cleaner EXCEPT ![c].part = NoPart]
    BY <1>11, RemovePartEffect
  <2>2. Cleaning' \subseteq Cleaning \cup {NoPart} /\ cleaner[c].part \in Cleaning
    BY <2>1, CleanerTakes DEF PartsInv, Cleaning
  <2>3. QED
    BY <1>0, <2>1, <2>2
<1>12. ASSUME NEW q \in unloaded, LoadOutdated(q) PROVE Stays
  <2>1. disk' = disk /\ cleaner' = cleaner
    BY <1>12 DEF LoadOutdated
  <2>2. QED
    BY <1>1, <2>1
<1>13. QED
  BY <1>2, <1>3, <1>4, <1>5, <1>6, <1>7, <1>8, <1>9, <1>10, <1>11, <1>12 DEF Step, Preparing

LEMMA NewIsClear ==
  ASSUME PartsInv, RowsInv, Step, ~Selecting, ~PrepareDrop,
         NEW d \in DOMAIN disk', d \notin DOMAIN disk
  PROVE  /\ \A k \in Pending' : Clear(tasks'[k].info, d)
         /\ \A c \in drop'.cover : Clear(c, d)
<1>1. \A k \in Pending' : k \in Pending /\ tasks'[k].info = tasks[k].info
  BY PendingStay
<1>2. drop'.cover \subseteq drop.cover
  BY CoverStays
<1>3. CASE StartInsert /\ d = inserting'
  <2>1. d \in Info /\ d.min = increment + 1 /\ increment \in Nat
    BY <1>3, StartInsertEffect
  <2>2. ASSUME NEW m \in Info, m.max <= increment PROVE Clear(m, d)
    BY <2>1, <2>2 DEF Clear, Disjoint, Info
  <2>3. \A k \in Pending : tasks[k].info \in Info /\ tasks[k].info.max <= increment
    BY TaskBelow DEF PartsInv
  <2>4. \A c \in drop.cover : c \in Info /\ c.max <= increment
    BY DEF PartsInv, TypeInv, NumberInv
  <2>5. QED
    BY <1>1, <1>2, <2>2, <2>3, <2>4
<1>4. CASE RenameCover /\ d \in drop.cover
  <2>1. Pending = {}
    BY <1>4, RenameCoverEffect DEF Pending
  <2>2. \A c \in drop.cover : Clear(c, d)
    BY <1>4 DEF PartsInv, DropInv, AllDisjoint, Clear
  <2>3. QED
    BY <1>1, <1>2, <2>1, <2>2
<1>5. ASSUME NEW k \in Pending, d = tasks[k].info
      PROVE  /\ \A j \in Pending : Clear(tasks[j].info, d)
             /\ drop.cover = {}
  <2>1. drop.cover = {}
    BY NoCover DEF Pending
  <2>2. QED
    BY <1>5, <2>1 DEF PartsInv, TaskInv, Clear
<1>6. QED
  BY <1>1, <1>2, <1>3, <1>4, <1>5, NewDirectories

\* The steps that neither make a part nor choose one to remove.
LEMMA PathStep ==
  ASSUME PartsInv, RowsInv, PathInv, Step, ~Selecting, ~PrepareDrop, ~Restart,
         \A c \in Cleaners : ~Grab(c)
  PROVE  PathInv'
<1> SUFFICES ASSUME ~crossed'
             PROVE  /\ \A k \in Pending' : \A d \in DOMAIN disk' :
                         Clear(tasks'[k].info, d) \/ Excused(d, tasks[k].info.mutation)'
                    /\ \A c \in drop'.cover : \A d \in DOMAIN disk' : Clear(c, d)
  BY DEF PathInv
<1>1. ~crossed
  BY CrossedStays
<1>2. ASSUME NEW k \in Pending', NEW d \in DOMAIN disk'
      PROVE  Clear(tasks'[k].info, d) \/ Excused(d, tasks[k].info.mutation)'
  <2>1. CASE d \notin DOMAIN disk
    BY <2>1, NewIsClear
  <2>2. CASE d \in DOMAIN disk
    <3>1. k \in Pending /\ tasks'[k].info = tasks[k].info
      BY PendingStay
    <3>2. SUFFICES ASSUME Excused(d, tasks[k].info.mutation)
                   PROVE  Excused(d, tasks[k].info.mutation)'
      BY <1>1, <2>2, <3>1 DEF PathInv
    <3>3. PICK e \in DOMAIN disk : Stray(e) /\ tasks[k].info.mutation < e.mutation /\ Within(d, e)
      BY <3>2 DEF Excused
    <3>4. e \in DOMAIN disk' /\ (e = d \/ (Contains(e, d) /\ e \notin Cleaning'))
      BY <3>3, KeptStays DEF Within
    <3>5. Stray(e)'
      BY <3>3, <3>4, StrayStays
    <3>6. QED
      BY <3>1, <3>3, <3>4, <3>5 DEF Excused, Within
  <2>3. QED
    BY <2>1, <2>2
<1>3. ASSUME NEW c \in drop'.cover, NEW d \in DOMAIN disk' PROVE Clear(c, d)
  <2>1. CASE d \notin DOMAIN disk
    BY <2>1, NewIsClear
  <2>2. CASE d \in DOMAIN disk
    BY <1>1, <2>2, CoverStays DEF PathInv
  <2>3. QED
    BY <2>1, <2>2
<1>4. QED
  BY <1>2, <1>3

\* The parts that are active or about to be are not in a task's way.
LEMMA ActiveClear ==
  ASSUME PartsInv, LockFree, NEW k \in Pending, NEW d \in Active \cup Coming
  PROVE  Clear(tasks[k].info, d)
<1>1. CASE d \in Active
  BY <1>1 DEF PartsInv, TaskInv, Fits, Clear
<1>2. CASE d \in Coming
  <2>1. d \in RenamedParts
    BY <1>2, NoCover DEF Coming, LockFree, Pending
  <2>2. PICK j \in Pending : d = tasks[j].info
    BY <2>1 DEF RenamedParts, Pending
  <2>3. QED
    BY <2>2 DEF PartsInv, TaskInv, Clear
<1>3. QED
  BY <1>1, <1>2

\* A task starts.
LEMMA StartPath ==
  ASSUME PartsInv, PartsInv', RowsInv, GoneInv, PathInv,
         NEW k \in Tasks, tasks[k] = NoTask, Free, LockFree,
         NEW kind, NEW S, NEW m, NEW content, Start(k, kind, S, m, content),
         ASSUME ~crossed, drop.cover = {}, NEW t \in DOMAIN parts, Stray(t),
                \A a \in Active : Disjoint(a, t), ~Disjoint(m, t), m \in Info, t \in Info
         PROVE  Contains(m, t) \/ m.mutation < t.mutation
  PROVE  PathInv'
<1> DEFINE new == [kind |-> kind, src |-> S, info |-> m, content |-> content,
                   phase |-> "running"]
<1>1. /\ tasks' = [tasks EXCEPT ![k] = new]
      /\ UNCHANGED <<parts, disk, inserting, drop, cleaner, crossed>>
  BY DEF Start
<1>2. new.info = m /\ new.phase = "running" /\ new # NoTask
  BY DEF NoTask
<1> HIDE DEF new
<1>3. tasks'[k] = new /\ \A j \in Tasks \ {k} : tasks'[j] = tasks[j]
  BY <1>1 DEF PartsInv, TypeInv
<1>4. /\ k \in Pending' /\ tasks'[k].info = m /\ Pending' \subseteq Pending \cup {k}
      /\ \A j \in Pending : j \in Pending' /\ j # k /\ tasks'[j].info = tasks[j].info
  BY <1>2, <1>3 DEF Pending, Running
<1>5. RenamedParts' = RenamedParts
  <2>1. \A j \in Tasks : j \in Running' /\ tasks'[j].phase = "renamed"
                           <=> j \in Running /\ tasks[j].phase = "renamed"
    BY <1>2, <1>3 DEF Running
  <2>2. \A j \in Running : tasks'[j] = tasks[j]
    BY <1>3 DEF Running
  <2>3. QED
    BY <2>1, <2>2 DEF RenamedParts, Running
<1>6. Active' = Active /\ Coming' = Coming /\ Cleaning' = Cleaning
  BY <1>1, <1>5, ActiveSame, ComingSame DEF Cleaning
<1>7. drop.cover = {}
  BY DEF Free, PartsInv, DropInv, TypeInv
<1>8. \A d, v : Excused(d, v)' <=> Excused(d, v)
  BY <1>1, <1>6 DEF Excused, Stray, Within
<1>9. ASSUME ~crossed, NEW d \in DOMAIN disk PROVE Clear(m, d) \/ Excused(d, m.mutation)
  <2>1. SUFFICES ASSUME NEW t \in DOMAIN parts, Stray(t), Within(d, t),
                        \A a \in Active : Disjoint(a, t), ~Disjoint(m, t)
                 PROVE  Clear(m, d) \/ Excused(d, m.mutation)
    BY <1>1, <1>4, <1>7, <1>9, TaskMeets
  <2>2. m \in Info /\ t \in Info /\ d \in Info /\ t \in DOMAIN disk
    BY <1>4, <2>1 DEF PartsInv, TypeInv, TaskInv, Fits, Stray
  <2>3. CASE Contains(m, t)
    BY <2>1, <2>2, <2>3, ClearInside DEF Clear, Within
  <2>4. CASE m.mutation < t.mutation
    BY <2>1, <2>2, <2>4 DEF Excused
  <2>5. QED
    BY <1>7, <1>9, <2>1, <2>2, <2>3, <2>4
<1>10. QED
  BY <1>1, <1>4, <1>7, <1>8, <1>9 DEF PathInv

LEMMA SelectMergePath ==
  ASSUME PartsInv, PartsInv', RowsInv, GoneInv, PathInv, NEW k \in Tasks, Merging(k)
  PROVE  PathInv'
<1>1. PICK S \in SUBSET (Active \ Tagged) :
        Mergeable(S) /\ Start(k, "merge", S, MergedInfo(S), MergedContent(S))
  BY DEF Merging
<1>2. S # {} /\ S \subseteq Active
  BY <1>1, FS_EmptySet DEF Mergeable
<1>3. PICK m : m = MergedInfo(S)
  OBVIOUS
<1>4. PICK content : content = MergedContent(S)
  OBVIOUS
<1>5. Start(k, "merge", S, m, content) /\ tasks[k] = NoTask /\ Free /\ LockFree
  BY <1>1, <1>3, <1>4 DEF Merging
<1>6. ASSUME drop.cover = {}, NEW t \in DOMAIN parts,
             \A a \in Active : Disjoint(a, t), ~Disjoint(m, t), m \in Info, t \in Info
      PROVE  Contains(m, t) \/ m.mutation < t.mutation
  <2>1. m.min <= t.min /\ t.max <= m.max /\ t.level < m.level
    BY <1>1, <1>2, <1>3, <1>6, GapLevel DEF GoneInv
  <2>2. QED
    BY <1>6, <2>1 DEF Contains, Info
<1>7. QED
  BY <1>5, <1>6, StartPath

LEMMA SelectMutatePath ==
  ASSUME PartsInv, PartsInv', RowsInv, GoneInv, PathInv, NEW k \in Tasks, SelectMutate(k)
  PROVE  PathInv'
<1>1. PICK p \in Active \ Tagged, v \in current_mutations :
        \E content : Start(k, "mutate", {p}, [p EXCEPT !.mutation = v], content)
  BY DEF SelectMutate
<1>2. PICK content : Start(k, "mutate", {p}, [p EXCEPT !.mutation = v], content)
  BY <1>1
<1>3. PICK m : m = [p EXCEPT !.mutation = v]
  OBVIOUS
<1>4. PICK S : S = {p}
  OBVIOUS
<1>5. Start(k, "mutate", S, m, content) /\ tasks[k] = NoTask /\ Free /\ LockFree
  BY <1>2, <1>3, <1>4 DEF SelectMutate, Blocked, Free
<1>6. m.min = p.min /\ m.max = p.max
  <2>1. p \in Info
    BY ActiveInfos DEF PartsInv
  <2>2. QED
    BY <1>3, <2>1 DEF Info
<1>7. ASSUME NEW t, \A a \in Active : Disjoint(a, t), ~Disjoint(m, t) PROVE FALSE
  BY <1>6, <1>7 DEF Disjoint
<1>8. QED
  BY <1>5, <1>7, StartPath

LEMMA PrepareDropPath ==
  ASSUME PartsInv, RowsInv, GoneInv, PathInv, PrepareDrop
  PROVE  PathInv'
<1>1. PICK S \in SUBSET Active :
        /\ Running = {} /\ drop.cover = {} /\ LockFree
        /\ drop'.cover = {EmptyCover(p) : p \in S}
        /\ \A p \in S :
             /\ EmptyCover(p) \in Info
             /\ EmptyCover(p).min = p.min /\ EmptyCover(p).max = p.max
             /\ Contains(EmptyCover(p), p)
        /\ disk' = disk /\ tasks' = tasks /\ crossed' = crossed
  BY PrepareDropEffect
<1>2. Pending' = {}
  BY <1>1, TasksSame DEF Pending
<1>3. Active \subseteq DOMAIN disk /\ DOMAIN disk \subseteq Info
  BY DEF PartsInv, TypeInv, HeldPartsOnDisk
<1>4. ASSUME ~crossed, NEW p \in S, NEW d \in DOMAIN disk PROVE Clear(EmptyCover(p), d)
  <2>1. p \in Info /\ d \in Info /\ ~Clash(p, d)
    BY <1>3, <1>4 DEF GoneInv, ClashInv
  <2>2. Contains(d, p) => d = p
    <3>1. RenamedParts = {}
      BY <1>1 DEF RenamedParts
    <3>2. QED
      BY <1>1, <3>1 DEF RowsInv, AboveInv
  <2>3. CASE Disjoint(p, d)
    BY <1>1, <2>3 DEF Disjoint, Clear
  <2>4. CASE d = p \/ Contains(p, d)
    BY <1>1, <2>1, <2>4, ContainsTransitive DEF Clear
  <2>5. QED
    BY <2>1, <2>2, <2>3, <2>4 DEF Clash
<1>5. QED
  BY <1>1, <1>2, <1>4 DEF PathInv

\* grabOldParts takes an emptied part last, so what lies in it has another.
LEMMA GrabPath ==
  ASSUME PartsInv, RowsInv, GoneInv, PathInv, NEW c \in Cleaners, Grab(c), ~early'
  PROVE  PathInv'
<1>1. PICK p \in InState("Outdated") \ Held :
        /\ Removable(p)
        /\ parts' = [parts EXCEPT ![p] = "Deleting"]
        /\ cleaner' = [cleaner EXCEPT ![c].part = p]
        /\ Empty(p) => ~\E q \in InState("Deleting") : Contains(p, q)
  BY DEF Grab
<1>2. /\ cleaner[c].part = NoPart /\ LockFree
      /\ UNCHANGED <<disk, inserting, tasks, drop, crossed>>
  BY DEF Grab, MayClean, Idle
<1>3. Cleaning' \subseteq Cleaning \cup {p}
  BY <1>1, <1>2, CleanerTakes DEF PartsInv, Cleaning
<1>4. Active' = Active /\ p \in DOMAIN disk /\ DOMAIN disk \subseteq Info
  BY <1>1 DEF Active, InState, GoneInv, StatesInv, PartsInv, TypeInv
<1>5. Coming' = Coming /\ Pending' = Pending
  BY <1>2, TasksSame, RenamedSame, ComingSame
<1>6. \A e : Stray(e)' <=> Stray(e)
  BY <1>2, <1>4, <1>5 DEF Stray
<1>7. ASSUME ~crossed, NEW k \in Pending, NEW d \in DOMAIN disk,
             ~Clear(tasks[k].info, d)
      PROVE  Excused(d, tasks[k].info.mutation)'
  <2> DEFINE m == tasks[k].info
  <2>1. m \in Info
    BY TaskBelow DEF PartsInv
  <2> HIDE DEF m
  <2>2. ASSUME NEW e \in DOMAIN disk, Stray(e), m.mutation < e.mutation,
               e = d \/ (Contains(e, d) /\ e # p /\ e \notin Cleaning)
        PROVE  Excused(d, m.mutation)'
    <3>1. m' = m
      BY <1>2 DEF m
    <3>2. QED
      BY <1>2, <1>3, <1>6, <2>2, <3>1 DEF Excused, Within
  <2>3. PICK e \in DOMAIN disk : Stray(e) /\ m.mutation < e.mutation /\ Within(d, e)
    BY <1>7 DEF PathInv, Excused, m
  <2>4. CASE e = p /\ d # p
    <3>1. Contains(p, d) /\ disk[p] = Nothing
      BY <2>3, <2>4 DEF Within, Stray
    <3>2. d \notin Active \cup Coming
      BY <1>2, <1>7, ActiveClear
    <3>3. PICK s \in DOMAIN disk :
            /\ s \notin {d, p} /\ s \notin Cleaning /\ Contains(s, d)
            /\ s \in Active \/ Contains(s, p)
      <4>1. ~\E q \in InState("Deleting") : Contains(p, q)
        BY <1>1, <3>1 DEF Empty
      <4>2. QED
        BY <1>1, <1>7, <2>4, <3>1, <3>2, <4>1, EmptyGoesLast
    <3>4. ~Clear(m, s)
      BY <1>4, <1>7, <2>1, <3>3, ClearInside DEF m
    <3>5. Contains(s, p)
      BY <1>2, <3>3, <3>4, ActiveClear DEF m
    <3>6. PICK x \in DOMAIN disk : Stray(x) /\ m.mutation < x.mutation /\ Within(s, x)
      BY <1>7, <3>4 DEF PathInv, Excused, m
    <3>7. x # p
      BY <1>4, <3>3, <3>5, <3>6, ContainsAntisymmetric DEF Within
    <3>8. Contains(x, d) /\ x \notin Cleaning
      BY <1>4, <3>3, <3>6, ContainsTransitive DEF Within
    <3>9. QED
      BY <2>2, <3>6, <3>7, <3>8 DEF m
  <2>5. CASE e # p \/ d = p
    BY <2>2, <2>3, <2>5 DEF Within, m
  <2>6. QED
    BY <2>4, <2>5
<1>8. QED
  BY <1>2, <1>5, <1>7 DEF PathInv

LEMMA PathNext ==
  PartsInv /\ PartsInv' /\ RowsInv /\ GoneInv /\ PathInv /\ Step /\ ~early' => PathInv'
<1> SUFFICES ASSUME PartsInv, PartsInv', RowsInv, GoneInv, PathInv, Step, ~early' PROVE PathInv'
  OBVIOUS
<1>1. CASE Selecting
  BY <1>1, SelectMergePath, SelectMutatePath DEF Selecting
<1>2. CASE Restart
  <2>1. tasks' = [k \in Tasks |-> NoTask] /\ drop' = [phase |-> "idle", cover |-> {}]
    BY <1>2 DEF Restart
  <2>2. Pending' = {} /\ drop'.cover = {}
    BY <2>1 DEF Pending, Running
  <2>3. QED
    BY <2>2 DEF PathInv
<1>3. QED
  BY <1>1, <1>2, PrepareDropPath, GrabPath, PathStep

\* Directories begin to intersect only where an empty part was cleared that
\* had a mutation the part renamed across it lacks, with any number of cleaning
\* threads: merges look at the levels of what lies in a gap
\* (getMaxLevelInBetween), and not at its mutations.  Two races are set aside:
\* an OPTIMIZE FINAL that took parts from under a DROP, and an empty part that
\* was taken for removal beside one it covers.
THEOREM OnlyClearedEverIntersect == Spec => OnlyClearedIntersect
<1> DEFINE Caused ==
      Undisturbed => \A p \in DOMAIN disk' \ DOMAIN disk, q \in DOMAIN disk' :
        Clash(p, q) => ByCleared(p, q)' \/ ByCleared(q, p)'
<1>1. ASSUME PartsInv, RowsInv, GoneInv, PathInv, Step, ~crossed,
             NEW d \in DOMAIN disk, d \in DOMAIN disk', NEW m \in DOMAIN disk', m \notin DOMAIN disk,
             Clash(m, d) \/ Clash(d, m)
      PROVE  ByCleared(d, m)'
  <2>1. ~Clear(m, d)
    <3>1. m \in Info /\ d \in Info
      <4>1. PartsInv'
        BY <1>1, PartsNext
      <4>2. QED
        BY <1>1, <4>1 DEF PartsInv, TypeInv
    <3>2. QED
      BY <1>1, <3>1, DisjointSymmetric DEF Clash, Clear
  <2>2. ~(StartInsert /\ m = inserting')
    <3>1. SUFFICES ASSUME StartInsert, m = inserting' PROVE FALSE
      OBVIOUS
    <3>2. m \in Info /\ m.min = increment + 1 /\ increment \in Nat
      BY <1>1, <3>1, StartInsertEffect
    <3>3. d.max <= increment /\ d \in Info
      BY <1>1 DEF RowsInv, LastInv, PartsInv, TypeInv
    <3>4. QED
      BY <2>1, <3>2, <3>3 DEF Clear, Disjoint, Info
  <2>3. m \notin drop.cover
    BY <1>1, <2>1 DEF PathInv
  <2>4. PICK k \in Pending : m = tasks[k].info /\ (Renames(k) \/ CommitMutate(k))
    BY <1>1, <2>2, <2>3, NewDirectories
  <2>5. DOMAIN disk' = DOMAIN disk \cup {m}
    BY <1>1, NewDirectories
  <2>6. PICK e \in DOMAIN disk : Stray(e) /\ m.mutation < e.mutation /\ Within(d, e)
    BY <1>1, <2>1, <2>4 DEF PathInv, Excused
  <2>7. ~Selecting /\ ~PrepareDrop /\ ~Restart
    <3>1. disk' # disk
      BY <1>1
    <3>2. QED
      BY <3>1 DEF Selecting, Merging, SelectMutate, Start, PrepareDrop, Restart
  <2>8. Stray(e)'
    BY <1>1, <2>5, <2>6, <2>7, StrayStays
  <2>9. QED
    BY <2>6, <2>8 DEF ByCleared, Stray, Within, Empty
<1> DEFINE Inv == ~raced /\ ~early => PartsInv /\ RowsInv /\ GoneInv /\ PathInv
<1>2. ASSUME Inv, [Next]_vars PROVE Caused
  <2>1. SUFFICES ASSUME Undisturbed, NEW p \in DOMAIN disk' \ DOMAIN disk,
                        NEW q \in DOMAIN disk', Clash(p, q)
                 PROVE  ByCleared(q, p)'
    OBVIOUS
  <2>2. ~crossed /\ ~raced /\ PartsInv /\ RowsInv /\ GoneInv /\ PathInv
    BY <1>2, <2>1 DEF Undisturbed
  <2>3. ~raced'
    BY <1>2, <2>1, <2>2, RacesOnly
  <2>4. Step
    BY <1>2, <2>2, <2>3, StepIs
  <2>5. CASE q \in DOMAIN disk
    BY <1>1, <2>1, <2>2, <2>4, <2>5
  <2>6. CASE q \notin DOMAIN disk
    <3>1. DOMAIN disk' = DOMAIN disk \cup {p}
      BY <2>1, <2>2, <2>4, NewDirectories
    <3>2. QED
      BY <2>1, <2>6, <3>1 DEF Clash
  <2>7. QED
    BY <2>5, <2>6
<1>3. Init => PathInv
  <2>1. Init => DOMAIN disk = {}
    BY DEF Init
  <2>2. QED
    BY <2>1 DEF PathInv
<1>4. Init => Inv
  BY <1>3, PartsInit, RowsInit, GoneInit
<1>5. Inv /\ [Next]_vars => Inv'
  BY RacedStays, EarlyStays, StepIs, PartsNext, RowsNext, GoneNext, PathNext
<1>6. Spec => [][Caused]_vars
  <2> HIDE DEF Caused, Inv
  <2> QED
    BY <1>2, <1>4, <1>5, PTL DEF Spec
<1>7. QED
  BY <1>6 DEF OnlyClearedIntersect
=============================================================================
