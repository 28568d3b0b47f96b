--------------------------- MODULE MergeTreeParts ---------------------------
(***************************************************************************)
(* The data parts of one partition of a MergeTree table: INSERT, background *)
(* merges and mutations, OPTIMIZE FINAL, DROP PART / PARTITION, the cleanup *)
(* of old parts and of old mutations by several threads, readers, and a     *)
(* restart after a crash.                                                   *)
(* Source: StorageMergeTree.cpp, MergeTree/MergeTreeData.cpp,               *)
(* MergeTreeSink.cpp, MergePlainMergeTreeTask.cpp,                          *)
(* MutatePlainMergeTreeTask.cpp and MergeTreeMergePredicate.cpp.            *)
(*                                                                          *)
(* A part is its MergeTreePartInfo; what it holds is a function from rows   *)
(* to the versions of the mutations applied to them, in order.  One INSERT  *)
(* adds one row.  Statements run outside transactions.  Renames and         *)
(* removals of directories are atomic and durable: the process dies, the    *)
(* file system does not.                                                    *)
(***************************************************************************)
EXTENDS Integers, FiniteSets, Sequences, FiniteSetsExt, Functions, TLC

CONSTANTS
    Tasks,              \* slots for background merges and mutations
    MaxRows,            \* bound: INSERTs
    MaxLevel,           \* bound: the level a merge may reach
    MaxDrops,           \* bound: DROP statements
    MaxCrashes,         \* bound: restarts
    MaxMutations,       \* bound: ALTERs
    MaxReads,           \* bound: SELECTs
    MaxOptimizes,       \* bound: OPTIMIZEs ... FINAL
    Deletable,          \* bound: the rows that an ALTER ... DELETE may match
    MaxStatements,      \* bound: all these statements together
    Keep,               \* finished_mutations_to_keep
    Cleaners,           \* threads that clean up: the background one, a DROP at its end
    NoPart

ASSUME BoundsAssumption ==
    /\ {MaxRows, MaxLevel, MaxDrops, MaxCrashes, MaxMutations, MaxReads,
        MaxOptimizes, MaxStatements, Keep} \subseteq Nat
    /\ Deletable \subseteq 1..MaxRows

ASSUME NoPartAssumption ==
    NoPart \notin [min : Nat, max : Nat, level : Nat, mutation : Nat]

VARIABLES
    parts,              \* data_parts_by_info: the state of every part in memory
    disk,               \* the part directories with a final name, and their rows
    inserting,          \* the part of the INSERT that holds the lock of the parts
    increment,          \* the last block number
    current_mutations,  \* current_mutations_by_version
    files,              \* the mutation_N files
    starting,           \* an ALTER between its number and its registration, or 0
    tasks,              \* merges and mutations, tagged by CurrentlyMergingPartsTagger
    optimize,           \* OPTIMIZE: whether one waits, and the tasks it has not begun
    drop,               \* the DROP statement
    cleaner,            \* what each cleaning thread has grabbed
    unloaded,           \* outdated_unloaded_data_parts
    reading,            \* the parts a SELECT holds
    used,               \* how much of each bound is used
    muts,               \* what each mutation deletes; history: the rows that were
                        \* there when its ALTER began, and when it was registered
    acked, dropped, limbo,  \* history: the rows of finished INSERTs, of finished
                            \* DROPs, and those some statement was asked to remove
    crossed,                \* history: two directories have intersected
    raced,                  \* history: an OPTIMIZE took parts from under a DROP
    early                   \* history: an empty part was taken for removal beside
                            \* one it covers

table == <<acked, dropped, limbo>>
races == <<optimize, raced, early>>
vars == <<parts, disk, inserting, increment, current_mutations, files, starting, tasks, drop,
          cleaner, unloaded, reading, used, table, muts, crossed, races>>

Rows == 1..MaxRows
NoTask == [phase |-> "none"]           \* a free slot
Nothing == [r \in {} |-> <<>>]

-----------------------------------------------------------------------------
(* Part infos *)

DataVersion(p) == IF p.mutation # 0 THEN p.mutation ELSE p.min

Contains(p, q) ==
    /\ p.min <= q.min /\ p.max >= q.max
    /\ p.level >= q.level /\ p.mutation >= q.mutation
    /\ p.level > q.level \/ (p.min = q.min /\ p.max = q.max)

Disjoint(p, q) == p.min > q.max \/ p.max < q.min

Clash(p, q) == p # q /\ ~Disjoint(p, q) /\ ~Contains(p, q) /\ ~Contains(q, p)

\* The order of data_parts_by_info.
Less(p, q) ==
    \/ p.min < q.min
    \/ p.min = q.min /\ \/ p.max < q.max
                        \/ p.max = q.max /\ \/ p.level < q.level
                                            \/ p.level = q.level /\ p.mutation < q.mutation

Between(x, p, q) == (Less(p, x) /\ Less(x, q)) \/ (Less(q, x) /\ Less(x, p))

InState(s) == {p \in DOMAIN parts : parts[p] = s}
Active == InState("Active")

\* getPartHierarchy walks away from p while it meets parts that p contains;
\* the part it stops at may cover p or intersect it.
Reached(p, S) == {q \in S \ {p} : \A x \in S : Between(x, p, q) => Contains(p, x)}
Covered(p, S) == {q \in Reached(p, S) : Contains(p, q)}
Covering(p, S) == {q \in Reached(p, S) : Contains(q, p)}
Intersected(p, S) ==
    {q \in Reached(p, S) : ~Contains(p, q) /\ ~Contains(q, p) /\ ~Disjoint(p, q)}

Empty(p) == p \in DOMAIN disk => disk[p] = Nothing
RowsOnDisk == UNION {DOMAIN disk[p] : p \in DOMAIN disk}
LockFree == inserting = NoPart

\* checkPartDuplicate and the checks of renameTempPartAndReplaceImpl.
MayAdd(p) == p \notin DOMAIN parts /\ Intersected(p, Active) = {}

\* Mutant: the parts that a new part covers stay in the working set.
CommittedBeside(new) == [p \in DOMAIN parts |-> IF p \in new THEN "Active" ELSE parts[p]]

\* The states after Transaction::commit of the parts new.
Committed(new) ==
    LET fresh == {p \in new : Covering(p, Active) = {}}
        old == UNION {Covered(p, Active) : p \in fresh}
    IN [p \in DOMAIN parts |->
            IF p \in fresh THEN "Active"
            ELSE IF p \in new \cup old THEN "Outdated" ELSE parts[p]]

\* The numbers S in ascending order.
Sorted(S) ==
    CHOOSE s \in [1..Cardinality(S) -> S] :
        Range(s) = S /\ \A i, j \in DOMAIN s : i < j => s[i] < s[j]

With(f, S, v) == [x \in DOMAIN f \cup S |-> IF x \in S THEN v ELSE f[x]]

\* The directory of part p gets its final name.
AddDirectory(p, content) ==
    /\ disk' = With(disk, {p}, content)
    /\ crossed' = (crossed \/ \E q \in DOMAIN disk : Clash(p, q))

\* One more statement, within the bounds.
Use(what, max) ==
    /\ used[what] < max
    /\ used.rows + used.mutations + used.drops + used.reads + optimize.count
         < MaxStatements
    /\ used' = [used EXCEPT ![what] = @ + 1]

\* The same for an OPTIMIZE.
UseOptimize(waits) ==
    /\ optimize.count < MaxOptimizes
    /\ used.rows + used.mutations + used.drops + used.reads + optimize.count < MaxStatements
    /\ optimize' = [optimize EXCEPT !.waiting = waits, !.count = @ + 1]

-----------------------------------------------------------------------------
(* INSERT *)

Row == used.rows

\* MergeTreeSink::commitPart: the number, the name and the directory ...
StartInsert ==
    LET n == increment + 1
        p == [min |-> n, max |-> n, level |-> 0, mutation |-> 0]
    IN /\ LockFree /\ MayAdd(p)
       /\ Use("rows", MaxRows)
       /\ increment' = n
       /\ inserting' = p
       /\ parts' = With(parts, {p}, "PreActive")
       /\ AddDirectory(p, [r \in {used.rows + 1} |-> <<>>])
       /\ UNCHANGED <<current_mutations, files, starting, tasks, drop, cleaner, unloaded,
                      reading, table, muts, races>>

\* ... and the commit, under the same lock; then the client is answered.
CommitInsert ==
    /\ ~LockFree
    /\ parts' = Committed({inserting})
    /\ inserting' = NoPart
    /\ acked' = acked \cup {Row}
    /\ UNCHANGED <<disk, increment, current_mutations, files, starting, tasks, drop, cleaner,
                   unloaded, reading, used, dropped, limbo, muts, crossed, races>>

-----------------------------------------------------------------------------
(* ALTER ... UPDATE / DELETE *)

\* startMutation: the number is taken and the file renamed; the mutation
\* updates every row, or deletes one, ...
StartMutation ==
    LET n == increment + 1
    IN /\ starting = 0
       /\ Use("mutations", MaxMutations)
       /\ increment' = n
       /\ starting' = n
       /\ files' = files \cup {n}
       /\ \E del \in {{}} \cup {{x} : x \in acked \cap Deletable} :
            /\ muts' = With(muts, {n}, [del |-> del, pre |-> acked, post |-> {}])
            /\ limbo' = limbo \cup del
       /\ UNCHANGED <<parts, disk, inserting, current_mutations, tasks, drop, cleaner, unloaded,
                      reading, acked, dropped, crossed, races>>

\* ... before currently_processing_in_background_mutex is taken.
RegisterMutation ==
    /\ starting # 0
    /\ current_mutations' = current_mutations \cup {starting}
    /\ muts' = [muts EXCEPT ![starting].post = RowsOnDisk]
    /\ starting' = 0
    /\ UNCHANGED <<parts, disk, inserting, increment, files, tasks, drop, cleaner, unloaded,
                   reading, used, table, crossed, races>>

-----------------------------------------------------------------------------
(* Background merges and mutations *)

Running == {k \in Tasks : tasks[k] # NoTask}
Tagged == UNION {tasks[k].src : k \in Running}     \* currently_merging_mutating_parts

\* Mutant: merges may start again once the running ones have ended.
BlockedWhileWaiting == drop.phase = "stopping"

Blocked == drop.phase # "idle"                     \* merges_blocker

getCurrentMutationVersion(v) == Max({0} \cup {m \in current_mutations : m <= v})

\* Mutant: the outdated parts in the gap are not looked at.
MaxLevelOfLeft(p, q) == p.level

getMaxLevelInBetween(p, q) ==
    Max({x.level : x \in {y \in DOMAIN parts : y = p \/ (Less(p, y) /\ Less(y, q))}})

\* Mutant: parts at different mutation versions are merged.
canMergeAnyVersion(p, q) == getMaxLevelInBetween(p, q) <= Max({p.level, q.level})

canMergeParts(p, q) ==
    /\ getCurrentMutationVersion(DataVersion(p)) = getCurrentMutationVersion(DataVersion(q))
    /\ getMaxLevelInBetween(p, q) <= Max({p.level, q.level})

\* p and q are neighbours among the active parts.
Adjacent(p, q) == Less(p, q) /\ \A x \in Active : ~(Less(p, x) /\ Less(x, q))

\* The parts S are a range of the active parts, none of them tagged, that may
\* be merged.
Mergeable(S) ==
    /\ S # {} /\ S \subseteq Active \ Tagged
    /\ \A x \in Active \ S : (\A p \in S : Less(x, p)) \/ (\A p \in S : Less(p, x))
    /\ \A p, q \in S : Adjacent(p, q) => canMergeParts(p, q)

\* FutureMergedMutatedPart::assign.
MergedInfo(S) ==
    [min |-> Min({p.min : p \in S}), max |-> Max({p.max : p \in S}),
     level |-> Max({p.level : p \in S}) + 1, mutation |-> Max({p.mutation : p \in S})]

MergedContent(S) ==
    [r \in UNION {DOMAIN disk[p] : p \in S} |-> disk[CHOOSE p \in S : r \in DOMAIN disk[p]][r]]

Start(k, kind, S, info, content) ==
    /\ tasks' = [tasks EXCEPT ![k] = [kind |-> kind, src |-> S, info |-> info,
                                      content |-> content, phase |-> "running"]]
    /\ UNCHANGED <<parts, disk, inserting, increment, current_mutations, files, starting, drop,
                   cleaner, unloaded, reading, used, table, muts, crossed, early>>

StartMerge(k, S) ==
    /\ tasks[k] = NoTask /\ LockFree
    /\ Mergeable(S) /\ MergedInfo(S).level <= MaxLevel
    /\ Start(k, "merge", S, MergedInfo(S), MergedContent(S))

\* selectPartsToMerge, in the background.
SelectMerge(k) ==
    /\ ~Blocked
    /\ \E S \in SUBSET Active : Cardinality(S) > 1 /\ StartMerge(k, S)
    /\ UNCHANGED <<optimize, raced>>

\* The mutations from the first the part needs to any later one: how many
\* are squashed depends on their size and on barriers.
SelectMutate(k) ==
    /\ tasks[k] = NoTask /\ ~Blocked /\ LockFree
    /\ \E p \in Active \ Tagged, last \in current_mutations :
        LET todo == {m \in current_mutations : m > DataVersion(p) /\ m <= last}
            new == Sorted(todo)
        IN /\ last > DataVersion(p)
           /\ Start(k, "mutate", {p}, [p EXCEPT !.mutation = last],
                    [r \in DOMAIN disk[p] \ UNION {muts[m].del : m \in todo} |->
                        disk[p][r] \o new])
    /\ UNCHANGED <<optimize, raced>>

\* As many parts in the range as there were sources, but other ones.
Unexpected(k) ==
    LET old == Covered(tasks[k].info, Active)
    IN old # tasks[k].src /\ Cardinality(old) = Cardinality(tasks[k].src)

\* renameMergedTemporaryPart: the merged part is added and renamed.  If the
\* parts it covers are not its sources, that is logged; if there are as many of
\* them it throws, and the transaction rolls the part back ...
RenameMerge(k) ==
    /\ k \in Running /\ tasks[k].kind = "merge" /\ tasks[k].phase = "running"
    /\ k \notin optimize.tagged
    /\ LockFree /\ MayAdd(tasks[k].info)
    /\ parts' = With(parts, {tasks[k].info}, IF Unexpected(k) THEN "Outdated" ELSE "PreActive")
    /\ AddDirectory(tasks[k].info, tasks[k].content)
    /\ tasks' = [tasks EXCEPT ![k].phase = IF Unexpected(k) THEN "committed" ELSE "renamed"]
    /\ UNCHANGED <<inserting, increment, current_mutations, files, starting, drop, cleaner,
                   unloaded, reading, used, table, muts, races>>

\* ... and Transaction::commit takes the lock again.
CommitMerge(k) ==
    /\ k \in Running /\ tasks[k].phase = "renamed"
    /\ LockFree
    /\ parts' = Committed({tasks[k].info})
    /\ tasks' = [tasks EXCEPT ![k].phase = "committed"]
    /\ UNCHANGED <<disk, inserting, increment, current_mutations, files, starting, drop, cleaner,
                   unloaded, reading, used, table, muts, crossed, races>>

\* A mutated part is renamed and committed under one lock.
CommitMutate(k) ==
    LET p == tasks[k].info
        added == With(parts, {p}, "PreActive")
    IN /\ k \in Running /\ tasks[k].kind = "mutate" /\ tasks[k].phase = "running"
       /\ LockFree /\ MayAdd(p)
       /\ AddDirectory(p, tasks[k].content)
       /\ parts' = [q \in DOMAIN added |->
                       IF q = p THEN IF Covering(p, Active) = {} THEN "Active" ELSE "Outdated"
                       ELSE IF Covering(p, Active) = {} /\ q \in Covered(p, Active) THEN "Outdated"
                       ELSE parts[q]]
       /\ tasks' = [tasks EXCEPT ![k].phase = "committed"]
       /\ UNCHANGED <<inserting, increment, current_mutations, files, starting, drop, cleaner,
                      unloaded, reading, used, table, muts, races>>

\* merge_mutate_entry->finalize() of a committed task, or of one that failed
\* or was cancelled before it renamed its part.
FinishTask(k) ==
    /\ k \in Running /\ tasks[k].phase \in {"running", "committed"}
    /\ tasks' = [tasks EXCEPT ![k] = NoTask]
    /\ optimize' = [optimize EXCEPT !.tagged = @ \ {k}]
    /\ UNCHANGED <<parts, disk, inserting, increment, current_mutations, files, starting, drop,
                   cleaner, unloaded, reading, used, table, muts, crossed, raced, early>>

-----------------------------------------------------------------------------
(* OPTIMIZE ... FINAL: merge() of all the parts, one at a time; one waits *)

\* merges_blocker is looked at once, before the first selection; this one
\* succeeds, ...
Optimize(k) ==
    /\ ~Blocked /\ ~optimize.waiting
    /\ UseOptimize(FALSE)
    /\ StartMerge(k, Active)
    /\ UNCHANGED raced

\* ... or some merge or mutation is running and the statement waits for it ...
OptimizeWait ==
    /\ ~Blocked /\ ~optimize.waiting
    /\ LockFree /\ Tagged # {} /\ ~Mergeable(Active)
    /\ UseOptimize(TRUE)
    /\ UNCHANGED <<parts, disk, inserting, increment, current_mutations, files, starting, tasks,
                   drop, cleaner, unloaded, reading, used, table, muts, crossed, raced, early>>

\* ... and then selects again, whether merges are blocked by now or not ...
OptimizeAgain(k) ==
    /\ optimize.waiting
    /\ StartMerge(k, Active)
    /\ optimize' = [optimize EXCEPT !.waiting = FALSE,
                                    !.tagged = IF Blocked THEN @ \cup {k} ELSE @]
    /\ raced' = (raced \/ drop.phase \in {"stopped", "covering", "renaming"})

\* ... or gives up: a timeout, or nothing to merge.
OptimizeGivesUp ==
    /\ optimize.waiting
    /\ optimize' = [optimize EXCEPT !.waiting = FALSE]
    /\ UNCHANGED <<parts, disk, inserting, increment, current_mutations, files, starting, tasks,
                   drop, cleaner, unloaded, reading, used, table, muts, crossed, raced, early>>

\* MergeTask stops where it finds merges blocked; what was tagged while they
\* were goes on if it comes there only later.
BeginMerge(k) ==
    /\ k \in optimize.tagged /\ ~Blocked
    /\ optimize' = [optimize EXCEPT !.tagged = @ \ {k}]
    /\ UNCHANGED <<parts, disk, inserting, increment, current_mutations, files, starting, tasks,
                   drop, cleaner, unloaded, reading, used, table, muts, crossed, raced, early>>

-----------------------------------------------------------------------------
(* ALTER TABLE ... DROP PART / PARTITION *)

\* Once the outdated parts are loaded, stopMergesAndWait blocks merges and
\* waits for the running ones.
StopMerges ==
    /\ drop.phase = "idle" /\ unloaded = {}
    /\ Use("drops", MaxDrops)
    /\ drop' = [phase |-> "stopping", cover |-> {}]
    /\ UNCHANGED <<parts, disk, inserting, increment, current_mutations, files, starting, tasks,
                   cleaner, unloaded, reading, table, muts, crossed, races>>

\* No task is left, ...
MergesStopped ==
    /\ drop.phase = "stopping" /\ Tagged = {}
    /\ drop' = [drop EXCEPT !.phase = "stopped"]
    /\ UNCHANGED <<parts, disk, inserting, increment, current_mutations, files, starting, tasks,
                   cleaner, unloaded, reading, used, table, muts, crossed, races>>

EmptyCover(p) == [p EXCEPT !.level = @ + 1]     \* initCoverageWithNewEmptyParts

\* ... one part is chosen, or all of them, and an empty part is written that
\* covers each, ...
PrepareDrop ==
    /\ drop.phase = "stopped" /\ LockFree
    /\ \E S \in {{p} : p \in Active} \cup {Active} :
        /\ drop' = [phase |-> "covering", cover |-> {EmptyCover(p) : p \in S}]
        /\ limbo' = limbo \cup UNION {DOMAIN disk[p] : p \in S}
    /\ UNCHANGED <<parts, disk, inserting, increment, current_mutations, files, starting, tasks,
                   cleaner, unloaded, reading, used, acked, dropped, muts, crossed, races>>

\* ... and, in renameAndCommitEmptyParts, added to the parts.
AddCover ==
    /\ drop.phase = "covering" /\ LockFree
    /\ \A p \in drop.cover : MayAdd(p)
    /\ parts' = With(parts, drop.cover, "PreActive")
    /\ drop' = [drop EXCEPT !.phase = "renaming"]
    /\ UNCHANGED <<disk, inserting, increment, current_mutations, files, starting, tasks, cleaner,
                   unloaded, reading, used, table, muts, crossed, races>>

\* The wait timed out, the part is not there, or something was in the way.
DropFails ==
    /\ drop.phase \in {"stopping", "stopped", "covering"}
    /\ drop' = [phase |-> "idle", cover |-> {}]
    /\ UNCHANGED <<parts, disk, inserting, increment, current_mutations, files, starting, tasks,
                   cleaner, unloaded, reading, used, table, muts, crossed, races>>

\* Transaction::renameParts, one directory after the other and without the lock.
RenameCover ==
    LET todo == drop.cover \ DOMAIN disk
    IN /\ drop.phase = "renaming" /\ todo # {}
       /\ AddDirectory(CHOOSE p \in todo : \A q \in todo \ {p} : Less(p, q), Nothing)
       /\ UNCHANGED <<parts, inserting, increment, current_mutations, files, starting, tasks, drop,
                      cleaner, unloaded, reading, used, table, muts, races>>

CommitDrop ==
    /\ drop.phase = "renaming" /\ drop.cover \subseteq DOMAIN disk /\ LockFree
    /\ parts' = Committed(drop.cover)
    /\ LET gone == UNION {DOMAIN disk[p] : p \in UNION {Covered(q, Active) : q \in drop.cover}}
       IN dropped' = dropped \cup gone
    /\ drop' = [phase |-> "idle", cover |-> {}]
    /\ UNCHANGED <<disk, inserting, increment, current_mutations, files, starting, tasks, cleaner,
                   unloaded, reading, used, acked, limbo, muts, crossed, races>>

-----------------------------------------------------------------------------
(* Cleanup: by the background thread, and by a DROP at its end *)

Idle(c) == cleaner[c] = [part |-> NoPart, files |-> {}]

\* Beside the background thread only those of DROPs clean up.
MayClean(c) == Idle(c) /\ (used.drops > 0 \/ \A d \in Cleaners : Idle(d))

\* Mutant: the parts of a SELECT are not counted as held.
HeldByTasks == Tagged

Held == reading \cup Tagged        \* parts with more than one reference

\* Mutant: an empty part goes like any other.
RemovableAny(p) == TRUE

\* An empty part goes after the outdated parts it covers (getCoveredOutdatedParts).
Removable(p) == ~Empty(p) \/ Covered(p, InState("Outdated")) = {}

\* grabOldParts, for a part whose lifetime is over.  A batch of several parts
\* is judged on an earlier state, with more outdated parts; the model grabs
\* one part at a time and so allows more.
Grab(c) ==
    /\ MayClean(c) /\ LockFree
    /\ \E p \in InState("Outdated") \ Held :
        /\ Removable(p)
        /\ parts' = [parts EXCEPT ![p] = "Deleting"]
        /\ cleaner' = [cleaner EXCEPT ![c].part = p]
        /\ early' = (early \/ (Empty(p) /\ \E q \in InState("Deleting") : Contains(p, q)))
    /\ UNCHANGED <<disk, inserting, increment, current_mutations, files, starting, tasks, drop,
                   unloaded, reading, used, table, muts, crossed, optimize, raced>>

\* clearPartsFromFilesystemImpl and then removePartsFinally, or
\* rollbackDeletingParts if the removal failed.
RemovePart(c) ==
    /\ cleaner[c].part # NoPart /\ LockFree
    /\ \/ /\ disk' = Restrict(disk, DOMAIN disk \ {cleaner[c].part})
          /\ parts' = Restrict(parts, DOMAIN parts \ {cleaner[c].part})
       \/ /\ parts' = [parts EXCEPT ![cleaner[c].part] = "Outdated"]
          /\ UNCHANGED disk
    /\ cleaner' = [cleaner EXCEPT ![c].part = NoPart]
    /\ UNCHANGED <<inserting, increment, current_mutations, files, starting, tasks, drop,
                   unloaded, reading, used, table, muts, crossed, races>>

\* clearEmptyParts and outdatePart: only once every outdated part is loaded.
ClearEmpty(c) ==
    /\ MayClean(c) /\ LockFree /\ unloaded = {}
    /\ \E p \in Active \ Tagged :
        /\ Empty(p)
        /\ parts' = [parts EXCEPT ![p] = "Outdated"]
    /\ UNCHANGED <<disk, inserting, increment, current_mutations, files, starting, tasks, drop,
                   cleaner, unloaded, reading, used, table, muts, crossed, races>>

\* clearOldMutations forgets the oldest of the done mutations ...
ClearOldMutations(c) ==
    LET done == {m \in current_mutations : \A p \in Active : DataVersion(p) >= m}
        old == {m \in done : Cardinality({x \in done : x > m}) >= Keep}
    IN /\ MayClean(c) /\ LockFree /\ Keep > 0
       /\ old # {}
       /\ current_mutations' = current_mutations \ old
       /\ cleaner' = [cleaner EXCEPT ![c].files = old]
       /\ UNCHANGED <<parts, disk, inserting, increment, files, starting, tasks, drop, unloaded,
                      reading, used, table, muts, crossed, races>>

\* ... and removes their files outside the lock.
RemoveFile(c) ==
    /\ \E m \in cleaner[c].files :
        /\ files' = files \ {m}
        /\ cleaner' = [cleaner EXCEPT ![c].files = @ \ {m}]
    /\ UNCHANGED <<parts, disk, inserting, increment, current_mutations, starting, tasks, drop,
                   unloaded, reading, used, table, muts, crossed, races>>

-----------------------------------------------------------------------------
(* Readers *)

Read ==
    /\ reading = {} /\ LockFree /\ Active # {}
    /\ Use("reads", MaxReads)
    /\ reading' = Active
    /\ UNCHANGED <<parts, disk, inserting, increment, current_mutations, files, starting, tasks,
                   drop, cleaner, unloaded, table, muts, crossed, races>>

EndRead ==
    /\ reading # {}
    /\ reading' = {}
    /\ UNCHANGED <<parts, disk, inserting, increment, current_mutations, files, starting, tasks,
                   drop, cleaner, unloaded, used, table, muts, crossed, races>>

-----------------------------------------------------------------------------
(* A crash, and the start that follows it *)

\* PartLoadingTree: the parts no other part on disk contains.
TopLevel == {p \in DOMAIN disk : \A q \in DOMAIN disk \ {p} : ~Contains(q, p)}

\* PartLoadingTree::add throws for parts that intersect.
Clashes == {pq \in (DOMAIN disk) \X (DOMAIN disk) : Clash(pq[1], pq[2])}

\* Mutant: the mutation files do not count.
LastPartNumber == Max({0} \cup {p.max : p \in TopLevel} \cup {p.mutation : p \in TopLevel})

\* getMaxBlockNumber, raised by loadMutations.
LastNumber ==
    Max({0} \cup files \cup {p.max : p \in TopLevel} \cup {p.mutation : p \in TopLevel})

NotCleaning == [c \in Cleaners |-> [part |-> NoPart, files |-> {}]]

\* loadDataParts and loadMutations; a mutation file makes
\* its mutation known again, also if the ALTER had not returned.
Restart ==
    /\ used.crashes < MaxCrashes /\ Clashes = {}
    /\ used' = [used EXCEPT !.crashes = @ + 1]
    /\ parts' = [p \in TopLevel |-> "Active"]
    /\ unloaded' = DOMAIN disk \ TopLevel
    /\ increment' = LastNumber
    /\ current_mutations' = files
    /\ muts' = [v \in DOMAIN muts |->
                   IF v = starting THEN [muts[v] EXCEPT !.post = RowsOnDisk] ELSE muts[v]]
    /\ inserting' = NoPart /\ starting' = 0 /\ reading' = {}
    /\ tasks' = [k \in Tasks |-> NoTask]
    /\ drop' = [phase |-> "idle", cover |-> {}]
    /\ cleaner' = NotCleaning
    /\ optimize' = [optimize EXCEPT !.waiting = FALSE, !.tagged = {}]
    /\ UNCHANGED <<disk, files, table, crossed, raced, early>>

\* loadOutdatedDataParts, in the background.
LoadOutdated(p) ==
    /\ LockFree
    /\ parts' = With(parts, {p}, "Outdated")
    /\ unloaded' = unloaded \ {p}
    /\ UNCHANGED <<disk, inserting, increment, current_mutations, files, starting, tasks, drop,
                   cleaner, reading, used, table, muts, crossed, races>>

-----------------------------------------------------------------------------
Init ==
    /\ parts = [p \in {} |-> "Active"] /\ disk = [p \in {} |-> Nothing]
    /\ inserting = NoPart /\ increment = 0
    /\ current_mutations = {} /\ files = {} /\ starting = 0
    /\ tasks = [k \in Tasks |-> NoTask]
    /\ drop = [phase |-> "idle", cover |-> {}]
    /\ cleaner = NotCleaning
    /\ unloaded = {} /\ reading = {}
    /\ used = [rows |-> 0, mutations |-> 0, drops |-> 0, reads |-> 0, crashes |-> 0]
    /\ acked = {} /\ dropped = {} /\ limbo = {}
    /\ optimize = [waiting |-> FALSE, tagged |-> {}, count |-> 0]
    /\ crossed = FALSE /\ raced = FALSE /\ early = FALSE
    /\ muts = [v \in {} |-> [del |-> {}, pre |-> {}, post |-> {}]]

Next ==
    \/ StartInsert \/ CommitInsert
    \/ StartMutation \/ RegisterMutation
    \/ \E k \in Tasks :
        \/ SelectMerge(k) \/ SelectMutate(k)
        \/ RenameMerge(k) \/ CommitMerge(k) \/ CommitMutate(k) \/ FinishTask(k)
        \/ Optimize(k) \/ OptimizeAgain(k) \/ BeginMerge(k)
    \/ OptimizeWait \/ OptimizeGivesUp
    \/ StopMerges \/ MergesStopped \/ PrepareDrop \/ AddCover \/ DropFails
    \/ RenameCover \/ CommitDrop
    \/ \E c \in Cleaners :
        \/ Grab(c) \/ RemovePart(c) \/ ClearEmpty(c)
        \/ ClearOldMutations(c) \/ RemoveFile(c)
    \/ Read \/ EndRead
    \/ Restart
    \/ \E p \in unloaded : LoadOutdated(p)

Spec == Init /\ [][Next]_vars

-----------------------------------------------------------------------------
(* Properties *)

Holders(r, S) == {p \in S : r \in DOMAIN disk[p]}

\* What the table holds now, and what it would hold after a crash and a start.
Views == {Active} \cup (IF Clashes = {} THEN {TopLevel} ELSE {})

\* No row of a finished INSERT is lost and none is visible twice, now or after
\* a crash at this point, while merges, mutations, drops and the cleanup go
\* on: one part of the table holds it, unless a DROP or a DELETE was asked to
\* remove it.
RowsVisibleOnce ==
    \A S \in Views : \A r \in Rows :
        /\ Cardinality(Holders(r, S)) <= 1
        /\ r \in acked \ limbo => Holders(r, S) # {}

\* Three things that the code lets happen and that some properties below do not
\* survive: two directories have intersected, so that grabOldParts no longer
\* finds what an empty part covers; an OPTIMIZE has taken parts between the end
\* of stopMergesAndWait and the DROP's commit; a cleaning thread has taken an
\* empty part while another was still removing one that it covers.
Undisturbed == ~crossed /\ ~raced /\ ~early

\* What a DROP or a DELETE has removed never comes back, not even if a crash
\* meets the cleanup half-way and the table is loaded from what is left on
\* disk (grabOldParts keeps an empty part until the parts it covers are gone,
\* clearEmptyParts waits for the outdated parts to be loaded), as long as the
\* table is Undisturbed.
NothingResurrected == Undisturbed =>
    /\ \A r \in dropped : Holders(r, Active) = {}
    /\ \A r \in acked \cup dropped : Holders(r, Active) = {} => Holders(r, TopLevel) = {}

\* A merge never brings back what a DROP has removed: stopMergesAndWait "asks
\* to complete merges and does not allow them to start", to protect "against
\* 'revival' of data for a removed partition".
DroppedStayDropped == \A r \in dropped : Holders(r, Active) = {}

\* The table can be loaded after a crash at any point: the directories on
\* disk never intersect, whatever was merged, mutated, dropped or left for
\* cleanup (PartLoadingTree::add calls the opposite "a bug or a result of
\* manual intervention").
NeverIntersect == Clashes = {}

\* On disk, an empty part that is active no more covers p and has a mutation
\* that q lacks.
ByCleared(p, q) ==
    \E e \in DOMAIN disk \ Active :
        Empty(e) /\ (e = p \/ Contains(e, p)) /\ q.mutation < e.mutation

\* In a table that was Undisturbed, directories begin to intersect in one case
\* only: an empty part that had a mutation the merged part around it lacks was
\* cleared and is still on disk.  (An OPTIMIZE that raced a DROP is another, and
\* once two do, the cleanup may leave others behind that are in no empty part.)
OnlyClearedIntersect ==
    [][Undisturbed => \A p \in DOMAIN disk' \ DOMAIN disk, q \in DOMAIN disk' :
          Clash(p, q) => ByCleared(p, q)' \/ ByCleared(q, p)']_vars

\* A running merge or mutation replaces exactly the parts it was made from:
\* nothing is inserted, dropped or cleared into its range before it commits
\* (renameMergedTemporaryPart warns or throws otherwise), unless an OPTIMIZE
\* took parts from under a DROP.
ReplacesItsSources == ~raced =>
    \A k \in Running : tasks[k].phase # "committed" =>
        Covered(tasks[k].info, Active) = tasks[k].src

\* Mutations reach every row at most once and in the order of their versions,
\* never a row inserted after the ALTER returned, and a row whose part claims
\* the version has it, as long as the table is Undisturbed.
MutationsInOrder == Undisturbed =>
    \A p \in Active : \A r \in DOMAIN disk[p] :
        LET s == disk[p][r]
        IN /\ \A i, j \in DOMAIN s : i < j => s[i] < s[j]
           /\ \A i \in DOMAIN s : s[i] <= DataVersion(p) /\ r \in muts[s[i]].post
           /\ \A v \in DOMAIN muts :
                v <= DataVersion(p) /\ r \in muts[v].pre => v \in Range(s)

\* The parts a thread finds that takes their lock next.
ActiveNext == Active \cup ({inserting} \ {NoPart})

\* A mutation that getIncompleteMutationsStatus reports as done to a waiting
\* ALTER stays done while it is known: whatever is inserted, merged, dropped
\* or cleaned up, and after a crash, no part with rows lacks it (an empty part
\* that was cleared may be back), as long as the table is Undisturbed.
DoneStaysDone ==
    [][Undisturbed => \A v \in current_mutations :
          v \in current_mutations' /\ (\A p \in ActiveNext : DataVersion(p) >= v)
            => \A p \in ActiveNext' : DataVersion(p) >= v \/ Empty(p)']_vars

\* Nobody works on files that are gone: the parts that a SELECT, a merge or a
\* mutation holds, and the active ones, are on disk.
HeldPartsOnDisk == reading \cup Tagged \cup Active \subseteq DOMAIN disk
=============================================================================
