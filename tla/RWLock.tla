------------------------------- MODULE RWLock -------------------------------
(***************************************************************************)
(* The phase-fair readers-writers lock of a table (Common/RWLock.cpp):     *)
(* readers_queue, writers_queue, the owner iterators, owner_queries and    *)
(* the LockHolders.  Every SELECT holds such a lock in Read mode, DROP and *)
(* exclusive operations in Write mode (Storages/IStorage.cpp).             *)
(*                                                                         *)
(* internal_state_mtx makes a step of everything between two waits on a    *)
(* group's condition variable.  A group is a number that no other group of *)
(* the two queues has, an iterator is its group, and End is end().         *)
(***************************************************************************)
EXTENDS Integers, FiniteSets, SequencesExt

CONSTANTS
  Requests,   \* getLock calls that may be under way or hold the lock
  Queries,    \* query ids
  NoQuery,    \* NO_QUERY: a request from outside of a query
  QueryOf,    \* the query of each request, or NoQuery
  Timed,      \* the requests with a lock_timeout_ms
  MaxGroups   \* bound: groups in the queues; there are never more than requests

ASSUME LockAssumption ==
  /\ IsFiniteSet(Requests)
  /\ NoQuery \notin Queries
  /\ QueryOf \in [Requests -> Queries \cup {NoQuery}]
  /\ Timed \subseteq Requests
  /\ MaxGroups \in Nat

VARIABLES
  readers,    \* readers_queue
  writers,    \* writers_queue
  owns,       \* the groups whose `ownership' is set
  count,      \* `requests' of each group
  rdlock,     \* rdlock_owner
  wrlock,     \* wrlock_owner
  queries,    \* owner_queries; 0 is for no entry
  req         \* per request: is it idle, waiting or holding, as what, in which group

vars == <<readers, writers, owns, count, rdlock, wrlock, queries, req>>

Groups == 1..MaxGroups

End == 0

Idle == [pc |-> "idle", type |-> "read", group |-> End]

Init ==
  /\ readers = <<>>
  /\ writers = <<>>
  /\ owns = {}
  /\ count = [g \in Groups |-> 0]
  /\ rdlock = End
  /\ wrlock = End
  /\ queries = [q \in Queries |-> 0]
  /\ req = [r \in Requests |-> Idle]

-----------------------------------------------------------------------------
Begin(queue) == IF queue = <<>> THEN End ELSE Head(queue)

Position(queue, g) == CHOOSE i \in DOMAIN queue : queue[i] = g

Erase(queue, g) == RemoveAt(queue, Position(queue, g))

Free == rdlock = End /\ wrlock = End

\* owner_queries changes by d for the query of r, if it has one.
CountQuery(r, d) ==
  queries' = IF QueryOf[r] = NoQuery THEN queries
             ELSE [queries EXCEPT ![QueryOf[r]] = @ + d]

\* bindWith: the holder of r belongs to group g.
Bind(r, type, g) ==
  /\ req' = [req EXCEPT ![r] = [pc |-> "held", type |-> type, group |-> g]]
  /\ CountQuery(r, 1)

\* grantOwnershipToAllReaders, from the group `from' of the queue to its end.
GrantReaders(queue, granted, from) ==
  /\ rdlock' = Last(queue)
  /\ owns' = granted \cup {queue[i] : i \in Position(queue, from)..Len(queue)}

-----------------------------------------------------------------------------
(* getLock.  A request of a query that owns the lock is refused, with no   *)
(* effect, if it is for Write or if the lock is owned in Write mode.       *)

FastPath(r) == QueryOf[r] # NoQuery /\ queries[QueryOf[r]] > 0

\* Mutant: the query's own writer lock is not looked at.
FastReadUnchecked(r) ==
  /\ req[r].pc = "idle"
  /\ FastPath(r)
  /\ LET g == IF rdlock = End THEN wrlock ELSE rdlock IN
     /\ Bind(r, "read", g)
     /\ count' = [count EXCEPT ![g] = @ + 1]
  /\ UNCHANGED <<readers, writers, owns, rdlock, wrlock>>

\* A reader of a query that already reads takes part without waiting.
FastRead(r) ==
  /\ req[r].pc = "idle"
  /\ FastPath(r)
  /\ wrlock = End
  /\ Bind(r, "read", rdlock)
  /\ count' = [count EXCEPT ![rdlock] = @ + 1]
  /\ UNCHANGED <<readers, writers, owns, rdlock, wrlock>>

\* Readers share the last group if it is still waiting, or if nobody waits to
\* write; a writer always has a group of its own.
CanUseLastGroup ==
  readers # <<>> /\ (Last(readers) \notin owns \/ writers = <<>>)

NewGroups == Groups \ (Range(readers) \cup Range(writers))

\* The slow path up to the test whether the lock is free.  (When owner_queries
\* has no memory for the query, getLock undoes what it did and throws: the state
\* is then the one that taking the lock and releasing it at once leaves.)
Enqueue(r, type, g) ==
  /\ req[r].pc = "idle"
  /\ ~FastPath(r)
  /\ IF type = "read" /\ CanUseLastGroup
     THEN g = Last(readers) /\ UNCHANGED <<readers, writers>>
     ELSE /\ NewGroups # {}
          /\ g = CHOOSE h \in NewGroups : TRUE
          /\ readers' = IF type = "read" THEN Append(readers, g) ELSE readers
          /\ writers' = IF type = "write" THEN Append(writers, g) ELSE writers
  /\ count' = [count EXCEPT ![g] = @ + 1]

\* The lock is free, or the group has it and nobody waits to write.
Acquire(r, type, g) ==
  /\ Enqueue(r, type, g)
  /\ \/ /\ Free
        /\ rdlock' = IF type = "read" THEN g ELSE rdlock
        /\ wrlock' = IF type = "write" THEN g ELSE wrlock
        /\ owns' = owns \cup {g}
     \/ /\ ~Free
        /\ g \in owns
        /\ UNCHANGED <<rdlock, wrlock, owns>>
  /\ Bind(r, type, g)

Wait(r, type, g) ==
  /\ Enqueue(r, type, g)
  /\ ~Free
  /\ g \notin owns
  /\ req' = [req EXCEPT ![r] = [pc |-> "waiting", type |-> type, group |-> g]]
  /\ UNCHANGED <<owns, rdlock, wrlock, queries>>

\* The group of a waiting request was granted ownership.
Wake(r) ==
  /\ req[r].pc = "waiting"
  /\ req[r].group \in owns
  /\ Bind(r, req[r].type, req[r].group)
  /\ UNCHANGED <<readers, writers, owns, count, rdlock, wrlock>>

\* Mutant: the readers a writer that gave up has held back are not woken.
TimeOutSilent(r) ==
  LET g == req[r].group
      empty == count[g] = 1 IN
  /\ req[r].pc = "waiting" /\ r \in Timed
  /\ g \notin owns
  /\ count' = [count EXCEPT ![g] = @ - 1]
  /\ readers' = IF empty /\ req[r].type = "read" THEN Erase(readers, g) ELSE readers
  /\ writers' = IF empty /\ req[r].type = "write" THEN Erase(writers, g) ELSE writers
  /\ req' = [req EXCEPT ![r] = Idle]
  /\ UNCHANGED <<owns, rdlock, wrlock, queries>>

\* The deadline passes first: leave the group, drop it if it is empty, and wake
\* the readers that this was the last writer to hold back.
TimeOut(r) ==
  LET g == req[r].group
      empty == count[g] = 1 IN
  /\ req[r].pc = "waiting" /\ r \in Timed
  /\ g \notin owns
  /\ count' = [count EXCEPT ![g] = @ - 1]
  /\ readers' = IF empty /\ req[r].type = "read" THEN Erase(readers, g) ELSE readers
  /\ writers' = IF empty /\ req[r].type = "write" THEN Erase(writers, g) ELSE writers
  /\ IF rdlock # End /\ writers' = <<>>
     THEN GrantReaders(readers', owns, rdlock)
     ELSE UNCHANGED <<owns, rdlock>>
  /\ req' = [req EXCEPT ![r] = Idle]
  /\ UNCHANGED <<wrlock, queries>>

-----------------------------------------------------------------------------
(* unlock, from the destructor of the holder.                              *)

\* Readers of other groups still hold the lock.
DropReaders(g) ==
  LET last == IF rdlock = g THEN readers[Position(readers, g) - 1] ELSE rdlock IN
  /\ readers' = Erase(readers, g)
  /\ IF writers = <<>>
     THEN GrantReaders(readers', owns \ {g}, last)
     ELSE rdlock' = last /\ owns' = owns \ {g}
  /\ UNCHANGED <<writers, wrlock>>

\* Mutant: writers always go first.
PassToWriters(queueR, queueW, readersFirst) ==
  LET toReaders == queueR # <<>> /\ queueW = <<>> IN
  /\ readers' = queueR
  /\ writers' = queueW
  /\ IF toReaders
     THEN GrantReaders(queueR, {}, Begin(queueR)) /\ wrlock' = End
     ELSE /\ rdlock' = End
          /\ wrlock' = Begin(queueW)
          /\ owns' = IF queueW = <<>> THEN {} ELSE {Begin(queueW)}

\* The phase ends: a writer's turn after readers, readers' turn after a writer.
PassOwnership(queueR, queueW, readersFirst) ==
  LET toReaders == queueR # <<>> /\ (readersFirst \/ queueW = <<>>) IN
  /\ readers' = queueR
  /\ writers' = queueW
  /\ IF toReaders
     THEN GrantReaders(queueR, {}, Begin(queueR)) /\ wrlock' = End
     ELSE /\ rdlock' = End
          /\ wrlock' = Begin(queueW)
          /\ owns' = IF queueW = <<>> THEN {} ELSE {Begin(queueW)}

\* Mutant: the phase ends with the group, whoever else is reading.
DropGroupAtOnce(type, g) ==
  PassOwnership(IF type = "read" THEN Erase(readers, g) ELSE readers,
                IF type = "write" THEN Erase(writers, g) ELSE writers, type = "write")

\* dropOwnerGroupAndPassOwnership
DropGroup(type, g) ==
  IF type = "read" /\ rdlock # Begin(readers) /\ rdlock # End
  THEN DropReaders(g)
  ELSE PassOwnership(IF type = "read" THEN Erase(readers, g) ELSE readers,
                IF type = "write" THEN Erase(writers, g) ELSE writers, type = "write")

\* The two consistency tests of unlock, which give up silently in release builds.
Consistent(r) ==
  /\ req[r].group \in owns
  /\ IF req[r].type = "read" THEN rdlock # End /\ wrlock = End
     ELSE wrlock = req[r].group /\ rdlock = End

\* Mutant: a query leaves owner_queries with the first of its locks.
UnlockForgetsQuery(r) ==
  LET g == req[r].group IN
  /\ req[r].pc = "held"
  /\ queries' = IF QueryOf[r] = NoQuery THEN queries
                ELSE [queries EXCEPT ![QueryOf[r]] = 0]
  /\ count' = [count EXCEPT ![g] = @ - 1]
  /\ IF count[g] = 1 THEN DropGroup(req[r].type, g)
     ELSE UNCHANGED <<readers, writers, owns, rdlock, wrlock>>
  /\ req' = [req EXCEPT ![r] = Idle]

Unlock(r) ==
  LET g == req[r].group IN
  /\ req[r].pc = "held"
  /\ Consistent(r)
  /\ CountQuery(r, -1)
  /\ count' = [count EXCEPT ![g] = @ - 1]
  /\ IF count[g] = 1 THEN DropGroup(req[r].type, g)
     ELSE UNCHANGED <<readers, writers, owns, rdlock, wrlock>>
  /\ req' = [req EXCEPT ![r] = Idle]

-----------------------------------------------------------------------------
Next ==
  \E r \in Requests :
    \/ FastRead(r)
    \/ \E type \in {"read", "write"}, g \in Groups :
         Acquire(r, type, g) \/ Wait(r, type, g)
    \/ Wake(r)
    \/ TimeOut(r)
    \/ Unlock(r)

Spec == Init /\ [][Next]_vars

\* A thread that was notified runs, and whoever holds the lock releases it; a
\* deadline may be too far away to count on.
Fairness == \A r \in Requests : WF_vars(Wake(r)) /\ WF_vars(Unlock(r))

FairSpec == Spec /\ Fairness

-----------------------------------------------------------------------------
(* Properties *)

Members(g) == {r \in Requests : req[r].pc # "idle" /\ req[r].group = g}

Holders == {r \in Requests : req[r].pc = "held"}

\* Whoever holds the lock in Write mode holds it alone: the exclusion that DROP,
\* which takes lockExclusively, relies on.
Exclusion ==
  \A r, s \in Holders : r # s => req[r].type = "read" /\ req[s].type = "read"

\* The counters that decide who is woken and what is erased are exact: a group's
\* requests are the calls that wait in it or hold through it, no empty group
\* stays in a queue, and owner_queries counts the locks of every query.
CountsExact ==
  /\ \A g \in Groups : count[g] = Cardinality(Members(g))
  /\ \A g \in Range(readers) \cup Range(writers) : count[g] > 0
  /\ \A q \in Queries :
       queries[q] = Cardinality({r \in Holders : QueryOf[r] = q})

\* No chassert of the lock fails: unlock never meets an inconsistent lock (a
\* release build would return and leave it owned for ever), and
\* grantOwnershipToAllReaders finds at most one group of readers that waits.
AssertionsHold ==
  /\ \A r \in Holders : Consistent(r)
  /\ \A g, h \in Range(readers) \ owns : g = h

\* Readers wait only for a writer, be it one that holds or one that waits: when
\* the last of them has released the lock or has given up, nobody is left behind.
ReadersWaitForWriters == Range(readers) \subseteq owns \/ writers # <<>>

\* Phase fairness: a writer follows a writer only if no reader waits, and while
\* a writer waits readers get the lock only from a writer.
PhaseFair ==
  [][/\ wrlock # End /\ wrlock' \notin {End, wrlock} => readers = <<>>
     /\ rdlock' # rdlock /\ rdlock' # End /\ ~(owns' \subseteq owns)
          => wrlock # End \/ writers' = <<>>]_vars

\* The first NOTE of RWLock.h: a reader whose query holds the lock never waits,
\* or it could wait for a writer that waits for its own query.
OwnReaderNeverWaits ==
  [][\A r, s \in Requests :
       /\ req[r].pc = "idle" /\ req'[r].pc = "waiting"
       /\ req[s].pc = "held"
       => QueryOf[r] = NoQuery \/ QueryOf[s] # QueryOf[r]]_vars

\* Nobody waits for ever as long as every query ends some time, for neither
\* readers nor writers can keep the others out.
EveryRequestEnds ==
  (\A q \in Queries : []<>(queries[q] = 0))
    => \A r \in Requests : req[r].pc = "waiting" ~> req[r].pc # "waiting"

=============================================================================
