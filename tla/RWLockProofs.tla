---------------------------- MODULE RWLockProofs ----------------------------
(***************************************************************************)
(* The readers-writers lock for any number of requests and queries.        *)
(***************************************************************************)
EXTENDS RWLock, FiniteSetTheorems, SequenceTheorems, TLAPS

IsQueue(queue) == queue \in Seq(Groups) /\ IsInjective(queue)

TypeInv ==
  /\ IsQueue(readers)
  /\ IsQueue(writers)
  /\ Range(readers) \cap Range(writers) = {}
  /\ count \in [Groups -> Nat]
  /\ queries \in [Queries -> Nat]
  /\ req \in [Requests -> [pc : {"idle", "waiting", "held"}, type : {"read", "write"},
                           group : Groups \cup {End}]]

\* The lock is free and nobody queues for it; the first k groups of readers read,
\* and at most one more waits, for a writer; or the first writer writes, and at
\* most one group of readers waits.
Unowned ==
  rdlock = End /\ wrlock = End /\ readers = <<>> /\ writers = <<>> /\ owns = {}

Reading(k) ==
  /\ wrlock = End
  /\ rdlock = readers[k]
  /\ owns = {readers[i] : i \in 1..k}
  /\ Len(readers) <= k + 1
  /\ k = Len(readers) \/ writers # <<>>

Writing ==
  /\ rdlock = End
  /\ writers # <<>>
  /\ wrlock = Head(writers)
  /\ owns = {wrlock}
  /\ Len(readers) <= 1

PhaseInv == Unowned \/ Writing \/ \E k \in 1..Len(readers) : Reading(k)

\* A request is in the queue of its type, holders are in a group that owns the
\* lock, and a writer has a group of its own.
PlaceInv ==
  \A r \in Requests :
    /\ req[r].pc # "idle" =>
         /\ req[r].type = "read" => req[r].group \in Range(readers)
         /\ req[r].type = "write" => req[r].group \in Range(writers)
    /\ req[r].pc = "held" => req[r].group \in owns

WriterInv ==
  \A r, s \in Requests :
    /\ req[r].pc # "idle" /\ req[s].pc # "idle"
    /\ req[r].type = "write" /\ req[s].group = req[r].group
    => r = s

LockInv == TypeInv /\ PhaseInv /\ PlaceInv /\ WriterInv /\ CountsExact

-----------------------------------------------------------------------------
(* Queues.                                                                 *)

LEMMA InQueue ==
  ASSUME NEW queue, IsQueue(queue)
  PROVE  /\ Len(queue) \in Nat /\ DOMAIN queue = 1..Len(queue)
         /\ \A i \in 1..Len(queue) : queue[i] \in Groups /\ queue[i] \in Range(queue)
         /\ \A i, j \in 1..Len(queue) : queue[i] = queue[j] => i = j
         /\ \A g : g \in Range(queue) <=> \E i \in 1..Len(queue) : queue[i] = g
         /\ Range(queue) \subseteq Groups
         /\ queue = <<>> <=> Len(queue) = 0
BY DEF IsQueue, IsInjective, Range

LEMMA EmptyQueue ==
  IsQueue(<<>>) /\ Range(<<>>) = {} /\ Len(<<>>) = 0
BY DEF IsQueue, IsInjective, Range

LEMMA PositionFound ==
  ASSUME NEW queue, IsQueue(queue), NEW k \in 1..Len(queue)
  PROVE  Position(queue, queue[k]) = k
BY InQueue DEF Position

\* list::erase
LEMMA Erased ==
  ASSUME NEW queue, IsQueue(queue), NEW k \in 1..Len(queue), NEW e, e = Erase(queue, queue[k])
  PROVE  /\ IsQueue(e)
         /\ Len(e) = Len(queue) - 1
         /\ \A i \in 1..Len(e) : e[i] = IF i < k THEN queue[i] ELSE queue[i + 1]
         /\ Range(e) = Range(queue) \ {queue[k]}
<1> DEFINE a == SubSeq(queue, 1, k - 1)
           b == SubSeq(queue, k + 1, Len(queue))
<1>1. e = a \o b
  BY PositionFound DEF Erase, RemoveAt
<1>2. queue \in Seq(Groups) /\ Len(queue) \in Nat
  BY DEF IsQueue
<1>3. /\ a \in Seq(Groups) /\ Len(a) = k - 1
      /\ \A i \in 1..(k - 1) : a[i] = queue[i]
  BY <1>2
<1>4. /\ b \in Seq(Groups) /\ Len(b) = Len(queue) - k
      /\ \A i \in 1..(Len(queue) - k) : b[i] = queue[i + k]
  BY <1>2
<1> HIDE DEF a, b
<1>5. /\ e \in Seq(Groups) /\ Len(e) = Len(queue) - 1
      /\ \A i \in 1..Len(e) : e[i] = IF i <= Len(a) THEN a[i] ELSE b[i - Len(a)]
  <2>1. a \in Seq(Groups) /\ b \in Seq(Groups)
    BY <1>3, <1>4
  <2>2. /\ e \in Seq(Groups) /\ Len(e) = Len(a) + Len(b)
        /\ \A i \in 1..(Len(a) + Len(b)) : e[i] = IF i <= Len(a) THEN a[i] ELSE b[i - Len(a)]
    BY ONLY <1>1, <2>1, ConcatProperties
  <2>3. Len(a) + Len(b) = Len(queue) - 1
    BY <1>2, <1>3, <1>4
  <2>4. QED
    BY <2>2, <2>3
<1>6. ASSUME NEW i \in 1..Len(e)
      PROVE  e[i] = IF i < k THEN queue[i] ELSE queue[i + 1]
  <2>1. CASE i < k
    BY <1>2, <1>3, <1>5, <2>1
  <2>2. CASE i >= k
    <3>1. i - (k - 1) \in 1..(Len(queue) - k) /\ e[i] = b[i - (k - 1)]
      BY <1>2, <1>3, <1>5, <2>2
    <3>2. b[i - (k - 1)] = queue[(i - (k - 1)) + k] /\ (i - (k - 1)) + k = i + 1
      BY <1>4, <3>1
    <3>3. QED
      BY <2>2, <3>1, <3>2
  <2>3. QED
    BY <2>1, <2>2
<1>7. IsQueue(e)
  <2>1. \A i, j \in 1..Len(queue) : queue[i] = queue[j] => i = j
    BY InQueue
  <2>2. ASSUME NEW i \in 1..Len(e), NEW j \in 1..Len(e), e[i] = e[j]
        PROVE  i = j
    <3> DEFINE p(x) == IF x < k THEN x ELSE x + 1
    <3>1. p(i) \in 1..Len(queue) /\ p(j) \in 1..Len(queue)
      BY <1>2, <1>5
    <3>2. queue[p(i)] = queue[p(j)]
      BY <1>6, <2>2
    <3>3. p(i) = p(j)
      BY <2>1, <3>1, <3>2
    <3>4. QED
      BY <1>2, <1>5, <3>3
  <2>3. QED
    BY <1>5, <2>2 DEF IsQueue, IsInjective
<1>8. Range(e) = Range(queue) \ {queue[k]}
  <2>1. ASSUME NEW g \in Range(e) PROVE g \in Range(queue) \ {queue[k]}
    <3>1. PICK i \in 1..Len(e) : e[i] = g
      BY <1>7, <2>1, InQueue
    <3>2. PICK j : j = IF i < k THEN i ELSE i + 1
      OBVIOUS
    <3>3. j \in 1..Len(queue) /\ j # k /\ queue[j] = g
      BY <1>2, <1>5, <1>6, <3>1, <3>2
    <3>4. QED
      BY <3>3, InQueue
  <2>2. ASSUME NEW g \in Range(queue), g # queue[k] PROVE g \in Range(e)
    <3>1. PICK i \in 1..Len(queue) : queue[i] = g
      BY <2>2, InQueue
    <3>2. CASE i < k
      <4>1. i \in 1..Len(e) /\ e[i] = g
        BY <1>2, <1>5, <1>6, <3>1, <3>2
      <4>2. QED
        BY <1>7, <4>1, InQueue
    <3>3. CASE i > k
      <4>1. i - 1 \in 1..Len(e) /\ e[i - 1] = g
        BY <1>2, <1>5, <1>6, <3>1, <3>3
      <4>2. QED
        BY <1>7, <4>1, InQueue
    <3>4. QED
      BY <2>2, <3>1, <3>2, <3>3
  <2>3. QED
    BY <2>1, <2>2
<1>9. QED
  BY <1>5, <1>6, <1>7, <1>8

LEMMA Appended ==
  ASSUME NEW queue, IsQueue(queue), NEW g \in Groups, g \notin Range(queue),
         NEW e, e = Append(queue, g)
  PROVE  /\ IsQueue(e)
         /\ Len(e) = Len(queue) + 1
         /\ e[Len(queue) + 1] = g
         /\ \A i \in 1..Len(queue) : e[i] = queue[i]
         /\ Range(e) = Range(queue) \cup {g}
<1>1. queue \in Seq(Groups) /\ Len(queue) \in Nat
  BY DEF IsQueue
<1>2. /\ e \in Seq(Groups)
      /\ Len(e) = Len(queue) + 1
      /\ e[Len(queue) + 1] = g
      /\ \A i \in 1..Len(queue) : e[i] = queue[i]
  BY <1>1
<1>3. IsQueue(e)
  BY <1>1, <1>2, InQueue DEF IsQueue, IsInjective
<1>4. Range(e) = Range(queue) \cup {g}
  <2>1. ASSUME NEW x \in Range(e) PROVE x \in Range(queue) \cup {g}
    <3>1. \E i \in 1..Len(e) : e[i] = x
      <4>1. \A y : y \in Range(e) <=> \E i \in 1..Len(e) : e[i] = y
        BY ONLY <1>3, InQueue
      <4>2. QED
        BY ONLY <2>1, <4>1
    <3> PICK i \in 1..Len(e) : e[i] = x
      BY <3>1
    <3>2. QED
      BY <1>1, <1>2, InQueue
  <2>2. ASSUME NEW x \in Range(queue) PROVE x \in Range(e)
    <3>1. PICK i \in 1..Len(queue) : queue[i] = x
      BY <2>2, InQueue
    <3>2. i \in 1..Len(e) /\ e[i] = x
      BY <1>1, <1>2, <3>1
    <3>3. QED
      BY <1>3, <3>2, InQueue
  <2>3. g \in Range(e)
    <3>1. Len(queue) + 1 \in 1..Len(e)
      BY <1>1, <1>2
    <3>2. QED
      BY <1>2, <1>3, <3>1, InQueue
  <2>4. QED
    BY <2>1, <2>2, <2>3
<1>5. QED
  BY <1>2, <1>3, <1>4

-----------------------------------------------------------------------------
(* Counters.                                                               *)

LEMMA SetGrows ==
  ASSUME NEW S \in SUBSET Requests, NEW r \in Requests, r \notin S
  PROVE  Cardinality(S) \in Nat /\ Cardinality(S \cup {r}) = Cardinality(S) + 1
BY LockAssumption, FS_Subset, FS_CardinalityType, FS_AddElement

LEMMA SetShrinks ==
  ASSUME NEW S \in SUBSET Requests, NEW r \in S
  PROVE  /\ Cardinality(S) \in Nat /\ Cardinality(S) > 0
         /\ Cardinality(S \ {r}) = Cardinality(S) - 1
         /\ Cardinality(S) = 1 => S = {r}
<1>1. IsFiniteSet(S) /\ Cardinality(S) \in Nat
  BY LockAssumption, FS_Subset, FS_CardinalityType
<1>2. IsFiniteSet(S \ {r}) /\ Cardinality(S \ {r}) = Cardinality(S) - 1
  BY <1>1, FS_RemoveElement
<1>3. Cardinality(S) # 0
  BY <1>1, FS_EmptySet
<1>4. Cardinality(S \ {r}) = 0 => S \ {r} = {}
  BY <1>2, FS_EmptySet
<1>5. QED
  BY <1>1, <1>2, <1>3, <1>4

QueryHolders(q) == {r \in Holders : QueryOf[r] = q}

MembersCounted == \A g \in Groups : count[g] = Cardinality(Members(g))
QueriesCounted == \A q \in Queries : queries[q] = Cardinality(QueryHolders(q))

\* A call enters a group.
LEMMA Joins ==
  ASSUME LockInv, NEW r \in Requests, NEW g \in Groups, req[r].pc = "idle",
         NEW y, y.pc # "idle", y.group = g, req' = [req EXCEPT ![r] = y],
         count' = [count EXCEPT ![g] = @ + 1]
  PROVE  /\ MembersCounted' /\ count' \in [Groups -> Nat]
         /\ count'[g] > 0 /\ \A h \in Groups : count'[h] >= count[h]
<1>1. /\ count \in [Groups -> Nat] /\ \A s \in Requests : req'[s] = IF s = r THEN y ELSE req[s]
      /\ \A h \in Groups : count[h] = Cardinality(Members(h))
  BY DEF LockInv, TypeInv, CountsExact
<1>2. ASSUME NEW h \in Groups
      PROVE  Members(h)' = IF h = g THEN Members(h) \cup {r} ELSE Members(h)
  BY <1>1 DEF Members
<1>3. Members(g) \in SUBSET Requests /\ r \notin Members(g)
  BY DEF Members
<1>4. Cardinality(Members(g)') = Cardinality(Members(g)) + 1
  BY <1>2, <1>3, SetGrows
<1>5. MembersCounted'
  <2>1. ASSUME NEW h \in Groups PROVE count'[h] = Cardinality(Members(h)')
    BY <1>1, <1>2, <1>4
  <2>2. QED
    BY <2>1 DEF MembersCounted
<1>6. QED
  BY <1>1, <1>5

\* A call leaves its group.
LEMMA Leaves ==
  ASSUME LockInv, NEW r \in Requests, NEW g \in Groups, req[r].pc # "idle", req[r].group = g,
         req' = [req EXCEPT ![r] = Idle], count' = [count EXCEPT ![g] = @ - 1]
  PROVE  /\ MembersCounted' /\ count' \in [Groups -> Nat]
         /\ \A h \in Groups \ {g} : count'[h] = count[h]
         /\ count[g] # 1 => count'[g] > 0
         /\ count[g] = 1 => Members(g) = {r}
<1>1. /\ count \in [Groups -> Nat] /\ \A s \in Requests : req'[s] = IF s = r THEN Idle ELSE req[s]
      /\ \A h \in Groups : count[h] = Cardinality(Members(h))
  BY DEF LockInv, TypeInv, CountsExact
<1>2. ASSUME NEW h \in Groups
      PROVE  Members(h)' = IF h = g THEN Members(h) \ {r} ELSE Members(h)
  BY <1>1 DEF Members, Idle
<1>3. Members(g) \in SUBSET Requests /\ r \in Members(g)
  BY DEF Members
<1>4. /\ Cardinality(Members(g)') = Cardinality(Members(g)) - 1
      /\ Cardinality(Members(g)) > 0
      /\ Cardinality(Members(g)) = 1 => Members(g) = {r}
  BY <1>2, <1>3, SetShrinks
<1>5. MembersCounted'
  <2>1. ASSUME NEW h \in Groups PROVE count'[h] = Cardinality(Members(h)')
    BY <1>1, <1>2, <1>4
  <2>2. QED
    BY <2>1 DEF MembersCounted
<1>6. QED
  BY <1>1, <1>4, <1>5

\* bindWith, and the destructor of the holder.
LEMMA QueryGains ==
  ASSUME LockInv, NEW r \in Requests, req[r].pc # "held",
         NEW y, y.pc = "held", req' = [req EXCEPT ![r] = y], CountQuery(r, 1)
  PROVE  QueriesCounted' /\ queries' \in [Queries -> Nat]
<1>1. /\ queries \in [Queries -> Nat] /\ \A s \in Requests : req'[s] = IF s = r THEN y ELSE req[s]
      /\ \A q \in Queries : queries[q] = Cardinality(QueryHolders(q))
  BY DEF LockInv, TypeInv, CountsExact, QueryHolders
<1>2. ASSUME NEW q \in Queries
      PROVE  QueryHolders(q)' = IF QueryOf[r] = q THEN QueryHolders(q) \cup {r} ELSE QueryHolders(q)
  BY <1>1 DEF QueryHolders, Holders
<1>3. ASSUME NEW q \in Queries
      PROVE  QueryHolders(q) \in SUBSET Requests /\ r \notin QueryHolders(q)
  BY DEF QueryHolders, Holders
<1>4. ASSUME NEW q \in Queries, QueryOf[r] = q
      PROVE  Cardinality(QueryHolders(q)') = Cardinality(QueryHolders(q)) + 1
  BY <1>2, <1>3, <1>4, SetGrows
<1>5. CASE QueryOf[r] = NoQuery
  <2>1. QueryOf[r] \notin Queries
    BY <1>5, LockAssumption
  <2>2. QED
    BY <1>1, <1>2, <1>5, <2>1 DEF CountQuery, QueriesCounted
<1>6. CASE QueryOf[r] # NoQuery
  <2>1. QueryOf[r] \in Queries /\ queries' = [queries EXCEPT ![QueryOf[r]] = @ + 1]
    BY <1>6, LockAssumption DEF CountQuery
  <2>2. ASSUME NEW q \in Queries PROVE queries'[q] = Cardinality(QueryHolders(q)')
    BY <1>1, <1>2, <1>4, <2>1
  <2>3. QED
    BY <1>1, <2>1, <2>2 DEF QueriesCounted
<1>7. QED
  BY <1>5, <1>6

LEMMA QueryLoses ==
  ASSUME LockInv, NEW r \in Requests, req[r].pc = "held",
         req' = [req EXCEPT ![r] = Idle], CountQuery(r, -1)
  PROVE  QueriesCounted' /\ queries' \in [Queries -> Nat]
<1>1. /\ queries \in [Queries -> Nat] /\ \A s \in Requests : req'[s] = IF s = r THEN Idle ELSE req[s]
      /\ \A q \in Queries : queries[q] = Cardinality(QueryHolders(q))
  BY DEF LockInv, TypeInv, CountsExact, QueryHolders
<1>2. ASSUME NEW q \in Queries
      PROVE  QueryHolders(q)' = IF QueryOf[r] = q THEN QueryHolders(q) \ {r} ELSE QueryHolders(q)
  BY <1>1 DEF QueryHolders, Holders, Idle
<1>3. ASSUME NEW q \in Queries, QueryOf[r] = q
      PROVE  QueryHolders(q) \in SUBSET Requests /\ r \in QueryHolders(q)
  BY <1>3 DEF QueryHolders, Holders
<1>4. ASSUME NEW q \in Queries, QueryOf[r] = q
      PROVE  /\ Cardinality(QueryHolders(q)') = Cardinality(QueryHolders(q)) - 1
             /\ Cardinality(QueryHolders(q)) > 0
  BY <1>2, <1>3, <1>4, SetShrinks
<1>5. CASE QueryOf[r] = NoQuery
  <2>1. QueryOf[r] \notin Queries
    BY <1>5, LockAssumption
  <2>2. QED
    BY <1>1, <1>2, <1>5, <2>1 DEF CountQuery, QueriesCounted
<1>6. CASE QueryOf[r] # NoQuery
  <2>1. QueryOf[r] \in Queries /\ queries' = [queries EXCEPT ![QueryOf[r]] = @ + (-1)]
    BY <1>6, LockAssumption DEF CountQuery
  <2>2. ASSUME NEW q \in Queries PROVE queries'[q] = Cardinality(QueryHolders(q)')
    BY <1>1, <1>2, <1>4, <2>1
  <2>3. queries' \in [Queries -> Nat]
    BY <1>1, <1>4, <2>1
  <2>4. QED
    BY <2>2, <2>3 DEF QueriesCounted
<1>7. QED
  BY <1>5, <1>6

LEMMA QueriesKept ==
  ASSUME LockInv, NEW r \in Requests, req[r].pc # "held",
         NEW y, y.pc # "held", req' = [req EXCEPT ![r] = y], UNCHANGED queries
  PROVE  QueriesCounted' /\ queries' \in [Queries -> Nat]
<1>1. /\ queries \in [Queries -> Nat] /\ \A s \in Requests : req'[s] = IF s = r THEN y ELSE req[s]
      /\ \A q \in Queries : queries[q] = Cardinality(QueryHolders(q))
  BY DEF LockInv, TypeInv, CountsExact, QueryHolders
<1>2. \A q \in Queries : QueryHolders(q)' = QueryHolders(q)
  BY <1>1 DEF QueryHolders, Holders
<1>3. QED
  BY <1>1, <1>2 DEF QueriesCounted

-----------------------------------------------------------------------------
(* The phases of the lock.                                                 *)

LEMMA Phases ==
  ASSUME LockInv
  PROVE  /\ Free => Unowned
         /\ rdlock # End => \E k \in 1..Len(readers) : Reading(k)
         /\ wrlock # End => Writing
         /\ Writing => wrlock # End /\ wrlock \in Range(writers)
         /\ \A k \in 1..Len(readers) : Reading(k) => rdlock # End /\ owns \subseteq Range(readers)
         /\ owns \subseteq Range(readers) \cup Range(writers)
<1>1. IsQueue(readers) /\ IsQueue(writers) /\ End \notin Groups
  BY DEF LockInv, TypeInv, Groups, End
<1>2. Writing => wrlock # End /\ wrlock \in Range(writers)
  <2>1. SUFFICES ASSUME Writing PROVE wrlock # End /\ wrlock \in Range(writers)
    OBVIOUS
  <2>2. Len(writers) # 0 /\ Len(writers) \in Nat /\ wrlock = writers[1]
    BY <1>1, <2>1, InQueue DEF Writing, IsQueue
  <2>3. QED
    BY <1>1, <2>2, InQueue
<1>3. ASSUME NEW k \in 1..Len(readers), Reading(k)
      PROVE  rdlock # End /\ owns \subseteq Range(readers)
  <2>1. Len(readers) \in Nat /\ \A i \in 1..Len(readers) : readers[i] \in Groups /\ readers[i] \in Range(readers)
    BY <1>1, InQueue
  <2>2. \A i \in 1..k : i \in 1..Len(readers)
    BY <2>1
  <2>3. QED
    BY <1>1, <1>3, <2>1, <2>2 DEF Reading
<1>4. Unowned \/ Writing \/ \E k \in 1..Len(readers) : Reading(k)
  BY DEF LockInv, PhaseInv
<1>5. QED
  BY <1>2, <1>3, <1>4 DEF Unowned, Writing, Reading, Free

\* What an enqueued request finds.
LEMMA Enqueued ==
  ASSUME LockInv, NEW r \in Requests, NEW type \in {"read", "write"}, NEW g \in Groups,
         Enqueue(r, type, g)
  PROVE  /\ IsQueue(readers') /\ IsQueue(writers')
         /\ Range(readers') \cap Range(writers') = {}
         /\ Range(readers) \subseteq Range(readers') /\ Range(writers) \subseteq Range(writers')
         /\ Range(readers') \cup Range(writers') = Range(readers) \cup Range(writers) \cup {g}
         /\ type = "read" => g \in Range(readers')
         /\ type = "write" => g \in Range(writers') /\ g \notin Range(readers) \cup Range(writers)
<1>1. IsQueue(readers) /\ IsQueue(writers) /\ Range(readers) \cap Range(writers) = {}
  BY DEF LockInv, TypeInv
<1>2. CASE type = "read" /\ CanUseLastGroup
  <2>1. UNCHANGED <<readers, writers>> /\ g = Last(readers) /\ readers # <<>>
    BY <1>2 DEF Enqueue, CanUseLastGroup
  <2>2. g \in Range(readers)
    BY <1>1, <2>1, InQueue DEF Last
  <2>3. QED
    BY <1>1, <1>2, <2>1, <2>2
<1>3. CASE ~(type = "read" /\ CanUseLastGroup)
  <2>1. g \in NewGroups
    BY <1>3 DEF Enqueue
  <2>2. g \notin Range(readers) /\ g \notin Range(writers)
    BY <2>1 DEF NewGroups
  <2>3. CASE type = "read"
    <3>1. readers' = Append(readers, g) /\ writers' = writers
      BY <1>3, <2>3 DEF Enqueue
    <3>2. IsQueue(readers') /\ Range(readers') = Range(readers) \cup {g}
      BY <1>1, <2>2, <3>1, Appended
    <3>3. QED
      BY <1>1, <2>2, <2>3, <3>1, <3>2, Zenon
  <2>4. CASE type = "write"
    <3>1. writers' = Append(writers, g) /\ readers' = readers
      BY <1>3, <2>4 DEF Enqueue
    <3>2. IsQueue(writers') /\ Range(writers') = Range(writers) \cup {g}
      BY <1>1, <2>2, <3>1, Appended
    <3>3. QED
      BY <1>1, <2>2, <2>4, <3>1, <3>2, Zenon
  <2>5. QED
    BY <2>3, <2>4
<1>4. QED
  BY <1>2, <1>3

LEMMA AcquirePhase ==
  ASSUME LockInv, NEW r \in Requests, NEW type \in {"read", "write"}, NEW g \in Groups,
         Acquire(r, type, g)
  PROVE  PhaseInv' /\ owns \subseteq owns' /\ g \in owns'
<1>1. IsQueue(readers) /\ IsQueue(writers) /\ IsQueue(readers') /\ IsQueue(writers')
  BY Enqueued DEF Acquire, LockInv, TypeInv
<1>2. CASE Free
  <2>1. readers = <<>> /\ writers = <<>> /\ owns = {} /\ rdlock = End /\ wrlock = End
    BY <1>2, Phases DEF Unowned
  <2>2. owns' = {g}
    BY <1>2, <2>1 DEF Acquire
  <2>3. CASE type = "read"
    <3>1. rdlock' = g /\ wrlock' = End /\ writers' = <<>> /\ readers' = Append(<<>>, g)
      BY <1>2, <2>1, <2>3 DEF Acquire, Enqueue, CanUseLastGroup
    <3>2. Len(readers') = 1 /\ readers'[1] = g
      BY <2>1, <3>1, EmptyQueue, Appended
    <3>3. {readers'[i] : i \in 1..1} = {g}
      BY <3>2
    <3>4. Reading(1)'
      BY <2>2, <3>1, <3>2, <3>3 DEF Reading
    <3>5. 1 \in 1..Len(readers')
      BY <3>2
    <3>6. QED
      BY <2>1, <2>2, <3>4, <3>5 DEF PhaseInv
  <2>4. CASE type = "write"
    <3>1. wrlock' = g /\ rdlock' = End /\ readers' = <<>> /\ writers' = Append(<<>>, g)
      BY <1>2, <2>1, <2>4 DEF Acquire, Enqueue
    <3>2. Len(writers') = 1 /\ writers'[1] = g
      BY <2>1, <3>1, EmptyQueue, Appended
    <3>3. Writing'
      BY <2>2, <3>1, <3>2, EmptyQueue DEF Writing
    <3>4. QED
      BY <2>1, <2>2, <3>3 DEF PhaseInv
  <2>5. QED
    BY <2>3, <2>4
<1>3. CASE ~Free
  <2>1. g \in owns /\ UNCHANGED <<rdlock, wrlock, owns>>
    BY <1>3 DEF Acquire
  <2>2. g \in Range(readers) \cup Range(writers)
    BY <2>1, Phases
  <2>3. UNCHANGED <<readers, writers>>
    BY <2>2 DEF Acquire, Enqueue, NewGroups
  <2>4. QED
    BY <2>1, <2>3 DEF LockInv, PhaseInv, Unowned, Reading, Writing
<1>4. QED
  BY <1>2, <1>3

LEMMA WaitPhase ==
  ASSUME LockInv, NEW r \in Requests, NEW type \in {"read", "write"}, NEW g \in Groups,
         Wait(r, type, g)
  PROVE  PhaseInv'
<1>1. IsQueue(readers) /\ IsQueue(writers) /\ IsQueue(readers') /\ IsQueue(writers')
  BY Enqueued DEF Wait, LockInv, TypeInv
<1>2. ~Free /\ UNCHANGED <<rdlock, wrlock, owns>>
  BY DEF Wait
<1>3. CASE type = "read" /\ CanUseLastGroup
  <2>1. UNCHANGED <<readers, writers>>
    BY <1>3 DEF Wait, Enqueue
  <2>2. QED
    BY <1>2, <2>1 DEF LockInv, PhaseInv, Unowned, Reading, Writing
<1>4. CASE ~(type = "read" /\ CanUseLastGroup)
  <2>1. g \notin Range(readers) /\ g \notin Range(writers)
    BY <1>4 DEF Wait, Enqueue, NewGroups
  <2>2. Writing \/ \E k \in 1..Len(readers) : Reading(k)
    BY <1>2, Phases DEF Free
  <2>3. CASE type = "read"
    <3>1. /\ readers' = Append(readers, g) /\ writers' = writers
          /\ readers = <<>> \/ (Last(readers) \in owns /\ writers # <<>>)
      BY <1>4, <2>3 DEF Wait, Enqueue, CanUseLastGroup
    <3>2. /\ Len(readers') = Len(readers) + 1 /\ Len(readers) \in Nat
          /\ \A i \in 1..Len(readers) : readers'[i] = readers[i]
      BY <1>1, <2>1, <3>1, Appended, InQueue
    <3>3. CASE Writing
      <4>1. owns \cap Range(readers) = {}
        BY <3>3, Phases DEF Writing, LockInv, TypeInv
      <4>2. readers = <<>>
        BY <1>1, <3>1, <4>1, InQueue DEF Last
      <4>3. Writing'
        BY <1>2, <3>1, <3>2, <3>3, <4>2, EmptyQueue DEF Writing
      <4>4. QED
        BY <4>3 DEF PhaseInv
    <3>4. ASSUME NEW k \in 1..Len(readers), Reading(k)
          PROVE  PhaseInv'
      <4>1. readers # <<>> /\ Last(readers) \in owns /\ writers # <<>>
        BY <1>1, <3>1, <3>4, InQueue
      <4>2. PICK i \in 1..k : readers[Len(readers)] = readers[i]
        BY <3>4, <4>1 DEF Reading, Last
      <4>3. k = Len(readers)
        BY <1>1, <3>2, <4>2, InQueue
      <4>4. {readers'[j] : j \in 1..k} = {readers[j] : j \in 1..k}
        BY <3>2, <4>3
      <4>5. Reading(k)' /\ k \in 1..Len(readers')
        BY <1>2, <3>1, <3>2, <3>4, <4>1, <4>3, <4>4 DEF Reading
      <4>6. QED
        BY <4>5 DEF PhaseInv
    <3>5. QED
      BY <2>2, <3>3, <3>4
  <2>4. CASE type = "write"
    <3>1. writers' = Append(writers, g) /\ readers' = readers
      BY <1>4, <2>4 DEF Wait, Enqueue
    <3>2. /\ Len(writers') = Len(writers) + 1 /\ Len(writers) \in Nat
          /\ \A i \in 1..Len(writers) : writers'[i] = writers[i]
      BY <1>1, <2>1, <3>1, Appended, InQueue
    <3>3. writers' # <<>>
      BY <1>1, <3>2, InQueue
    <3>4. CASE Writing
      <4>1. Head(writers') = Head(writers)
        BY <1>1, <3>2, <3>4, InQueue DEF Writing, IsQueue
      <4>2. Writing'
        BY <1>2, <3>1, <3>3, <3>4, <4>1 DEF Writing
      <4>3. QED
        BY <4>2 DEF PhaseInv
    <3>5. ASSUME NEW k \in 1..Len(readers), Reading(k)
          PROVE  PhaseInv'
      BY <1>2, <3>1, <3>3, <3>5 DEF Reading, PhaseInv
    <3>6. QED
      BY <2>2, <3>4, <3>5
  <2>5. QED
    BY <2>3, <2>4
<1>5. QED
  BY <1>3, <1>4

\* The groups in `gone' leave their queue, and the lock is in a phase again.
Settled(gone) ==
  /\ IsQueue(readers') /\ IsQueue(writers')
  /\ Range(readers') = Range(readers) \ gone
  /\ Range(writers') = Range(writers) \ gone
  /\ PhaseInv'
  /\ owns \ gone \subseteq owns'

LEMMA TimeOutPhase ==
  ASSUME LockInv, NEW r \in Requests, TimeOut(r)
  PROVE  Settled(IF count[req[r].group] = 1 THEN {req[r].group} ELSE {})
<1> DEFINE g == req[r].group
<1>1. /\ g \notin owns /\ wrlock' = wrlock
      /\ req[r].type \in {"read", "write"}
      /\ req[r].type = "read" => g \in Range(readers)
      /\ req[r].type = "write" => g \in Range(writers)
      /\ IF rdlock # End /\ writers' = <<>>
         THEN GrantReaders(readers', owns, rdlock) ELSE UNCHANGED <<owns, rdlock>>
  BY DEF TimeOut, LockInv, PlaceInv, TypeInv
<1>2. IsQueue(readers) /\ IsQueue(writers) /\ Range(readers) \cap Range(writers) = {}
  BY DEF LockInv, TypeInv
<1>3. Len(readers) \in Nat /\ Len(writers) \in Nat
  BY <1>2, InQueue
<1>4. CASE count[g] # 1
  <2>1. UNCHANGED <<readers, writers>>
    BY <1>4 DEF TimeOut
  <2>2. CASE rdlock # End /\ writers' = <<>>
    <3>1. PICK k \in 1..Len(readers) : Reading(k)
      BY <2>2, Phases
    <3>2. k = Len(readers) /\ rdlock = readers[k] /\ owns = {readers[i] : i \in 1..k}
      BY <2>1, <2>2, <3>1 DEF Reading
    <3>3. rdlock' = readers[Len(readers)] /\ owns' = owns \cup {readers[i] : i \in k..Len(readers)}
      BY <1>1, <1>2, <2>1, <2>2, <3>2, PositionFound DEF GrantReaders, Last
    <3>4. owns' = owns /\ rdlock' = rdlock
      BY <1>3, <3>2, <3>3
    <3>5. QED
      BY <1>1, <1>2, <1>4, <2>1, <3>4 DEF Settled, LockInv, PhaseInv, Unowned, Reading, Writing
  <2>3. CASE ~(rdlock # End /\ writers' = <<>>)
    BY <1>1, <1>2, <1>4, <2>1, <2>3 DEF Settled, LockInv, PhaseInv, Unowned, Reading, Writing
  <2>4. QED
    BY <2>2, <2>3
<1>5. CASE count[g] = 1 /\ req[r].type = "read"
  <2>1. readers' = Erase(readers, g) /\ writers' = writers /\ g \notin Range(writers)
    BY <1>1, <1>2, <1>5 DEF TimeOut
  <2>2. PICK j \in 1..Len(readers) : readers[j] = g
    BY <1>1, <1>2, <1>5, InQueue
  <2>3. /\ IsQueue(readers') /\ Len(readers') = Len(readers) - 1
        /\ \A i \in 1..Len(readers') : readers'[i] = IF i < j THEN readers[i] ELSE readers[i + 1]
        /\ Range(readers') = Range(readers) \ {g}
    BY <1>2, <2>1, <2>2, Erased
  <2>4. PhaseInv' /\ owns' = owns
    <3>1. CASE Writing
      <4>1. UNCHANGED <<owns, rdlock>> /\ Len(readers') <= 1
        BY <1>1, <1>3, <2>1, <2>3, <3>1 DEF Writing
      <4>2. Writing'
        BY <1>1, <2>1, <3>1, <4>1 DEF Writing
      <4>3. QED
        BY <4>1, <4>2 DEF PhaseInv
    <3>2. ASSUME NEW k \in 1..Len(readers), Reading(k)
          PROVE  PhaseInv' /\ owns' = owns
      <4>1. j = k + 1 /\ k + 1 = Len(readers) /\ writers # <<>>
        BY <1>1, <1>3, <2>2, <3>2 DEF Reading
      <4>2. UNCHANGED <<owns, rdlock>>
        BY <1>1, <2>1, <4>1
      <4>3. Len(readers') = k /\ k \in 1..Len(readers') /\ \A i \in 1..k : readers'[i] = readers[i]
        BY <1>3, <2>3, <4>1
      <4>4. {readers'[i] : i \in 1..k} = {readers[i] : i \in 1..k}
        BY <4>3
      <4>5. Reading(k)'
        BY <1>1, <2>1, <3>2, <4>2, <4>3, <4>4 DEF Reading
      <4>6. QED
        BY <4>2, <4>3, <4>5 DEF PhaseInv
    <3>3. ~Unowned
      BY <1>1, <1>5, EmptyQueue DEF Unowned
    <3>4. QED
      BY <3>1, <3>2, <3>3 DEF LockInv, PhaseInv
  <2>5. QED
    BY <1>2, <1>5, <2>1, <2>3, <2>4 DEF Settled
<1>6. CASE count[g] = 1 /\ req[r].type = "write"
  <2>1. writers' = Erase(writers, g) /\ readers' = readers /\ g \notin Range(readers)
    BY <1>1, <1>2, <1>6 DEF TimeOut
  <2>2. PICK j \in 1..Len(writers) : writers[j] = g
    BY <1>1, <1>2, <1>6, InQueue
  <2>3. /\ IsQueue(writers') /\ Len(writers') = Len(writers) - 1
        /\ \A i \in 1..Len(writers') : writers'[i] = IF i < j THEN writers[i] ELSE writers[i + 1]
        /\ Range(writers') = Range(writers) \ {g}
    BY <1>2, <2>1, <2>2, Erased
  <2>4. PhaseInv' /\ owns \subseteq owns'
    <3>1. CASE Writing
      <4>1. UNCHANGED <<owns, rdlock>> /\ g # wrlock /\ wrlock = writers[1]
        BY <1>1, <1>2, <3>1 DEF Writing, IsQueue
      <4>2. j # 1 /\ Len(writers') > 0 /\ writers'[1] = writers[1]
        BY <1>3, <2>2, <2>3, <4>1
      <4>3. Head(writers') = wrlock /\ writers' # <<>>
        BY <2>3, <4>1, <4>2, InQueue DEF IsQueue
      <4>4. Writing'
        BY <1>1, <2>1, <3>1, <4>1, <4>3 DEF Writing
      <4>5. QED
        BY <4>1, <4>4 DEF PhaseInv
    <3>2. ASSUME NEW k \in 1..Len(readers), Reading(k), writers' # <<>>
          PROVE  PhaseInv' /\ owns \subseteq owns'
      BY <1>1, <2>1, <3>2 DEF Reading, PhaseInv
    <3>3. ASSUME NEW k \in 1..Len(readers), Reading(k), writers' = <<>>
          PROVE  PhaseInv' /\ owns \subseteq owns'
      <4>1. rdlock # End /\ rdlock = readers[k] /\ owns = {readers[i] : i \in 1..k}
        BY <3>3, Phases DEF Reading
      <4>2. rdlock' = readers[Len(readers)] /\ owns' = owns \cup {readers[i] : i \in k..Len(readers)}
        BY <1>1, <1>2, <2>1, <3>3, <4>1, PositionFound DEF GrantReaders, Last
      <4>3. owns' = {readers[i] : i \in 1..Len(readers)}
        BY <1>3, <4>1, <4>2
      <4>4. Reading(Len(readers))' /\ Len(readers) \in 1..Len(readers')
        BY <1>1, <1>3, <2>1, <3>3, <4>2, <4>3 DEF Reading
      <4>5. QED
        BY <4>2, <4>4, <2>1 DEF PhaseInv
    <3>4. ~Unowned
      BY <1>1, <1>6, EmptyQueue DEF Unowned
    <3>5. QED
      BY <3>1, <3>2, <3>3, <3>4 DEF LockInv, PhaseInv
  <2>5. QED
    BY <1>2, <1>6, <2>1, <2>3, <2>4 DEF Settled
<1>7. QED
  BY <1>1, <1>4, <1>5, <1>6

LEMMA DropReadersPhase ==
  ASSUME LockInv, NEW k \in 1..Len(readers), Reading(k), k > 1,
         NEW j \in 1..Len(readers), j <= k, DropReaders(readers[j])
  PROVE  Settled({readers[j]})
<1> DEFINE g == readers[j]
           last == IF j = k THEN readers[k - 1] ELSE rdlock
<1>1. IsQueue(readers) /\ IsQueue(writers) /\ Range(readers) \cap Range(writers) = {}
  BY DEF LockInv, TypeInv
<1>2. /\ Len(readers) \in Nat /\ j \in 1..Len(readers)
      /\ \A a, b \in 1..Len(readers) : readers[a] = readers[b] => a = b
      /\ g \in Range(readers)
  BY <1>1, InQueue
<1>3. /\ readers' = Erase(readers, g) /\ UNCHANGED <<writers, wrlock>>
      /\ IF writers = <<>>
         THEN GrantReaders(readers', owns \ {g}, last)
         ELSE rdlock' = last /\ owns' = owns \ {g}
  <2>1. Position(readers, g) = j /\ (rdlock = g <=> j = k)
    BY <1>1, <1>2, PositionFound DEF Reading
  <2>2. QED
    BY <2>1 DEF DropReaders
<1>4. /\ IsQueue(readers') /\ Len(readers') = Len(readers) - 1
      /\ \A i \in 1..Len(readers') : readers'[i] = IF i < j THEN readers[i] ELSE readers[i + 1]
      /\ Range(readers') = Range(readers) \ {g}
  <2>1. readers' = Erase(readers, readers[j])
    BY <1>3
  <2> DEFINE e == readers'
  <2>2. e = Erase(readers, readers[j]) /\ IsQueue(readers)
    BY <1>1, <2>1
  <2> HIDE DEF e
  <2>3. /\ IsQueue(e) /\ Len(e) = Len(readers) - 1
        /\ \A i \in 1..Len(e) : e[i] = IF i < j THEN readers[i] ELSE readers[i + 1]
        /\ Range(e) = Range(readers) \ {readers[j]}
    BY ONLY <2>2, Erased, SMTT(30)
  <2>4. QED
    BY <2>3 DEF e
<1>5. last = readers'[k - 1] /\ k - 1 \in 1..Len(readers')
  BY <1>2, <1>4 DEF Reading
<1>6. owns \ {g} = {readers'[i] : i \in 1..(k - 1)}
  <2>1. ASSUME NEW x \in owns, x # g PROVE \E i \in 1..(k - 1) : readers'[i] = x
    <3>1. PICK i \in 1..k : readers[i] = x
      BY DEF Reading
    <3>2. CASE i < j
      <4>1. i \in 1..(k - 1) /\ i \in 1..Len(readers')
        BY <1>2, <1>4, <3>1, <3>2
      <4>2. readers'[i] = x
        BY <1>4, <3>1, <3>2, <4>1
      <4>3. QED
        BY <4>1, <4>2
    <3>3. CASE i > j
      <4>1. i - 1 \in 1..(k - 1) /\ i - 1 \in 1..Len(readers') /\ ~(i - 1 < j) /\ (i - 1) + 1 = i
        BY <1>2, <1>4, <3>1, <3>3
      <4>2. readers'[i - 1] = x
        BY <1>4, <3>1, <4>1
      <4>3. QED
        BY <4>1, <4>2
    <3>4. QED
      BY <2>1, <3>1, <3>2, <3>3
  <2>2. ASSUME NEW i \in 1..(k - 1) PROVE readers'[i] \in owns \ {g}
    <3>1. PICK a : a = IF i < j THEN i ELSE i + 1
      OBVIOUS
    <3>2. a \in 1..k /\ a \in 1..Len(readers) /\ a # j /\ i \in 1..Len(readers')
      BY <1>2, <1>4, <3>1
    <3>3. readers'[i] = readers[a]
      BY <1>4, <3>1, <3>2
    <3>4. readers[a] \in owns
      BY <3>2 DEF Reading
    <3>5. readers[a] # g
      BY <1>2, <3>2
    <3>6. QED
      BY <3>3, <3>4, <3>5
  <2>3. QED
    BY <2>1, <2>2
<1>7. PhaseInv' /\ owns \ {g} \subseteq owns'
  <2>1. CASE writers = <<>>
    <3>1. Len(readers') = k - 1
      BY <1>4, <2>1 DEF Reading
    <3>2. Position(readers', last) = k - 1
      BY <1>4, <1>5, PositionFound
    <3>3. /\ rdlock' = readers'[Len(readers')]
          /\ owns' = (owns \ {g}) \cup {readers'[i] : i \in (k - 1)..Len(readers')}
      BY <1>3, <2>1, <3>2 DEF GrantReaders, Last
    <3>4. owns' = {readers'[i] : i \in 1..(k - 1)} /\ rdlock' = readers'[k - 1]
      BY <1>2, <1>6, <3>1, <3>3
    <3>5. Reading(k - 1)'
      BY <1>3, <1>5, <3>1, <3>4 DEF Reading
    <3>6. QED
      BY <1>5, <1>6, <3>4, <3>5 DEF PhaseInv
  <2>2. CASE writers # <<>>
    <3>1. rdlock' = readers'[k - 1] /\ owns' = {readers'[i] : i \in 1..(k - 1)}
      BY <1>3, <1>5, <1>6, <2>2
    <3>2. Reading(k - 1)'
      BY <1>2, <1>3, <1>4, <1>5, <2>2, <3>1 DEF Reading
    <3>3. QED
      BY <1>5, <1>6, <3>1, <3>2 DEF PhaseInv
  <2>3. QED
    BY <2>1, <2>2
<1>8. QED
  BY <1>1, <1>2, <1>3, <1>4, <1>7 DEF Settled

\* Whoever is first in the queues gets the lock.
LEMMA PassPhase ==
  ASSUME NEW queueR, NEW queueW, IsQueue(queueR), IsQueue(queueW), NEW b \in BOOLEAN,
         PassOwnership(queueR, queueW, b),
         Len(queueR) <= 1 \/ b \/ queueW = <<>>
  PROVE  PhaseInv' /\ readers' = queueR /\ writers' = queueW
<1>1. readers' = queueR /\ writers' = queueW
  BY DEF PassOwnership
<1>2. Len(queueR) \in Nat /\ (queueR = <<>> <=> Len(queueR) = 0) /\ queueW \in Seq(Groups)
  BY InQueue DEF IsQueue
<1>3. CASE queueR # <<>> /\ (b \/ queueW = <<>>)
  <2>1. queueR[1] = Begin(queueR) /\ 1 \in 1..Len(queueR)
    BY <1>2, <1>3 DEF Begin, IsQueue
  <2>2. Position(queueR, Begin(queueR)) = 1
    BY <2>1, PositionFound
  <2>3. /\ rdlock' = queueR[Len(queueR)] /\ wrlock' = End
        /\ owns' = {queueR[i] : i \in 1..Len(queueR)}
    BY <1>3, <2>2 DEF PassOwnership, GrantReaders, Last
  <2>4. Reading(Len(queueR))' /\ Len(queueR) \in 1..Len(readers')
    BY <1>1, <1>2, <1>3, <2>3 DEF Reading
  <2>5. QED
    BY <1>1, <2>4 DEF PhaseInv
<1>4. CASE ~(queueR # <<>> /\ (b \/ queueW = <<>>)) /\ queueW # <<>>
  <2>1. rdlock' = End /\ wrlock' = Head(queueW) /\ owns' = {Head(queueW)}
    BY <1>4 DEF PassOwnership, Begin
  <2>2. Len(queueR) <= 1
    BY <1>2, <1>4
  <2>3. QED
    BY <1>1, <1>4, <2>1, <2>2 DEF PhaseInv, Writing
<1>5. CASE queueR = <<>> /\ queueW = <<>>
  BY <1>1, <1>5 DEF PassOwnership, Begin, PhaseInv, Unowned
<1>6. QED
  BY <1>3, <1>4, <1>5

LEMMA DropPhase ==
  ASSUME LockInv, NEW r \in Requests, req[r].pc = "held", Consistent(r),
         DropGroup(req[r].type, req[r].group)
  PROVE  Settled({req[r].group})
<1> DEFINE g == req[r].group
<1>1. /\ g \in owns
      /\ req[r].type \in {"read", "write"}
      /\ req[r].type = "read" => g \in Range(readers)
      /\ req[r].type = "write" => g \in Range(writers)
  BY DEF LockInv, PlaceInv, TypeInv
<1>2. IsQueue(readers) /\ IsQueue(writers) /\ Range(readers) \cap Range(writers) = {}
  BY DEF LockInv, TypeInv
<1>3. Len(readers) \in Nat /\ Len(writers) \in Nat
  BY <1>2, InQueue
<1>4. CASE req[r].type = "read"
  <2>1. rdlock # End /\ wrlock = End
    BY <1>4 DEF Consistent
  <2>2. PICK k \in 1..Len(readers) : Reading(k)
    BY <2>1, Phases
  <2>3. PICK j \in 1..k : readers[j] = g
    BY <1>1, <2>2 DEF Reading
  <2>4. Begin(readers) = readers[1] /\ (rdlock = Begin(readers) <=> k = 1)
    BY <1>2, <1>3, <2>2, InQueue DEF Begin, Reading, IsQueue
  <2>5. CASE k > 1
    <3>1. DropReaders(readers[j])
      BY <1>4, <2>1, <2>3, <2>4, <2>5 DEF DropGroup
    <3>2. j \in 1..Len(readers) /\ j <= k
      BY <1>3
    <3>3. QED
      BY <2>2, <2>3, <2>5, <3>1, <3>2, DropReadersPhase
  <2>6. CASE k = 1
    <3>1. PassOwnership(Erase(readers, g), writers, FALSE)
      BY <1>4, <2>4, <2>6 DEF DropGroup
    <3>2. j \in 1..Len(readers) /\ g = readers[j]
      BY <2>3
    <3>3. /\ IsQueue(Erase(readers, g)) /\ Len(Erase(readers, g)) = Len(readers) - 1
          /\ Range(Erase(readers, g)) = Range(readers) \ {g}
      BY <1>2, <3>2, Erased
    <3>4. Len(Erase(readers, g)) <= 1
      BY <1>3, <2>2, <2>6, <3>3 DEF Reading
    <3>5. PhaseInv' /\ readers' = Erase(readers, g) /\ writers' = writers
      BY <1>2, <3>1, <3>3, <3>4, PassPhase
    <3>6. owns = {g}
      BY <1>1, <2>2, <2>6 DEF Reading
    <3>7. g \in Range(readers) /\ g \notin Range(writers)
      BY <1>1, <1>2, <1>4
    <3>8. QED
      BY <1>2, <3>3, <3>5, <3>6, <3>7 DEF Settled
  <2>7. QED
    BY <2>5, <2>6
<1>5. CASE req[r].type = "write"
  <2>1. wrlock = g /\ rdlock = End
    BY <1>5 DEF Consistent
  <2>2. PassOwnership(readers, Erase(writers, g), TRUE)
    BY <1>5 DEF DropGroup
  <2>3. PICK j \in 1..Len(writers) : writers[j] = g
    BY <1>1, <1>2, <1>5, InQueue
  <2>4. IsQueue(Erase(writers, g)) /\ Range(Erase(writers, g)) = Range(writers) \ {g}
    BY <1>2, <2>3, Erased
  <2>5. PhaseInv' /\ readers' = readers /\ writers' = Erase(writers, g)
    BY <1>2, <2>2, <2>4, PassPhase
  <2>6. g \in Range(writers) /\ g \notin Range(readers)
    BY <1>1, <1>2, <1>5
  <2>7. owns = {g}
    BY <2>1, <2>6, Phases, <1>2, InQueue DEF Writing, Groups, End
  <2>8. QED
    BY <1>2, <2>4, <2>5, <2>6, <2>7 DEF Settled
<1>6. QED
  BY <1>1, <1>4, <1>5

-----------------------------------------------------------------------------
(* The steps.                                                              *)

RequestType ==
  [pc : {"idle", "waiting", "held"}, type : {"read", "write"}, group : Groups \cup {End}]

\* A request is put in group g of the queue of its type, as `pc'.
LEMMA PlacedIn ==
  ASSUME LockInv, NEW r \in Requests, NEW type \in {"read", "write"}, NEW g \in Groups,
         NEW pc \in {"waiting", "held"}, req[r].pc = "idle",
         req' = [req EXCEPT ![r] = [pc |-> pc, type |-> type, group |-> g]],
         Range(readers) \subseteq Range(readers'), Range(writers) \subseteq Range(writers'),
         Range(readers') \cap Range(writers') = {},
         type = "read" => g \in Range(readers'),
         type = "write" => g \in Range(writers') /\ g \notin Range(readers) \cup Range(writers),
         owns \subseteq owns', pc = "held" => g \in owns'
  PROVE  req' \in [Requests -> RequestType] /\ PlaceInv' /\ WriterInv'
<1> DEFINE y == [pc |-> pc, type |-> type, group |-> g]
<1>1. y \in RequestType /\ y.pc = pc /\ y.type = type /\ y.group = g
  BY DEF RequestType
<1>2. req \in [Requests -> RequestType]
  BY DEF LockInv, TypeInv, RequestType
<1> HIDE DEF y
<1>3. req' = [req EXCEPT ![r] = y]
  BY DEF y
<1>4. req' \in [Requests -> RequestType] /\ \A s \in Requests : req'[s] = IF s = r THEN y ELSE req[s]
  BY <1>1, <1>2, <1>3
<1>5. PlaceInv'
  <2>1. ASSUME NEW s \in Requests
        PROVE  /\ req'[s].pc # "idle" =>
                    /\ req'[s].type = "read" => req'[s].group \in Range(readers')
                    /\ req'[s].type = "write" => req'[s].group \in Range(writers')
               /\ req'[s].pc = "held" => req'[s].group \in owns'
    <3>1. CASE s = r
      BY <1>1, <1>4, <3>1
    <3>2. CASE s # r
      BY <1>4, <3>2 DEF LockInv, PlaceInv
    <3>3. QED
      BY <3>1, <3>2
  <2>2. QED
    BY <2>1 DEF PlaceInv
<1>6. WriterInv'
  <2>1. ASSUME NEW s \in Requests, s # r, req[s].pc # "idle"
        PROVE  /\ type = "write" => req[s].group # g
               /\ req[s].type = "write" => req[s].group # g
    <3>1. req[s].type \in {"read", "write"}
      BY <1>2 DEF RequestType
    <3>2. req[s].group \in Range(readers) \cup Range(writers)
      BY <2>1, <3>1 DEF LockInv, PlaceInv
    <3>3. req[s].type = "write" => req[s].group \in Range(writers)
      BY <2>1 DEF LockInv, PlaceInv
    <3>4. QED
      BY <3>2, <3>3
  <2>2. SUFFICES ASSUME NEW s \in Requests, NEW u \in Requests,
                        req'[s].pc # "idle", req'[u].pc # "idle",
                        req'[s].type = "write", req'[u].group = req'[s].group, s # u
                 PROVE  FALSE
    BY DEF WriterInv
  <2>3. CASE s = r
    BY <1>1, <1>4, <2>1, <2>2, <2>3
  <2>4. CASE u = r
    BY <1>1, <1>4, <2>1, <2>2, <2>4
  <2>5. CASE s # r /\ u # r
    BY <1>4, <2>2, <2>5 DEF LockInv, WriterInv
  <2>6. QED
    BY <2>3, <2>4, <2>5
<1>7. QED
  BY <1>4, <1>5, <1>6

LEMMA EnqueueStep ==
  ASSUME LockInv, NEW r \in Requests, NEW type \in {"read", "write"}, NEW g \in Groups,
         Acquire(r, type, g) \/ Wait(r, type, g)
  PROVE  LockInv'
<1>1. PICK pc \in {"waiting", "held"} :
        /\ req' = [req EXCEPT ![r] = [pc |-> pc, type |-> type, group |-> g]]
        /\ pc = "held" => Acquire(r, type, g)
        /\ pc = "waiting" => Wait(r, type, g)
  BY DEF Acquire, Wait, Bind
<1>2. /\ Enqueue(r, type, g) /\ req[r].pc = "idle"
      /\ count' = [count EXCEPT ![g] = @ + 1]
  BY DEF Acquire, Wait, Enqueue
<1>3. /\ IsQueue(readers') /\ IsQueue(writers')
      /\ Range(readers') \cap Range(writers') = {}
      /\ Range(readers) \subseteq Range(readers') /\ Range(writers) \subseteq Range(writers')
      /\ Range(readers') \cup Range(writers') = Range(readers) \cup Range(writers) \cup {g}
      /\ type = "read" => g \in Range(readers')
      /\ type = "write" => g \in Range(writers') /\ g \notin Range(readers) \cup Range(writers)
  BY <1>2, Enqueued
<1>4. PhaseInv' /\ owns \subseteq owns' /\ (pc = "held" => g \in owns')
  BY <1>1, AcquirePhase, WaitPhase DEF Wait
<1>5. req' \in [Requests -> RequestType] /\ PlaceInv' /\ WriterInv'
  BY <1>1, <1>2, <1>3, <1>4, PlacedIn
<1> DEFINE y == [pc |-> pc, type |-> type, group |-> g]
<1>6. y.pc = pc /\ y.group = g /\ req' = [req EXCEPT ![r] = y]
  BY <1>1
<1> HIDE DEF y
<1>7. /\ MembersCounted' /\ count' \in [Groups -> Nat]
      /\ count'[g] > 0 /\ \A h \in Groups : count'[h] >= count[h]
  BY <1>2, <1>6, Joins
<1>8. QueriesCounted' /\ queries' \in [Queries -> Nat]
  <2>1. CASE pc = "held"
    <3>1. CountQuery(r, 1)
      BY <1>1, <2>1 DEF Acquire, Bind
    <3>2. QED
      BY <1>2, <1>6, <2>1, <3>1, QueryGains
  <2>2. CASE pc = "waiting"
    BY <1>1, <1>2, <1>6, <2>2, QueriesKept DEF Wait
  <2>3. QED
    BY <2>1, <2>2
<1>9. CountsExact'
  <2>1. ASSUME NEW h \in Range(readers') \cup Range(writers') PROVE count'[h] > 0
    <3>1. CASE h = g
      BY <1>7, <3>1
    <3>2. CASE h # g
      <4>1. h \in Range(readers) \cup Range(writers) /\ h \in Groups
        BY <1>3, <2>1, <3>2, InQueue DEF LockInv, TypeInv
      <4>2. count[h] > 0 /\ count[h] \in Nat /\ count'[h] \in Nat /\ count'[h] >= count[h]
        BY <1>7, <4>1 DEF LockInv, CountsExact, TypeInv
      <4>3. QED
        BY <4>2
    <3>3. QED
      BY <3>1, <3>2
  <2>2. QED
    BY <1>7, <1>8, <2>1 DEF CountsExact, MembersCounted, QueriesCounted, QueryHolders
<1>10. TypeInv'
  BY <1>3, <1>5, <1>7, <1>8 DEF TypeInv, RequestType
<1>11. QED
  BY <1>4, <1>5, <1>9, <1>10 DEF LockInv

LEMMA FastReadStep ==
  ASSUME LockInv, NEW r \in Requests, FastRead(r)
  PROVE  LockInv'
<1>1. /\ req[r].pc = "idle" /\ wrlock = End
      /\ UNCHANGED <<readers, writers, owns, rdlock, wrlock>>
      /\ req' = [req EXCEPT ![r] = [pc |-> "held", type |-> "read", group |-> rdlock]]
      /\ count' = [count EXCEPT ![rdlock] = @ + 1]
      /\ CountQuery(r, 1)
  BY DEF FastRead, Bind
<1>2. \E s \in Requests : req[s].pc = "held"
  <2>1. QueryOf[r] \in Queries /\ queries[QueryOf[r]] > 0
    BY LockAssumption DEF FastRead, FastPath
  <2>2. Cardinality(QueryHolders(QueryOf[r])) > 0
    BY <2>1 DEF LockInv, CountsExact, QueryHolders
  <2>3. QueryHolders(QueryOf[r]) # {}
    BY <2>2, FS_EmptySet
  <2>4. QED
    BY <2>3 DEF QueryHolders, Holders
<1>3. PICK k \in 1..Len(readers) : Reading(k)
  <2>1. owns # {}
    BY <1>2 DEF LockInv, PlaceInv
  <2>2. ~Free
    BY <2>1, Phases DEF Unowned
  <2>3. QED
    BY <1>1, <2>2, Phases DEF Free
<1>4. rdlock \in Range(readers) /\ rdlock \in owns /\ rdlock \in Groups
  <2>1. IsQueue(readers)
    BY DEF LockInv, TypeInv
  <2>2. QED
    BY <1>3, <2>1, InQueue DEF Reading
<1>5. PhaseInv' /\ Range(readers) \cap Range(writers) = {}
  BY <1>1 DEF LockInv, TypeInv, PhaseInv, Unowned, Reading, Writing
<1>6. req' \in [Requests -> RequestType] /\ PlaceInv' /\ WriterInv'
  BY <1>1, <1>4, <1>5, PlacedIn
<1> DEFINE y == [pc |-> "held", type |-> "read", group |-> rdlock]
<1>7. y.pc = "held" /\ y.group = rdlock /\ req' = [req EXCEPT ![r] = y]
  BY <1>1
<1> HIDE DEF y
<1>8. /\ MembersCounted' /\ count' \in [Groups -> Nat]
      /\ \A h \in Groups : count'[h] >= count[h]
  BY <1>1, <1>4, <1>7, Joins
<1>9. QueriesCounted' /\ queries' \in [Queries -> Nat]
  BY <1>1, <1>7, QueryGains
<1>10. CountsExact'
  <2>1. ASSUME NEW h \in Range(readers) \cup Range(writers) PROVE count'[h] > 0
    <3>1. h \in Groups
      BY <2>1, InQueue DEF LockInv, TypeInv
    <3>2. count[h] > 0 /\ count[h] \in Nat /\ count'[h] \in Nat /\ count'[h] >= count[h]
      BY <1>8, <2>1, <3>1 DEF LockInv, CountsExact, TypeInv
    <3>3. QED
      BY <3>2
  <2>2. QED
    BY <1>1, <1>8, <1>9, <2>1 DEF CountsExact, MembersCounted, QueriesCounted, QueryHolders
<1>11. TypeInv'
  BY <1>1, <1>6, <1>8, <1>9 DEF LockInv, TypeInv, RequestType
<1>12. QED
  BY <1>5, <1>6, <1>10, <1>11 DEF LockInv

LEMMA WakeStep ==
  ASSUME LockInv, NEW r \in Requests, Wake(r)
  PROVE  LockInv'
<1> DEFINE y == [pc |-> "held", type |-> req[r].type, group |-> req[r].group]
<1>1. /\ req[r].pc = "waiting" /\ req[r].group \in owns
      /\ UNCHANGED <<readers, writers, owns, count, rdlock, wrlock>>
      /\ req' = [req EXCEPT ![r] = y] /\ CountQuery(r, 1)
  BY DEF Wake, Bind
<1>2. /\ req \in [Requests -> RequestType] /\ y \in RequestType
      /\ y.pc = "held" /\ y.type = req[r].type /\ y.group = req[r].group
  <2>1. req \in [Requests -> RequestType] /\ req[r] \in RequestType
    BY DEF LockInv, TypeInv, RequestType
  <2>2. QED
    BY <2>1 DEF RequestType
<1> HIDE DEF y
<1>3. /\ req' \in [Requests -> RequestType]
      /\ \A s \in Requests : req'[s] = IF s = r THEN y ELSE req[s]
      /\ \A s \in Requests : /\ req'[s].type = req[s].type /\ req'[s].group = req[s].group
                             /\ req'[s].pc = "idle" <=> req[s].pc = "idle"
  BY <1>1, <1>2
<1>4. QueriesCounted' /\ queries' \in [Queries -> Nat]
  BY <1>1, <1>2, QueryGains
<1>5. PlaceInv' /\ WriterInv' /\ PhaseInv'
  BY <1>1, <1>2, <1>3 DEF LockInv, PlaceInv, WriterInv, PhaseInv, Unowned, Reading, Writing
<1>6. \A g \in Groups : Members(g)' = Members(g)
  BY <1>3 DEF Members
<1>7. CountsExact'
  BY <1>1, <1>4, <1>6 DEF LockInv, CountsExact, QueriesCounted, QueryHolders
<1>8. TypeInv'
  BY <1>1, <1>3, <1>4 DEF LockInv, TypeInv, RequestType
<1>9. QED
  BY <1>5, <1>7, <1>8 DEF LockInv

\* A call leaves, and its group if it was the last one in it.
LEMMA LeaveStep ==
  ASSUME LockInv, NEW r \in Requests, req[r].pc # "idle",
         req' = [req EXCEPT ![r] = Idle],
         count' = [count EXCEPT ![req[r].group] = @ - 1],
         Settled(IF count[req[r].group] = 1 THEN {req[r].group} ELSE {}),
         QueriesCounted', queries' \in [Queries -> Nat]
  PROVE  LockInv'
<1> DEFINE g == req[r].group
           gone == IF count[g] = 1 THEN {g} ELSE {}
<1>1. req \in [Requests -> RequestType] /\ req[r].type \in {"read", "write"}
  BY DEF LockInv, TypeInv, RequestType
<1>2. g \in Groups
  BY <1>1, InQueue DEF LockInv, PlaceInv, TypeInv
<1>3. /\ MembersCounted' /\ count' \in [Groups -> Nat]
      /\ \A h \in Groups \ {g} : count'[h] = count[h]
      /\ count[g] # 1 => count'[g] > 0
      /\ count[g] = 1 => Members(g) = {r}
  BY <1>2, Leaves
<1>4. Idle \in RequestType /\ Idle.pc = "idle"
  BY DEF Idle, RequestType, End
<1>5. /\ req' \in [Requests -> RequestType]
      /\ \A s \in Requests : req'[s] = IF s = r THEN Idle ELSE req[s]
  BY <1>1, <1>4
<1>6. \A s \in Requests : req'[s].pc # "idle" => s # r /\ req'[s] = req[s] /\ req[s].group \notin gone
  BY <1>3, <1>4, <1>5 DEF Members
<1>7. /\ IsQueue(readers') /\ IsQueue(writers')
      /\ Range(readers') = Range(readers) \ gone
      /\ Range(writers') = Range(writers) \ gone
      /\ PhaseInv'
      /\ owns \ gone \subseteq owns'
  BY DEF Settled
<1> HIDE DEF gone
<1>8. PlaceInv' /\ WriterInv'
  BY <1>6, <1>7 DEF LockInv, PlaceInv, WriterInv
<1>9. CountsExact'
  <2>1. ASSUME NEW h \in Range(readers') \cup Range(writers') PROVE count'[h] > 0
    <3>1. h \in Range(readers) \cup Range(writers) /\ h \in Groups /\ h \notin gone
      BY <1>7, <2>1, InQueue DEF LockInv, TypeInv
    <3>2. CASE h = g
      BY <1>3, <3>1, <3>2 DEF gone
    <3>3. CASE h # g
      BY <1>3, <3>1, <3>3 DEF LockInv, CountsExact
    <3>4. QED
      BY <3>2, <3>3
  <2>2. QED
    BY <1>3, <2>1 DEF CountsExact, MembersCounted, QueriesCounted, QueryHolders
<1>10. TypeInv'
  BY <1>3, <1>5, <1>7 DEF LockInv, TypeInv, RequestType
<1>11. QED
  BY <1>7, <1>8, <1>9, <1>10 DEF LockInv

LEMMA TimeOutStep ==
  ASSUME LockInv, NEW r \in Requests, TimeOut(r)
  PROVE  LockInv'
<1>1. /\ req[r].pc = "waiting" /\ req' = [req EXCEPT ![r] = Idle] /\ UNCHANGED queries
      /\ count' = [count EXCEPT ![req[r].group] = @ - 1]
  BY DEF TimeOut
<1>2. Idle.pc = "idle"
  BY DEF Idle
<1>3. QueriesCounted' /\ queries' \in [Queries -> Nat]
  BY <1>1, <1>2, QueriesKept
<1>4. QED
  BY <1>1, <1>3, TimeOutPhase, LeaveStep

LEMMA UnlockStep ==
  ASSUME LockInv, NEW r \in Requests, Unlock(r)
  PROVE  LockInv'
<1>1. /\ req[r].pc = "held" /\ req' = [req EXCEPT ![r] = Idle] /\ CountQuery(r, -1)
      /\ count' = [count EXCEPT ![req[r].group] = @ - 1] /\ Consistent(r)
  BY DEF Unlock
<1>2. QueriesCounted' /\ queries' \in [Queries -> Nat]
  BY <1>1, QueryLoses
<1>3. CASE count[req[r].group] = 1
  <2>1. Settled({req[r].group})
    BY <1>1, <1>3, DropPhase DEF Unlock
  <2>2. QED
    BY <1>1, <1>2, <1>3, <2>1, LeaveStep
<1>4. CASE count[req[r].group] # 1
  <2>1. UNCHANGED <<readers, writers, owns, rdlock, wrlock>>
    BY <1>4 DEF Unlock
  <2>2. Settled({})
    BY <2>1 DEF Settled, LockInv, TypeInv, PhaseInv, Unowned, Reading, Writing
  <2>3. QED
    BY <1>1, <1>2, <1>4, <2>2, LeaveStep
<1>5. QED
  BY <1>3, <1>4

LEMMA LockInit ==
  Init => LockInv
<1> SUFFICES ASSUME Init PROVE LockInv
  OBVIOUS
<1>1. TypeInv /\ PhaseInv /\ PlaceInv /\ WriterInv
  BY EmptyQueue DEF Init, TypeInv, PhaseInv, Unowned, PlaceInv, WriterInv, Idle
<1>2. \A g \in Groups : Members(g) = {}
  BY DEF Init, Members, Idle
<1>3. \A q \in Queries : {r \in Holders : QueryOf[r] = q} = {}
  BY DEF Init, Holders, Idle
<1>4. CountsExact
  BY <1>2, <1>3, FS_EmptySet, EmptyQueue DEF Init, CountsExact
<1>5. QED
  BY <1>1, <1>4 DEF LockInv

LEMMA LockStep ==
  LockInv /\ [Next]_vars => LockInv'
<1> SUFFICES ASSUME LockInv, [Next]_vars PROVE LockInv'
  OBVIOUS
<1>1. CASE UNCHANGED vars
  BY <1>1 DEF vars, LockInv, TypeInv, PhaseInv, Unowned, Reading, Writing, PlaceInv, WriterInv,
    CountsExact, Members, Holders
<1>2. QED
  BY <1>1, FastReadStep, EnqueueStep, WakeStep, TimeOutStep, UnlockStep DEF Next

LEMMA LockInvariant ==
  Spec => []LockInv
BY LockInit, LockStep, PTL DEF Spec

-----------------------------------------------------------------------------
(* What the invariant says of the lock.                                    *)

LEMMA HoldersConsistent ==
  ASSUME LockInv, NEW r \in Holders
  PROVE  Consistent(r)
<1>1. /\ r \in Requests /\ req[r].group \in owns /\ req[r].type \in {"read", "write"}
      /\ req[r].type = "read" => req[r].group \in Range(readers)
      /\ req[r].type = "write" => req[r].group \in Range(writers)
      /\ Range(readers) \cap Range(writers) = {}
  BY DEF Holders, LockInv, PlaceInv, TypeInv
<1>2. CASE Writing
  BY <1>1, <1>2, Phases DEF Writing, Consistent
<1>3. ASSUME NEW k \in 1..Len(readers), Reading(k)
      PROVE  Consistent(r)
  BY <1>1, <1>3, Phases DEF Reading, Consistent
<1>4. ~Unowned
  BY <1>1 DEF Unowned
<1>5. QED
  BY <1>2, <1>3, <1>4 DEF LockInv, PhaseInv

\* The exclusion of getLock: whoever holds a table in Write mode (a DROP, through
\* lockExclusively) holds it alone.
THEOREM LockExcludes ==
  Spec => []Exclusion
<1>1. ASSUME LockInv, NEW r \in Holders, NEW s \in Holders, r # s
      PROVE  req[r].type = "read"
  <2>1. SUFFICES ASSUME req[r].type # "read" PROVE FALSE
    OBVIOUS
  <2>2. Consistent(r) /\ Consistent(s)
    BY <1>1, HoldersConsistent
  <2>3. req[r].type = "write"
    BY <1>1, <2>1 DEF Holders, LockInv, TypeInv
  <2>4. wrlock = req[r].group /\ rdlock = End
    BY <2>2, <2>3 DEF Consistent
  <2>5. req[s].group = wrlock
    BY <2>2, <2>4 DEF Consistent
  <2>6. QED
    BY <1>1, <2>3, <2>4, <2>5 DEF LockInv, WriterInv, Holders
<1>2. LockInv => Exclusion
  BY <1>1 DEF Exclusion
<1>3. QED
  BY <1>2, LockInvariant, PTL

\* The counters of the groups and owner_queries are exact.
THEOREM LockCountsExact ==
  Spec => []CountsExact
<1>1. LockInv => CountsExact
  BY DEF LockInv
<1>2. QED
  BY <1>1, LockInvariant, PTL

\* No chassert of unlock or grantOwnershipToAllReaders fails.
THEOREM LockAssertionsHold ==
  Spec => []AssertionsHold
<1>1. ASSUME LockInv, NEW g \in Range(readers) \ owns, NEW h \in Range(readers) \ owns
      PROVE  g = h
  <2>1. IsQueue(readers) /\ Len(readers) \in Nat
    BY <1>1, InQueue DEF LockInv, TypeInv
  <2>2. PICK i \in 1..Len(readers), j \in 1..Len(readers) : readers[i] = g /\ readers[j] = h
    BY <1>1, <2>1, InQueue
  <2>3. CASE Unowned \/ Writing
    BY <1>1, <2>1, <2>2, <2>3, EmptyQueue DEF Unowned, Writing
  <2>4. ASSUME NEW k \in 1..Len(readers), Reading(k)
        PROVE  g = h
    BY <1>1, <2>1, <2>2, <2>4 DEF Reading
  <2>5. QED
    BY <1>1, <2>3, <2>4 DEF LockInv, PhaseInv
<1>2. LockInv => AssertionsHold
  BY <1>1, HoldersConsistent DEF AssertionsHold
<1>3. QED
  BY <1>2, LockInvariant, PTL

\* When no writer is left in writers_queue no reader is left waiting.
THEOREM ReadersOnlyWaitForWriters ==
  Spec => []ReadersWaitForWriters
<1>1. ASSUME LockInv, writers = <<>>
      PROVE  Range(readers) \subseteq owns
  <2>1. IsQueue(readers) /\ Len(readers) \in Nat
    BY <1>1, InQueue DEF LockInv, TypeInv
  <2>2. CASE Unowned
    BY <2>2, EmptyQueue DEF Unowned
  <2>3. ASSUME NEW k \in 1..Len(readers), Reading(k)
        PROVE  Range(readers) \subseteq owns
    BY <1>1, <2>1, <2>3, InQueue DEF Reading
  <2>4. QED
    BY <1>1, <2>2, <2>3 DEF LockInv, PhaseInv, Writing
<1>2. LockInv => ReadersWaitForWriters
  BY <1>1 DEF ReadersWaitForWriters
<1>3. QED
  BY <1>2, LockInvariant, PTL

LEMMA PhaseFairStep ==
  ASSUME LockInv, Next
  PROVE  /\ wrlock # End /\ wrlock' \notin {End, wrlock} => readers = <<>>
         /\ rdlock' # rdlock /\ rdlock' # End /\ ~(owns' \subseteq owns)
              => wrlock # End \/ writers' = <<>>
<1>1. PICK r \in Requests :
        \/ FastRead(r)
        \/ \E type \in {"read", "write"}, g \in Groups : Acquire(r, type, g) \/ Wait(r, type, g)
        \/ Wake(r) \/ TimeOut(r) \/ Unlock(r)
  BY DEF Next
<1>2. CASE FastRead(r) \/ Wake(r)
  BY <1>2 DEF FastRead, Wake
<1>3. ASSUME NEW type \in {"read", "write"}, NEW g \in Groups, Wait(r, type, g)
      PROVE  UNCHANGED <<owns, rdlock, wrlock>>
  BY <1>3 DEF Wait
<1>4. ASSUME NEW type \in {"read", "write"}, NEW g \in Groups, Acquire(r, type, g)
      PROVE  \/ UNCHANGED <<owns, rdlock, wrlock>>
             \/ wrlock = End /\ UNCHANGED rdlock
             \/ wrlock = End /\ writers' = <<>>
  <2>1. CASE Free /\ type = "read"
    <3>1. writers = <<>> /\ readers = <<>> /\ wrlock = End
      BY <2>1, Phases DEF Unowned
    <3>2. writers' = writers
      BY <1>4, <2>1 DEF Acquire, Enqueue
    <3>3. QED
      BY <3>1, <3>2
  <2>2. CASE Free /\ type = "write"
    BY <1>4, <2>2 DEF Acquire, Free
  <2>3. CASE ~Free
    BY <1>4, <2>3 DEF Acquire
  <2>4. QED
    BY <2>1, <2>2, <2>3
<1>5. CASE TimeOut(r)
  <2>1. UNCHANGED wrlock /\ (UNCHANGED <<owns, rdlock>> \/ writers' = <<>>)
    BY <1>5 DEF TimeOut
  <2>2. QED
    BY <2>1
<1>6. CASE Unlock(r) /\ count[req[r].group] # 1
  BY <1>6 DEF Unlock
<1>7. CASE Unlock(r) /\ count[req[r].group] = 1
  <2>1. /\ Consistent(r) /\ DropGroup(req[r].type, req[r].group)
        /\ req[r].type \in {"read", "write"}
    BY <1>7 DEF Unlock, LockInv, TypeInv
  <2>2. CASE req[r].type = "read" /\ rdlock # Begin(readers) /\ rdlock # End
    <3>1. DropReaders(req[r].group) /\ wrlock = End
      BY <2>1, <2>2 DEF DropGroup, Consistent
    <3>2. QED
      BY <3>1 DEF DropReaders
  <2>3. CASE req[r].type = "read" /\ rdlock = Begin(readers)
    <3>1. wrlock = End /\ PassOwnership(Erase(readers, req[r].group), writers, FALSE)
      BY <2>1, <2>3 DEF DropGroup, Consistent
    <3>2. rdlock' = End \/ writers' = <<>>
      BY <3>1 DEF PassOwnership
    <3>3. QED
      BY <3>1, <3>2
  <2>4. CASE req[r].type = "write"
    <3>1. wrlock = req[r].group /\ PassOwnership(readers, Erase(writers, req[r].group), TRUE)
      BY <2>1, <2>4 DEF DropGroup, Consistent
    <3>2. wrlock # End
      BY <2>1, <2>4, <3>1, InQueue, <1>7 DEF Unlock, LockInv, PlaceInv, TypeInv, Groups, End
    <3>3. readers # <<>> => wrlock' = End
      BY <3>1 DEF PassOwnership
    <3>4. QED
      BY <3>2, <3>3
  <2>5. QED
    BY <2>1, <2>2, <2>3, <2>4 DEF Consistent
<1>8. QED
  BY <1>1, <1>2, <1>3, <1>4, <1>5, <1>6, <1>7

\* Phase fairness of dropOwnerGroupAndPassOwnership: writers and readers take
\* turns when both wait.
THEOREM LockPhaseFair ==
  Spec => PhaseFair
<1>1. LockInv /\ [Next]_vars =>
        [/\ wrlock # End /\ wrlock' \notin {End, wrlock} => readers = <<>>
         /\ rdlock' # rdlock /\ rdlock' # End /\ ~(owns' \subseteq owns)
              => wrlock # End \/ writers' = <<>>]_vars
  BY PhaseFairStep
<1>2. QED
  BY <1>1, LockInvariant, PTL DEF Spec, PhaseFair

LEMMA OwnReaderStep ==
  ASSUME LockInv, Next, NEW r \in Requests, NEW s \in Requests,
         req[r].pc = "idle", req'[r].pc = "waiting", req[s].pc = "held"
  PROVE  QueryOf[r] = NoQuery \/ QueryOf[s] # QueryOf[r]
<1>1. PICK u \in Requests :
        \/ FastRead(u)
        \/ \E type \in {"read", "write"}, g \in Groups : Acquire(u, type, g) \/ Wait(u, type, g)
        \/ Wake(u) \/ TimeOut(u) \/ Unlock(u)
  BY DEF Next
<1>2. req \in [Requests -> RequestType]
  BY DEF LockInv, TypeInv, RequestType
<1>3. ASSUME NEW y, y.pc # "waiting", req' = [req EXCEPT ![u] = y]
      PROVE  FALSE
  BY <1>2, <1>3
<1>4. \E type \in {"read", "write"}, g \in Groups : Wait(u, type, g)
  <2>1. Idle.pc # "waiting"
    BY DEF Idle
  <2>2. ~TimeOut(u) /\ ~Unlock(u)
    BY <1>3, <2>1 DEF TimeOut, Unlock
  <2>3. ASSUME NEW type, NEW g PROVE ~Bind(u, type, g)
    <3>1. [pc |-> "held", type |-> type, group |-> g].pc # "waiting"
      OBVIOUS
    <3>2. QED
      BY <1>3, <3>1 DEF Bind
  <2>4. QED
    BY <1>1, <2>2, <2>3 DEF FastRead, Acquire, Wake
<1>5. u = r /\ ~FastPath(r)
  BY <1>2, <1>4 DEF Wait, Enqueue
<1>6. SUFFICES ASSUME QueryOf[r] # NoQuery, QueryOf[s] = QueryOf[r] PROVE FALSE
  OBVIOUS
<1>7. QueryOf[r] \in Queries /\ queries[QueryOf[r]] = Cardinality(QueryHolders(QueryOf[r]))
  BY <1>6, LockAssumption DEF LockInv, CountsExact, QueryHolders
<1>8. s \in QueryHolders(QueryOf[r]) /\ QueryHolders(QueryOf[r]) \in SUBSET Requests
  BY <1>6 DEF QueryHolders, Holders
<1>9. Cardinality(QueryHolders(QueryOf[r])) > 0
  BY <1>8, SetShrinks
<1>10. QED
  BY <1>5, <1>6, <1>7, <1>9 DEF FastPath

\* A reader whose query holds the lock never waits (the fast path of getLock).
THEOREM OwnReadersNeverWait ==
  Spec => OwnReaderNeverWaits
<1>1. LockInv /\ [Next]_vars =>
        [\A r, s \in Requests :
           /\ req[r].pc = "idle" /\ req'[r].pc = "waiting"
           /\ req[s].pc = "held"
           => QueryOf[r] = NoQuery \/ QueryOf[s] # QueryOf[r]]_vars
  BY OwnReaderStep
<1>2. QED
  BY <1>1, LockInvariant, PTL DEF Spec, OwnReaderNeverWaits

=============================================================================
