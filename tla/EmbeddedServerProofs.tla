------------------------- MODULE EmbeddedServerProofs -------------------------
(***************************************************************************)
(* The life of the server behind the connections, for any finite number of *)
(* connections and any paths: the count is exact, the server outlives its  *)
(* clients, and the lock of its path goes with it.                         *)
(***************************************************************************)
EXTENDS EmbeddedServer, FiniteSetTheorems, TLAPS

ClientPcs == {"new", "failed", "building", "open", "closing", "closed", "leaked"}

Holders == {c \in Clients : Holding(c)}

TypeInv ==
  /\ server \in [gen : Nat, path : Paths] \cup {NoServer}
  /\ starts \in Nat
  /\ refCount \in Nat
  /\ client \in [Clients -> [pc : ClientPcs, gen : Nat, path : Paths \cup {NoPath}]]

\* ServerOutlivesClients, and the same for clients that are being closed or were
\* leaked: what keeps the server is the reference, not the use that is made of it.
HoldersInv ==
  \A c \in Holders :
    /\ server = [gen |-> client[c].gen, path |-> client[c].path]
    /\ ~shuttingDown

ServerInv == TypeInv /\ RefCountExact /\ LocksFollowServer /\ HoldersInv

-----------------------------------------------------------------------------
(* Counting holders.                                                       *)

LEMMA HoldersFinite ==
  IsFiniteSet(Holders) /\ Cardinality(Holders) \in Nat
BY ServerAssumption, FS_Subset, FS_CardinalityType DEF Holders

\* getInstance adds its caller to the holders, releaseInstance takes it away.
LEMMA HolderAdded ==
  ASSUME NEW c \in Clients, ~Holding(c), Holders' = Holders \cup {c}
  PROVE  Cardinality(Holders') = Cardinality(Holders) + 1
BY HoldersFinite, FS_AddElement DEF Holders

LEMMA HolderRemoved ==
  ASSUME NEW c \in Clients, Holding(c), Holders' = Holders \ {c}
  PROVE  /\ Cardinality(Holders) > 0
         /\ Cardinality(Holders') = Cardinality(Holders) - 1
         /\ Cardinality(Holders) = 1 => Holders' = {}
<1>1. c \in Holders /\ Holders # {}
  BY DEF Holders
<1>2. Cardinality(Holders') = Cardinality(Holders) - 1 /\ IsFiniteSet(Holders')
  BY <1>1, HoldersFinite, FS_RemoveElement
<1>3. Cardinality(Holders) # 0
  BY <1>1, HoldersFinite, FS_EmptySet
<1>4. Cardinality(Holders') = 0 => Holders' = {}
  BY <1>2, FS_EmptySet
<1>5. QED
  BY <1>2, <1>3, <1>4, HoldersFinite

LEMMA NobodyHolds ==
  ASSUME ServerInv, server = NoServer
  PROVE  Holders = {} /\ refCount = 0
BY HoldersFinite, FS_EmptySet DEF ServerInv, RefCountExact, Holders

-----------------------------------------------------------------------------
(* A step of client c that changes none of the server's state, nor whether *)
(* c holds a reference.                                                    *)

LEMMA ServerUntouched ==
  ASSUME ServerInv, NEW c \in Clients, NEW to \in ClientPcs,
         client' = [client EXCEPT ![c].pc = to],
         Holding(c)' <=> Holding(c),
         UNCHANGED <<server, starts, refCount, shuttingDown, locked>>
  PROVE  ServerInv'
<1> USE DEF ServerInv
<1>1. TypeInv'
  BY DEF TypeInv
<1>2. /\ \A d \in Clients : Holding(d)' <=> Holding(d)
      /\ \A d \in Clients : client'[d].gen = client[d].gen /\ client'[d].path = client[d].path
  BY DEF TypeInv, Holding
<1>3. Holders' = Holders
  BY <1>2 DEF Holders
<1>4. RefCountExact' /\ LocksFollowServer'
  BY <1>3 DEF RefCountExact, LocksFollowServer, Holders
<1>5. HoldersInv'
  BY <1>2, <1>3 DEF HoldersInv, Holders
<1>6. QED
  BY <1>1, <1>4, <1>5

\* getInstance hands the running server to client c.
LEMMA SharedStep ==
  ASSUME ServerInv, NEW c \in Clients, NEW p \in Paths, ConnectShared(c, p)
  PROVE  ServerInv'
<1> USE DEF ServerInv
<1>1. server \in [gen : Nat, path : Paths] /\ client[c].pc = "new" /\ ~Holding(c)
  BY DEF TypeInv, ConnectShared, Holding
<1>2. TypeInv'
  BY <1>1 DEF TypeInv, ConnectShared, ClientPcs
<1>3. /\ Holding(c)' /\ \A d \in Clients \ {c} : client'[d] = client[d]
      /\ client'[c].gen = server.gen /\ client'[c].path = server.path
  BY DEF TypeInv, ConnectShared, Holding
<1>4. Holders' = Holders \cup {c}
  BY <1>3 DEF Holders, Holding
<1>5. refCount' = Cardinality(Holders') /\ refCount' > 0 /\ server' # NoServer
  BY <1>1, <1>4, HolderAdded, HoldersFinite, ServerAssumption
    DEF RefCountExact, ConnectShared, Holders
<1>6. RefCountExact' /\ LocksFollowServer'
  BY <1>5 DEF RefCountExact, LocksFollowServer, ConnectShared, Holders
<1>7. ~shuttingDown
  <2>1. Cardinality(Holders) # 0
    BY <1>1, ServerAssumption DEF RefCountExact, Holders
  <2>2. Holders # {}
    BY <2>1, FS_EmptySet
  <2>3. QED
    BY <2>2 DEF HoldersInv
<1>8. HoldersInv'
  BY <1>1, <1>3, <1>4, <1>7 DEF HoldersInv, ConnectShared, Holders
<1>9. QED
  BY <1>2, <1>6, <1>8

\* getInstance creates the server for client c.
LEMMA FirstStep ==
  ASSUME ServerInv, NEW c \in Clients, NEW p \in Paths, ConnectFirst(c, p)
  PROVE  ServerInv'
<1> USE DEF ServerInv
<1>1. Holders = {} /\ refCount = 0 /\ locked = {} /\ ~Holding(c)
  BY NobodyHolds DEF ConnectFirst, LocksFollowServer, Holding
<1>2. /\ TypeInv'
      /\ server' = [gen |-> starts + 1, path |-> p] /\ server' # NoServer
      /\ locked' = {server'.path}
  BY <1>1, ServerAssumption DEF TypeInv, ConnectFirst, ClientPcs
<1>3. /\ Holding(c)' /\ \A d \in Clients \ {c} : client'[d] = client[d]
      /\ client'[c].gen = starts + 1 /\ client'[c].path = p
  BY DEF TypeInv, ConnectFirst, Holding
<1>4. Holders' = {c}
  BY <1>1, <1>3 DEF Holders, Holding
<1>5. refCount' = 1 /\ Cardinality(Holders') = 1
  BY <1>4, FS_Singleton DEF ConnectFirst
<1>6. RefCountExact' /\ LocksFollowServer'
  BY <1>2, <1>5 DEF RefCountExact, LocksFollowServer, Holders
<1>7. HoldersInv'
  BY <1>2, <1>3, <1>4 DEF HoldersInv, ConnectFirst
<1>8. QED
  BY <1>2, <1>6, <1>7

\* A server whose initialization fails is gone again, and so is its lock.
LEMMA BrokenStep ==
  ASSUME ServerInv, NEW c \in Clients, NEW p \in Paths, ConnectBroken(c, p)
  PROVE  ServerInv'
<1> USE DEF ServerInv
<1>1. Holders = {} /\ refCount = 0 /\ locked = {}
  BY NobodyHolds DEF ConnectBroken, LocksFollowServer
<1>2. TypeInv'
  BY DEF TypeInv, ConnectBroken, Destroyed, ClientPcs
<1>3. \A d \in Clients : Holding(d)' <=> Holding(d)
  BY DEF TypeInv, ConnectBroken, Holding
<1>4. Holders' = {}
  BY <1>1, <1>3 DEF Holders
<1>5. RefCountExact' /\ LocksFollowServer' /\ HoldersInv'
  BY <1>1, <1>4, FS_EmptySet
    DEF RefCountExact, LocksFollowServer, HoldersInv, ConnectBroken, Destroyed, Holders
<1>6. QED
  BY <1>2, <1>5

\* releaseInstance: the last holder takes the server with it.
LEMMA ReleaseStep ==
  ASSUME ServerInv, NEW c \in Clients, CloseRelease(c)
  PROVE  ServerInv'
<1> USE DEF ServerInv
<1>1. Holding(c) /\ c \in Holders
  BY DEF CloseRelease, Holding, Holders
<1>2. /\ ~Holding(c)'
      /\ \A d \in Clients \ {c} : Holding(d)' <=> Holding(d)
      /\ \A d \in Clients : client'[d].gen = client[d].gen /\ client'[d].path = client[d].path
  BY DEF TypeInv, CloseRelease, Holding
<1>3. Holders' = Holders \ {c}
  BY <1>2 DEF Holders
<1>4. /\ refCount > 0 /\ refCount' = refCount - 1 /\ refCount' = Cardinality(Holders')
      /\ refCount = 1 => Holders' = {}
  BY <1>1, <1>3, HolderRemoved DEF CloseRelease, RefCountExact, TypeInv, Holders
<1>5. server # NoServer
  BY <1>4 DEF RefCountExact
<1>6. TypeInv'
  BY <1>4, <1>5 DEF TypeInv, CloseRelease, Destroyed, ClientPcs
<1>7. CASE refCount = 1
  <2>1. server' = NoServer /\ locked' = {} /\ refCount' = 0 /\ Holders' = {}
    BY <1>4, <1>5, <1>7 DEF CloseRelease, Destroyed, LocksFollowServer
  <2>2. QED
    BY <1>4, <1>6, <2>1 DEF RefCountExact, LocksFollowServer, HoldersInv, Holders
<1>8. CASE refCount # 1
  <2>1. UNCHANGED <<server, shuttingDown, locked>> /\ refCount' # 0
    BY <1>4, <1>8 DEF CloseRelease, TypeInv
  <2>2. QED
    BY <1>2, <1>3, <1>4, <1>5, <1>6, <2>1
      DEF RefCountExact, LocksFollowServer, HoldersInv, Holders
<1>9. QED
  BY <1>7, <1>8

-----------------------------------------------------------------------------
LEMMA ServerInit ==
  Init => ServerInv
<1> SUFFICES ASSUME Init PROVE ServerInv
  OBVIOUS
<1>1. Holders = {}
  BY DEF Init, NewClient, Holders, Holding
<1>2. QED
  BY <1>1, FS_EmptySet DEF Init, NewClient, ServerInv, TypeInv, ClientPcs, RefCountExact,
    LocksFollowServer, HoldersInv, Holders

LEMMA ServerStep ==
  ServerInv /\ [Next]_vars => ServerInv'
<1> SUFFICES ASSUME ServerInv, [Next]_vars PROVE ServerInv'
  OBVIOUS
<1>1. ASSUME NEW c \in Clients, NEW p \in Paths, ConnectRefused(c, p)
      PROVE  ServerInv'
  BY <1>1, ServerUntouched DEF ConnectRefused, Holding, ClientPcs, ServerInv, TypeInv
<1>2. ASSUME NEW c \in Clients,
             BuildClient(c) \/ BuildClientThrows(c) \/ CloseCleanup(c)
      PROVE  ServerInv'
  BY <1>2, ServerUntouched DEF BuildClient, BuildClientThrows, CloseCleanup, Holding,
    ClientPcs, ServerInv, TypeInv
<1>3. CASE UNCHANGED vars
  BY <1>3 DEF vars, ServerInv, TypeInv, RefCountExact, LocksFollowServer, HoldersInv,
    Holders, Holding
<1>4. QED
  BY <1>1, <1>2, <1>3, SharedStep, FirstStep, BrokenStep, ReleaseStep DEF Next, Quiescent

LEMMA ServerInvariant ==
  Spec => []ServerInv
BY ServerInit, ServerStep, PTL DEF Spec

\* client_ref_count is exactly the number of getInstance calls that were not
\* given back, whatever opens, fails and closes in whatever order, and the
\* server exists exactly while it is positive (getInstance, releaseInstance).
THEOREM RefCountAlwaysExact ==
  Spec => []RefCountExact
BY ServerInvariant, PTL DEF ServerInv

\* From construction to cleanup a client's server is the one it was built on, on
\* the path that was asked for, and not shutting down.
THEOREM ServerAlwaysOutlivesClients ==
  Spec => []ServerOutlivesClients
<1>1. ServerInv => ServerOutlivesClients
  BY DEF ServerInv, HoldersInv, Holders, Holding, Using, ServerOutlivesClients
<1>2. QED
  BY <1>1, ServerInvariant, PTL

\* The status file of the running server's path is locked, and no other.
THEOREM LocksAlwaysFollowServer ==
  Spec => []LocksFollowServer
BY ServerInvariant, PTL DEF ServerInv
=============================================================================
