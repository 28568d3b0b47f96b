---------------------------- MODULE EmbeddedServer ----------------------------
(***************************************************************************)
(* The process-wide server behind all chdb connections                     *)
(* (programs/local/EmbeddedServer.cpp): global_instance, client_ref_count  *)
(* and instance_mutex, and the connections that share it: chdb_connect and *)
(* chdb_close_conn (chdb.cpp), the constructor and destructor of           *)
(* ChdbClient (ChdbClient.cpp).                                            *)
(*                                                                         *)
(* getInstance and releaseInstance hold instance_mutex from end to end, so *)
(* each is one step.  A ChdbClient is constructed and cleaned up outside   *)
(* that mutex: between the steps of one connection, others come and go.    *)
(***************************************************************************)
EXTENDS Naturals, FiniteSets

CONSTANTS
  Clients,       \* connections; each is opened at most once
  Paths,         \* the values of --path, ":memory:" among them
  NoServer, NoPath

ASSUME ServerAssumption ==
  /\ IsFiniteSet(Clients)
  /\ NoPath \notin Paths
  /\ NoServer \notin [gen : Nat, path : Paths]

VARIABLES
  server,        \* global_instance: NoServer, or its generation and db_path
  starts,        \* how many servers were created so far
  refCount,      \* client_ref_count
  shuttingDown,  \* the flag cleanup() sets for the loggers
  locked,        \* the paths whose status files this process has locked
  client         \* per connection: where it is, its server and its path

vars == <<server, starts, refCount, shuttingDown, locked, client>>

NewClient == [pc |-> "new", gen |-> 0, path |-> NoPath]

Init ==
  /\ server = NoServer
  /\ starts = 0
  /\ refCount = 0
  /\ shuttingDown = FALSE
  /\ locked = {}
  /\ client = [c \in Clients |-> NewClient]

\* Mutant: the status file stays locked.
DestroyedKeepsLock(path) ==
  /\ server' = NoServer
  /\ shuttingDown' = TRUE
  /\ UNCHANGED locked

\* ~EmbeddedServer: cleanup() marks the shutdown, shuts the context down and
\* releases the path.
Destroyed(path) ==
  /\ server' = NoServer
  /\ shuttingDown' = TRUE
  /\ locked' = locked \ {path}

-----------------------------------------------------------------------------
(* chdb_connect: getInstance, then the client.                             *)

\* The server runs on another path: BAD_ARGUMENTS.
ConnectRefused(c, p) ==
  /\ client[c].pc = "new"
  /\ server # NoServer /\ server.path # p
  /\ client' = [client EXCEPT ![c].pc = "failed"]
  /\ UNCHANGED <<server, starts, refCount, shuttingDown, locked>>

ConnectShared(c, p) ==
  /\ client[c].pc = "new"
  /\ server # NoServer /\ server.path = p
  /\ refCount' = refCount + 1
  /\ client' = [client EXCEPT ![c] = [pc |-> "building", gen |-> server.gen, path |-> p]]
  /\ UNCHANGED <<server, starts, shuttingDown, locked>>

\* Mutant: the flag a previous server's cleanup() left is not cleared.
ConnectFirstStillDown(c, p) ==
  /\ client[c].pc = "new"
  /\ server = NoServer
  /\ p \notin locked
  /\ starts' = starts + 1
  /\ server' = [gen |-> starts + 1, path |-> p]
  /\ locked' = locked \cup {p}
  /\ refCount' = 1
  /\ client' = [client EXCEPT ![c] = [pc |-> "building", gen |-> starts + 1, path |-> p]]
  /\ UNCHANGED shuttingDown

\* No server yet: it is created and initialized.
ConnectFirst(c, p) ==
  /\ client[c].pc = "new"
  /\ server = NoServer
  /\ p \notin locked
  /\ starts' = starts + 1
  /\ server' = [gen |-> starts + 1, path |-> p]
  /\ locked' = locked \cup {p}
  /\ shuttingDown' = FALSE
  /\ refCount' = 1
  /\ client' = [client EXCEPT ![c] = [pc |-> "building", gen |-> starts + 1, path |-> p]]

\* Mutant: a server that did not come up is left in global_instance.
ConnectBrokenKept(c, p) ==
  /\ client[c].pc = "new"
  /\ server = NoServer
  /\ starts' = starts + 1
  /\ server' = [gen |-> starts + 1, path |-> p]
  /\ shuttingDown' = FALSE
  /\ client' = [client EXCEPT ![c].pc = "failed"]
  /\ UNCHANGED <<refCount, locked>>

\* Its initialization throws, or main() returns an error: it is destroyed
\* again and the exception goes to the caller.
ConnectBroken(c, p) ==
  /\ client[c].pc = "new"
  /\ server = NoServer
  /\ starts' = starts + 1
  /\ Destroyed(p)
  /\ client' = [client EXCEPT ![c].pc = "failed"]
  /\ UNCHANGED refCount

\* ChdbClient::create succeeds, and the connection is handed out ...
BuildClient(c) ==
  /\ client[c].pc = "building"
  /\ client' = [client EXCEPT ![c].pc = "open"]
  /\ UNCHANGED <<server, starts, refCount, shuttingDown, locked>>

\* ... or throws (authenticate, ...); nothing gives the reference back.
BuildClientThrows(c) ==
  /\ client[c].pc = "building"
  /\ client' = [client EXCEPT ![c].pc = "leaked"]
  /\ UNCHANGED <<server, starts, refCount, shuttingDown, locked>>

-----------------------------------------------------------------------------
(* chdb_close_conn: ~ChdbClient.                                           *)

\* cleanup(), under client_mutex: statements are torn down, the client's
\* contexts and session are dropped.
CloseCleanup(c) ==
  /\ client[c].pc = "open"
  /\ client' = [client EXCEPT ![c].pc = "closing"]
  /\ UNCHANGED <<server, starts, refCount, shuttingDown, locked>>

\* releaseInstance: the last reference destroys the server.
CloseRelease(c) ==
  /\ client[c].pc = "closing"
  /\ client' = [client EXCEPT ![c].pc = "closed"]
  /\ refCount' = IF refCount = 0 THEN 0 ELSE refCount - 1
  /\ IF refCount = 1 THEN Destroyed(server.path)
     ELSE UNCHANGED <<server, shuttingDown, locked>>
  /\ UNCHANGED starts

Quiescent ==
  /\ \A c \in Clients : client[c].pc \in {"closed", "failed", "leaked"}
  /\ UNCHANGED vars

Next ==
  \/ \E c \in Clients :
       \/ \E p \in Paths :
            ConnectRefused(c, p) \/ ConnectShared(c, p) \/ ConnectFirst(c, p) \/ ConnectBroken(c, p)
       \/ BuildClient(c)
       \/ BuildClientThrows(c)
       \/ CloseCleanup(c)
       \/ CloseRelease(c)
  \/ Quiescent

Spec == Init /\ [][Next]_vars

-----------------------------------------------------------------------------
(* Properties.                                                             *)

Holding(c) == client[c].pc \in {"building", "open", "closing", "leaked"}

Using(c) == client[c].pc \in {"building", "open"}

\* client_ref_count is the number of getInstance calls nobody gave back, and
\* the server exists exactly while it is positive.
RefCountExact ==
  /\ refCount = Cardinality({c \in Clients : Holding(c)})
  /\ (server = NoServer) = (refCount = 0)

\* A ChdbClient's server reference is good from construction to cleanup: it is
\* the server it was built on, not a successor, on the path the connection asked
\* for, and not shutting down.
ServerOutlivesClients ==
  \A c \in Clients : Using(c) =>
    /\ server = [gen |-> client[c].gen, path |-> client[c].path]
    /\ ~shuttingDown

\* This process holds the lock of the running server's path and no other, so
\* that the same path can be opened again after the last close.
LocksFollowServer == locked = IF server = NoServer THEN {} ELSE {server.path}

=============================================================================
