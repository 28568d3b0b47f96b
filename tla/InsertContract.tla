---------------------------- MODULE InsertContract ----------------------------
(***************************************************************************)
(* What programs/local/chdb.h promises of a streaming INSERT, with no      *)
(* threads, queue, worker or pipeline: a connection has at most one stream *)
(* open; data goes in, and may be stored, until the stream is finalized;   *)
(* done() reports "ok" only for data that is all stored; a cancel, and the *)
(* end of the connection, stop the storing and take nothing back; a stream *)
(* ends once.                                                              *)
(***************************************************************************)
EXTENDS Naturals, Sequences

CONSTANTS Streams, Chunks,
          EndChunks  \* chunks that end their format, and so the data

VARIABLES phase,  \* "new", "refused", "open", or how the stream ended
          given,  \* the chunks append() took, in order
          kept    \* which of them are stored

contractVars == <<phase, given, kept>>

ContractInit ==
  /\ phase = [s \in Streams |-> "new"]
  /\ given = [s \in Streams |-> <<>>]
  /\ kept = [s \in Streams |-> {}]

\* chdb_stream_insert: "The connection accepts no other statement while the
\* stream is open".
Open(s) ==
  /\ phase[s] = "new"
  /\ \A r \in Streams : phase[r] # "open"
  /\ phase' = [phase EXCEPT ![s] = "open"]
  /\ UNCHANGED <<given, kept>>

Refuse(s) ==
  /\ phase[s] = "new"
  /\ phase' = [phase EXCEPT ![s] = "refused"]
  /\ UNCHANGED <<given, kept>>

\* chdb_stream_append.
Give(s, c) ==
  /\ phase[s] = "open"
  /\ given' = [given EXCEPT ![s] = Append(@, c)]
  /\ UNCHANGED <<phase, kept>>

\* Parts are committed while the stream is open.  After a done() that failed,
\* a build without Python keeps the query until the next statement replaces
\* it, and what the pipeline had been given may still be stored.
Store(s) ==
  /\ phase[s] \in {"open", "error"}
  /\ \E more \in SUBSET (1..Len(given[s])) :
       kept' = [kept EXCEPT ![s] = @ \cup more]
  /\ UNCHANGED <<phase, given>>

\* All the data: what was given, up to the first chunk that ends the format.
Whole(s, n) ==
  /\ n \in 0..Len(given[s])
  /\ n = Len(given[s]) \/ (n > 0 /\ given[s][n] \in EndChunks)
  /\ \A i \in 1..n : i < n => given[s][i] \notin EndChunks

\* chdb_stream_done succeeded.
Succeed(s) ==
  /\ phase[s] = "open"
  /\ \E n \in 0..Len(given[s]) : Whole(s, n) /\ kept[s] = 1..n
  /\ phase' = [phase EXCEPT ![s] = "ok"]
  /\ UNCHANGED <<given, kept>>

\* chdb_stream_done failed, or the connection is closed, or
\* chdb_stream_cancel_insert, which "Aborts the insert stream without
\* committing (ClickHouse-default semantics, no rollback)": what is stored by
\* then remains (chdb/state/sqlitelike.py: "already-committed MergeTree parts
\* remain"), and nothing is added to it.
Abort(s, how) ==
  /\ phase[s] = "open"
  /\ phase' = [phase EXCEPT ![s] = how]
  /\ UNCHANGED <<given, kept>>

ContractNext ==
  \E s \in Streams :
    \/ Open(s)
    \/ Refuse(s)
    \/ \E c \in Chunks : Give(s, c)
    \/ Store(s)
    \/ Succeed(s)
    \/ \E how \in {"error", "cancelled", "closed"} : Abort(s, how)

ContractSpec == ContractInit /\ [][ContractNext]_contractVars
=============================================================================
