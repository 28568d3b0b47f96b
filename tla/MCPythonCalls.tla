---------------------------- MODULE MCPythonCalls -----------------------------
(* Small instances of PythonCalls for TLC: one connection per thread, or   *)
(* one connection for all of them; one thread that makes every call beside *)
(* threads that run whole queries only.                                    *)
EXTENDS PythonCalls, TLC

CONSTANTS t1, t2, c1, c2

OwnConnections == [t \in Threads |-> IF t = t1 THEN c1 ELSE c2]
OneConnection == [t \in Threads |-> c1]

OneStreams == [t \in Threads |-> IF t = t1 THEN CallKinds ELSE {"query"}]
QueriesOnly == [t \in Threads |-> {"query"}]
=============================================================================
