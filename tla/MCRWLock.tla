------------------------------ MODULE MCRWLock ------------------------------
EXTENDS RWLock, TLC

CONSTANTS a1, a2, b, n, qa, qb

\* Two threads of one query, another query, and a background thread.
MCRequests == {a1, a2, b, n}

MCQueryOf == (a1 :> qa) @@ (a2 :> qa) @@ (b :> qb) @@ (n :> NoQuery)

=============================================================================
