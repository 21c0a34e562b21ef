------------------------------ MODULE RowLocks ------------------------------
(***************************************************************************)
(* PostgreSQL's row locks, as the controllers' transactions meet them: a   *)
(* statement locks its rows one at a time and waits for each, a commit or  *)
(* a rollback frees them all, and the server's deadlock detector fails a   *)
(* statement that waits in a circle.                                       *)
(***************************************************************************)
EXTENDS Naturals, FiniteSets

CONSTANT Clients    \* connections, one request and one transaction each

VARIABLES
    held,    \* rows each transaction has locked
    need     \* rows its present statement still has to lock

locks == <<held, need>>

NoLocks == held = [c \in Clients |-> {}] /\ need = [c \in Clients |-> {}]

HeldByOther(c, r) == \E d \in Clients \ {c} : r \in held[d]

\* The statement has locked its rows but the last, and that one is free.
Granted(c) == Cardinality(need[c]) <= 1 /\ \A r \in need[c] : ~HeldByOther(c, r)

\* The statement runs, and the next one asks for its rows; those the transaction
\* already holds come free.
Ask(c, rows) ==
    /\ held' = [held EXCEPT ![c] = @ \union need[c]]
    /\ need' = [need EXCEPT ![c] = rows \ (held[c] \union need[c])]

\* One of several rows; the last is locked as the statement runs.
Acquire(c, r) ==
    /\ r \in need[c]
    /\ Cardinality(need[c]) > 1
    /\ ~HeldByOther(c, r)
    /\ held' = [held EXCEPT ![c] = @ \union {r}]
    /\ need' = [need EXCEPT ![c] = @ \ {r}]

Release(c) ==
    /\ held' = [held EXCEPT ![c] = {}]
    /\ need' = [need EXCEPT ![c] = {}]

\* c's statement cannot take its next row, whichever of them that is.
Blocked(c) == need[c] # {} /\ \A r \in need[c] : HeldByOther(c, r)

\* Everyone in the ring waits for a row someone else in it holds.
Ring(S) == \A c \in S : Blocked(c) /\ \A r \in need[c] : \E d \in S \ {c} : r \in held[d]

Deadlocked(c) == \E S \in SUBSET Clients : c \in S /\ Ring(S)
=============================================================================
