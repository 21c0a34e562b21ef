----------------------------- MODULE JobPromise -----------------------------
(***************************************************************************)
(* What the platform promises a customer about one job, in the order's own *)
(* terms and without the machinery: it waits, it is carried by one driver  *)
(* from collection on, and it ends once: delivered with proof, or          *)
(* cancelled.                                                              *)
(***************************************************************************)
CONSTANTS
    Jobs,      \* the jobs
    Holders    \* whoever a job can be with, nobody included

VARIABLES
    phase,     \* "waiting", "offered", "held", "carried", "delivered", "cancelled"
    holder,    \* who has it
    proven     \* a hand-over was recorded

promise == <<phase, holder, proven>>

Phases  == {"waiting", "offered", "held", "carried", "delivered", "cancelled"}
Waiting == {"waiting", "offered", "held"}

Init ==
    /\ phase = [j \in Jobs |-> "waiting"]
    /\ holder \in [Jobs -> Holders]
    /\ proven = [j \in Jobs |-> FALSE]

\* Dispatch and the drivers settle who takes some of the jobs that wait.
Arrange ==
    /\ phase' \in [Jobs -> Phases]
    /\ holder' \in [Jobs -> Holders]
    /\ \A j \in Jobs : \/ phase'[j] = phase[j] /\ holder'[j] = holder[j]
                       \/ phase[j] \in Waiting /\ phase'[j] \in Waiting
    /\ UNCHANGED proven

\* The holder collects a job that was given to them.
Collect(j) ==
    /\ phase[j] = "held"
    /\ phase' = [phase EXCEPT ![j] = "carried"]
    /\ UNCHANGED <<holder, proven>>

\* The hand-over is proven and ends the job, in one step.
Deliver(j) ==
    /\ phase[j] = "carried"
    /\ phase' = [phase EXCEPT ![j] = "delivered"]
    /\ proven' = [proven EXCEPT ![j] = TRUE]
    /\ UNCHANGED holder

Cancel(j) ==
    /\ phase[j] \in Waiting \union {"carried"}
    /\ phase' = [phase EXCEPT ![j] = "cancelled"]
    /\ UNCHANGED <<holder, proven>>

Next ==
    \/ Arrange
    \/ \E j \in Jobs : Collect(j) \/ Deliver(j) \/ Cancel(j)

Spec == Init /\ [][Next]_promise
=============================================================================
