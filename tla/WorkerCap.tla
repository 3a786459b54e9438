------------------------------ MODULE WorkerCap ------------------------------
(***************************************************************************)
(* What BoundedWorkloadExecutor promises of one executor: a hard worker    *)
(* cap.  Work starts one call at a time and only below the cap; any amount *)
(* of it may end together (a process pool that breaks ends all of it).     *)
(***************************************************************************)
EXTENDS Naturals, FiniteSets

CONSTANTS Requests, MaxWorkers

VARIABLE running      \* the calls whose function runs in a worker

Init == running = {}

Start(r) ==
    /\ r \notin running
    /\ Cardinality(running) < MaxWorkers
    /\ running' = running \cup {r}

End == \E S \in SUBSET running : running' = running \ S

Next == End \/ \E r \in Requests : Start(r)

Spec == Init /\ [][Next]_running

=============================================================================
