------------------------------ MODULE MCBackend ------------------------------
(***************************************************************************)
(* Small instances, for TLC, of three components that start work and must  *)
(* see it ended: the bounded workload executor, the bots, and the          *)
(* supervisor of the backend process.  They share no state, so focus says  *)
(* which of them a behaviour is about, and the others keep their initial   *)
(* state.                                                                  *)
(***************************************************************************)
EXTENDS MCBoundedWorkload, BotRuntime, Supervisor

CONSTANTS b1, p1

VARIABLE focus

backendVars == <<vars, brVars, svVars, focus>>

\* One supervisor with time to restart and an operator who may interrupt it, two of them, and one
\* with a stop or two without one where kills may fail
OneOrTwo == {[runs |-> 1, spawns |-> 3, stops |-> 1, restarts |-> 1, time |-> 3, fails |-> FALSE, interrupts |-> TRUE],
             [runs |-> 2, spawns |-> 2, stops |-> 1, restarts |-> 0, time |-> 2, fails |-> FALSE, interrupts |-> FALSE],
             [runs |-> 1, spawns |-> 2, stops |-> 1, restarts |-> 0, time |-> 3, fails |-> TRUE, interrupts |-> FALSE],
             [runs |-> 2, spawns |-> 2, stops |-> 0, restarts |-> 0, time |-> 2, fails |-> TRUE, interrupts |-> FALSE]}

BackendInit ==
    /\ focus \in {"workload", "bots", "supervisor"}
    /\ Init /\ BrInit /\ SvInit
    /\ focus # "bots" => row = [b \in Bots |-> "idle"]
    /\ focus # "supervisor" => scenario = CHOOSE s \in Scenarios : TRUE

\* The executor never comes to a stop; the other components may
BackendRests == focus # "workload" /\ UNCHANGED backendVars

BackendNext ==
    \/ BackendRests
    \/ /\ UNCHANGED focus
       /\ IF focus = "workload" THEN TRUE ELSE UNCHANGED vars
       /\ IF focus = "bots" THEN TRUE ELSE UNCHANGED brVars
       /\ IF focus = "supervisor" THEN TRUE ELSE UNCHANGED svVars
       /\ \/ focus = "workload" /\ Next
          \/ focus = "bots" /\ BrNext
          \/ focus = "supervisor" /\ SvNext

\* The fairness of each component, for the behaviours that are about it
BackendFairness ==
    /\ \A r \in Requests : WF_vars(focus = "workload" /\ Progress(r))
    /\ WF_brVars(focus = "bots" /\ process.up /\ (AutoStep \/ BrStart(Autostart)))
    /\ \A s \in Supervisors : WF_svVars(focus = "supervisor" /\ SupStep(s))
    /\ WF_svVars(focus = "supervisor" /\ SvTick)

BackendSpec == BackendInit /\ [][BackendNext]_backendVars /\ BackendFairness

=============================================================================
