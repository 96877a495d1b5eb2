------------------------------ MODULE ProcessUtils ------------------------------
(***************************************************************************)
(* process_utils_linux.c: engines are children of the process of Scicos.   *)
(* A handler of SIGCHLD is registered with the first launch and           *)
(* unregistered with the next cleaning; it restarts no system call.        *)
(***************************************************************************)
EXTENDS Integers, Sequences

CONSTANT Pids   \* the process numbers, each given once

ASSUME PidsAssumption == Pids \subseteq Nat

VARIABLES
  engine,     \* each process: "unused", "starting", "connecting",
              \* "connected", "dead" (a zombie) or "reaped"
  killed,     \* the processes that SIGTERM was sent to
  abandoned,  \* history: those that a cleaning has left, its wait interrupted
  handler_already_registered

Alive == {p \in Pids : engine[p] \in {"starting", "connecting", "connected"}}

NewPid == CHOOSE p \in Pids : engine[p] = "unused"
                              /\ \A q \in Pids : engine[q] = "unused" => p <= q

register_handler   == handler_already_registered' = TRUE
unregister_handler == handler_already_registered' = FALSE

(* launch_process: the engine's file is tested before the fork.            *)
LaunchRefused == UNCHANGED <<engine, handler_already_registered>>

LaunchFails == unregister_handler /\ UNCHANGED engine

Launch ==
  /\ \E p \in Pids : engine[p] = "unused"
  /\ register_handler
  /\ engine' = [engine EXCEPT ![NewPid] = "starting"]

(* clean_process.  A process that has been reaped cannot be signalled, and *)
(* the function returns as it is.  Any child may be reaped by its wait.    *)
NothingToKill(p) == p \notin Pids
CannotKill(p)    == p \in Pids /\ engine[p] = "reaped"
MustWait_always(p) == p \in Pids                                     \* mutant

MustWait(p)      == p \in Pids /\ engine[p] # "reaped"

Kill(p) == killed' = killed \cup {p}

Reap(p) ==
  /\ engine[p] = "dead"
  /\ engine' = [engine EXCEPT ![p] = "reaped"]

(* SIGCHLD interrupts the wait, as it does the other calls: of an engine   *)
(* that is stopped or goes on (its end, as a rule, is what wait returns).  *)
(* clean_process leaves the child that it has killed.                      *)
WaitInterrupted(p) ==
  /\ handler_already_registered /\ unregister_handler
  /\ abandoned' = abandoned \cup {p}
  /\ UNCHANGED engine
=============================================================================
