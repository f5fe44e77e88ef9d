------------------------------ MODULE MCWorker ------------------------------
(***************************************************************************)
(* A bounded instance of the parts around the synthesis worker: a request  *)
(* line read by both ends; one external command under process::run; a      *)
(* worker configured by the gate and, when the gate lets it pass, started  *)
(* and used.  The three have no state in common but the gate's outcome.    *)
(***************************************************************************)
EXTENDS CommandSupervision, WorkerGate, WorkerSession

VARIABLE phase

vars == <<phase, treeVars, commandVars, gate, received, sessionVars>>

Init ==
    /\ phase \in {"frame", "command", "worker"}
    /\ CommandInit /\ GateInit
    /\ ProtocolInit /\ SessionInit

FramePhase ==
    /\ phase = "frame" /\ ReceiveRequest
    /\ UNCHANGED <<phase, treeVars, commandVars, gate, sessionVars>>

CommandPhase ==
    /\ phase = "command" /\ (RunStep \/ CommandMoves)
    /\ UNCHANGED <<phase, gate, received, sessionVars>>

GatePhase ==
    /\ phase = "worker" /\ GateStep
    /\ UNCHANGED <<phase, treeVars, commandVars, received, sessionVars>>

SessionPhase ==
    /\ phase = "worker" /\ gate.outcome = "ok" /\ SessionNext
    /\ UNCHANGED <<phase, commandVars, gate, received>>

Next == FramePhase \/ CommandPhase \/ GatePhase \/ SessionPhase

\* The client and its reader thread run until they block.  Nothing is asked of the
\* worker, its descendants or the caller.
Fairness ==
    /\ WF_vars(ClientStep /\ UNCHANGED <<phase, commandVars, gate, received>>)
    /\ WF_vars(ListenerMoves /\ UNCHANGED <<phase, commandVars, gate, received>>)
    /\ WF_vars(RunStep /\ phase = "command" /\ UNCHANGED <<phase, gate, received, sessionVars>>)

Spec == Init /\ [][Next]_vars /\ Fairness
=============================================================================
