------------------------------- MODULE MCEngine -------------------------------
(***************************************************************************)
(* The two parts of the engine that work with processes, for TLC: the lock *)
(* of a conversation and one run of agy.  They share no state, so each     *)
(* behaviour is about one of them and the other stands still: no request   *)
(* of the lock has been made, or the run could not start (StartFails).     *)
(***************************************************************************)
EXTENDS AgyRun, MCConversationLock

VARIABLE part      \* "lock" or "run"

engineVars == <<part, vars, runVars>>

EngineInit ==
    /\ Init
    /\ \/ part = "run" /\ RunInit
       \/ /\ part = "lock" /\ Unstarted /\ phase = "rejected"
          /\ ~opts.aborted /\ ~opts.detach

OfLock == part = "lock" /\ Next /\ UNCHANGED <<part, runVars>>
OfRun  == part = "run" /\ RunNext /\ UNCHANGED <<part, vars>>

EngineNext == OfLock \/ OfRun

\* The part that stands still has no step that fairness could ask of it.
EngineFairness ==
    /\ \A r \in Request : WF_vars(Acquiring(r)) /\ SF_vars(Poll(r))
    /\ RunFairness

EngineSpec == EngineInit /\ [][EngineNext]_engineVars /\ EngineFairness
=============================================================================
