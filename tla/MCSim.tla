------------------------------- MODULE MCSim --------------------------------
(* The parts of the simulator that keep a state of their own behind the    *)
(* instructions: the three models of timing.h, which share nothing but the *)
(* stalls the pipeline takes from its environment, and the floating-point  *)
(* state.  Each is explored while the others rest in their first state;    *)
(* the predictor in two ways, with nested calls and with branches.         *)
EXTENDS Pipeline, Predictor, ICache, Fpu, TLC

MCRanges == {[start |-> 0, end |-> 1], [start |-> 0, end |-> 2],
             [start |-> 0, end |-> 4], [start |-> 3, end |-> 4]}
MCBranchTarget == (4 :> 100) @@ (12 :> 104)

VARIABLE part

SimInit ==
    /\ part \in {"pipeline", "calls", "branches", "icache", "fpu"}
    /\ PipelineInit /\ PredictorInit /\ ICacheInit /\ FpuInit

SimNext ==
    /\ UNCHANGED part
    /\ \/ part = "pipeline" /\ PipelineNext
          /\ UNCHANGED <<predictorVars, icacheVars, fpuVars>>
       \/ /\ \/ part = "calls" /\ BHT' = BHT
             \/ part = "branches" /\ RAS' = RAS
          /\ PredictorNext
          /\ UNCHANGED <<pipelineVars, icacheVars, fpuVars>>
       \/ part = "icache" /\ ICacheNext
          /\ UNCHANGED <<pipelineVars, predictorVars, fpuVars>>
       \/ part = "fpu" /\ FpuNext
          /\ UNCHANGED <<pipelineVars, predictorVars, icacheVars>>

SimSpec == SimInit /\ [][SimNext]_<<part, pipelineVars, predictorVars, icacheVars, fpuVars>>
=============================================================================
