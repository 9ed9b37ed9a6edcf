-------------------------- MODULE MCParallelEnsemble --------------------------
(* Every call of up to MaxCount trajectories and MaxWorkers workers. *)
EXTENDS ParallelEnsemble
===============================================================================
