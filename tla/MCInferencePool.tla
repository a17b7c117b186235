-------------------------- MODULE MCInferencePool --------------------------
(***************************************************************************)
(* Instances of InferencePool for TLC.                                      *)
(***************************************************************************)
EXTENDS InferencePool, TLC

(* Jobs are interchangeable: sound for the safety runs. *)
JobSymmetry == Permutations(Jobs)

=============================================================================
