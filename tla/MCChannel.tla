----------------------------- MODULE MCChannel -----------------------------
(* Model-checking instance of Channel: the workers are symmetric.          *)
EXTENDS Channel, TLC

WorkerSymmetry == Permutations(Workers)
=============================================================================
