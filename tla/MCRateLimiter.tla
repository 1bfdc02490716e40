--------------------------- MODULE MCRateLimiter ---------------------------
(* Model-checking instance of RateLimiter: the workers are symmetric.      *)
EXTENDS RateLimiter, TLC

WorkerSymmetry == Permutations(Workers)

=============================================================================
