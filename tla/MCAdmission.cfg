\* Idempotent single creates beside batches under every interleaving,
\* with Redis enqueue errors.
CONSTANTS
  Singles = {"s1", "s2", "s3"}
  Batches = {"b1", "b2"}
  Keys = {"k1", "k2"}
  NoKey = NoKey
  EnqueueFails = TRUE
  KeyOf <- MCKeyOf
  BatchKeys <- MCBatchKeys
SPECIFICATION Spec
INVARIANT TypeOK
INVARIANT KeyedCreateReturnsOriginal
