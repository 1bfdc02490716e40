---------------------------- MODULE MCAdmission ----------------------------
(* Model-checking instance of Admission.  Two single creates race on key  *)
(* k1 and a third has no key; two batches name k1 and k2 in opposite      *)
(* orders, so they can collide with the singles, with each other's open   *)
(* transaction, and in a cycle of waits.                                   *)
EXTENDS Admission

MCKeyOf == [r \in Singles |-> IF r = "s3" THEN NoKey ELSE "k1"]

MCBatchKeys == [b \in Batches |-> IF b = "b1" THEN <<"k2", "k1">> ELSE <<"k1", "k2">>]

=============================================================================
