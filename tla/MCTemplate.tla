----------------------------- MODULE MCTemplate -----------------------------
(***************************************************************************)
(* Model-checking instance of Template: two creates competing for names,  *)
(* an update of the content, an update of the name onto a taken one, an   *)
(* update to an unknown channel, a delete and three renders of the same   *)
(* template, all concurrent.                                               *)
(***************************************************************************)
EXTENDS Template, TLC

A == <<"a">>
B == <<"b">>

(* "{{a}}x{{a}}": one variable, used twice.                                *)
Twice == Ph(A) \o <<"x">> \o Ph(A)

(* "{{a}}{{b}}": two variables.                                            *)
Both == Ph(A) \o Ph(B)

NoVars == [k \in {} |-> <<>>]

(* a = "{{b}}", b = "x": a value holding another placeholder.             *)
NestedVars == (A :> Ph(B)) @@ (B :> <<"x">>)

(* a = "y", b = "x"                                                         *)
PlainVars == (A :> <<"y">>) @@ (B :> <<"x">>)

(* a = "y" only                                                             *)
OnlyA == A :> <<"y">>

Req(k, i, n, ch, c, v) ==
  [kind |-> k, id |-> i, name |-> n, channel |-> ch, content |-> c, vars |-> v]

MCRequests == {"c1", "c2", "u1", "u2", "d1", "u3", "x1", "x2", "x3"}

MCOp ==
  ("c1" :> Req("create", "c1", "t1", "sms", Both, NoVars)) @@
  ("c2" :> Req("create", "c2", "t2", "email", Twice, NoVars)) @@
  ("u1" :> Req("update", "c1", Unset, Unset, Twice, NoVars)) @@
  ("u2" :> Req("update", "c1", "t2", Unset, Unset, NoVars)) @@
  ("d1" :> Req("delete", "c1", Unset, Unset, Unset, NoVars)) @@
  ("u3" :> Req("update", "c2", Unset, "fax", Unset, NoVars)) @@
  ("x1" :> Req("render", "none", "t1", Unset, Unset, NestedVars)) @@
  ("x2" :> Req("render", "none", "t1", Unset, Unset, PlainVars)) @@
  ("x3" :> Req("render", "none", "t1", Unset, Unset, OnlyA))

=============================================================================
