----------------------------- MODULE MCPackages -----------------------------
(* Packages for TLC: two whose bindings would have one name, a-b/c and a/b-c, *)
(* of which one or both exist.                                                *)
EXTENDS Packages

MCPackages == { [namespace |-> <<"a", "b">>, name |-> <<"c">>],
                [namespace |-> <<"a">>,      name |-> <<"b", "c">>] }
=============================================================================
