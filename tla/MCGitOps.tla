------------------------------ MODULE MCGitOps ------------------------------
(* Contracts for TLC: two units, one of them, one with another image, and    *)
(* the first in another repository.                                          *)
EXTENDS GitOps

CONSTANTS a, b, i1, i2, r1, r2

Both(i) == [u \in Units |-> i]
OnlyB   == [u \in Units |-> IF u = b THEN i1 ELSE None]

MCWants  == [repo : {r1}, files : {Both(i1), Both(i2), OnlyB}]
MCMoving == [repo : {r1, r2}, files : {Both(i1)}]
=============================================================================
