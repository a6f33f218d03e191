----------------------------- MODULE MCOnceBool -----------------------------
(* Instances of OnceBool for TLC: threads race for the flag while somebody  *)
(* rewrites the environment.                                                *)
EXTENDS OnceBool

CONSTANTS t1, t2, t3, one, zero, unset

MCThread == {t1, t2, t3}
MCText == {one, zero}
=============================================================================
