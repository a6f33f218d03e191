----------------------------- MODULE MCCallSites -----------------------------
(* Instances of CallSites for TLC.                                          *)
EXTENDS CallSites

(* Every program of two statements, and of three where the two that wrap    *)
(* the first error are in the program's own functions.                      *)
MCPrograms ==
  LET wraps(s) == s.use \notin Fresh
      plain(s) == wraps(s) /\ s.within = "main"
  IN  [1 .. 1 -> Statement]
        \union {p \in [1 .. 2 -> Statement] : wraps(p[2])}
        \union {p \in [1 .. 3 -> Statement] : plain(p[2]) /\ plain(p[3])}
=============================================================================
