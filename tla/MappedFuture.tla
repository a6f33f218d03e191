---------------------------- MODULE MappedFuture ----------------------------
(***************************************************************************)
(* What a future wrapped by the combinators of                             *)
(* src/src/futures/try_future.rs promises to the one who polls it, however *)
(* many layers there are: a success passes unchanged, and at most one      *)
(* error ever comes out, which has been through every layer.  Nothing is   *)
(* said of Pending, of wakers or of how a poll goes through the layers.    *)
(***************************************************************************)
EXTENDS Sequences

VARIABLES whole,     \* the error that every layer has treated, in order
          answers,   \* the final answers polling has had so far
          delivered  \* the errors polling has returned, in order

vars == <<whole, answers, delivered>>

Init == answers = {} /\ delivered = << >>

Succeed == /\ answers' = answers \union {"ok"}
           /\ UNCHANGED <<whole, delivered>>

Fail == /\ delivered = << >>
        /\ delivered' = <<whole>>
        /\ answers' = answers \union {"err"}
        /\ UNCHANGED whole

Unwind == /\ answers' = answers \union {"panic"}
          /\ UNCHANGED <<whole, delivered>>

Next == Succeed \/ Fail \/ Unwind

Spec == Init /\ [][Next]_vars
=============================================================================
