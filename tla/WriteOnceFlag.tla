--------------------------- MODULE WriteOnceFlag ---------------------------
(***************************************************************************)
(* What src/src/once_bool.rs promises to the callers of `OnceBool::get`:   *)
(* a Boolean that is decided at most once, and whose value every caller,   *)
(* early or late, is told.  Nothing is said here of how the value is       *)
(* found, of who finds it or of who has to wait meanwhile.                 *)
(***************************************************************************)

CONSTANT Thread

VARIABLES decided,  \* {} until the value is fixed, then the singleton of it
          answer    \* answer[t]: every value `get` has returned to thread t

vars == <<decided, answer>>

TypeOK == /\ decided \in SUBSET BOOLEAN
          /\ answer \in [Thread -> SUBSET BOOLEAN]

Init == /\ decided = {}
        /\ answer = [t \in Thread |-> {}]

Decide(b) == /\ decided = {}
             /\ decided' = {b}
             /\ UNCHANGED answer

Reply(t) == /\ decided # {}
            /\ answer' = [answer EXCEPT ![t] = @ \union decided]
            /\ UNCHANGED decided

Next == \/ \E b \in BOOLEAN : Decide(b)
        \/ \E t \in Thread : Reply(t)

Spec == Init /\ [][Next]_vars
=============================================================================
