---------------------------- MODULE Diagnostics ----------------------------
(***************************************************************************)
(* What the parsers of the derive macro share (parse.rs): `SynErrors`, to  *)
(* which a diagnostic is added when a mistake is found, while parsing goes *)
(* on, and `AtMostOne`, for what may be given once.  Whatever is parsed is *)
(* named by its position, and 0 is none, or the whole item.                *)
(***************************************************************************)
EXTENDS Naturals

(* The diagnostics with one text at each of the positions.                  *)
At(positions, text) == {[at |-> i, text |-> text] : i \in positions}

(* AtMostOne: the value, and the values that came after it.                 *)
Empty == [one |-> 0, more |-> {}]

(* Mutant: only the latest of the surplus values is remembered.             *)
Push_Latest(a, i) == IF a.one = 0 THEN [a EXCEPT !.one = i] ELSE [a EXCEPT !.more = {i}]

Push(a, i) == IF a.one = 0 THEN [a EXCEPT !.one = i]
                           ELSE [a EXCEPT !.more = @ \union {i}]

(* Surplus values cost the value itself: what follows sees none.            *)
FinishDefault(a) == IF a.more = {} THEN a.one ELSE 0
=============================================================================
