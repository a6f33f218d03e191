---------------------------- MODULE MappedStream ----------------------------
(***************************************************************************)
(* What a stream wrapped by the combinators of                             *)
(* src/src/futures/try_stream.rs promises: whatever the innermost stream   *)
(* gives comes out in the same order and once, as what it was, the errors  *)
(* through every layer; and nothing is lost but what a panic of the        *)
(* program's own code has taken along.  An error ends nothing.             *)
(***************************************************************************)
EXTENDS Naturals, Sequences

VARIABLES layers,    \* the layers an error must go through, in order
          given,     \* what the innermost stream has given, in order
          received,  \* what polling the outermost one has returned
          lost       \* the positions in `given` of what panics took along

vars == <<layers, given, received, lost>>

(* Position, nature and, for an error, the way it took.                     *)
Mapped(n) == [nth |-> n, what |-> given[n],
              through |-> IF given[n] = "err" THEN layers ELSE << >>]

(* The latest thing given has neither come out nor been lost.               *)
InFlight == Len(given) \notin {0} \union lost \union {received[n].nth : n \in DOMAIN received}

Init == given = << >> /\ received = << >> /\ lost = {}

Give == /\ ~InFlight
        /\ \E what \in {"ok", "err", "end"} : given' = Append(given, what)
        /\ UNCHANGED <<layers, received, lost>>

Pass == /\ InFlight
        /\ received' = Append(received, Mapped(Len(given)))
        /\ UNCHANGED <<layers, given, lost>>

Unwind == /\ InFlight
          /\ given[Len(given)] = "err"
          /\ lost' = lost \union {Len(given)}
          /\ UNCHANGED <<layers, given, received>>

Next == Give \/ Pass \/ Unwind

Spec == Init /\ [][Next]_vars
=============================================================================
