---------------------------- MODULE MCAttributes ----------------------------
(* Instances of Attributes for TLC.                                         *)
EXTENDS Attributes

AtMost(n, alphabet) == UNION {[1 .. m -> alphabet] : m \in 0 .. n}

(* The attributes that have a say in the selector.                          *)
MCConflicts == {
  [kind |-> "ContextFlag", value |-> "true"], [kind |-> "ContextFlag", value |-> "false"],
  [kind |-> "ContextName", value |-> "some"], [kind |-> "ContextSuffix", value |-> "some"],
  [kind |-> "Transparent", value |-> "true"], [kind |-> "Transparent", value |-> "false"],
  [kind |-> "Display", value |-> "some"], [kind |-> "Whatever", value |-> "some"]}

(* Up to three attributes of any sort in any place, and up to five of those *)
(* that exclude one another on a variant.                                   *)
MCItems == [location : Location, attrs : AtMost(3, Attribute)]
             \union [location : {"OnVariant"}, attrs : AtMost(5, MCConflicts)]
=============================================================================
