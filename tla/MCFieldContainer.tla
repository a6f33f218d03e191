-------------------------- MODULE MCFieldContainer --------------------------
(* Instances of FieldContainer for TLC.                                     *)
EXTENDS FieldContainer

Plain(name) == [name |-> name, wellFormed |-> TRUE, backtrace |-> "absent",
                implicit |-> "absent", provide |-> "absent", source |-> "absent",
                from |-> "absent"]

(* The declarations that differ in how they interact with other fields.     *)
MCShape == {
  Plain("source"), Plain("backtrace"), Plain("message"), Plain("other"),
  [Plain("other") EXCEPT !.wellFormed = FALSE],
  [Plain("other") EXCEPT !.source = "on"],
  [Plain("other") EXCEPT !.backtrace = "on"],
  [Plain("other") EXCEPT !.implicit = "on", !.provide = "on"],
  [Plain("other") EXCEPT !.source = "off"],
  [Plain("source") EXCEPT !.source = "off"],
  [Plain("source") EXCEPT !.backtrace = "on"],
  [Plain("source") EXCEPT !.from = "generic"],
  [Plain("source") EXCEPT !.from = "transform", !.provide = "on"],
  [Plain("backtrace") EXCEPT !.backtrace = "off"],
  [Plain("message") EXCEPT !.implicit = "on"]}

(* Up to three of these, and every field by itself.                         *)
MCDeclarations == UNION {[1 .. n -> MCShape] : n \in 0 .. 3} \union [1 .. 1 -> Field]

MCSingle == [1 .. 1 -> Field]
=============================================================================
