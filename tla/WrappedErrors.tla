---------------------------- MODULE WrappedErrors ----------------------------
(***************************************************************************)
(* What the ways of making an error out of a Result, an Option or a        *)
(* condition promise (src/src/lib.rs): a statement has an effect only if   *)
(* there is a failure of the sort it is for; it then adds one layer; what  *)
(* is underneath goes into it, looked at by the closure and transformed,   *)
(* in this order and once each; and the closures and format strings of the *)
(* program are evaluated for a failure only.  Nothing is said here of how. *)
(***************************************************************************)
EXTENDS Naturals, Sequences

CONSTANT Programs  \* sequences of statements, each given what the last returned

(* For a failure without an error underneath, and for one with an error.    *)
Fresh == {"fail", "ensure", "ensure_into", "whatever", "ensure_whatever", "option_context",
          "option_with_context", "option_whatever_context", "option_with_whatever_context"}
Wrapping == {"context", "with_context", "whatever_context", "with_whatever_context",
             "whatever_source", "question_mark", "poll_context", "poll_with_context",
             "poll_whatever_context", "poll_with_whatever_context"}

(* The closure gets the error.                                              *)
Looking == {"with_context", "with_whatever_context", "poll_with_context",
            "poll_with_whatever_context"}
(* A closure is called, or a format string evaluated.                       *)
Lazy == Looking \union {"option_with_context", "option_with_whatever_context", "whatever",
                        "ensure_whatever", "whatever_source"}

VARIABLES program,  \* the statements
          line,     \* the statement to execute next
          value     \* what the last one returned

vars == <<program, line, value>>

Layer(site, marks) == [site |-> site, marks |-> marks]

(* Nothing is wrong, or something is, or there is an error.                 *)
Given(kind) == [kind |-> kind, calls |-> 0,
                layers |-> IF kind = "err" THEN <<Layer(0, << >>)>> ELSE << >>]

Marked(layers, use) ==
  LET n == Len(layers)
      marks == (IF use \in Looking THEN <<"closure">> ELSE << >>) \o <<"transform">>
  IN  [layers EXCEPT ![n] = Layer(layers[n].site, layers[n].marks \o marks)]

Failed(v, use, site) ==
  [kind |-> "err",
   calls |-> v.calls + (IF use \in Lazy THEN 1 ELSE 0),
   layers |-> CASE use \in Wrapping -> Append(Marked(v.layers, use), Layer(site, << >>))
                [] use = "ensure_into" -> <<Layer(site, <<"transform">>), Layer(site, << >>)>>
                [] OTHER -> <<Layer(site, << >>)>>]

Concerns(use, v) == \/ v.kind = "none" /\ use \in Fresh
                    \/ v.kind = "err" /\ use \in Wrapping

Init == /\ program \in Programs
        /\ line = 1
        /\ \E kind \in {"ok", IF program[1].use \in Fresh THEN "none" ELSE "err"} :
             value = Given(kind)

Execute == /\ line <= Len(program)
           /\ LET use == program[line].use
              IN  value' = IF Concerns(use, value) THEN Failed(value, use, line) ELSE value
           /\ line' = line + 1
           /\ UNCHANGED program

Spec == Init /\ [][Execute]_vars
=============================================================================
