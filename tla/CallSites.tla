------------------------------ MODULE CallSites ------------------------------
(***************************************************************************)
(* The calls by which the program's statements make errors, from the       *)
(* macros and extension traits (src/src/lib.rs), and the combinators' poll *)
(* (src/src/futures), through the generated selectors (shared.rs) down to  *)
(* the implicit data, a `Location` (src/src/lib.rs): which place in the    *)
(* program an error says it is from, what happens to the error underneath, *)
(* and in what order.                                                      *)
(*                                                                         *)
(* A function is the sequence of what it does: a call, by the name of the  *)
(* function, or a step of its own.  A `Location` is the caller of the      *)
(* outermost function of a chain of `#[track_caller]` ones.                *)
(***************************************************************************)
EXTENDS Naturals, Sequences

CONSTANTS Programs,      \* the programs looked at
          MaxStatements  \* bound: the number of statements of a program

VARIABLES program,  \* the statements
          line,     \* the statement that is executed
          value,    \* what the last statement returned
          held,     \* what is in the hands of the functions called
          data,     \* the implicit data of the error to be made
          stack     \* frames: a function and how far it is

vars == <<program, line, value, held, data, stack>>

Promise == INSTANCE WrappedErrors WITH
  value <- [kind |-> value.kind, calls |-> value.calls,
            layers |-> [i \in DOMAIN value.layers |->
                          [site |-> value.layers[i].site, marks |-> value.layers[i].marks]]]

Fresh == Promise!Fresh
Uses == Fresh \union Promise!Wrapping
Polls == {"poll_context", "poll_with_context", "poll_whatever_context",
          "poll_with_whatever_context"}

(* A statement is in a function of the program, in one that is              *)
(* `#[track_caller]` itself, or, if it polls, in a foreign combinator.      *)
Statement == {s \in [use : Uses, within : {"main", "tracked", "combinator"}] :
                s.within = "combinator" => s.use \in Polls}

ASSUME MaxStatementsAssumption == MaxStatements \in Nat
ASSUME ProgramsAssumption ==
  \A p \in Programs : p \in Seq(Statement) /\ Len(p) \in 1 .. MaxStatements

-----------------------------------------------------------------------------
(* The functions.                                                           *)

(* What the macros are expanded to, in the function they are used in.  An   *)
(* `ensure!` converts its error, to the same type or, here `ensure_into`,   *)
(* by the `From` of an error without context selector.  A plain `fail` or   *)
(* `whatever!` is under a condition of the program's own.                   *)
EnsureMacro == [fail |-> <<"if_none", "fail">>,
                ensure |-> <<"if_none", "fail">>,
                ensure_into |-> <<"if_none", "fail", "map_err">>]

WhateverMacro == [whatever |-> <<"if_none", "format", "without_source">>,
                  whatever_source |-> <<"if_err", "format", "with_source">>]

EnsureWhateverMacro == [ensure_whatever |-> WhateverMacro.whatever]

(* Mutant: the body that the comments warn of (rust-lang/rust#74042).       *)
ResultExt_MapErr ==
  [context |-> <<"if_err", "map_err_into_error">>,
   with_context |-> <<"if_err", "closure", "into_error">>,
   whatever_context |-> <<"if_err", "with_source">>,
   with_whatever_context |-> <<"if_err", "closure", "with_source">>]

(* Mutant: the closure is called before the Result is looked at.            *)
ResultExt_Eager ==
  [context |-> <<"if_err", "into_error">>,
   with_context |-> <<"closure", "if_err", "into_error">>,
   whatever_context |-> <<"if_err", "with_source">>,
   with_whatever_context |-> <<"if_err", "closure", "with_source">>]

ResultExt ==
  [context |-> <<"if_err", "into_error">>,
   with_context |-> <<"if_err", "closure", "into_error">>,
   whatever_context |-> <<"if_err", "with_source">>,
   with_whatever_context |-> <<"if_err", "closure", "with_source">>]

OptionExt ==
  [option_context |-> <<"if_none", "into_error_leaf">>,
   option_with_context |-> <<"if_none", "closure", "into_error_leaf">>,
   option_whatever_context |-> <<"if_none", "without_source">>,
   option_with_whatever_context |-> <<"if_none", "closure", "without_source">>]

(* `poll` of a future and `poll_next` of a stream, once there is an error.  *)
Poll ==
  [poll_context |-> <<"if_err", "into_error">>,
   poll_with_context |-> <<"if_err", "closure", "into_error">>,
   poll_whatever_context |-> <<"if_err", "with_source">>,
   poll_with_whatever_context |-> <<"if_err", "closure", "with_source">>]

(* `generate_leaf`, and `generate_into_error` without a source.             *)
Leaf == [fail |-> <<"build">>,
         build |-> <<"generate", "construct">>,
         into_error_leaf |-> <<"generate", "construct">>]

(* Mutant: the error is transformed after the implicit data is generated.   *)
IntoError_TransformsLate ==
  [into_error |-> <<"generate_with_source", "transform", "construct">>]

(* `generate_into_error` with a source.                                     *)
IntoError == [into_error |-> <<"transform", "generate_with_source", "construct">>]

NoContextSelector == [from |-> <<"transform", "generate_with_source", "construct">>]

(* `generate_whatever`: the source is transformed in the struct literal,    *)
(* the implicit fields of which come first.                                 *)
FromString == [without_source |-> <<"generate", "construct">>,
               with_source |-> <<"generate_with_source", "transform", "construct">>]

(* `GenerateImplicitData`, of `Location`.                                   *)
Implicit == [generate_with_source |-> <<"show", "generate">>,
             generate |-> <<"caller">>]

(* std, with its `?`, and the program's closure.                            *)
Foreign == [question_mark |-> <<"if_err", "from_residual">>,
            map_err |-> <<"into">>,
            map_err_into_error |-> <<"into_error">>,
            into |-> <<"from">>,
            from_residual |-> <<"from">>,
            closure |-> <<"look">>]

(* The functions that are `#[track_caller]`.                                *)
Tracked ==
  DOMAIN ResultExt \union DOMAIN OptionExt \union DOMAIN Poll \union DOMAIN Leaf
    \union DOMAIN IntoError \union DOMAIN NoContextSelector \union DOMAIN FromString
    \union DOMAIN Implicit \union {"into", "from_residual", "tracked"}

Function == Tracked \union DOMAIN Foreign \union {"main", "combinator"}

(* What a statement does in the function it is in.                          *)
Expansion(use) ==
  CASE use \in DOMAIN EnsureMacro -> EnsureMacro[use]
    [] use \in DOMAIN WhateverMacro -> WhateverMacro[use]
    [] use \in DOMAIN EnsureWhateverMacro -> EnsureWhateverMacro[use]
    [] use = "question_mark" -> Foreign[use]
    [] OTHER -> <<use>>

Body(f) ==
  LET statement == program[line]
  IN  CASE f = statement.within -> Expansion(statement.use)
        [] f = "main" /\ statement.within # "main" -> <<statement.within>>
        [] f \in DOMAIN ResultExt -> ResultExt[f]
        [] f \in DOMAIN OptionExt -> OptionExt[f]
        [] f \in DOMAIN Poll -> Poll[f]
        [] f \in DOMAIN Leaf -> Leaf[f]
        [] f \in DOMAIN IntoError -> IntoError[f]
        [] f \in DOMAIN NoContextSelector -> NoContextSelector[f]
        [] f \in DOMAIN FromString -> FromString[f]
        [] f \in DOMAIN Implicit -> Implicit[f]
        [] f \in DOMAIN Foreign -> Foreign[f]

-----------------------------------------------------------------------------
Frame(f) == [fn |-> f, at |-> 1]
Top == stack[Len(stack)]
Executing == line <= Len(program) /\ stack # << >>
AtEnd == Top.at > Len(Body(Top.fn))
Now == Body(Top.fn)[Top.at]

Place == [fn : Function, line : 0 .. MaxStatements]
Nowhere == [fn |-> "main", line |-> 0]

(* Where the nearest function on the stack is that is not tracked: what     *)
(* `Location::caller()` says in a tracked one.                              *)
Caller == LET k == CHOOSE i \in DOMAIN stack :
                     /\ stack[i].fn \notin Tracked
                     /\ \A j \in i + 1 .. Len(stack) : stack[j].fn \in Tracked
          IN  [fn |-> stack[k].fn, line |-> line]

Shown == {<<"nothing">>} \union Seq({"closure", "transform"})
NoData == [loc |-> Nowhere, shown |-> <<"nothing">>]

Marks == Seq({"closure", "transform"})
Layer == [site : Nat, marks : Marks, loc : Place, shown : Shown]
Value == [kind : {"ok", "none", "err"}, calls : Nat, layers : Seq(Layer)]

TypeOK == /\ program \in Programs
          /\ line \in 1 .. MaxStatements + 1
          /\ value \in Value
          /\ held \in Value
          /\ data \in [loc : Place, shown : Shown]
          /\ stack \in Seq([fn : Function, at : Nat])

Given(kind) == [kind |-> kind, calls |-> 0,
                layers |-> IF kind = "err"
                           THEN <<[site |-> 0, marks |-> << >>, loc |-> Nowhere,
                                   shown |-> <<"nothing">>]>>
                           ELSE << >>]

Init == /\ program \in Programs
        /\ line = 1
        /\ \E kind \in {"ok", IF program[1].use \in Fresh THEN "none" ELSE "err"} :
             value = Given(kind)
        /\ held = value
        /\ data = NoData
        /\ stack = <<Frame("main")>>

-----------------------------------------------------------------------------
Advanced(to) == [stack EXCEPT ![Len(stack)].at = to]

Call == /\ Executing /\ ~AtEnd /\ Now \in Function
        /\ stack' = Append(Advanced(Top.at + 1), Frame(Now))
        /\ UNCHANGED <<program, line, value, held, data>>

Return == /\ Executing /\ AtEnd /\ Len(stack) > 1
          /\ stack' = SubSeq(stack, 1, Len(stack) - 1)
          /\ UNCHANGED <<program, line, value, held, data>>

(* The `match`, or the `if` of a macro: there may be nothing to do.         *)
Test == /\ Executing /\ ~AtEnd /\ Now \in {"if_none", "if_err"}
        /\ LET failed == held.kind = IF Now = "if_err" THEN "err" ELSE "none"
           IN  stack' = Advanced(IF failed THEN Top.at + 1 ELSE Len(Body(Top.fn)) + 1)
        /\ UNCHANGED <<program, line, value, held, data>>

Mark(mark) == IF held.layers = << >> THEN held.layers
              ELSE [held.layers EXCEPT ![Len(held.layers)].marks = Append(@, mark)]

(* What the steps do with the error in hand.                                *)
Treat == /\ Executing /\ ~AtEnd /\ Now \in {"format", "look", "transform"}
         /\ held' = [held EXCEPT !.calls = IF Now = "transform" THEN @ ELSE @ + 1,
                                 !.layers = CASE Now = "look" -> Mark("closure")
                                              [] Now = "transform" -> Mark("transform")
                                              [] OTHER -> @]
         /\ stack' = Advanced(Top.at + 1)
         /\ UNCHANGED <<program, line, value, data>>

(* The implicit data sees the error underneath, and where it is called from.*)
Generate == /\ Executing /\ ~AtEnd /\ Now \in {"show", "caller"}
            /\ data' = IF Now = "show"
                       THEN [data EXCEPT !.shown = held.layers[Len(held.layers)].marks]
                       ELSE [data EXCEPT !.loc = Caller]
            /\ stack' = Advanced(Top.at + 1)
            /\ UNCHANGED <<program, line, value, held>>

Construct ==
  /\ Executing /\ ~AtEnd /\ Now = "construct"
  /\ held' = [held EXCEPT !.kind = "err",
                          !.layers = Append(@, [site |-> line, marks |-> << >>,
                                                loc |-> data.loc, shown |-> data.shown])]
  /\ data' = NoData
  /\ stack' = Advanced(Top.at + 1)
  /\ UNCHANGED <<program, line, value>>

(* The next statement is given what this one returned.                      *)
Finish == /\ Executing /\ AtEnd /\ Len(stack) = 1
          /\ value' = held
          /\ line' = line + 1
          /\ stack' = IF line = Len(program) THEN << >> ELSE <<Frame("main")>>
          /\ UNCHANGED <<program, held, data>>

Done == line > Len(program) /\ UNCHANGED vars

Next == Call \/ Return \/ Test \/ Treat \/ Generate \/ Construct \/ Finish \/ Done

Spec == Init /\ [][Next]_vars

-----------------------------------------------------------------------------
(* Whatever a statement is made with, it adds one layer to an error, and    *)
(* only to one; closures and format strings are evaluated once for an error *)
(* and else never; the closure sees the error before it is transformed      *)
(* (lib.rs:449-597, 871-1163): the statements implement WrappedErrors.      *)
PromiseKept == Promise!Spec

(* The place an error names is in the program's function that made it, or,  *)
(* if that is `#[track_caller]`, in its caller, whatever the functions of   *)
(* this crate in between; the two exceptions are documented: conversions    *)
(* are placed where `From` is invoked, inside std for an `ensure!`, and a   *)
(* poll where a foreign combinator makes it (lib.rs:1470-1512, 1566-1582).  *)
OwnPlace ==
  \A i \in DOMAIN value.layers : LET site == value.layers[i].site IN
    site > 0 =>
      LET converted == i > 1 /\ value.layers[i - 1].site = site
      IN  value.layers[i].loc =
            [line |-> site,
             fn |-> CASE converted -> "map_err"
                      [] program[site].within = "combinator" -> "combinator"
                      [] OTHER -> "main"]

(* Implicit data is generated from the error underneath, if there is one,   *)
(* as the closure has left it and, unless the source of a whatever error is *)
(* transformed only while it is stored, as it is stored: what it decides on *)
(* that error holds for the one the user will find (shared.rs:458-486,      *)
(* 505-552, 601-626; lib.rs:1327-1340).                                     *)
DataSeesTheSource ==
  \A i \in DOMAIN value.layers : LET layer == value.layers[i] IN
    layer.site > 0 =>
      IF i = 1 THEN layer.shown = <<"nothing">>
      ELSE LET stored == value.layers[i - 1].marks
               use == program[layer.site].use
           IN  layer.shown =
                 IF use \in {"whatever_context", "with_whatever_context", "whatever_source",
                             "poll_whatever_context", "poll_with_whatever_context"}
                 THEN SubSeq(stored, 1, Len(stored) - 1)
                 ELSE stored
=============================================================================
