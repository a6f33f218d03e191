--------------------------- MODULE CallSitesProofs ---------------------------
(***************************************************************************)
(* The properties of CallSites, for programs of any length.                *)
(*                                                                         *)
(* What a function does to the error in hand and to the implicit data is   *)
(* written down once (Does).  What is then left to do in the functions on  *)
(* the stack, from the top to the bottom, always comes to the same: what   *)
(* the statement does as a whole (Outcome).                                *)
(***************************************************************************)
EXTENDS CallSites, SequenceTheorems, TLAPS

Use == program[line].use
Within == program[line].within

-----------------------------------------------------------------------------
(* What the functions do to the error in hand and the implicit data.        *)

State(h, d) == [held |-> h, data |-> d]
Current == State(held, data)

Err(k, c, l) == [kind |-> k, calls |-> c, layers |-> l]
Data(l, x) == [loc |-> l, shown |-> x]
Here(p) == [fn |-> p, line |-> line]

Noted(l, mark) == IF l = << >> THEN l
                  ELSE [l EXCEPT ![Len(l)].marks = Append(@, mark)]
LastMarks(l) == l[Len(l)].marks
Added(d) == [site |-> line, marks |-> << >>, loc |-> d.loc, shown |-> d.shown]

Treated(s, x) ==
  State(Err(s.held.kind,
            IF x = "transform" THEN s.held.calls ELSE s.held.calls + 1,
            CASE x = "look" -> Noted(s.held.layers, "closure")
              [] x = "transform" -> Noted(s.held.layers, "transform")
              [] OTHER -> s.held.layers),
        s.data)

Shows(s) == State(s.held, Data(s.data.loc, LastMarks(s.held.layers)))
Located(p, s) == State(s.held, Data(Here(p), s.data.shown))
Constructed(s) == State(Err("err", s.held.calls, Append(s.held.layers, Added(s.data))), NoData)

Observed(p, s) == Located(p, Shows(s))
LeafMade(p, s) == Constructed(Located(p, s))
Converted(p, s) == Constructed(Observed(p, Treated(s, "transform")))
Stored(p, s) == Constructed(Treated(Observed(p, s), "transform"))

(* The statements, by what they do.                                         *)
Formatting == {"whatever", "ensure_whatever", "whatever_source"}
Closing == {"with_context", "with_whatever_context", "option_with_context",
            "option_with_whatever_context", "poll_with_context",
            "poll_with_whatever_context"}
Converting == {"context", "with_context", "poll_context", "poll_with_context",
               "question_mark"}
Storing == {"whatever_context", "with_whatever_context", "whatever_source",
            "poll_whatever_context", "poll_with_whatever_context"}

Prepared(s) == IF Use \in Formatting THEN Treated(s, "format")
               ELSE IF Use \in Closing THEN Treated(s, "look")
               ELSE s
Made(p, s) == IF Use \in Converting THEN Converted(p, s)
              ELSE IF Use \in Storing THEN Stored(p, s)
              ELSE IF Use = "ensure_into" THEN Converted("map_err", LeafMade(p, s))
              ELSE LeafMade(p, s)

Concerned(s) == s.held.kind = IF Use \in Fresh THEN "none" ELSE "err"
Executed(p, s) == IF Concerned(s) THEN Made(p, Prepared(s)) ELSE s

(* The functions that there may be on the stack.                            *)
Method == DOMAIN ResultExt \union DOMAIN OptionExt \union DOMAIN Poll
Leaves == {"fail", "build", "into_error_leaf", "without_source"}
Converters == {"into_error", "from", "into", "map_err", "from_residual"}
NeedsSource == Converters \union {"with_source", "generate_with_source"}
Helper == Leaves \union NeedsSource \union {"generate", "closure"}

Fits(f) == \/ f \in Helper
           \/ f \in Method /\ f = Use
           \/ f \in {"main", Within}

(* What a call, or a step, does in a function that is placed at p.          *)
Placed(f, p) == IF f \in Tracked THEN p ELSE f
Spot == IF Within = "combinator" THEN "combinator" ELSE "main"

Tests == {"if_none", "if_err"}
Step == Tests \union {"format", "look", "transform", "show", "caller", "construct"}

Does(x, p, s) ==
  IF x \in Tests THEN s
  ELSE IF x \in {"format", "look", "transform"} THEN Treated(s, x)
  ELSE IF x = "show" THEN Shows(s)
  ELSE IF x \in {"caller", "generate"} THEN Located(p, s)
  ELSE IF x = "construct" THEN Constructed(s)
  ELSE IF x = "closure" THEN Treated(s, "look")
  ELSE IF x = "generate_with_source" THEN Observed(p, s)
  ELSE IF x \in Leaves THEN LeafMade(p, s)
  ELSE IF x \in Converters THEN Converted(Placed(x, p), s)
  ELSE IF x = "with_source" THEN Stored(p, s)
  ELSE IF x = "main" THEN Executed(Spot, s)
  ELSE Executed(Placed(x, p), s)

(* What is left to do, from the n-th call or step of a function on.         *)
Wanted(x, s) == CASE x = "if_none" -> "none"
                  [] x = "if_err" -> "err"
                  [] OTHER -> s.held.kind
Third(body, p, s) == IF Len(body) < 3 THEN s ELSE Does(body[3], p, s)
Second(body, p, s) == IF Len(body) < 2 THEN s ELSE Third(body, p, Does(body[2], p, s))
Rest(f, n, p, s) ==
  IF n = 1 THEN IF s.held.kind # Wanted(Body(f)[1], s) THEN s
                ELSE Second(Body(f), p, Does(Body(f)[1], p, s))
  ELSE IF n = 2 THEN Second(Body(f), p, s)
  ELSE IF n = 3 THEN Third(Body(f), p, s)
  ELSE s

-----------------------------------------------------------------------------
(* The inductive invariant.                                                 *)

Outcome == Executed(Spot, State(value, NoData))

PlacedAt(i, p) == \E k \in 1 .. i : /\ stack[k].fn = p /\ p \notin Tracked
                                    /\ \A j \in k + 1 .. i : stack[j].fn \in Tracked

(* What is left to do on the stack comes to the outcome: after[i + 1] is    *)
(* the state in which the function below goes on when the i-th is done.     *)
Continues ==
  \E after, place :
    /\ after[1] = Outcome
    /\ after[Len(stack) + 1] = Current
    /\ \A i \in 1 .. Len(stack) :
         /\ after[i] = Rest(stack[i].fn, stack[i].at, place[i], after[i + 1])
         /\ PlacedAt(i, place[i])
         /\ stack[i].fn = "fail" => after[i].held.layers # << >>

(* Where the functions on the stack are, and that those that need a source  *)
(* have one.                                                                *)
Path ==
  /\ Len(stack) > 0 /\ stack[1].fn = "main"
  /\ \A i \in 1 .. Len(stack) : /\ Fits(stack[i].fn)
                                /\ stack[i].at \in 1 .. Len(Body(stack[i].fn)) + 1
  /\ \A i \in 2 .. Len(stack) : /\ stack[i - 1].at > 1
                                /\ stack[i].fn = Body(stack[i - 1].fn)[stack[i - 1].at - 1]

Needs(f, n) == \/ f \in NeedsSource
               \/ f \in Method \union {Within} /\ Use \notin Fresh /\ n \in 2 .. Len(Body(f))

Awaits(f, n) == Use = "ensure_into" /\ f = Within /\ n = 3

Sources ==
  /\ \A i \in 1 .. Len(stack) : Needs(stack[i].fn, stack[i].at) => held.layers # << >>
  /\ Awaits(Top.fn, Top.at) => held.layers # << >>

IsError(v) == (v.kind = "err") <=> (v.layers # << >>)

IInv == /\ TypeOK
        /\ line \in 1 .. Len(program) + 1
        /\ IsError(held) /\ IsError(value)
        /\ \A i \in DOMAIN value.layers : value.layers[i].site < line
        /\ line <= Len(program) => Path /\ Sources /\ Continues
        /\ OwnPlace /\ DataSeesTheSource

-----------------------------------------------------------------------------
(* The statements and the functions.                                        *)
LEMMA StatementIs ==
  ASSUME program \in Programs, line \in 1 .. Len(program)
  PROVE  Use \in Uses /\ Within \in {"main", "tracked", "combinator"}
         /\ (Within = "combinator" => Use \in Polls)
<1>1. program \in Seq(Statement)
  BY ProgramsAssumption
<1>2. program[line] \in Statement
  BY <1>1
<1>. QED
  BY <1>2 DEF Statement, Use, Within

LEMMA UsesAre ==
  Uses = {"fail", "ensure", "ensure_into", "whatever", "ensure_whatever", "option_context",
          "option_with_context", "option_whatever_context", "option_with_whatever_context",
          "context", "with_context", "whatever_context", "with_whatever_context",
          "whatever_source", "question_mark", "poll_context", "poll_with_context",
          "poll_whatever_context", "poll_with_whatever_context"}
BY DEF Uses, Fresh, Promise!Fresh, Promise!Wrapping

(* The bodies of the functions that statements are in.                      *)
LEMMA ExpansionIs ==
  /\ Use \in {"fail", "ensure"} => Expansion(Use) = <<"if_none", "fail">>
  /\ Use = "ensure_into" => Expansion(Use) = <<"if_none", "fail", "map_err">>
  /\ Use \in {"whatever", "ensure_whatever"} =>
       Expansion(Use) = <<"if_none", "format", "without_source">>
  /\ Use = "whatever_source" => Expansion(Use) = <<"if_err", "format", "with_source">>
  /\ Use = "question_mark" => Expansion(Use) = <<"if_err", "from_residual">>
  /\ Use \notin {"fail", "ensure", "ensure_into", "whatever", "ensure_whatever",
                 "whatever_source", "question_mark"} => Expansion(Use) = <<Use>>
<1>1. /\ DOMAIN EnsureMacro = {"fail", "ensure", "ensure_into"}
      /\ DOMAIN WhateverMacro = {"whatever", "whatever_source"}
      /\ DOMAIN EnsureWhateverMacro = {"ensure_whatever"}
  BY DEF EnsureMacro, WhateverMacro, EnsureWhateverMacro
<1>2. /\ EnsureMacro["fail"] = <<"if_none", "fail">>
      /\ EnsureMacro["ensure"] = <<"if_none", "fail">>
      /\ EnsureMacro["ensure_into"] = <<"if_none", "fail", "map_err">>
  BY DEF EnsureMacro
<1>3. /\ WhateverMacro["whatever"] = <<"if_none", "format", "without_source">>
      /\ WhateverMacro["whatever_source"] = <<"if_err", "format", "with_source">>
      /\ EnsureWhateverMacro["ensure_whatever"] = <<"if_none", "format", "without_source">>
  BY DEF WhateverMacro, EnsureWhateverMacro
<1>4. Foreign["question_mark"] = <<"if_err", "from_residual">>
  BY DEF Foreign
<1>5. /\ Use \in DOMAIN EnsureMacro => Expansion(Use) = EnsureMacro[Use]
      /\ Use \in DOMAIN WhateverMacro => Expansion(Use) = WhateverMacro[Use]
      /\ Use \in DOMAIN EnsureWhateverMacro => Expansion(Use) = EnsureWhateverMacro[Use]
      /\ Use = "question_mark" => Expansion(Use) = Foreign[Use]
  BY <1>1 DEF Expansion
<1>6. /\ Use \notin DOMAIN EnsureMacro /\ Use \notin DOMAIN WhateverMacro
      /\ Use \notin DOMAIN EnsureWhateverMacro /\ Use # "question_mark"
      => Expansion(Use) = <<Use>>
  BY Zenon DEF Expansion
<1>. QED
  BY <1>1, <1>2, <1>3, <1>4, <1>5, <1>6

(* The functions of each sort.                                              *)
LEMMA Domains ==
  /\ DOMAIN ResultExt = {"context", "with_context", "whatever_context", "with_whatever_context"}
  /\ DOMAIN OptionExt = {"option_context", "option_with_context", "option_whatever_context",
                         "option_with_whatever_context"}
  /\ DOMAIN Poll = {"poll_context", "poll_with_context", "poll_whatever_context",
                    "poll_with_whatever_context"}
  /\ DOMAIN Leaf = {"fail", "build", "into_error_leaf"}
  /\ DOMAIN IntoError = {"into_error"}
  /\ DOMAIN NoContextSelector = {"from"}
  /\ DOMAIN FromString = {"without_source", "with_source"}
  /\ DOMAIN Implicit = {"generate_with_source", "generate"}
  /\ DOMAIN Foreign = {"question_mark", "map_err", "map_err_into_error", "into",
                       "from_residual", "closure"}
BY DEF ResultExt, OptionExt, Poll, Leaf, IntoError, NoContextSelector, FromString, Implicit,
       Foreign

LEMMA BodyIs ==
  ASSUME Within \in {"main", "tracked", "combinator"}, NEW f
  PROVE  /\ f = Within => Body(f) = Expansion(Use)
         /\ f = "main" /\ Within # "main" => Body(f) = <<Within>>
         /\ f \in DOMAIN ResultExt => Body(f) = ResultExt[f]
         /\ f \in DOMAIN OptionExt => Body(f) = OptionExt[f]
         /\ f \in DOMAIN Poll => Body(f) = Poll[f]
         /\ f \in DOMAIN Leaf => Body(f) = Leaf[f]
         /\ f \in DOMAIN IntoError => Body(f) = IntoError[f]
         /\ f \in DOMAIN NoContextSelector => Body(f) = NoContextSelector[f]
         /\ f \in DOMAIN FromString => Body(f) = FromString[f]
         /\ f \in DOMAIN Implicit => Body(f) = Implicit[f]
         /\ f \in DOMAIN Foreign => Body(f) = Foreign[f]
<1>1. Body(f) = CASE f = Within -> Expansion(Use)
                  [] f = "main" /\ Within # "main" -> <<Within>>
                  [] f \in DOMAIN ResultExt -> ResultExt[f]
                  [] f \in DOMAIN OptionExt -> OptionExt[f]
                  [] f \in DOMAIN Poll -> Poll[f]
                  [] f \in DOMAIN Leaf -> Leaf[f]
                  [] f \in DOMAIN IntoError -> IntoError[f]
                  [] f \in DOMAIN NoContextSelector -> NoContextSelector[f]
                  [] f \in DOMAIN FromString -> FromString[f]
                  [] f \in DOMAIN Implicit -> Implicit[f]
                  [] f \in DOMAIN Foreign -> Foreign[f]
  BY DEF Body, Use, Within
<1>. QED
  BY <1>1, Domains

LEMMA BodiesAre ==
  ASSUME Within \in {"main", "tracked", "combinator"}
  PROVE  /\ \A f \in {"context", "poll_context"} : Body(f) = <<"if_err", "into_error">>
         /\ \A f \in {"with_context", "poll_with_context"} :
              Body(f) = <<"if_err", "closure", "into_error">>
         /\ \A f \in {"whatever_context", "poll_whatever_context"} :
              Body(f) = <<"if_err", "with_source">>
         /\ \A f \in {"with_whatever_context", "poll_with_whatever_context"} :
              Body(f) = <<"if_err", "closure", "with_source">>
         /\ Body("option_context") = <<"if_none", "into_error_leaf">>
         /\ Body("option_with_context") = <<"if_none", "closure", "into_error_leaf">>
         /\ Body("option_whatever_context") = <<"if_none", "without_source">>
         /\ Body("option_with_whatever_context") = <<"if_none", "closure", "without_source">>
         /\ Body("fail") = <<"build">>
         /\ \A f \in {"build", "into_error_leaf", "without_source"} :
              Body(f) = <<"generate", "construct">>
         /\ \A f \in {"into_error", "from"} :
              Body(f) = <<"transform", "generate_with_source", "construct">>
         /\ Body("with_source") = <<"generate_with_source", "transform", "construct">>
         /\ Body("generate_with_source") = <<"show", "generate">>
         /\ Body("generate") = <<"caller">>
         /\ Body("map_err") = <<"into">>
         /\ \A f \in {"into", "from_residual"} : Body(f) = <<"from">>
         /\ Body("closure") = <<"look">>
<1>1. /\ \A f \in {"context", "poll_context"} : Body(f) = <<"if_err", "into_error">>
      /\ \A f \in {"with_context", "poll_with_context"} :
           Body(f) = <<"if_err", "closure", "into_error">>
      /\ \A f \in {"whatever_context", "poll_whatever_context"} :
           Body(f) = <<"if_err", "with_source">>
      /\ \A f \in {"with_whatever_context", "poll_with_whatever_context"} :
           Body(f) = <<"if_err", "closure", "with_source">>
  <2>1. /\ ResultExt["context"] = <<"if_err", "into_error">>
        /\ ResultExt["with_context"] = <<"if_err", "closure", "into_error">>
        /\ ResultExt["whatever_context"] = <<"if_err", "with_source">>
        /\ ResultExt["with_whatever_context"] = <<"if_err", "closure", "with_source">>
    BY DEF ResultExt
  <2>2. /\ Poll["poll_context"] = <<"if_err", "into_error">>
        /\ Poll["poll_with_context"] = <<"if_err", "closure", "into_error">>
        /\ Poll["poll_whatever_context"] = <<"if_err", "with_source">>
        /\ Poll["poll_with_whatever_context"] = <<"if_err", "closure", "with_source">>
    BY DEF Poll
  <2>. QED
    BY <2>1, <2>2, BodyIs, Domains, ZenonT(30)
<1>2. /\ Body("option_context") = <<"if_none", "into_error_leaf">>
      /\ Body("option_with_context") = <<"if_none", "closure", "into_error_leaf">>
      /\ Body("option_whatever_context") = <<"if_none", "without_source">>
      /\ Body("option_with_whatever_context") = <<"if_none", "closure", "without_source">>
  <2>1. /\ OptionExt["option_context"] = <<"if_none", "into_error_leaf">>
        /\ OptionExt["option_with_context"] = <<"if_none", "closure", "into_error_leaf">>
        /\ OptionExt["option_whatever_context"] = <<"if_none", "without_source">>
        /\ OptionExt["option_with_whatever_context"] = <<"if_none", "closure", "without_source">>
    BY DEF OptionExt
  <2>. QED
    BY <2>1, BodyIs, Domains
<1>3. /\ Body("fail") = <<"build">>
      /\ \A f \in {"build", "into_error_leaf", "without_source"} :
           Body(f) = <<"generate", "construct">>
      /\ \A f \in {"into_error", "from"} :
           Body(f) = <<"transform", "generate_with_source", "construct">>
      /\ Body("with_source") = <<"generate_with_source", "transform", "construct">>
  <2>1. /\ Leaf["fail"] = <<"build">>
        /\ Leaf["build"] = <<"generate", "construct">>
        /\ Leaf["into_error_leaf"] = <<"generate", "construct">>
        /\ FromString["without_source"] = <<"generate", "construct">>
        /\ FromString["with_source"] = <<"generate_with_source", "transform", "construct">>
        /\ IntoError["into_error"] = <<"transform", "generate_with_source", "construct">>
        /\ NoContextSelector["from"] = <<"transform", "generate_with_source", "construct">>
    BY DEF Leaf, FromString, IntoError, NoContextSelector
  <2>. QED
    BY <2>1, BodyIs, Domains, SMTT(30)
<1>4. /\ Body("generate_with_source") = <<"show", "generate">>
      /\ Body("generate") = <<"caller">>
      /\ Body("map_err") = <<"into">>
      /\ \A f \in {"into", "from_residual"} : Body(f) = <<"from">>
      /\ Body("closure") = <<"look">>
  <2>1. /\ Implicit["generate_with_source"] = <<"show", "generate">>
        /\ Implicit["generate"] = <<"caller">>
        /\ Foreign["map_err"] = <<"into">>
        /\ Foreign["into"] = <<"from">>
        /\ Foreign["from_residual"] = <<"from">>
        /\ Foreign["closure"] = <<"look">>
    BY DEF Implicit, Foreign
  <2>. QED
    BY <2>1, BodyIs, Domains
<1>. QED
  BY <1>1, <1>2, <1>3, <1>4

LEMMA MethodIs ==
  Method = {"context", "with_context", "whatever_context", "with_whatever_context",
            "option_context", "option_with_context", "option_whatever_context",
            "option_with_whatever_context", "poll_context", "poll_with_context",
            "poll_whatever_context", "poll_with_whatever_context"}
BY Domains DEF Method

-----------------------------------------------------------------------------
(* The bodies of the functions in which a statement is, of those that it    *)
(* calls, and of those that these call.                                     *)
OfStatement(f) ==
  \/ f = "main" /\ Within # "main" /\ Body(f) = <<Within>>
  \/ f = Within /\ Use \in {"fail", "ensure"} /\ Body(f) = <<"if_none", "fail">>
  \/ f = Within /\ Use = "ensure_into" /\ Body(f) = <<"if_none", "fail", "map_err">>
  \/ f = Within /\ Use \in {"whatever", "ensure_whatever"}
       /\ Body(f) = <<"if_none", "format", "without_source">>
  \/ f = Within /\ Use = "whatever_source"
       /\ Body(f) = <<"if_err", "format", "with_source">>
  \/ f = Within /\ Use = "question_mark" /\ Body(f) = <<"if_err", "from_residual">>
  \/ f = Within /\ Use \in Method /\ Body(f) = <<Use>>
OfMethod(f) ==
  \/ f = Use /\ Use \in {"context", "poll_context"}
       /\ Body(f) = <<"if_err", "into_error">>
  \/ f = Use /\ Use \in {"with_context", "poll_with_context"}
       /\ Body(f) = <<"if_err", "closure", "into_error">>
  \/ f = Use /\ Use \in {"whatever_context", "poll_whatever_context"}
       /\ Body(f) = <<"if_err", "with_source">>
  \/ f = Use /\ Use \in {"with_whatever_context", "poll_with_whatever_context"}
       /\ Body(f) = <<"if_err", "closure", "with_source">>
  \/ f = Use /\ Use = "option_context" /\ Body(f) = <<"if_none", "into_error_leaf">>
  \/ f = Use /\ Use = "option_with_context"
       /\ Body(f) = <<"if_none", "closure", "into_error_leaf">>
  \/ f = Use /\ Use = "option_whatever_context"
       /\ Body(f) = <<"if_none", "without_source">>
  \/ f = Use /\ Use = "option_with_whatever_context"
       /\ Body(f) = <<"if_none", "closure", "without_source">>
OfHelper(f) ==
  \/ f = "fail" /\ Body(f) = <<"build">>
  \/ f \in {"build", "into_error_leaf", "without_source"}
       /\ Body(f) = <<"generate", "construct">>
  \/ f \in {"into_error", "from"}
       /\ Body(f) = <<"transform", "generate_with_source", "construct">>
  \/ f = "with_source" /\ Body(f) = <<"generate_with_source", "transform", "construct">>
  \/ f = "generate_with_source" /\ Body(f) = <<"show", "generate">>
  \/ f = "generate" /\ Body(f) = <<"caller">>
  \/ f = "map_err" /\ Body(f) = <<"into">>
  \/ f \in {"into", "from_residual"} /\ Body(f) = <<"from">>
  \/ f = "closure" /\ Body(f) = <<"look">>

LEMMA Table ==
  ASSUME program \in Programs, line \in 1 .. Len(program), NEW f, Fits(f)
  PROVE  OfStatement(f) \/ OfMethod(f) \/ OfHelper(f)
<1>1. Use \in Uses /\ Within \in {"main", "tracked", "combinator"}
  BY StatementIs
<1>2. CASE f = Within
  <2>1. Body(f) = Expansion(Use)
    BY <1>1, <1>2, BodyIs
  <2>2. Use \in Method \/ Use \in {"fail", "ensure", "ensure_into", "whatever",
                                   "ensure_whatever", "whatever_source", "question_mark"}
    BY <1>1, UsesAre, MethodIs
  <2>3. CASE Use \in Method
    <3>1. Body(f) = <<Use>>
      BY <2>1, <2>3, ExpansionIs, MethodIs
    <3>. QED
      BY <1>2, <2>3, <3>1 DEF OfStatement
  <2>4. CASE Use \in {"fail", "ensure", "ensure_into", "whatever",
                      "ensure_whatever", "whatever_source", "question_mark"}
    BY <1>2, <2>1, <2>4, ExpansionIs DEF OfStatement
  <2>. QED
    BY <2>2, <2>3, <2>4
<1>3. CASE f = "main" /\ Within # "main"
  BY <1>1, <1>3, BodyIs DEF OfStatement
<1>4. CASE f \in Method /\ f = Use
  BY <1>1, <1>4, BodiesAre, MethodIs DEF OfMethod
<1>5. CASE f \in Helper
  BY <1>1, <1>5, BodiesAre DEF OfHelper, Helper, Leaves, NeedsSource, Converters
<1>. QED
  BY <1>2, <1>3, <1>4, <1>5 DEF Fits


LEMMA Distinct ==
  ASSUME program \in Programs, line \in 1 .. Len(program)
  PROVE  /\ Use \in Uses /\ Within \in {"main", "tracked", "combinator"}
         /\ Use \notin {"main", "tracked", "combinator"}
         /\ Within \notin Method /\ Within \notin Helper /\ "main" \notin Helper
         /\ Use \in Method => Use \notin Helper
         /\ Step \intersect (Helper \union Method \union {"main", "tracked", "combinator"}) = {}
<1>1. Use \in Uses /\ Within \in {"main", "tracked", "combinator"}
  BY StatementIs
<1>. QED
  BY <1>1, UsesAre, MethodIs DEF Helper, Leaves, NeedsSource, Converters, Step, Tests

(* What is called fits, and has a source if it needs one.                   *)
Called(f, n, x) ==
  /\ x \in Step \/ (Fits(x) /\ x # "main")
  /\ x \in Tests => n = 1 /\ f \in Method \union {Within} /\ (x = "if_err" <=> Use \notin Fresh)
  /\ x \in NeedsSource \union {"show"} =>
       \/ f \in NeedsSource
       \/ n > 1 /\ f \in Method \union {Within} /\ Use \notin Fresh
       \/ n = 3 /\ f = Within /\ Use = "ensure_into"
  /\ n = 2 /\ f = Within /\ Use = "ensure_into" => x = "fail"

LEMMA Calls ==
  ASSUME program \in Programs, line \in 1 .. Len(program), NEW f, Fits(f)
  PROVE  Len(Body(f)) \in 1 .. 3 /\ \A n \in 1 .. Len(Body(f)) : Called(f, n, Body(f)[n])
<1>1. /\ Use \in Uses /\ Within \in {"main", "tracked", "combinator"}
      /\ Within \notin Method /\ Within \notin Helper /\ "main" \notin Helper
      /\ Use \in Method => Use \notin Helper
  BY Distinct
<1>. DEFINE Listed ==
      \/ \E a : Body(f) = <<a>> /\ Called(f, 1, a)
      \/ \E a, b : Body(f) = <<a, b>> /\ Called(f, 1, a) /\ Called(f, 2, b)
      \/ \E a, b, c : Body(f) = <<a, b, c>> /\ Called(f, 1, a) /\ Called(f, 2, b)
                                            /\ Called(f, 3, c)
<1>2. ASSUME OfStatement(f) PROVE Listed
  <2>1. CASE f = "main" /\ Within # "main" /\ Body(f) = <<Within>>
    <3>1. Within \in Method \union {Within} /\ Within # "main" /\ Fits(Within)
      BY <2>1 DEF Fits
    <3>2. Within \notin Tests
      BY <1>1, <3>1, MethodIs DEF Tests
    <3>3. Within \notin NeedsSource \union {"show"}
      BY <1>1, <3>1, MethodIs DEF NeedsSource, Converters
    <3>4. 1 # 2
      OBVIOUS
    <3>5. Called(f, 1, Within)
      BY <3>1, <3>2, <3>3, <3>4 DEF Called
    <3>. QED
      BY <2>1, <3>5
  <2>2. CASE f = Within /\ Use \in {"fail", "ensure"} /\ Body(f) = <<"if_none", "fail">>
    <3>1. f = Within /\ Use \in {"fail", "ensure"} /\ Use \in Fresh
      BY <2>2 DEF Fresh, Promise!Fresh
    <3>2. Called(f, 1, "if_none")
      BY <3>1 DEF Called, Fits, Helper, Leaves, NeedsSource, Converters, Step, Tests
    <3>3. Called(f, 2, "fail")
      BY <3>1 DEF Called, Fits, Helper, Leaves, NeedsSource, Converters, Step, Tests
    <3>. QED
      BY <2>2, <3>2, <3>3
  <2>3. CASE /\ f = Within /\ Use = "ensure_into"
             /\ Body(f) = <<"if_none", "fail", "map_err">>
    <3>1. f = Within /\ Use = "ensure_into" /\ Use \in Fresh
      BY <2>3 DEF Fresh, Promise!Fresh
    <3>2. Called(f, 1, "if_none")
      BY <3>1 DEF Called, Fits, Helper, Leaves, NeedsSource, Converters, Step, Tests
    <3>3. Called(f, 2, "fail")
      BY <3>1 DEF Called, Fits, Helper, Leaves, NeedsSource, Converters, Step, Tests
    <3>4. Called(f, 3, "map_err")
      BY <3>1 DEF Called, Fits, Helper, Leaves, NeedsSource, Converters, Step, Tests
    <3>. QED
      BY <2>3, <3>2, <3>3, <3>4
  <2>4. CASE /\ f = Within /\ Use \in {"whatever", "ensure_whatever"}
             /\ Body(f) = <<"if_none", "format", "without_source">>
    <3>1. f = Within /\ Use \in {"whatever", "ensure_whatever"} /\ Use \in Fresh
      BY <2>4 DEF Fresh, Promise!Fresh
    <3>2. Called(f, 1, "if_none")
      BY <3>1 DEF Called, Fits, Helper, Leaves, NeedsSource, Converters, Step, Tests
    <3>3. Called(f, 2, "format")
      BY <3>1 DEF Called, Fits, Helper, Leaves, NeedsSource, Converters, Step, Tests
    <3>4. Called(f, 3, "without_source")
      BY <3>1 DEF Called, Fits, Helper, Leaves, NeedsSource, Converters, Step, Tests
    <3>. QED
      BY <2>4, <3>2, <3>3, <3>4
  <2>5. CASE /\ f = Within /\ Use = "whatever_source"
             /\ Body(f) = <<"if_err", "format", "with_source">>
    <3>1. f = Within /\ Use = "whatever_source" /\ Use \notin Fresh
      BY <2>5 DEF Fresh, Promise!Fresh
    <3>2. Called(f, 1, "if_err")
      BY <3>1 DEF Called, Fits, Helper, Leaves, NeedsSource, Converters, Step, Tests
    <3>3. Called(f, 2, "format")
      BY <3>1 DEF Called, Fits, Helper, Leaves, NeedsSource, Converters, Step, Tests
    <3>4. Called(f, 3, "with_source")
      BY <3>1 DEF Called, Fits, Helper, Leaves, NeedsSource, Converters, Step, Tests
    <3>. QED
      BY <2>5, <3>2, <3>3, <3>4
  <2>6. CASE /\ f = Within /\ Use = "question_mark"
             /\ Body(f) = <<"if_err", "from_residual">>
    <3>1. f = Within /\ Use = "question_mark" /\ Use \notin Fresh
      BY <2>6 DEF Fresh, Promise!Fresh
    <3>2. Called(f, 1, "if_err")
      BY <3>1 DEF Called, Fits, Helper, Leaves, NeedsSource, Converters, Step, Tests
    <3>3. Called(f, 2, "from_residual")
      BY <3>1 DEF Called, Fits, Helper, Leaves, NeedsSource, Converters, Step, Tests
    <3>. QED
      BY <2>6, <3>2, <3>3
  <2>7. CASE f = Within /\ Use \in Method /\ Body(f) = <<Use>>
    <3>1. Use \in Method \union {Within} /\ Use # "main" /\ Fits(Use)
      BY <1>1, <2>7, MethodIs DEF Fits
    <3>2. Use \notin Tests
      BY <1>1, <3>1, MethodIs DEF Tests
    <3>3. Use \notin NeedsSource \union {"show"}
      BY <1>1, <3>1, MethodIs DEF NeedsSource, Converters
    <3>4. 1 # 2
      OBVIOUS
    <3>5. Called(f, 1, Use)
      BY <3>1, <3>2, <3>3, <3>4 DEF Called
    <3>. QED
      BY <2>7, <3>5
  <2>. HIDE DEF Listed
  <2>. QED
    BY <1>2, <2>1, <2>2, <2>3, <2>4, <2>5, <2>6, <2>7 DEF OfStatement
<1>3. ASSUME OfMethod(f) PROVE Listed
  <2>1. CASE /\ f = Use /\ Use \in {"context", "poll_context"}
             /\ Body(f) = <<"if_err", "into_error">>
    <3>1. f \in Method /\ f # Within /\ Use # "ensure_into" /\ Use \notin Fresh
      BY <1>1, <2>1, MethodIs DEF Fresh, Promise!Fresh
    <3>2. Called(f, 1, "if_err") /\ Called(f, 2, "into_error")
      BY <3>1 DEF Called, Fits, Helper, Leaves, NeedsSource, Converters, Step, Tests
    <3>. QED
      BY <2>1, <3>2
  <2>2. CASE /\ f = Use /\ Use \in {"with_context", "poll_with_context"}
             /\ Body(f) = <<"if_err", "closure", "into_error">>
    <3>1. f \in Method /\ f # Within /\ Use # "ensure_into" /\ Use \notin Fresh
      BY <1>1, <2>2, MethodIs DEF Fresh, Promise!Fresh
    <3>2. Called(f, 1, "if_err") /\ Called(f, 2, "closure") /\ Called(f, 3, "into_error")
      BY <3>1 DEF Called, Fits, Helper, Leaves, NeedsSource, Converters, Step, Tests
    <3>. QED
      BY <2>2, <3>2
  <2>3. CASE /\ f = Use /\ Use \in {"whatever_context", "poll_whatever_context"}
             /\ Body(f) = <<"if_err", "with_source">>
    <3>1. f \in Method /\ f # Within /\ Use # "ensure_into" /\ Use \notin Fresh
      BY <1>1, <2>3, MethodIs DEF Fresh, Promise!Fresh
    <3>2. Called(f, 1, "if_err") /\ Called(f, 2, "with_source")
      BY <3>1 DEF Called, Fits, Helper, Leaves, NeedsSource, Converters, Step, Tests
    <3>. QED
      BY <2>3, <3>2
  <2>4. CASE /\ f = Use /\ Use \in {"with_whatever_context", "poll_with_whatever_context"}
             /\ Body(f) = <<"if_err", "closure", "with_source">>
    <3>1. f \in Method /\ f # Within /\ Use # "ensure_into" /\ Use \notin Fresh
      BY <1>1, <2>4, MethodIs DEF Fresh, Promise!Fresh
    <3>2. Called(f, 1, "if_err") /\ Called(f, 2, "closure") /\ Called(f, 3, "with_source")
      BY <3>1 DEF Called, Fits, Helper, Leaves, NeedsSource, Converters, Step, Tests
    <3>. QED
      BY <2>4, <3>2
  <2>5. CASE /\ f = Use /\ Use = "option_context"
             /\ Body(f) = <<"if_none", "into_error_leaf">>
    <3>1. f \in Method /\ f # Within /\ Use # "ensure_into" /\ Use \in Fresh
      BY <1>1, <2>5, MethodIs DEF Fresh, Promise!Fresh
    <3>2. Called(f, 1, "if_none") /\ Called(f, 2, "into_error_leaf")
      BY <3>1 DEF Called, Fits, Helper, Leaves, NeedsSource, Converters, Step, Tests
    <3>. QED
      BY <2>5, <3>2
  <2>6. CASE /\ f = Use /\ Use = "option_with_context"
             /\ Body(f) = <<"if_none", "closure", "into_error_leaf">>
    <3>1. f \in Method /\ f # Within /\ Use # "ensure_into" /\ Use \in Fresh
      BY <1>1, <2>6, MethodIs DEF Fresh, Promise!Fresh
    <3>2. Called(f, 1, "if_none") /\ Called(f, 2, "closure") /\ Called(f, 3, "into_error_leaf")
      BY <3>1 DEF Called, Fits, Helper, Leaves, NeedsSource, Converters, Step, Tests
    <3>. QED
      BY <2>6, <3>2
  <2>7. CASE /\ f = Use /\ Use = "option_whatever_context"
             /\ Body(f) = <<"if_none", "without_source">>
    <3>1. f \in Method /\ f # Within /\ Use # "ensure_into" /\ Use \in Fresh
      BY <1>1, <2>7, MethodIs DEF Fresh, Promise!Fresh
    <3>2. Called(f, 1, "if_none") /\ Called(f, 2, "without_source")
      BY <3>1 DEF Called, Fits, Helper, Leaves, NeedsSource, Converters, Step, Tests
    <3>. QED
      BY <2>7, <3>2
  <2>8. CASE /\ f = Use /\ Use = "option_with_whatever_context"
             /\ Body(f) = <<"if_none", "closure", "without_source">>
    <3>1. f \in Method /\ f # Within /\ Use # "ensure_into" /\ Use \in Fresh
      BY <1>1, <2>8, MethodIs DEF Fresh, Promise!Fresh
    <3>2. Called(f, 1, "if_none") /\ Called(f, 2, "closure") /\ Called(f, 3, "without_source")
      BY <3>1 DEF Called, Fits, Helper, Leaves, NeedsSource, Converters, Step, Tests
    <3>. QED
      BY <2>8, <3>2
  <2>. HIDE DEF Listed
  <2>. QED
    BY <1>3, <2>1, <2>2, <2>3, <2>4, <2>5, <2>6, <2>7, <2>8 DEF OfMethod
<1>4. ASSUME OfHelper(f) PROVE Listed
  <2>1. CASE f = "fail" /\ Body(f) = <<"build">>
    <3>1. f \in Helper /\ f # Within
      BY <1>1, <2>1 DEF Helper, Leaves, NeedsSource, Converters
    <3>2. Called(f, 1, "build")
      BY <2>1, <3>1 DEF Called, Fits, Helper, Leaves, NeedsSource, Converters, Step, Tests
    <3>. QED
      BY <2>1, <3>2
  <2>2. CASE /\ f \in {"build", "into_error_leaf", "without_source"}
             /\ Body(f) = <<"generate", "construct">>
    <3>1. f \in Helper /\ f # Within
      BY <1>1, <2>2 DEF Helper, Leaves, NeedsSource, Converters
    <3>2. Called(f, 1, "generate") /\ Called(f, 2, "construct")
      BY <2>2, <3>1 DEF Called, Fits, Helper, Leaves, NeedsSource, Converters, Step, Tests
    <3>. QED
      BY <2>2, <3>2
  <2>3. CASE /\ f \in {"into_error", "from"}
             /\ Body(f) = <<"transform", "generate_with_source", "construct">>
    <3>1. f \in Helper /\ f # Within
      BY <1>1, <2>3 DEF Helper, Leaves, NeedsSource, Converters
    <3>2. /\ Called(f, 1, "transform")
          /\ Called(f, 2, "generate_with_source")
          /\ Called(f, 3, "construct")
      BY <2>3, <3>1 DEF Called, Fits, Helper, Leaves, NeedsSource, Converters, Step, Tests
    <3>. QED
      BY <2>3, <3>2
  <2>4. CASE /\ f = "with_source"
             /\ Body(f) = <<"generate_with_source", "transform", "construct">>
    <3>1. f \in Helper /\ f # Within
      BY <1>1, <2>4 DEF Helper, Leaves, NeedsSource, Converters
    <3>2. /\ Called(f, 1, "generate_with_source")
          /\ Called(f, 2, "transform")
          /\ Called(f, 3, "construct")
      BY <2>4, <3>1 DEF Called, Fits, Helper, Leaves, NeedsSource, Converters, Step, Tests
    <3>. QED
      BY <2>4, <3>2
  <2>5. CASE f = "generate_with_source" /\ Body(f) = <<"show", "generate">>
    <3>1. f \in Helper /\ f # Within
      BY <1>1, <2>5 DEF Helper, Leaves, NeedsSource, Converters
    <3>2. Called(f, 1, "show") /\ Called(f, 2, "generate")
      BY <2>5, <3>1 DEF Called, Fits, Helper, Leaves, NeedsSource, Converters, Step, Tests
    <3>. QED
      BY <2>5, <3>2
  <2>6. CASE f = "generate" /\ Body(f) = <<"caller">>
    <3>1. f \in Helper /\ f # Within
      BY <1>1, <2>6 DEF Helper, Leaves, NeedsSource, Converters
    <3>2. Called(f, 1, "caller")
      BY <2>6, <3>1 DEF Called, Fits, Helper, Leaves, NeedsSource, Converters, Step, Tests
    <3>. QED
      BY <2>6, <3>2
  <2>7. CASE f = "map_err" /\ Body(f) = <<"into">>
    <3>1. f \in Helper /\ f # Within
      BY <1>1, <2>7 DEF Helper, Leaves, NeedsSource, Converters
    <3>2. Called(f, 1, "into")
      BY <2>7, <3>1 DEF Called, Fits, Helper, Leaves, NeedsSource, Converters, Step, Tests
    <3>. QED
      BY <2>7, <3>2
  <2>8. CASE f \in {"into", "from_residual"} /\ Body(f) = <<"from">>
    <3>1. f \in Helper /\ f # Within
      BY <1>1, <2>8 DEF Helper, Leaves, NeedsSource, Converters
    <3>2. Called(f, 1, "from")
      BY <2>8, <3>1 DEF Called, Fits, Helper, Leaves, NeedsSource, Converters, Step, Tests
    <3>. QED
      BY <2>8, <3>2
  <2>9. CASE f = "closure" /\ Body(f) = <<"look">>
    <3>1. f \in Helper /\ f # Within
      BY <1>1, <2>9 DEF Helper, Leaves, NeedsSource, Converters
    <3>2. Called(f, 1, "look")
      BY <2>9, <3>1 DEF Called, Fits, Helper, Leaves, NeedsSource, Converters, Step, Tests
    <3>. QED
      BY <2>9, <3>2
  <2>. HIDE DEF Listed
  <2>. QED
    BY <1>4, <2>1, <2>2, <2>3, <2>4, <2>5, <2>6, <2>7, <2>8, <2>9 DEF OfHelper
<1>6. ASSUME NEW a, Body(f) = <<a>>, Called(f, 1, a)
      PROVE  Len(Body(f)) = 1 /\ \A n \in 1 .. Len(Body(f)) : Called(f, n, Body(f)[n])
  BY <1>6
<1>7. ASSUME NEW a, NEW b, Body(f) = <<a, b>>, Called(f, 1, a), Called(f, 2, b)
      PROVE  Len(Body(f)) = 2 /\ \A n \in 1 .. Len(Body(f)) : Called(f, n, Body(f)[n])
  BY <1>7
<1>8. ASSUME NEW a, NEW b, NEW c, Body(f) = <<a, b, c>>,
             Called(f, 1, a), Called(f, 2, b), Called(f, 3, c)
      PROVE  Len(Body(f)) = 3 /\ \A n \in 1 .. Len(Body(f)) : Called(f, n, Body(f)[n])
  BY <1>8
<1>9. Listed
  <2>. HIDE DEF Listed
  <2>. QED
    BY <1>2, <1>3, <1>4, Table
<1>. QED
  BY <1>6, <1>7, <1>8, <1>9


(* What is left to do at the beginning of a function, by its body.          *)
LEMMA RestOfOne ==
  ASSUME NEW f, NEW p, NEW s, NEW a, Body(f) = <<a>>, Wanted(a, s) = s.held.kind
  PROVE  Rest(f, 1, p, s) = Does(a, p, s)
<1>1. Len(Body(f)) = 1 /\ Body(f)[1] = a
  OBVIOUS
<1>. QED
  BY <1>1 DEF Rest, Second, Third

LEMMA RestOfTwo ==
  ASSUME NEW f, NEW p, NEW s, Len(Body(f)) = 2
  PROVE  Rest(f, 1, p, s) = IF s.held.kind # Wanted(Body(f)[1], s) THEN s
                            ELSE Does(Body(f)[2], p, Does(Body(f)[1], p, s))
BY DEF Rest, Second, Third

LEMMA RestOfThree ==
  ASSUME NEW f, NEW p, NEW s, Len(Body(f)) = 3
  PROVE  Rest(f, 1, p, s) =
           IF s.held.kind # Wanted(Body(f)[1], s) THEN s
           ELSE Does(Body(f)[3], p, Does(Body(f)[2], p, Does(Body(f)[1], p, s)))
BY DEF Rest, Second, Third

(* A body that is written out.                                              *)
LEMMA SingleIs ==
  ASSUME NEW body, NEW a, body = <<a>>
  PROVE  Len(body) = 1
OBVIOUS

LEMMA PairIs ==
  ASSUME NEW body, NEW a, NEW b, body = <<a, b>>
  PROVE  Len(body) = 2 /\ body[1] = a /\ body[2] = b
OBVIOUS

LEMMA TripleIs ==
  ASSUME NEW body, NEW a, NEW b, NEW c, body = <<a, b, c>>
  PROVE  Len(body) = 3
OBVIOUS

LEMMA FirstIs ==
  ASSUME NEW body, NEW a, NEW b, NEW c, body = <<a, b, c>>
  PROVE  body[1] = a
OBVIOUS

LEMMA SecondIs ==
  ASSUME NEW body, NEW a, NEW b, NEW c, body = <<a, b, c>>
  PROVE  body[2] = b
OBVIOUS

LEMMA ThirdIs ==
  ASSUME NEW body, NEW a, NEW b, NEW c, body = <<a, b, c>>
  PROVE  body[3] = c
OBVIOUS

(* The calls and steps, one by one.                                         *)
LEMMA StepsAre ==
  /\ \A p, s : Does("if_none", p, s) = s
  /\ \A p, s : Does("if_err", p, s) = s
  /\ \A p, s : Does("format", p, s) = Treated(s, "format")
  /\ \A p, s : Does("look", p, s) = Treated(s, "look")
  /\ \A p, s : Does("transform", p, s) = Treated(s, "transform")
  /\ \A p, s : Does("show", p, s) = Shows(s)
  /\ \A p, s : Does("caller", p, s) = Located(p, s)
  /\ \A p, s : Does("generate", p, s) = Located(p, s)
  /\ \A p, s : Does("construct", p, s) = Constructed(s)
  /\ \A p, s : Does("closure", p, s) = Treated(s, "look")
  /\ \A p, s : Does("generate_with_source", p, s) = Observed(p, s)
BY DEF Does, Tests

(* Those that make an error without a source, and a statement as a whole.  *)
LEMMA LeavesAre ==
  /\ \A p, s : Does("fail", p, s) = LeafMade(p, s)
  /\ \A p, s : Does("build", p, s) = LeafMade(p, s)
  /\ \A p, s : Does("into_error_leaf", p, s) = LeafMade(p, s)
  /\ \A p, s : Does("without_source", p, s) = LeafMade(p, s)
  /\ \A p, s : Does("main", p, s) = Executed(Spot, s)
BY DEF Does, Tests, Leaves, Converters

(* Those that wrap the error in hand.                                       *)
LEMMA WrappersAre ==
  /\ \A p, s : Does("into_error", p, s) = Converted(p, s)
  /\ \A p, s : Does("from", p, s) = Converted(p, s)
  /\ \A p, s : Does("into", p, s) = Converted(p, s)
  /\ \A p, s : Does("from_residual", p, s) = Converted(p, s)
  /\ \A p, s : Does("map_err", p, s) = Converted("map_err", s)
  /\ \A p, s : Does("with_source", p, s) = Stored(p, s)
<1>1. /\ "into_error" \in Tracked /\ "from" \in Tracked /\ "into" \in Tracked
      /\ "from_residual" \in Tracked
  BY Domains DEF Tracked
<1>2. "map_err" \notin Tracked
  BY Domains DEF Tracked
<1>3. /\ \A p, s : Does("into_error", p, s) = Converted(Placed("into_error", p), s)
      /\ \A p, s : Does("from", p, s) = Converted(Placed("from", p), s)
      /\ \A p, s : Does("into", p, s) = Converted(Placed("into", p), s)
      /\ \A p, s : Does("from_residual", p, s) = Converted(Placed("from_residual", p), s)
      /\ \A p, s : Does("map_err", p, s) = Converted(Placed("map_err", p), s)
  BY DEF Does, Tests, Leaves, Converters
<1>4. /\ \A x \in Tracked : \A p : Placed(x, p) = p
      /\ \A p : Placed("map_err", p) = "map_err"
  BY <1>2 DEF Placed
<1>5. \A p, s : Does("with_source", p, s) = Stored(p, s)
  BY DEF Does, Tests, Leaves, Converters
<1>. QED
  BY <1>1, <1>3, <1>4, <1>5

(* Those that a statement is in or calls.                                   *)
LEMMA OutersAre ==
  /\ \A p, s : Does("combinator", p, s) = Executed("combinator", s)
  /\ \A p, s : Does("tracked", p, s) = Executed(p, s)
  /\ \A x \in Method : \A p, s : Does(x, p, s) = Executed(p, s)
<1>1. "tracked" \in Tracked /\ \A x \in Method : x \in Tracked
  BY Domains DEF Tracked, Method
<1>2. "combinator" \notin Tracked
  BY Domains DEF Tracked
<1>3. \A x \in Method \union {"tracked", "combinator"} :
        \A p, s : Does(x, p, s) = Executed(Placed(x, p), s)
  <2>. SUFFICES ASSUME NEW x \in Method \union {"tracked", "combinator"}, NEW p, NEW s
                PROVE  Does(x, p, s) = Executed(Placed(x, p), s)
    OBVIOUS
  <2>. QED
    BY MethodIs DEF Does, Tests, Leaves, Converters
<1>4. (\A x \in Tracked : \A p : Placed(x, p) = p) /\ \A p : Placed("combinator", p) = "combinator"
  BY <1>2 DEF Placed
<1>. QED
  BY <1>1, <1>3, <1>4

(* The statements, one by one.                                              *)
LEMMA ExecutedIs ==
  ASSUME NEW p, NEW s, Use \in Uses
  PROVE  /\ Use \in {"fail", "ensure", "option_context", "option_whatever_context"} =>
              Executed(p, s) = IF s.held.kind # Wanted("if_none", s) THEN s ELSE LeafMade(p, s)
         /\ Use \in {"whatever", "ensure_whatever"} =>
              Executed(p, s) = IF s.held.kind # Wanted("if_none", s) THEN s
                               ELSE LeafMade(p, Treated(s, "format"))
         /\ Use \in {"option_with_context", "option_with_whatever_context"} =>
              Executed(p, s) = IF s.held.kind # Wanted("if_none", s) THEN s
                               ELSE LeafMade(p, Treated(s, "look"))
         /\ Use = "ensure_into" =>
              Executed(p, s) = IF s.held.kind # Wanted("if_none", s) THEN s
                               ELSE Converted("map_err", LeafMade(p, s))
         /\ Use \in {"context", "poll_context", "question_mark"} =>
              Executed(p, s) = IF s.held.kind # Wanted("if_err", s) THEN s ELSE Converted(p, s)
         /\ Use \in {"with_context", "poll_with_context"} =>
              Executed(p, s) = IF s.held.kind # Wanted("if_err", s) THEN s
                               ELSE Converted(p, Treated(s, "look"))
         /\ Use \in {"whatever_context", "poll_whatever_context"} =>
              Executed(p, s) = IF s.held.kind # Wanted("if_err", s) THEN s ELSE Stored(p, s)
         /\ Use = "whatever_source" =>
              Executed(p, s) = IF s.held.kind # Wanted("if_err", s) THEN s
                               ELSE Stored(p, Treated(s, "format"))
         /\ Use \in {"with_whatever_context", "poll_with_whatever_context"} =>
              Executed(p, s) = IF s.held.kind # Wanted("if_err", s) THEN s
                               ELSE Stored(p, Treated(s, "look"))
<1>1. Wanted("if_none", s) = "none" /\ Wanted("if_err", s) = "err"
  BY DEF Wanted
<1>. QED
  BY <1>1 DEF Executed, Concerned, Made, Prepared, Converting, Storing, Formatting, Closing,
              Fresh, Promise!Fresh

LEMMA WantedIs ==
  ASSUME NEW s, NEW x, x \notin Tests
  PROVE  Wanted(x, s) = s.held.kind
BY DEF Wanted, Tests

(* What a function does as a whole is what its body does.                   *)
LEMMA Whole ==
  ASSUME program \in Programs, line \in 1 .. Len(program), NEW f, Fits(f), NEW q, NEW s
  PROVE  Rest(f, 1, Placed(f, q), s) = Does(f, q, s)
<1>. SUFFICES ASSUME NEW p, p = Placed(f, q)
              PROVE  Rest(f, 1, p, s) = Does(f, q, s)
  OBVIOUS
<1>. DEFINE Same == Rest(f, 1, p, s) = Does(f, q, s)
<1>1. /\ Use \in Uses /\ Within \in {"main", "tracked", "combinator"}
      /\ Within \notin Tests
      /\ Use \in Method => Use \notin Helper
  BY Distinct DEF Step, Tests
<1>2. /\ f \in Method \union {"tracked"} \union (Helper \ {"map_err", "closure"}) => p = q
      /\ f \in {"main", "combinator", "map_err"} => p = f
      /\ f = "main" => Spot = IF Within = "combinator" THEN "combinator" ELSE "main"
  BY Domains DEF Placed, Tracked, Method, Helper, Leaves, NeedsSource, Converters, Spot
<1>3. f = Within => Does(f, q, s) = Executed(p, s)
  <2>1. CASE f = "main" /\ Within = "main"
    <3>1. p = "main" /\ Spot = "main"
      BY <1>2, <2>1
    <3>2. Does("main", q, s) = Executed(Spot, s)
      BY LeavesAre, Zenon
    <3>. QED
      BY <2>1, <3>1, <3>2
  <2>2. CASE f = "tracked"
    <3>1. p = q
      BY <1>2, <2>2
    <3>2. Does("tracked", q, s) = Executed(q, s)
      BY OutersAre, Zenon
    <3>. QED
      BY <2>2, <3>1, <3>2
  <2>3. CASE f = "combinator"
    <3>1. p = "combinator"
      BY <1>2, <2>3
    <3>2. Does("combinator", q, s) = Executed("combinator", s)
      BY OutersAre, Zenon
    <3>. QED
      BY <2>3, <3>1, <3>2
  <2>. QED
    BY <1>1, <2>1, <2>2, <2>3
<1>4. f \in Method => Does(f, q, s) = Executed(p, s)
  <2>. SUFFICES ASSUME f \in Method PROVE Does(f, q, s) = Executed(p, s)
    OBVIOUS
  <2>1. p = q
    BY <1>2
  <2>2. Does(f, q, s) = Executed(q, s)
    BY OutersAre
  <2>. QED
    BY <2>1, <2>2
<1>5. f = "main" /\ Within # "main" => Does(f, q, s) = Does(Within, p, s)
  <2>. SUFFICES ASSUME f = "main", Within # "main"
                PROVE  Does(f, q, s) = Does(Within, p, s)
    OBVIOUS
  <2>1. p = "main" /\ Does("main", q, s) = Executed(Spot, s)
    BY <1>2, LeavesAre, Zenon
  <2>2. CASE Within = "tracked"
    <3>1. Spot = "main"
      BY <1>2, <2>2
    <3>2. Does("tracked", "main", s) = Executed("main", s)
      BY OutersAre, Zenon
    <3>. QED
      BY <2>1, <2>2, <3>1, <3>2
  <2>3. CASE Within = "combinator"
    <3>1. Spot = "combinator"
      BY <1>2, <2>3
    <3>2. Does("combinator", "main", s) = Executed("combinator", s)
      BY OutersAre, Zenon
    <3>. QED
      BY <2>1, <2>3, <3>1, <3>2
  <2>. QED
    BY <1>1, <2>2, <2>3
<1>6. ASSUME OfStatement(f) PROVE Same
  <2>1. CASE f = "main" /\ Within # "main" /\ Body(f) = <<Within>>
    <3>1. Body(f) = <<Within>>
      BY <2>1, Zenon
    <3>2. Wanted(Within, s) = s.held.kind
      BY <1>1, <2>1, WantedIs DEF Tests
    <3>3. Rest(f, 1, p, s) = Does(Within, p, s)
      BY <3>1, <3>2, RestOfOne
    <3>. QED
      BY <1>5, <2>1, <3>2, <3>3
  <2>2. CASE f = Within /\ Use \in {"fail", "ensure"} /\ Body(f) = <<"if_none", "fail">>
    <3>1. Body(f) = <<"if_none", "fail">>
      BY <2>2, Zenon
    <3>2. Rest(f, 1, p, s) = IF s.held.kind # Wanted("if_none", s) THEN s
                              ELSE Does("fail", p, Does("if_none", p, s))
      <4>1. Len(Body(f)) = 2
        BY <3>1, PairIs, Zenon
      <4>2. Body(f)[1] = "if_none"
        BY <3>1, PairIs, Zenon
      <4>3. Body(f)[2] = "fail"
        BY <3>1, PairIs, Zenon
      <4>4. Rest(f, 1, p, s) = IF s.held.kind # Wanted(Body(f)[1], s) THEN s
                               ELSE Does(Body(f)[2], p, Does(Body(f)[1], p, s))
        BY <4>1, RestOfTwo
      <4>. QED
        BY <4>2, <4>3, <4>4, Zenon
    <3>3. Does("if_none", p, s) = s
      BY StepsAre, Zenon
    <3>4. Does("fail", p, s) = LeafMade(p, s)
      BY LeavesAre, Zenon
    <3>5. Executed(p, s) = IF s.held.kind # Wanted("if_none", s) THEN s ELSE LeafMade(p, s)
      BY <1>1, <2>2, ExecutedIs
    <3>6. Does(f, q, s) = Executed(p, s)
      BY <1>3, <2>2
    <3>. QED
      BY <3>2, <3>3, <3>4, <3>5, <3>6
  <2>3. CASE /\ f = Within /\ Use = "ensure_into"
             /\ Body(f) = <<"if_none", "fail", "map_err">>
    <3>1. Body(f) = <<"if_none", "fail", "map_err">>
      BY <2>3, Zenon
    <3>2. Rest(f, 1, p, s) = IF s.held.kind # Wanted("if_none", s) THEN s
                              ELSE Does("map_err", p, Does("fail", p, Does("if_none", p, s)))
      <4>1. Len(Body(f)) = 3
        BY <3>1, TripleIs, Zenon
      <4>2. Body(f)[1] = "if_none"
        BY <3>1, FirstIs, Zenon
      <4>3. Body(f)[2] = "fail"
        BY <3>1, SecondIs, Zenon
      <4>4. Body(f)[3] = "map_err"
        BY <3>1, ThirdIs, Zenon
      <4>5. Rest(f, 1, p, s) = IF s.held.kind # Wanted(Body(f)[1], s) THEN s
                               ELSE Does(Body(f)[3], p, Does(Body(f)[2], p, Does(Body(f)[1], p, s)))
        BY <4>1, RestOfThree
      <4>. QED
        BY <4>2, <4>3, <4>4, <4>5, Zenon
    <3>3. Does("if_none", p, s) = s
      BY StepsAre, Zenon
    <3>4. Does("fail", p, s) = LeafMade(p, s)
      BY LeavesAre, Zenon
    <3>5. Does("map_err", p, LeafMade(p, s)) = Converted("map_err", LeafMade(p, s))
      BY WrappersAre, ZenonT(30)
    <3>6. Executed(p, s) = IF s.held.kind # Wanted("if_none", s) THEN s
                           ELSE Converted("map_err", LeafMade(p, s))
      BY <1>1, <2>3, ExecutedIs
    <3>7. Does(f, q, s) = Executed(p, s)
      BY <1>3, <2>3
    <3>. QED
      BY <3>2, <3>3, <3>4, <3>5, <3>6, <3>7
  <2>4. CASE /\ f = Within /\ Use \in {"whatever", "ensure_whatever"}
             /\ Body(f) = <<"if_none", "format", "without_source">>
    <3>1. Body(f) = <<"if_none", "format", "without_source">>
      BY <2>4, Zenon
    <3>2. Rest(f, 1, p, s) = IF s.held.kind # Wanted("if_none", s) THEN s
                              ELSE Does("without_source", p, Does("format", p,
                                        Does("if_none", p, s)))
      <4>1. Len(Body(f)) = 3
        BY <3>1, TripleIs, Zenon
      <4>2. Body(f)[1] = "if_none"
        BY <3>1, FirstIs, Zenon
      <4>3. Body(f)[2] = "format"
        BY <3>1, SecondIs, Zenon
      <4>4. Body(f)[3] = "without_source"
        BY <3>1, ThirdIs, Zenon
      <4>5. Rest(f, 1, p, s) = IF s.held.kind # Wanted(Body(f)[1], s) THEN s
                               ELSE Does(Body(f)[3], p, Does(Body(f)[2], p, Does(Body(f)[1], p, s)))
        BY <4>1, RestOfThree
      <4>. QED
        BY <4>2, <4>3, <4>4, <4>5, Zenon
    <3>3. Does("if_none", p, s) = s
      BY StepsAre, Zenon
    <3>4. Does("format", p, s) = Treated(s, "format")
      BY StepsAre, Zenon
    <3>5. Does("without_source", p, Treated(s, "format")) = LeafMade(p, Treated(s, "format"))
      BY LeavesAre, Zenon
    <3>6. Executed(p, s) = IF s.held.kind # Wanted("if_none", s) THEN s
                           ELSE LeafMade(p, Treated(s, "format"))
      BY <1>1, <2>4, ExecutedIs
    <3>7. Does(f, q, s) = Executed(p, s)
      BY <1>3, <2>4
    <3>. QED
      BY <3>2, <3>3, <3>4, <3>5, <3>6, <3>7
  <2>5. CASE /\ f = Within /\ Use = "whatever_source"
             /\ Body(f) = <<"if_err", "format", "with_source">>
    <3>1. Body(f) = <<"if_err", "format", "with_source">>
      BY <2>5, Zenon
    <3>2. Rest(f, 1, p, s) = IF s.held.kind # Wanted("if_err", s) THEN s
                              ELSE Does("with_source", p, Does("format", p, Does("if_err", p, s)))
      <4>1. Len(Body(f)) = 3
        BY <3>1, TripleIs, Zenon
      <4>2. Body(f)[1] = "if_err"
        BY <3>1, FirstIs, Zenon
      <4>3. Body(f)[2] = "format"
        BY <3>1, SecondIs, Zenon
      <4>4. Body(f)[3] = "with_source"
        BY <3>1, ThirdIs, Zenon
      <4>5. Rest(f, 1, p, s) = IF s.held.kind # Wanted(Body(f)[1], s) THEN s
                               ELSE Does(Body(f)[3], p, Does(Body(f)[2], p, Does(Body(f)[1], p, s)))
        BY <4>1, RestOfThree
      <4>. QED
        BY <4>2, <4>3, <4>4, <4>5, Zenon
    <3>3. Does("if_err", p, s) = s
      BY StepsAre, Zenon
    <3>4. Does("format", p, s) = Treated(s, "format")
      BY StepsAre, Zenon
    <3>5. Does("with_source", p, Treated(s, "format")) = Stored(p, Treated(s, "format"))
      BY WrappersAre, Zenon
    <3>6. Executed(p, s) = IF s.held.kind # Wanted("if_err", s) THEN s
                           ELSE Stored(p, Treated(s, "format"))
      BY <1>1, <2>5, ExecutedIs
    <3>7. Does(f, q, s) = Executed(p, s)
      BY <1>3, <2>5
    <3>. QED
      BY <3>2, <3>3, <3>4, <3>5, <3>6, <3>7
  <2>6. CASE /\ f = Within /\ Use = "question_mark"
             /\ Body(f) = <<"if_err", "from_residual">>
    <3>1. Body(f) = <<"if_err", "from_residual">>
      BY <2>6, Zenon
    <3>2. Rest(f, 1, p, s) = IF s.held.kind # Wanted("if_err", s) THEN s
                              ELSE Does("from_residual", p, Does("if_err", p, s))
      <4>1. Len(Body(f)) = 2
        BY <3>1, PairIs, Zenon
      <4>2. Body(f)[1] = "if_err"
        BY <3>1, PairIs, Zenon
      <4>3. Body(f)[2] = "from_residual"
        BY <3>1, PairIs, Zenon
      <4>4. Rest(f, 1, p, s) = IF s.held.kind # Wanted(Body(f)[1], s) THEN s
                               ELSE Does(Body(f)[2], p, Does(Body(f)[1], p, s))
        BY <4>1, RestOfTwo
      <4>. QED
        BY <4>2, <4>3, <4>4, Zenon
    <3>3. Does("if_err", p, s) = s
      BY StepsAre, Zenon
    <3>4. Does("from_residual", p, s) = Converted(p, s)
      BY WrappersAre, Zenon
    <3>5. Executed(p, s) = IF s.held.kind # Wanted("if_err", s) THEN s ELSE Converted(p, s)
      BY <1>1, <2>6, ExecutedIs
    <3>6. Does(f, q, s) = Executed(p, s)
      BY <1>3, <2>6
    <3>. QED
      BY <3>2, <3>3, <3>4, <3>5, <3>6
  <2>7. CASE f = Within /\ Use \in Method /\ Body(f) = <<Use>>
    <3>1. Body(f) = <<Use>>
      BY <2>7, Zenon
    <3>2. Wanted(Use, s) = s.held.kind
      BY <1>1, <2>7, WantedIs, MethodIs DEF Tests
    <3>3. Rest(f, 1, p, s) = Does(Use, p, s)
      BY <3>1, <3>2, RestOfOne
    <3>4. Does(Use, p, s) = Executed(p, s)
      BY <2>7, OutersAre
    <3>5. Does(f, q, s) = Executed(p, s)
      BY <1>3, <2>7
    <3>. QED
      BY <3>2, <3>3, <3>4, <3>5
  <2>. HIDE DEF Same
  <2>. QED
    BY <1>6, <2>1, <2>2, <2>3, <2>4, <2>5, <2>6, <2>7 DEF OfStatement
<1>7. ASSUME OfMethod(f) PROVE Same
  <2>1. CASE /\ f = Use /\ Use \in {"context", "poll_context"}
             /\ Body(f) = <<"if_err", "into_error">>
    <3>1. Body(f) = <<"if_err", "into_error">>
      BY <2>1, Zenon
    <3>2. Rest(f, 1, p, s) = IF s.held.kind # Wanted("if_err", s) THEN s
                              ELSE Does("into_error", p, Does("if_err", p, s))
      <4>1. Len(Body(f)) = 2
        BY <3>1, PairIs, Zenon
      <4>2. Body(f)[1] = "if_err"
        BY <3>1, PairIs, Zenon
      <4>3. Body(f)[2] = "into_error"
        BY <3>1, PairIs, Zenon
      <4>4. Rest(f, 1, p, s) = IF s.held.kind # Wanted(Body(f)[1], s) THEN s
                               ELSE Does(Body(f)[2], p, Does(Body(f)[1], p, s))
        BY <4>1, RestOfTwo
      <4>. QED
        BY <4>2, <4>3, <4>4, Zenon
    <3>3. Does("if_err", p, s) = s
      BY StepsAre, Zenon
    <3>4. Does("into_error", p, s) = Converted(p, s)
      BY WrappersAre, Zenon
    <3>5. Executed(p, s) = IF s.held.kind # Wanted("if_err", s) THEN s ELSE Converted(p, s)
      BY <1>1, <2>1, ExecutedIs
    <3>6. Does(f, q, s) = Executed(p, s)
      BY <1>4, <2>1, MethodIs
    <3>. QED
      BY <3>2, <3>3, <3>4, <3>5, <3>6
  <2>2. CASE /\ f = Use /\ Use \in {"with_context", "poll_with_context"}
             /\ Body(f) = <<"if_err", "closure", "into_error">>
    <3>1. Body(f) = <<"if_err", "closure", "into_error">>
      BY <2>2, Zenon
    <3>2. Rest(f, 1, p, s) = IF s.held.kind # Wanted("if_err", s) THEN s
                              ELSE Does("into_error", p, Does("closure", p, Does("if_err", p, s)))
      <4>1. Len(Body(f)) = 3
        BY <3>1, TripleIs, Zenon
      <4>2. Body(f)[1] = "if_err"
        BY <3>1, FirstIs, Zenon
      <4>3. Body(f)[2] = "closure"
        BY <3>1, SecondIs, Zenon
      <4>4. Body(f)[3] = "into_error"
        BY <3>1, ThirdIs, Zenon
      <4>5. Rest(f, 1, p, s) = IF s.held.kind # Wanted(Body(f)[1], s) THEN s
                               ELSE Does(Body(f)[3], p, Does(Body(f)[2], p, Does(Body(f)[1], p, s)))
        BY <4>1, RestOfThree
      <4>. QED
        BY <4>2, <4>3, <4>4, <4>5, Zenon
    <3>3. Does("if_err", p, s) = s
      BY StepsAre, Zenon
    <3>4. Does("closure", p, s) = Treated(s, "look")
      BY StepsAre, Zenon
    <3>5. Does("into_error", p, Treated(s, "look")) = Converted(p, Treated(s, "look"))
      BY WrappersAre, Zenon
    <3>6. Executed(p, s) = IF s.held.kind # Wanted("if_err", s) THEN s
                           ELSE Converted(p, Treated(s, "look"))
      BY <1>1, <2>2, ExecutedIs
    <3>7. Does(f, q, s) = Executed(p, s)
      BY <1>4, <2>2, MethodIs
    <3>. QED
      BY <3>2, <3>3, <3>4, <3>5, <3>6, <3>7
  <2>3. CASE /\ f = Use /\ Use \in {"whatever_context", "poll_whatever_context"}
             /\ Body(f) = <<"if_err", "with_source">>
    <3>1. Body(f) = <<"if_err", "with_source">>
      BY <2>3, Zenon
    <3>2. Rest(f, 1, p, s) = IF s.held.kind # Wanted("if_err", s) THEN s
                              ELSE Does("with_source", p, Does("if_err", p, s))
      <4>1. Len(Body(f)) = 2
        BY <3>1, PairIs, Zenon
      <4>2. Body(f)[1] = "if_err"
        BY <3>1, PairIs, Zenon
      <4>3. Body(f)[2] = "with_source"
        BY <3>1, PairIs, Zenon
      <4>4. Rest(f, 1, p, s) = IF s.held.kind # Wanted(Body(f)[1], s) THEN s
                               ELSE Does(Body(f)[2], p, Does(Body(f)[1], p, s))
        BY <4>1, RestOfTwo
      <4>. QED
        BY <4>2, <4>3, <4>4, Zenon
    <3>3. Does("if_err", p, s) = s
      BY StepsAre, Zenon
    <3>4. Does("with_source", p, s) = Stored(p, s)
      BY WrappersAre, Zenon
    <3>5. Executed(p, s) = IF s.held.kind # Wanted("if_err", s) THEN s ELSE Stored(p, s)
      BY <1>1, <2>3, ExecutedIs
    <3>6. Does(f, q, s) = Executed(p, s)
      BY <1>4, <2>3, MethodIs
    <3>. QED
      BY <3>2, <3>3, <3>4, <3>5, <3>6
  <2>4. CASE /\ f = Use /\ Use \in {"with_whatever_context", "poll_with_whatever_context"}
             /\ Body(f) = <<"if_err", "closure", "with_source">>
    <3>1. Body(f) = <<"if_err", "closure", "with_source">>
      BY <2>4, Zenon
    <3>2. Rest(f, 1, p, s) = IF s.held.kind # Wanted("if_err", s) THEN s
                              ELSE Does("with_source", p, Does("closure", p, Does("if_err", p, s)))
      <4>1. Len(Body(f)) = 3
        BY <3>1, TripleIs, Zenon
      <4>2. Body(f)[1] = "if_err"
        BY <3>1, FirstIs, Zenon
      <4>3. Body(f)[2] = "closure"
        BY <3>1, SecondIs, Zenon
      <4>4. Body(f)[3] = "with_source"
        BY <3>1, ThirdIs, Zenon
      <4>5. Rest(f, 1, p, s) = IF s.held.kind # Wanted(Body(f)[1], s) THEN s
                               ELSE Does(Body(f)[3], p, Does(Body(f)[2], p, Does(Body(f)[1], p, s)))
        BY <4>1, RestOfThree
      <4>. QED
        BY <4>2, <4>3, <4>4, <4>5, Zenon
    <3>3. Does("if_err", p, s) = s
      BY StepsAre, Zenon
    <3>4. Does("closure", p, s) = Treated(s, "look")
      BY StepsAre, Zenon
    <3>5. Does("with_source", p, Treated(s, "look")) = Stored(p, Treated(s, "look"))
      BY WrappersAre, Zenon
    <3>6. Executed(p, s) = IF s.held.kind # Wanted("if_err", s) THEN s
                           ELSE Stored(p, Treated(s, "look"))
      BY <1>1, <2>4, ExecutedIs
    <3>7. Does(f, q, s) = Executed(p, s)
      BY <1>4, <2>4, MethodIs
    <3>. QED
      BY <3>2, <3>3, <3>4, <3>5, <3>6, <3>7
  <2>5. CASE /\ f = Use /\ Use = "option_context"
             /\ Body(f) = <<"if_none", "into_error_leaf">>
    <3>1. Body(f) = <<"if_none", "into_error_leaf">>
      BY <2>5, Zenon
    <3>2. Rest(f, 1, p, s) = IF s.held.kind # Wanted("if_none", s) THEN s
                              ELSE Does("into_error_leaf", p, Does("if_none", p, s))
      <4>1. Len(Body(f)) = 2
        BY <3>1, PairIs, Zenon
      <4>2. Body(f)[1] = "if_none"
        BY <3>1, PairIs, Zenon
      <4>3. Body(f)[2] = "into_error_leaf"
        BY <3>1, PairIs, Zenon
      <4>4. Rest(f, 1, p, s) = IF s.held.kind # Wanted(Body(f)[1], s) THEN s
                               ELSE Does(Body(f)[2], p, Does(Body(f)[1], p, s))
        BY <4>1, RestOfTwo
      <4>. QED
        BY <4>2, <4>3, <4>4, Zenon
    <3>3. Does("if_none", p, s) = s
      BY StepsAre, Zenon
    <3>4. Does("into_error_leaf", p, s) = LeafMade(p, s)
      BY LeavesAre, Zenon
    <3>5. Executed(p, s) = IF s.held.kind # Wanted("if_none", s) THEN s ELSE LeafMade(p, s)
      BY <1>1, <2>5, ExecutedIs
    <3>6. Does(f, q, s) = Executed(p, s)
      BY <1>4, <2>5, MethodIs
    <3>. QED
      BY <3>2, <3>3, <3>4, <3>5, <3>6
  <2>6. CASE /\ f = Use /\ Use = "option_with_context"
             /\ Body(f) = <<"if_none", "closure", "into_error_leaf">>
    <3>1. Body(f) = <<"if_none", "closure", "into_error_leaf">>
      BY <2>6, Zenon
    <3>2. Rest(f, 1, p, s) = IF s.held.kind # Wanted("if_none", s) THEN s
                              ELSE Does("into_error_leaf", p, Does("closure", p,
                                        Does("if_none", p, s)))
      <4>1. Len(Body(f)) = 3
        BY <3>1, TripleIs, Zenon
      <4>2. Body(f)[1] = "if_none"
        BY <3>1, FirstIs, Zenon
      <4>3. Body(f)[2] = "closure"
        BY <3>1, SecondIs, Zenon
      <4>4. Body(f)[3] = "into_error_leaf"
        BY <3>1, ThirdIs, Zenon
      <4>5. Rest(f, 1, p, s) = IF s.held.kind # Wanted(Body(f)[1], s) THEN s
                               ELSE Does(Body(f)[3], p, Does(Body(f)[2], p, Does(Body(f)[1], p, s)))
        BY <4>1, RestOfThree
      <4>. QED
        BY <4>2, <4>3, <4>4, <4>5, Zenon
    <3>3. Does("if_none", p, s) = s
      BY StepsAre, Zenon
    <3>4. Does("closure", p, s) = Treated(s, "look")
      BY StepsAre, Zenon
    <3>5. Does("into_error_leaf", p, Treated(s, "look")) = LeafMade(p, Treated(s, "look"))
      BY LeavesAre, Zenon
    <3>6. Executed(p, s) = IF s.held.kind # Wanted("if_none", s) THEN s
                           ELSE LeafMade(p, Treated(s, "look"))
      BY <1>1, <2>6, ExecutedIs
    <3>7. Does(f, q, s) = Executed(p, s)
      BY <1>4, <2>6, MethodIs
    <3>. QED
      BY <3>2, <3>3, <3>4, <3>5, <3>6, <3>7
  <2>7. CASE /\ f = Use /\ Use = "option_whatever_context"
             /\ Body(f) = <<"if_none", "without_source">>
    <3>1. Body(f) = <<"if_none", "without_source">>
      BY <2>7, Zenon
    <3>2. Rest(f, 1, p, s) = IF s.held.kind # Wanted("if_none", s) THEN s
                              ELSE Does("without_source", p, Does("if_none", p, s))
      <4>1. Len(Body(f)) = 2
        BY <3>1, PairIs, Zenon
      <4>2. Body(f)[1] = "if_none"
        BY <3>1, PairIs, Zenon
      <4>3. Body(f)[2] = "without_source"
        BY <3>1, PairIs, Zenon
      <4>4. Rest(f, 1, p, s) = IF s.held.kind # Wanted(Body(f)[1], s) THEN s
                               ELSE Does(Body(f)[2], p, Does(Body(f)[1], p, s))
        BY <4>1, RestOfTwo
      <4>. QED
        BY <4>2, <4>3, <4>4, Zenon
    <3>3. Does("if_none", p, s) = s
      BY StepsAre, Zenon
    <3>4. Does("without_source", p, s) = LeafMade(p, s)
      BY LeavesAre, Zenon
    <3>5. Executed(p, s) = IF s.held.kind # Wanted("if_none", s) THEN s ELSE LeafMade(p, s)
      BY <1>1, <2>7, ExecutedIs
    <3>6. Does(f, q, s) = Executed(p, s)
      BY <1>4, <2>7, MethodIs
    <3>. QED
      BY <3>2, <3>3, <3>4, <3>5, <3>6
  <2>8. CASE /\ f = Use /\ Use = "option_with_whatever_context"
             /\ Body(f) = <<"if_none", "closure", "without_source">>
    <3>1. Body(f) = <<"if_none", "closure", "without_source">>
      BY <2>8, Zenon
    <3>2. Rest(f, 1, p, s) = IF s.held.kind # Wanted("if_none", s) THEN s
                              ELSE Does("without_source", p, Does("closure", p,
                                        Does("if_none", p, s)))
      <4>1. Len(Body(f)) = 3
        BY <3>1, TripleIs, Zenon
      <4>2. Body(f)[1] = "if_none"
        BY <3>1, FirstIs, Zenon
      <4>3. Body(f)[2] = "closure"
        BY <3>1, SecondIs, Zenon
      <4>4. Body(f)[3] = "without_source"
        BY <3>1, ThirdIs, Zenon
      <4>5. Rest(f, 1, p, s) = IF s.held.kind # Wanted(Body(f)[1], s) THEN s
                               ELSE Does(Body(f)[3], p, Does(Body(f)[2], p, Does(Body(f)[1], p, s)))
        BY <4>1, RestOfThree
      <4>. QED
        BY <4>2, <4>3, <4>4, <4>5, Zenon
    <3>3. Does("if_none", p, s) = s
      BY StepsAre, Zenon
    <3>4. Does("closure", p, s) = Treated(s, "look")
      BY StepsAre, Zenon
    <3>5. Does("without_source", p, Treated(s, "look")) = LeafMade(p, Treated(s, "look"))
      BY LeavesAre, Zenon
    <3>6. Executed(p, s) = IF s.held.kind # Wanted("if_none", s) THEN s
                           ELSE LeafMade(p, Treated(s, "look"))
      BY <1>1, <2>8, ExecutedIs
    <3>7. Does(f, q, s) = Executed(p, s)
      BY <1>4, <2>8, MethodIs
    <3>. QED
      BY <3>2, <3>3, <3>4, <3>5, <3>6, <3>7
  <2>. HIDE DEF Same
  <2>. QED
    BY <1>7, <2>1, <2>2, <2>3, <2>4, <2>5, <2>6, <2>7, <2>8 DEF OfMethod
<1>8. ASSUME OfHelper(f) PROVE Same
  <2>1. CASE f = "fail" /\ Body(f) = <<"build">>
    <3>1. Body(f) = <<"build">>
      BY <2>1, Zenon
    <3>2. Wanted("build", s) = s.held.kind
      BY <1>1, WantedIs DEF Tests
    <3>3. Rest(f, 1, p, s) = Does("build", p, s)
      BY <3>1, <3>2, RestOfOne
    <3>4. Does("build", p, s) = LeafMade(p, s)
      BY LeavesAre, Zenon
    <3>5. p = q
      BY <1>2, <2>1 DEF Helper, Leaves, NeedsSource, Converters
    <3>6. Does("fail", q, s) = LeafMade(q, s)
      BY LeavesAre, Zenon
    <3>. QED
      BY <2>1, <3>2, <3>3, <3>4, <3>5, <3>6
  <2>2. CASE /\ f \in {"build", "into_error_leaf", "without_source"}
             /\ Body(f) = <<"generate", "construct">>
    <3>1. Body(f) = <<"generate", "construct">>
      BY <2>2, Zenon
    <3>2. Wanted("generate", s) = s.held.kind
      BY <1>1, WantedIs DEF Tests
    <3>3. Rest(f, 1, p, s) = IF s.held.kind # Wanted("generate", s) THEN s
                              ELSE Does("construct", p, Does("generate", p, s))
      <4>1. Len(Body(f)) = 2
        BY <3>1, PairIs, Zenon
      <4>2. Body(f)[1] = "generate"
        BY <3>1, PairIs, Zenon
      <4>3. Body(f)[2] = "construct"
        BY <3>1, PairIs, Zenon
      <4>4. Rest(f, 1, p, s) = IF s.held.kind # Wanted(Body(f)[1], s) THEN s
                               ELSE Does(Body(f)[2], p, Does(Body(f)[1], p, s))
        BY <4>1, RestOfTwo
      <4>. QED
        BY <4>2, <4>3, <4>4, Zenon
    <3>4. Does("generate", p, s) = Located(p, s)
      BY StepsAre, Zenon
    <3>5. Does("construct", p, Located(p, s)) = Constructed(Located(p, s))
      BY StepsAre, Zenon
    <3>6. p = q
      BY <1>2, <2>2 DEF Helper, Leaves, NeedsSource, Converters
    <3>7. Does("build", q, s) = LeafMade(q, s)
      BY LeavesAre, Zenon
    <3>8. Does("into_error_leaf", q, s) = LeafMade(q, s)
      BY LeavesAre, Zenon
    <3>9. Does("without_source", q, s) = LeafMade(q, s)
      BY LeavesAre, Zenon
    <3>10. LeafMade(q, s) = Constructed(Located(q, s))
      BY DEF LeafMade
    <3>. QED
      BY <2>2, <3>2, <3>3, <3>4, <3>5, <3>6, <3>7, <3>8, <3>9, <3>10
  <2>3. CASE /\ f \in {"into_error", "from"}
             /\ Body(f) = <<"transform", "generate_with_source", "construct">>
    <3>1. Body(f) = <<"transform", "generate_with_source", "construct">>
      BY <2>3, Zenon
    <3>2. Wanted("transform", s) = s.held.kind
      BY <1>1, WantedIs DEF Tests
    <3>3. Rest(f, 1, p, s) = IF s.held.kind # Wanted("transform", s) THEN s
                              ELSE Does("construct", p, Does("generate_with_source", p,
                                        Does("transform", p, s)))
      <4>1. Len(Body(f)) = 3
        BY <3>1, TripleIs, Zenon
      <4>2. Body(f)[1] = "transform"
        BY <3>1, FirstIs, Zenon
      <4>3. Body(f)[2] = "generate_with_source"
        BY <3>1, SecondIs, Zenon
      <4>4. Body(f)[3] = "construct"
        BY <3>1, ThirdIs, Zenon
      <4>5. Rest(f, 1, p, s) = IF s.held.kind # Wanted(Body(f)[1], s) THEN s
                               ELSE Does(Body(f)[3], p, Does(Body(f)[2], p, Does(Body(f)[1], p, s)))
        BY <4>1, RestOfThree
      <4>. QED
        BY <4>2, <4>3, <4>4, <4>5, Zenon
    <3>4. Does("transform", p, s) = Treated(s, "transform")
      BY StepsAre, Zenon
    <3>5. Does("generate_with_source", p, Treated(s, "transform"))
            = Observed(p, Treated(s, "transform"))
      BY StepsAre, Zenon
    <3>6. Does("construct", p, Observed(p, Treated(s, "transform")))
            = Constructed(Observed(p, Treated(s, "transform")))
      BY StepsAre, Zenon
    <3>7. p = q
      BY <1>2, <2>3 DEF Helper, Leaves, NeedsSource, Converters
    <3>8. Does("into_error", q, s) = Converted(q, s)
      BY WrappersAre, Zenon
    <3>9. Does("from", q, s) = Converted(q, s)
      BY WrappersAre, Zenon
    <3>10. Converted(q, s) = Constructed(Observed(q, Treated(s, "transform")))
      BY DEF Converted
    <3>. QED
      BY <2>3, <3>2, <3>3, <3>4, <3>5, <3>6, <3>7, <3>8, <3>9, <3>10
  <2>4. CASE /\ f = "with_source"
             /\ Body(f) = <<"generate_with_source", "transform", "construct">>
    <3>1. Body(f) = <<"generate_with_source", "transform", "construct">>
      BY <2>4, Zenon
    <3>2. Wanted("generate_with_source", s) = s.held.kind
      BY <1>1, WantedIs DEF Tests
    <3>3. Rest(f, 1, p, s) = IF s.held.kind # Wanted("generate_with_source", s) THEN s
                              ELSE Does("construct", p, Does("transform", p,
                                        Does("generate_with_source", p, s)))
      <4>1. Len(Body(f)) = 3
        BY <3>1, TripleIs, Zenon
      <4>2. Body(f)[1] = "generate_with_source"
        BY <3>1, FirstIs, Zenon
      <4>3. Body(f)[2] = "transform"
        BY <3>1, SecondIs, Zenon
      <4>4. Body(f)[3] = "construct"
        BY <3>1, ThirdIs, Zenon
      <4>5. Rest(f, 1, p, s) = IF s.held.kind # Wanted(Body(f)[1], s) THEN s
                               ELSE Does(Body(f)[3], p, Does(Body(f)[2], p, Does(Body(f)[1], p, s)))
        BY <4>1, RestOfThree
      <4>. QED
        BY <4>2, <4>3, <4>4, <4>5, Zenon
    <3>4. Does("generate_with_source", p, s) = Observed(p, s)
      BY StepsAre, Zenon
    <3>5. Does("transform", p, Observed(p, s)) = Treated(Observed(p, s), "transform")
      BY StepsAre, Zenon
    <3>6. Does("construct", p, Treated(Observed(p, s), "transform"))
            = Constructed(Treated(Observed(p, s), "transform"))
      BY StepsAre, Zenon
    <3>7. p = q
      BY <1>2, <2>4 DEF Helper, Leaves, NeedsSource, Converters
    <3>8. Does("with_source", q, s) = Stored(q, s)
      BY WrappersAre, Zenon
    <3>9. Stored(q, s) = Constructed(Treated(Observed(q, s), "transform"))
      BY DEF Stored
    <3>. QED
      BY <2>4, <3>2, <3>3, <3>4, <3>5, <3>6, <3>7, <3>8, <3>9
  <2>5. CASE f = "generate_with_source" /\ Body(f) = <<"show", "generate">>
    <3>1. Body(f) = <<"show", "generate">>
      BY <2>5, Zenon
    <3>2. Wanted("show", s) = s.held.kind
      BY <1>1, WantedIs DEF Tests
    <3>3. Rest(f, 1, p, s) = IF s.held.kind # Wanted("show", s) THEN s
                              ELSE Does("generate", p, Does("show", p, s))
      <4>1. Len(Body(f)) = 2
        BY <3>1, PairIs, Zenon
      <4>2. Body(f)[1] = "show"
        BY <3>1, PairIs, Zenon
      <4>3. Body(f)[2] = "generate"
        BY <3>1, PairIs, Zenon
      <4>4. Rest(f, 1, p, s) = IF s.held.kind # Wanted(Body(f)[1], s) THEN s
                               ELSE Does(Body(f)[2], p, Does(Body(f)[1], p, s))
        BY <4>1, RestOfTwo
      <4>. QED
        BY <4>2, <4>3, <4>4, Zenon
    <3>4. Does("show", p, s) = Shows(s)
      BY StepsAre, Zenon
    <3>5. Does("generate", p, Shows(s)) = Located(p, Shows(s))
      BY StepsAre, Zenon
    <3>6. p = q
      BY <1>2, <2>5 DEF Helper, Leaves, NeedsSource, Converters
    <3>7. Does("generate_with_source", q, s) = Observed(q, s)
      BY StepsAre, Zenon
    <3>8. Observed(q, s) = Located(q, Shows(s))
      BY DEF Observed
    <3>. QED
      BY <2>5, <3>2, <3>3, <3>4, <3>5, <3>6, <3>7, <3>8
  <2>6. CASE f = "generate" /\ Body(f) = <<"caller">>
    <3>1. Body(f) = <<"caller">>
      BY <2>6, Zenon
    <3>2. Wanted("caller", s) = s.held.kind
      BY <1>1, WantedIs DEF Tests
    <3>3. Rest(f, 1, p, s) = Does("caller", p, s)
      BY <3>1, <3>2, RestOfOne
    <3>4. Does("caller", p, s) = Located(p, s)
      BY StepsAre, Zenon
    <3>5. p = q
      BY <1>2, <2>6 DEF Helper, Leaves, NeedsSource, Converters
    <3>6. Does("generate", q, s) = Located(q, s)
      BY StepsAre, Zenon
    <3>. QED
      BY <2>6, <3>2, <3>3, <3>4, <3>5, <3>6
  <2>7. CASE f = "map_err" /\ Body(f) = <<"into">>
    <3>1. Body(f) = <<"into">>
      BY <2>7, Zenon
    <3>2. Wanted("into", s) = s.held.kind
      BY <1>1, WantedIs DEF Tests
    <3>3. Rest(f, 1, p, s) = Does("into", p, s)
      BY <3>1, <3>2, RestOfOne
    <3>4. Does("into", p, s) = Converted(p, s)
      BY WrappersAre, Zenon
    <3>5. p = "map_err" /\ Does("map_err", q, s) = Converted("map_err", s)
      BY <1>2, <2>7, WrappersAre, ZenonT(30)
    <3>. QED
      BY <2>7, <3>2, <3>3, <3>4, <3>5
  <2>8. CASE f \in {"into", "from_residual"} /\ Body(f) = <<"from">>
    <3>1. Body(f) = <<"from">>
      BY <2>8, Zenon
    <3>2. Wanted("from", s) = s.held.kind
      BY <1>1, WantedIs DEF Tests
    <3>3. Rest(f, 1, p, s) = Does("from", p, s)
      BY <3>1, <3>2, RestOfOne
    <3>4. Does("from", p, s) = Converted(p, s)
      BY WrappersAre, Zenon
    <3>5. p = q
      BY <1>2, <2>8 DEF Helper, Leaves, NeedsSource, Converters
    <3>6. Does("into", q, s) = Converted(q, s)
      BY WrappersAre, Zenon
    <3>7. Does("from_residual", q, s) = Converted(q, s)
      BY WrappersAre, Zenon
    <3>. QED
      BY <2>8, <3>2, <3>3, <3>4, <3>5, <3>6, <3>7
  <2>9. CASE f = "closure" /\ Body(f) = <<"look">>
    <3>1. Body(f) = <<"look">>
      BY <2>9, Zenon
    <3>2. Wanted("look", s) = s.held.kind
      BY <1>1, WantedIs DEF Tests
    <3>3. Rest(f, 1, p, s) = Does("look", p, s)
      BY <3>1, <3>2, RestOfOne
    <3>4. Does("look", p, s) = Treated(s, "look")
      BY StepsAre, Zenon
    <3>5. Does("closure", q, s) = Treated(s, "look")
      BY StepsAre, Zenon
    <3>. QED
      BY <2>9, <3>2, <3>3, <3>4, <3>5
  <2>. HIDE DEF Same
  <2>. QED
    BY <1>8, <2>1, <2>2, <2>3, <2>4, <2>5, <2>6, <2>7, <2>8, <2>9 DEF OfHelper
<1>. QED
  BY <1>6, <1>7, <1>8, Table

(* What is left from a call or step on, and at the end of a function.       *)
LEMMA Unfold ==
  ASSUME program \in Programs, line \in 1 .. Len(program), NEW f, Fits(f),
         NEW n \in 1 .. Len(Body(f)), NEW p, NEW s
  PROVE  Rest(f, n, p, s) = IF s.held.kind # Wanted(Body(f)[n], s) THEN s
                            ELSE Rest(f, n + 1, p, Does(Body(f)[n], p, s))
<1>1. Len(Body(f)) \in 1 .. 3 /\ Called(f, n, Body(f)[n])
  BY Calls
<1>2. n \in {1, 2, 3}
  BY <1>1
<1>3. n # 1 => Wanted(Body(f)[n], s) = s.held.kind
  BY <1>1, WantedIs DEF Called
<1>4. CASE n = 1
  BY <1>4 DEF Rest
<1>5. CASE n = 2
  BY <1>1, <1>3, <1>5 DEF Rest, Second
<1>6. CASE n = 3
  BY <1>1, <1>3, <1>6 DEF Rest, Third
<1>. QED
  BY <1>2, <1>4, <1>5, <1>6

LEMMA Ended ==
  ASSUME program \in Programs, line \in 1 .. Len(program), NEW f, Fits(f), NEW p, NEW s
  PROVE  Rest(f, Len(Body(f)) + 1, p, s) = s
<1>1. Len(Body(f)) \in {1, 2, 3}
  BY Calls
<1>. QED
  BY <1>1 DEF Rest, Second, Third

(* All of this depends on the statement only.                               *)
LEMMA Keeps ==
  ASSUME UNCHANGED <<program, line, value>>, NEW f, NEW n, NEW p, NEW s
  PROVE  /\ Use' = Use /\ Within' = Within
         /\ Body(f)' = Body(f) /\ Fits(f)' = Fits(f)
         /\ Rest(f, n, p, s)' = Rest(f, n, p, s)
         /\ Outcome' = Outcome
<1>1. Use' = Use /\ Within' = Within
  BY DEF Use, Within
<1>2. Body(f)' = Body(f) /\ Fits(f)' = Fits(f)
  BY DEF Use, Within, Body, Fits
<1>3. \A q, t : Executed(q, t)' = Executed(q, t)
  <2>. SUFFICES ASSUME NEW q, NEW t PROVE Executed(q, t)' = Executed(q, t)
    OBVIOUS
  <2>. QED
    BY DEF Executed, Use, Located, Here, Constructed, Added, Concerned, Made, Prepared, LeafMade,
           Converted, Stored, Observed
<1>4. \A y, q, t : Does(y, q, t)' = Does(y, q, t)
  <2>. SUFFICES ASSUME NEW y, NEW q, NEW t PROVE Does(y, q, t)' = Does(y, q, t)
    OBVIOUS
  <2>. QED
    BY <1>1, <1>3, ZenonT(30)
       DEF Does, Spot, Located, Here, Constructed, Added, LeafMade, Converted, Stored, Observed
<1>5. Rest(f, n, p, s)' = Rest(f, n, p, s)
  BY <1>2, <1>4 DEF Rest, Second, Third
<1>6. Outcome' = Outcome
  BY <1>1, <1>3 DEF Outcome, Spot
<1>. QED
  BY <1>1, <1>2, <1>5, <1>6

(* The stack, by its frames.                                                *)
LEMMA RecordIs ==
  ASSUME NEW K, NEW C, NEW L, NEW v
  PROVE  v \in [kind : K, calls : C, layers : L] =>
           v.kind \in K /\ v.calls \in C /\ v.layers \in L
OBVIOUS

LEMMA ValueIs ==
  ASSUME NEW v \in Value
  PROVE  v.kind \in {"ok", "none", "err"} /\ v.calls \in Nat /\ v.layers \in Seq(Layer)
BY RecordIs, Zenon DEF Value

LEMMA Entries ==
  ASSUME NEW S, NEW q \in Seq(S), q # << >>
  PROVE  /\ Len(q) \in Nat \ {0} /\ DOMAIN q = 1 .. Len(q)
         /\ \A i \in 1 .. Len(q) : q[i] \in S
OBVIOUS

LEMMA Replaced ==
  ASSUME NEW S, NEW q \in Seq(S), q # << >>, NEW e \in S
  PROVE  /\ [q EXCEPT ![Len(q)] = e] \in Seq(S)
         /\ Len([q EXCEPT ![Len(q)] = e]) = Len(q)
         /\ \A i \in 1 .. Len(q) - 1 : [q EXCEPT ![Len(q)] = e][i] = q[i]
         /\ [q EXCEPT ![Len(q)] = e][Len(q)] = e
OBVIOUS

LEMMA Appended ==
  ASSUME NEW S, NEW q \in Seq(S), NEW e \in S
  PROVE  /\ Append(q, e) \in Seq(S) /\ Len(Append(q, e)) = Len(q) + 1
         /\ \A i \in 1 .. Len(q) : Append(q, e)[i] = q[i]
         /\ Append(q, e)[Len(q) + 1] = e
OBVIOUS

LEMMA Longer ==
  ASSUME NEW S, NEW q \in Seq(S), NEW e
  PROVE  Append(q, e) # << >>
<1>1. Len(Append(q, e)) = Len(q) + 1 /\ Len(q) \in Nat /\ Len(<< >>) = 0
  BY Appended
<1>. QED
  BY <1>1

LEMMA Shortened ==
  ASSUME NEW S, NEW q \in Seq(S), Len(q) > 1
  PROVE  /\ SubSeq(q, 1, Len(q) - 1) \in Seq(S)
         /\ Len(SubSeq(q, 1, Len(q) - 1)) = Len(q) - 1
         /\ \A i \in 1 .. Len(q) - 1 : SubSeq(q, 1, Len(q) - 1)[i] = q[i]
OBVIOUS

LEMMA AdvancedIs ==
  ASSUME stack \in Seq([fn : Function, at : Nat]), stack # << >>, NEW m \in Nat
  PROVE  /\ Len(stack) \in Nat \ {0} /\ Top \in [fn : Function, at : Nat]
         /\ Advanced(m) \in Seq([fn : Function, at : Nat])
         /\ Len(Advanced(m)) = Len(stack)
         /\ \A i \in 1 .. Len(stack) : Advanced(m)[i].fn = stack[i].fn
         /\ \A i \in 1 .. Len(stack) - 1 : Advanced(m)[i].at = stack[i].at
         /\ Advanced(m)[Len(stack)].at = m
<1>. DEFINE S == [fn : Function, at : Nat]
            e == [Top EXCEPT !.at = m]
<1>1. Len(stack) \in Nat \ {0} /\ \A i \in 1 .. Len(stack) : stack[i] \in S
  BY Entries
<1>2. Top \in S
  BY <1>1 DEF Top
<1>3. e \in S /\ e.fn = Top.fn /\ e.at = m
  BY <1>2
<1>4. Advanced(m) = [stack EXCEPT ![Len(stack)] = e]
  BY <1>1 DEF Advanced, Top
<1>. HIDE DEF S, e
<1>5. /\ Advanced(m) \in Seq(S) /\ Len(Advanced(m)) = Len(stack)
      /\ \A i \in 1 .. Len(stack) - 1 : Advanced(m)[i] = stack[i]
      /\ Advanced(m)[Len(stack)] = e
  <2>1. stack \in Seq(S)
    BY DEF S
  <2>. QED
    BY <1>3, <1>4, <2>1, Replaced
<1>6. \A i \in 1 .. Len(stack) : i \in 1 .. Len(stack) - 1 \/ i = Len(stack)
  BY <1>1
<1>7. \A i \in 1 .. Len(stack) : Advanced(m)[i].fn = stack[i].fn
  BY <1>3, <1>5, <1>6 DEF Top
<1>8. Advanced(m) \in Seq([fn : Function, at : Nat]) /\ Top \in [fn : Function, at : Nat]
  BY <1>2, <1>5 DEF S
<1>. QED
  BY <1>1, <1>3, <1>5, <1>7, <1>8

LEMMA CalledIs ==
  ASSUME stack \in Seq([fn : Function, at : Nat]), stack # << >>, NEW m \in Nat,
         NEW x \in Function, stack' = Append(Advanced(m), Frame(x))
  PROVE  /\ stack' \in Seq([fn : Function, at : Nat])
         /\ Len(stack') = Len(stack) + 1
         /\ \A i \in 1 .. Len(stack) : stack'[i].fn = stack[i].fn
         /\ \A i \in 1 .. Len(stack) - 1 : stack'[i].at = stack[i].at
         /\ stack'[Len(stack)].at = m
         /\ stack'[Len(stack) + 1].fn = x /\ stack'[Len(stack) + 1].at = 1
<1>. DEFINE t == Advanced(m)
            S == [fn : Function, at : Nat]
<1>1. /\ Len(stack) \in Nat \ {0} /\ t \in Seq([fn : Function, at : Nat])
      /\ Len(t) = Len(stack)
      /\ \A i \in 1 .. Len(stack) : t[i].fn = stack[i].fn
      /\ \A i \in 1 .. Len(stack) - 1 : t[i].at = stack[i].at
      /\ t[Len(stack)].at = m
  BY AdvancedIs
<1>2. t \in Seq(S) /\ Frame(x) \in S /\ Frame(x).fn = x /\ Frame(x).at = 1
  BY <1>1 DEF Frame
<1>3. stack' = Append(t, Frame(x))
  OBVIOUS
<1>. HIDE DEF t, S
<1>4. /\ stack' \in Seq(S) /\ Len(stack') = Len(t) + 1
      /\ \A i \in 1 .. Len(t) : stack'[i] = t[i]
      /\ stack'[Len(t) + 1] = Frame(x)
  BY <1>2, <1>3, Appended
<1>5. stack' \in Seq([fn : Function, at : Nat]) /\ Len(stack') = Len(stack) + 1
  BY <1>1, <1>4 DEF S
<1>6. \A i \in 1 .. Len(stack) : stack'[i] = t[i]
  BY <1>1, <1>4, Zenon
<1>7. \A i \in 1 .. Len(stack) : stack'[i].fn = stack[i].fn
  BY <1>1, <1>6, Zenon
<1>8. \A i \in 1 .. Len(stack) - 1 : i \in 1 .. Len(stack)
  BY <1>1
<1>9. \A i \in 1 .. Len(stack) - 1 : stack'[i].at = stack[i].at
  BY <1>1, <1>6, <1>8, Zenon
<1>10. Len(stack) \in 1 .. Len(stack)
  BY <1>1
<1>11. stack'[Len(stack)].at = m
  BY <1>1, <1>6, <1>10, Zenon
<1>12. stack'[Len(stack) + 1].fn = x /\ stack'[Len(stack) + 1].at = 1
  BY <1>1, <1>2, <1>4, Zenon
<1>. QED
  BY <1>5, <1>7, <1>9, <1>11, <1>12, Zenon

LEMMA ReturnedIs ==
  ASSUME stack \in Seq([fn : Function, at : Nat]), Len(stack) > 1,
         NEW next, next = SubSeq(stack, 1, Len(stack) - 1)
  PROVE  /\ next \in Seq([fn : Function, at : Nat])
         /\ Len(next) = Len(stack) - 1
         /\ \A i \in 1 .. Len(stack) - 1 : next[i] = stack[i]
BY Shortened

(* Where a function is that is not tracked, or its nearest such caller.     *)
LEMMA PlacedKept ==
  ASSUME NEW i \in Nat, NEW p, PlacedAt(i, p), \A j \in 1 .. i : stack'[j].fn = stack[j].fn
  PROVE  PlacedAt(i, p)'
<1>1. PICK k \in 1 .. i : /\ stack[k].fn = p /\ p \notin Tracked
                          /\ \A j \in k + 1 .. i : stack[j].fn \in Tracked
  BY DEF PlacedAt
<1>2. stack'[k].fn = p /\ \A j \in k + 1 .. i : stack'[j].fn \in Tracked
  BY <1>1
<1>3. Tracked' = Tracked
  OBVIOUS
<1>. QED
  BY <1>1, <1>2, <1>3 DEF PlacedAt

LEMMA PlacedCalled ==
  ASSUME NEW n \in Nat, NEW p, PlacedAt(n, p), NEW x,
         \A j \in 1 .. n : stack'[j].fn = stack[j].fn, stack'[n + 1].fn = x
  PROVE  PlacedAt(n + 1, Placed(x, p))'
<1>1. PICK k \in 1 .. n : /\ stack[k].fn = p /\ p \notin Tracked
                          /\ \A j \in k + 1 .. n : stack[j].fn \in Tracked
  BY DEF PlacedAt
<1>2. CASE x \in Tracked
  <2>1. Placed(x, p) = p
    BY <1>2 DEF Placed
  <2>2. stack'[k].fn = p /\ \A j \in k + 1 .. n + 1 : stack'[j].fn \in Tracked
    BY <1>1, <1>2
  <2>. QED
    BY <1>1, <2>1, <2>2 DEF PlacedAt
<1>3. CASE x \notin Tracked
  <2>1. Placed(x, p) = x
    BY <1>3 DEF Placed
  <2>2. n + 1 \in 1 .. n + 1 /\ \A j \in n + 1 + 1 .. n + 1 : FALSE
    OBVIOUS
  <2>. QED
    BY <1>3, <2>1, <2>2 DEF PlacedAt
<1>. QED
  BY <1>2, <1>3

LEMMA CallerIs ==
  ASSUME stack \in Seq([fn : Function, at : Nat]), NEW p, PlacedAt(Len(stack), p)
  PROVE  Caller = [fn |-> p, line |-> line] /\ p \in Function
<1>. DEFINE Nearest(k) == /\ stack[k].fn \notin Tracked
                          /\ \A j \in k + 1 .. Len(stack) : stack[j].fn \in Tracked
<1>1. PICK k \in 1 .. Len(stack) : stack[k].fn = p /\ Nearest(k)
  BY DEF PlacedAt
<1>2. \A i \in DOMAIN stack : Nearest(i) => i = k
  BY <1>1
<1>3. stack # << >> /\ k \in 1 .. Len(stack)
  BY <1>1
<1>4. k \in DOMAIN stack /\ stack[k].fn \in Function
  <2>1. DOMAIN stack = 1 .. Len(stack) /\ stack[k] \in [fn : Function, at : Nat]
    BY <1>3, Entries
  <2>. QED
    BY <1>3, <2>1
<1>5. (CHOOSE i \in DOMAIN stack : Nearest(i)) = k
  <2>. HIDE DEF Nearest
  <2>. QED
    BY <1>1, <1>2, <1>4
<1>. QED
  BY <1>1, <1>4, <1>5 DEF Caller

(* What the steps make of an error in hand and the implicit data.           *)
LEMMA TreatedIs ==
  ASSUME NEW k, NEW c, NEW l, NEW d
  PROVE  /\ Treated(State(Err(k, c, l), d), "format") = State(Err(k, c + 1, l), d)
         /\ Treated(State(Err(k, c, l), d), "look") = State(Err(k, c + 1, Noted(l, "closure")), d)
         /\ Treated(State(Err(k, c, l), d), "transform")
              = State(Err(k, c, Noted(l, "transform")), d)
BY DEF Treated, State, Err

LEMMA ConstructedIs ==
  ASSUME NEW k, NEW c, NEW l, NEW d
  PROVE  Constructed(State(Err(k, c, l), d)) = State(Err("err", c, Append(l, Added(d))), NoData)
BY DEF Constructed, State, Err

LEMMA ObservedIs ==
  ASSUME NEW k, NEW c, NEW l, NEW p, NEW q, NEW x
  PROVE  /\ Located(p, State(Err(k, c, l), Data(q, x))) = State(Err(k, c, l), Data(Here(p), x))
         /\ Observed(p, State(Err(k, c, l), Data(q, x)))
              = State(Err(k, c, l), Data(Here(p), LastMarks(l)))
BY DEF Observed, Located, Shows, State, Err, Data

(* What is made of an error by the ways of making one.                      *)
LEMMA MadeIs ==
  ASSUME NEW k, NEW c, NEW l, NEW p, NEW q, NEW x
  PROVE  /\ LeafMade(p, State(Err(k, c, l), Data(q, x)))
              = State(Err("err", c, Append(l, Added(Data(Here(p), x)))), NoData)
         /\ Converted(p, State(Err(k, c, l), Data(q, x)))
              = State(Err("err", c, Append(Noted(l, "transform"),
                                           Added(Data(Here(p), LastMarks(Noted(l, "transform")))))),
                      NoData)
         /\ Stored(p, State(Err(k, c, l), Data(q, x)))
              = State(Err("err", c, Append(Noted(l, "transform"),
                                           Added(Data(Here(p), LastMarks(l))))),
                      NoData)
<1>1. LeafMade(p, State(Err(k, c, l), Data(q, x)))
        = State(Err("err", c, Append(l, Added(Data(Here(p), x)))), NoData)
  BY ObservedIs, ConstructedIs DEF LeafMade
<1>2. Converted(p, State(Err(k, c, l), Data(q, x)))
        = State(Err("err", c, Append(Noted(l, "transform"),
                                     Added(Data(Here(p), LastMarks(Noted(l, "transform")))))),
                NoData)
  BY TreatedIs, ObservedIs, ConstructedIs DEF Converted
<1>3. Stored(p, State(Err(k, c, l), Data(q, x)))
        = State(Err("err", c, Append(Noted(l, "transform"), Added(Data(Here(p), LastMarks(l))))),
                NoData)
  BY TreatedIs, ObservedIs, ConstructedIs DEF Stored
<1>. QED
  BY <1>1, <1>2, <1>3

(* The steps do what is left to do, until the outcome is in hand.           *)
LEMMA GoesOn ==
  ASSUME program \in Programs, line \in 1 .. Len(program),
         stack \in Seq([fn : Function, at : Nat]), stack # << >>, NEW m \in Nat,
         stack' = Advanced(m), UNCHANGED <<program, line, value>>, Continues,
         \A p : PlacedAt(Len(stack), p) =>
                  Rest(Top.fn, Top.at, p, Current) = Rest(Top.fn, m, p, Current')
  PROVE  Continues'
<1>1. PICK after, place :
        /\ after[1] = Outcome
        /\ after[Len(stack) + 1] = Current
        /\ \A i \in 1 .. Len(stack) :
             /\ after[i] = Rest(stack[i].fn, stack[i].at, place[i], after[i + 1])
             /\ PlacedAt(i, place[i])
             /\ stack[i].fn = "fail" => after[i].held.layers # << >>
  BY DEF Continues
<1>2. PICK c : c = Current'
  OBVIOUS
<1>3. /\ Len(stack) \in Nat \ {0} /\ Len(stack') = Len(stack)
      /\ \A i \in 1 .. Len(stack) : stack'[i].fn = stack[i].fn
      /\ \A i \in 1 .. Len(stack) - 1 : stack'[i].at = stack[i].at
      /\ stack'[Len(stack)].at = m
  BY AdvancedIs
<1>. DEFINE n == Len(stack)
<1>4. PICK next : next = [i \in 1 .. n + 1 |-> IF i = n + 1 THEN c ELSE after[i]]
  OBVIOUS
<1>5. next[1] = Outcome' /\ next[Len(stack') + 1] = Current'
  <2>1. Outcome' = Outcome
    BY Keeps
  <2>. QED
    BY <1>1, <1>2, <1>3, <1>4, <2>1
<1>6. ASSUME NEW i \in 1 .. n
      PROVE  /\ next[i] = Rest(stack'[i].fn, stack'[i].at, place[i], next[i + 1])
             /\ PlacedAt(i, place[i])'
             /\ stack'[i].fn = "fail" => next[i].held.layers # << >>
  <2>1. i \in Nat /\ next[i] = after[i] /\ stack'[i].fn = stack[i].fn
    BY <1>3, <1>4
  <2>2. PlacedAt(i, place[i])'
    BY <1>1, <1>3, <2>1, PlacedKept
  <2>3. CASE i < n
    <3>1. i \in 1 .. n - 1 /\ i + 1 \in 1 .. n + 1 /\ i + 1 # n + 1
      BY <1>3, <2>3
    <3>2. next[i + 1] = after[i + 1]
      BY <1>4, <3>1
    <3>3. stack'[i].at = stack[i].at
      BY <1>3, <3>1
    <3>. QED
      BY <1>1, <2>1, <2>2, <3>2, <3>3
  <2>4. CASE i = n
    <3>1. next[i + 1] = c /\ after[i + 1] = Current /\ stack'[i].at = m
      BY <1>1, <1>3, <1>4, <2>4
    <3>2. after[i] = Rest(Top.fn, Top.at, place[i], Current)
      BY <1>1, <2>4, <3>1 DEF Top
    <3>3. after[i] = Rest(Top.fn, m, place[i], c)
      BY <1>1, <1>2, <2>4, <3>2
    <3>. QED
      BY <1>1, <2>1, <2>2, <2>4, <3>1, <3>3 DEF Top
  <2>. QED
    BY <1>3, <2>3, <2>4
<1>7. \A i \in 1 .. Len(stack') :
        /\ next[i] = Rest(stack[i].fn, stack[i].at, place[i], next[i + 1])'
        /\ PlacedAt(i, place[i])'
        /\ stack'[i].fn = "fail" => next[i].held.layers # << >>
  <2>. SUFFICES ASSUME NEW i \in 1 .. Len(stack')
                PROVE  /\ next[i] = Rest(stack[i].fn, stack[i].at, place[i], next[i + 1])'
                       /\ PlacedAt(i, place[i])'
                       /\ stack'[i].fn = "fail" => next[i].held.layers # << >>
    OBVIOUS
  <2>1. next[i] = Rest(stack'[i].fn, stack'[i].at, place[i], next[i + 1])
    BY <1>3, <1>6
  <2>2. Rest(stack[i].fn, stack[i].at, place[i], next[i + 1])'
          = Rest(stack'[i].fn, stack'[i].at, place[i], next[i + 1])
    BY Keeps
  <2>. QED
    BY <1>3, <1>6, <2>1, <2>2
<1>. QED
  BY <1>5, <1>7 DEF Continues

(* A call is placed, and what it does is done before the rest.              *)
LEMMA CallsOn ==
  ASSUME program \in Programs, line \in 1 .. Len(program),
         stack \in Seq([fn : Function, at : Nat]), stack # << >>, NEW x \in Function, Fits(x),
         Fits(Top.fn), Top.at \in Nat,
         stack' = Append(Advanced(Top.at + 1), Frame(x)), UNCHANGED <<program, line, value>>,
         held \in Value, Current' = Current, Continues,
         \A p : Rest(Top.fn, Top.at, p, Current)
                  = Rest(Top.fn, Top.at + 1, p, Does(x, p, Current))
  PROVE  Continues'
<1>1. PICK after, place :
        /\ after[1] = Outcome
        /\ after[Len(stack) + 1] = Current
        /\ \A i \in 1 .. Len(stack) :
             /\ after[i] = Rest(stack[i].fn, stack[i].at, place[i], after[i + 1])
             /\ PlacedAt(i, place[i])
             /\ stack[i].fn = "fail" => after[i].held.layers # << >>
  BY DEF Continues
<1>. DEFINE n == Len(stack)
            m == Top.at + 1
<1>2. PICK p, q : p = place[n] /\ q = Placed(x, p)
  OBVIOUS
<1>3. PICK c, d : c = Current /\ d = Does(x, p, Current)
  OBVIOUS
<1>4. /\ Len(stack) \in Nat \ {0} /\ Len(stack') = Len(stack) + 1
      /\ \A i \in 1 .. Len(stack) : stack'[i].fn = stack[i].fn
      /\ \A i \in 1 .. Len(stack) - 1 : stack'[i].at = stack[i].at
      /\ stack'[Len(stack)].at = m
      /\ stack'[Len(stack) + 1].fn = x /\ stack'[Len(stack) + 1].at = 1
  <2>1. Len(stack) \in Nat \ {0}
    BY Entries
  <2>2. m \in Nat /\ stack' = Append(Advanced(m), Frame(x))
    OBVIOUS
  <2>. HIDE DEF m
  <2>. QED
    BY <2>1, <2>2, CalledIs
<1>5. PICK next : next = [i \in 1 .. n + 2 |-> IF i = n + 2 THEN c
                                               ELSE IF i = n + 1 THEN d ELSE after[i]]
  OBVIOUS
<1>6. PICK where : where = [i \in 1 .. n + 1 |-> IF i = n + 1 THEN q ELSE place[i]]
  OBVIOUS
<1>7. next[1] = Outcome' /\ next[Len(stack') + 1] = Current'
  <2>1. Outcome' = Outcome
    BY Keeps
  <2>2. 1 \in 1 .. n + 2 /\ 1 # n + 1 /\ 1 # n + 2 /\ Len(stack') + 1 = n + 2
    BY <1>4
  <2>. QED
    BY <1>1, <1>3, <1>4, <1>5, <2>1, <2>2
<1>8. ASSUME NEW i \in 1 .. n + 1
      PROVE  /\ next[i] = Rest(stack'[i].fn, stack'[i].at, where[i], next[i + 1])
             /\ PlacedAt(i, where[i])'
             /\ stack'[i].fn = "fail" => next[i].held.layers # << >>
  <2>1. CASE i \in 1 .. n
    <3>1. i \in Nat /\ next[i] = after[i] /\ stack'[i].fn = stack[i].fn /\ where[i] = place[i]
      <4>1. i \in Nat /\ i \in 1 .. n + 2 /\ i \in 1 .. n + 1 /\ i # n + 1 /\ i # n + 2
        BY <1>4, <2>1
      <4>. QED
        BY <1>4, <1>5, <1>6, <2>1, <4>1
    <3>2. PlacedAt(i, place[i])'
      BY <1>1, <1>4, <2>1, <3>1, PlacedKept, SMTT(30)
    <3>3. CASE i < n
      <4>1. i \in 1 .. n - 1 /\ i + 1 \in 1 .. n + 2 /\ i + 1 # n + 1 /\ i + 1 # n + 2
        BY <1>4, <2>1, <3>3
      <4>2. next[i + 1] = after[i + 1]
        BY <1>5, <4>1
      <4>3. stack'[i].at = stack[i].at
        BY <1>4, <4>1
      <4>. QED
        BY <1>1, <2>1, <3>1, <3>2, <4>2, <4>3
    <3>4. CASE i = n
      <4>1. i + 1 = n + 1 /\ i + 1 \in 1 .. n + 2 /\ i + 1 # n + 2
        BY <1>4, <3>4
      <4>2. next[i + 1] = d /\ after[i + 1] = Current /\ stack'[i].at = m
        BY <1>1, <1>4, <1>5, <3>4, <4>1
      <4>3. after[i] = Rest(Top.fn, Top.at, p, Current)
        BY <1>1, <1>2, <2>1, <3>4, <4>2 DEF Top
      <4>4. after[i] = Rest(Top.fn, m, p, d)
        BY <1>3, <4>3
      <4>. QED
        BY <1>1, <1>2, <2>1, <3>1, <3>2, <3>4, <4>2, <4>4 DEF Top
    <3>. QED
      BY <1>4, <2>1, <3>3, <3>4
  <2>2. CASE i = n + 1
    <3>1. /\ i \in 1 .. n + 2 /\ i # n + 2 /\ i + 1 = n + 2
          /\ i + 1 \in 1 .. n + 2 /\ n \in 1 .. n
      BY <1>4, <2>2
    <3>2. next[i] = d /\ next[i + 1] = c /\ where[i] = q
      BY <1>5, <1>6, <2>2, <3>1
    <3>3. stack'[i].fn = x /\ stack'[i].at = 1
      BY <1>4, <2>2
    <3>4. Rest(x, 1, q, c) = Does(x, p, c)
      BY <1>2, Whole
    <3>5. PlacedAt(i, q)'
      <4>1. PlacedAt(n, p)
        BY <1>1, <1>2, <3>1
      <4>. QED
        BY <1>2, <1>4, <2>2, <4>1, PlacedCalled
    <3>6. x = "fail" => d.held.layers # << >>
      <4>1. ASSUME x = "fail" PROVE d = LeafMade(p, Current)
        BY <1>3, <4>1, LeavesAre
      <4>2. LeafMade(p, Current).held.layers # << >>
        <5>1. held.layers \in Seq(Layer)
          BY ValueIs, Zenon
        <5>2. PICK e : LeafMade(p, Current).held.layers = Append(held.layers, e)
          BY DEF LeafMade, Located, Constructed, State, Current, Err
        <5>. QED
          BY <5>1, <5>2, Longer, Zenon
      <4>. QED
        BY <4>1, <4>2
    <3>. QED
      BY <1>3, <3>2, <3>3, <3>4, <3>5, <3>6
  <2>. QED
    BY <1>4, <2>1, <2>2
<1>9. \A i \in 1 .. Len(stack') :
        /\ next[i] = Rest(stack[i].fn, stack[i].at, where[i], next[i + 1])'
        /\ PlacedAt(i, where[i])'
        /\ stack'[i].fn = "fail" => next[i].held.layers # << >>
  <2>. SUFFICES ASSUME NEW i \in 1 .. Len(stack')
                PROVE  /\ next[i] = Rest(stack[i].fn, stack[i].at, where[i], next[i + 1])'
                       /\ PlacedAt(i, where[i])'
                       /\ stack'[i].fn = "fail" => next[i].held.layers # << >>
    OBVIOUS
  <2>1. next[i] = Rest(stack'[i].fn, stack'[i].at, where[i], next[i + 1])
    BY <1>4, <1>8
  <2>2. Rest(stack[i].fn, stack[i].at, where[i], next[i + 1])'
          = Rest(stack'[i].fn, stack'[i].at, where[i], next[i + 1])
    BY Keeps
  <2>. QED
    BY <1>4, <1>8, <2>1, <2>2
<1>. QED
  BY <1>7, <1>9, ZenonT(30) DEF Continues

(* A function that is done has done what was left to it.                    *)
LEMMA ReturnsOn ==
  ASSUME program \in Programs, line \in 1 .. Len(program),
         stack \in Seq([fn : Function, at : Nat]), Len(stack) > 1,
         stack' = SubSeq(stack, 1, Len(stack) - 1), UNCHANGED <<program, line, value>>,
         Current' = Current, Continues, \A p : Rest(Top.fn, Top.at, p, Current) = Current
  PROVE  Continues' /\ (Top.fn = "fail" => held.layers # << >>)
<1>1. PICK after, place :
        /\ after[1] = Outcome
        /\ after[Len(stack) + 1] = Current
        /\ \A i \in 1 .. Len(stack) :
             /\ after[i] = Rest(stack[i].fn, stack[i].at, place[i], after[i + 1])
             /\ PlacedAt(i, place[i])
             /\ stack[i].fn = "fail" => after[i].held.layers # << >>
  BY DEF Continues
<1>2. /\ Len(stack) \in Nat \ {0, 1} /\ Len(stack') = Len(stack) - 1
      /\ \A i \in 1 .. Len(stack) - 1 : stack'[i] = stack[i]
  BY ReturnedIs, Entries
<1>3. after[Len(stack)] = Current
  BY <1>1, <1>2, SMTT(30) DEF Top
<1>4. after[1] = Outcome' /\ after[Len(stack') + 1] = Current'
  <2>1. Outcome' = Outcome
    BY Keeps
  <2>2. Len(stack') + 1 = Len(stack)
    BY <1>2
  <2>. QED
    BY <1>1, <1>3, <2>1, <2>2
<1>5. ASSUME NEW i \in 1 .. Len(stack')
      PROVE  /\ after[i] = Rest(stack[i].fn, stack[i].at, place[i], after[i + 1])'
             /\ PlacedAt(i, place[i])'
             /\ stack'[i].fn = "fail" => after[i].held.layers # << >>
  <2>1. i \in Nat /\ i \in 1 .. Len(stack) /\ stack'[i] = stack[i]
    BY <1>2
  <2>2. \A j \in 1 .. i : stack'[j].fn = stack[j].fn
    BY <1>2
  <2>3. PlacedAt(i, place[i])'
    BY <1>1, <2>1, <2>2, PlacedKept
  <2>4. Rest(stack[i].fn, stack[i].at, place[i], after[i + 1])'
          = Rest(stack'[i].fn, stack'[i].at, place[i], after[i + 1])
    BY Keeps
  <2>. QED
    BY <1>1, <2>1, <2>3, <2>4
<1>6. Continues'
  BY <1>4, <1>5, ZenonT(30) DEF Continues
<1>7. Top.fn = "fail" => held.layers # << >>
  <2>1. Len(stack) \in 1 .. Len(stack)
    BY <1>2
  <2>2. Current.held = held
    BY DEF Current, State
  <2>. QED
    BY <1>1, <1>3, <2>1, <2>2 DEF Top
<1>. QED
  BY <1>6, <1>7

(* Where a source is wrapped it is looked for before anything else.         *)
LEMMA LooksFirst ==
  ASSUME program \in Programs, line \in 1 .. Len(program), NEW f, Fits(f),
         f \in Method \union {Within}, Use \notin Fresh, Len(Body(f)) > 1
  PROVE  Body(f)[1] = "if_err"
<1>1. /\ Use \in Uses /\ Within \in {"main", "tracked", "combinator"}
      /\ Within \notin Method /\ Within \notin Helper
      /\ Use \in Method => Use \notin Helper
  BY Distinct
<1>2. /\ Use \notin {"fail", "ensure"} /\ Use # "ensure_into"
      /\ Use \notin {"whatever", "ensure_whatever"}
      /\ Use # "option_context" /\ Use # "option_with_context"
      /\ Use # "option_whatever_context" /\ Use # "option_with_whatever_context"
  BY DEF Fresh, Promise!Fresh
<1>3. ~ (f = "main" /\ Within # "main")
  BY <1>1, MethodIs
<1>4. f \notin Helper
  BY <1>1, MethodIs DEF Fits, Helper, Leaves, NeedsSource, Converters
<1>5. \A a : Body(f) # <<a>>
  <2>1. ASSUME NEW a, Body(f) = <<a>> PROVE FALSE
    <3>1. Len(Body(f)) = 1
      BY <2>1, SingleIs, Zenon
    <3>. QED
      BY <3>1
  <2>. QED
    BY <2>1
<1>6. ASSUME OfStatement(f)
      PROVE  \/ Body(f) = <<"if_err", "format", "with_source">>
             \/ Body(f) = <<"if_err", "from_residual">>
  BY <1>2, <1>3, <1>5, <1>6, Zenon DEF OfStatement
<1>7. ASSUME OfMethod(f)
      PROVE  \/ Body(f) = <<"if_err", "into_error">>
             \/ Body(f) = <<"if_err", "closure", "into_error">>
             \/ Body(f) = <<"if_err", "with_source">>
             \/ Body(f) = <<"if_err", "closure", "with_source">>
  BY <1>2, <1>7, Zenon DEF OfMethod
<1>8. ~ OfHelper(f)
  <2>. SUFFICES ASSUME OfHelper(f) PROVE f \in Helper
    BY <1>4
  <2>. QED
    BY DEF OfHelper, Helper, Leaves, NeedsSource, Converters
<1>9. \/ \E a : Body(f) = <<"if_err", a>>
      \/ \E a, b : Body(f) = <<"if_err", a, b>>
  BY <1>6, <1>7, <1>8, Table, Zenon
<1>. QED
  BY <1>9, PairIs, FirstIs, Zenon

(* Where the functions are, after a step, a call and a return.              *)
LEMMA PathOn ==
  ASSUME program \in Programs, line \in 1 .. Len(program), UNCHANGED <<program, line, value>>,
         stack \in Seq([fn : Function, at : Nat]), Path,
         NEW m \in 2 .. Len(Body(Top.fn)) + 1, stack' = Advanced(m)
  PROVE  Path'
<1>1. /\ Len(stack) \in Nat \ {0} /\ Len(stack') = Len(stack)
      /\ \A i \in 1 .. Len(stack) : stack'[i].fn = stack[i].fn
      /\ \A i \in 1 .. Len(stack) - 1 : stack'[i].at = stack[i].at
      /\ stack'[Len(stack)].at = m
  <2>1. stack # << >> /\ Len(Body(Top.fn)) \in 1 .. 3
    <3>1. Len(stack) > 0 /\ Len(stack) \in Nat
      BY DEF Path
    <3>2. Len(stack) \in 1 .. Len(stack)
      BY <3>1
    <3>3. Fits(Top.fn)
      BY <3>2 DEF Path, Top
    <3>4. stack # << >>
      BY <3>1
    <3>. QED
      BY <3>3, <3>4, Calls
  <2>2. m \in Nat
    BY <2>1
  <2>. QED
    BY <2>1, <2>2, AdvancedIs
<1>2. /\ \A f : Body(f)' = Body(f) /\ Fits(f)' = Fits(f)
  BY Keeps
<1>3. Len(stack') > 0 /\ stack'[1].fn = "main"
  BY <1>1 DEF Path
<1>4. ASSUME NEW i \in 1 .. Len(stack')
      PROVE  Fits(stack'[i].fn) /\ stack'[i].at \in 1 .. Len(Body(stack'[i].fn)) + 1
  <2>1. i \in 1 .. Len(stack) - 1 \/ i = Len(stack)
    BY <1>1
  <2>2. CASE i \in 1 .. Len(stack) - 1
    <3>1. i \in 1 .. Len(stack)
      BY <1>1, <2>2
    <3>. QED
      BY <1>1, <2>2, <3>1 DEF Path
  <2>3. CASE i = Len(stack)
    <3>1. i \in 1 .. Len(stack) /\ stack'[i].fn = Top.fn /\ stack'[i].at = m
      BY <1>1, <2>3 DEF Top
    <3>2. Fits(Top.fn) /\ Len(Body(Top.fn)) \in 1 .. 3
      BY <2>3, <3>1, Calls DEF Path, Top
    <3>. QED
      BY <3>1, <3>2
  <2>. QED
    BY <2>1, <2>2, <2>3
<1>5. ASSUME NEW i \in 2 .. Len(stack')
      PROVE  /\ stack'[i - 1].at > 1
             /\ stack'[i].fn = Body(stack'[i - 1].fn)[stack'[i - 1].at - 1]
  <2>1. i - 1 \in 1 .. Len(stack) - 1 /\ i - 1 \in 1 .. Len(stack) /\ i \in 1 .. Len(stack)
    BY <1>1
  <2>. QED
    BY <1>1, <2>1 DEF Path
<1>. QED
  BY <1>2, <1>3, <1>4, <1>5 DEF Path

LEMMA PathCalled ==
  ASSUME program \in Programs, line \in 1 .. Len(program), UNCHANGED <<program, line, value>>,
         stack \in Seq([fn : Function, at : Nat]), Path, Top.at <= Len(Body(Top.fn)),
         Now \in Function, Fits(Now), stack' = Append(Advanced(Top.at + 1), Frame(Now))
  PROVE  Path'
<1>. DEFINE m == Top.at + 1
            n == Len(stack)
<1>1. n \in Nat \ {0}
  BY Entries DEF Path
<1>2. /\ Fits(Top.fn) /\ Top.at \in 1 .. Len(Body(Top.fn))
      /\ Len(Body(Top.fn)) \in 1 .. 3 /\ Len(Body(Now)) \in 1 .. 3
  BY <1>1, Calls DEF Path, Top
<1>3. m \in Nat /\ m > 1 /\ m - 1 = Top.at /\ m \in 1 .. Len(Body(Top.fn)) + 1
  BY <1>2
<1>4. /\ Len(stack') = n + 1
      /\ \A i \in 1 .. n : stack'[i].fn = stack[i].fn
      /\ \A i \in 1 .. n - 1 : stack'[i].at = stack[i].at
      /\ stack'[n].at = m
      /\ stack'[n + 1].fn = Now /\ stack'[n + 1].at = 1
  <2>1. stack # << >> /\ stack' = Append(Advanced(m), Frame(Now))
    BY <1>1
  <2>. HIDE DEF m, n
  <2>2. n = Len(stack)
    BY DEF n
  <2>. QED
    BY <1>1, <1>3, <2>1, <2>2, CalledIs
<1>. HIDE DEF m
<1>5. /\ \A f : Body(f)' = Body(f) /\ Fits(f)' = Fits(f)
  BY Keeps
<1>6. Len(stack') > 0 /\ stack'[1].fn = "main"
  BY <1>1, <1>4 DEF Path
<1>7. ASSUME NEW i \in 1 .. Len(stack')
      PROVE  Fits(stack'[i].fn) /\ stack'[i].at \in 1 .. Len(Body(stack'[i].fn)) + 1
  <2>1. i \in 1 .. n - 1 \/ i = n \/ i = n + 1
    BY <1>1, <1>4
  <2>2. CASE i \in 1 .. n - 1
    <3>1. i \in 1 .. n
      BY <1>1, <2>2
    <3>. QED
      BY <1>1, <1>4, <2>2, <3>1 DEF Path
  <2>3. CASE i = n
    BY <1>1, <1>2, <1>3, <1>4, <2>3, SMTT(30) DEF Top
  <2>4. CASE i = n + 1
    BY <1>2, <1>4, <2>4, SMTT(30)
  <2>. QED
    BY <2>1, <2>2, <2>3, <2>4
<1>8. ASSUME NEW i \in 2 .. Len(stack')
      PROVE  /\ stack'[i - 1].at > 1
             /\ stack'[i].fn = Body(stack'[i - 1].fn)[stack'[i - 1].at - 1]
  <2>1. CASE i \in 2 .. n
    <3>1. i - 1 \in 1 .. n - 1 /\ i - 1 \in 1 .. n /\ i \in 1 .. n
      BY <1>1, <2>1
    <3>. QED
      BY <1>4, <2>1, <3>1 DEF Path
  <2>2. CASE i = n + 1
    <3>1. i - 1 = n /\ n \in 1 .. n
      BY <1>1, <2>2
    <3>2. stack'[i - 1].at = m /\ stack'[i - 1].fn = Top.fn /\ stack'[i].fn = Now
      BY <1>4, <2>2, <3>1 DEF Top
    <3>. QED
      BY <1>3, <3>2 DEF Now
  <2>. QED
    BY <1>1, <1>4, <2>1, <2>2
<1>. QED
  BY <1>5, <1>6, <1>7, <1>8 DEF Path

LEMMA PathReturned ==
  ASSUME program \in Programs, line \in 1 .. Len(program), UNCHANGED <<program, line, value>>,
         stack \in Seq([fn : Function, at : Nat]), Path, Len(stack) > 1,
         stack' = SubSeq(stack, 1, Len(stack) - 1)
  PROVE  Path'
<1>1. /\ Len(stack) \in Nat \ {0, 1} /\ Len(stack') = Len(stack) - 1
      /\ \A i \in 1 .. Len(stack) - 1 : stack'[i] = stack[i]
  BY ReturnedIs, Entries
<1>2. /\ \A f : Body(f)' = Body(f) /\ Fits(f)' = Fits(f)
  BY Keeps
<1>3. Len(stack') > 0 /\ stack'[1].fn = "main"
  BY <1>1 DEF Path
<1>4. \A i \in 1 .. Len(stack') :
        Fits(stack'[i].fn) /\ stack'[i].at \in 1 .. Len(Body(stack'[i].fn)) + 1
  BY <1>1, SMTT(30) DEF Path
<1>5. ASSUME NEW i \in 2 .. Len(stack')
      PROVE  /\ stack'[i - 1].at > 1
             /\ stack'[i].fn = Body(stack'[i - 1].fn)[stack'[i - 1].at - 1]
  <2>1. i - 1 \in 1 .. Len(stack) - 1 /\ i \in 1 .. Len(stack) - 1 /\ i \in 2 .. Len(stack)
    BY <1>1
  <2>. QED
    BY <1>1, <2>1 DEF Path
<1>. QED
  BY <1>2, <1>3, <1>4, <1>5 DEF Path

LEMMA EnsureIs ==
  ASSUME program \in Programs, line \in 1 .. Len(program), Use = "ensure_into"
  PROVE  Len(Body(Within)) = 3
<1>1. Within \in {"main", "tracked", "combinator"}
  BY StatementIs
<1>2. Body(Within) = <<"if_none", "fail", "map_err">>
  BY <1>1, BodyIs, ExpansionIs, Zenon
<1>. QED
  BY <1>2, TripleIs, Zenon

(* The function that is executed.                                           *)
LEMMA TopIs ==
  ASSUME program \in Programs, line \in 1 .. Len(program),
         stack \in Seq([fn : Function, at : Nat]), Path
  PROVE  /\ Len(stack) \in Nat \ {0} /\ Len(stack) \in 1 .. Len(stack) /\ stack # << >>
         /\ Fits(Top.fn) /\ Len(Body(Top.fn)) \in 1 .. 3
         /\ Top.at \in 1 .. Len(Body(Top.fn)) + 1
         /\ Top.at <= Len(Body(Top.fn)) => Called(Top.fn, Top.at, Now)
<1>1. Len(stack) \in Nat /\ Len(stack) > 0
  BY DEF Path
<1>2. Len(stack) \in Nat \ {0} /\ Len(stack) \in 1 .. Len(stack) /\ stack # << >>
  BY <1>1
<1>3. Fits(Top.fn) /\ Top.at \in 1 .. Len(Body(Top.fn)) + 1
  BY <1>2 DEF Path, Top
<1>4. Len(Body(Top.fn)) \in 1 .. 3
  BY <1>3, Calls
<1>5. Top.at <= Len(Body(Top.fn)) => Called(Top.fn, Top.at, Now)
  <2>. SUFFICES ASSUME Top.at <= Len(Body(Top.fn)) PROVE Called(Top.fn, Top.at, Now)
    OBVIOUS
  <2>1. Top.at \in 1 .. Len(Body(Top.fn))
    BY <1>3, <1>4
  <2>. QED
    BY <1>3, <2>1, Calls DEF Now
<1>. QED
  BY <1>2, <1>3, <1>4, <1>5

(* What needs a source has one, after a step, a call and a return.          *)
LEMMA NeedsKept ==
  ASSUME UNCHANGED <<program, line, value>>, NEW f, NEW n
  PROVE  Needs(f, n)' = Needs(f, n) /\ Awaits(f, n)' = Awaits(f, n)
<1>1. Use' = Use /\ Within' = Within /\ Body(f)' = Body(f)
  BY Keeps
<1>. QED
  BY <1>1 DEF Needs, Awaits

LEMMA SourcesOn ==
  ASSUME program \in Programs, line \in 1 .. Len(program), UNCHANGED <<program, line, value>>,
         stack \in Seq([fn : Function, at : Nat]), Path, Sources, IsError(held),
         Top.at <= Len(Body(Top.fn)), Now \in Step,
         NEW m \in Nat,
         \/ m = Len(Body(Top.fn)) + 1
         \/ m = Top.at + 1 /\ (Now = "if_err" => held.kind = "err"),
         stack' = Advanced(m), held.layers # << >> => held'.layers # << >>
  PROVE  Sources'
<1>1. PICK n, f, a : n = Len(stack) /\ f = Top.fn /\ a = Top.at
  OBVIOUS
<1>2. n \in Nat \ {0} /\ n \in 1 .. n /\ stack # << >>
  BY <1>1, TopIs
<1>3. /\ Fits(f) /\ a \in 1 .. Len(Body(f)) /\ Len(Body(f)) \in 1 .. 3
      /\ Called(f, a, Now)
  BY <1>1, TopIs
<1>4. /\ Len(stack') = n /\ Top'.fn = f /\ Top'.at = m
      /\ \A i \in 1 .. n : stack'[i].fn = stack[i].fn
      /\ \A i \in 1 .. n - 1 : stack'[i].at = stack[i].at
  <2>1. /\ Len(stack') = n
        /\ \A i \in 1 .. n : stack'[i].fn = stack[i].fn
        /\ \A i \in 1 .. n - 1 : stack'[i].at = stack[i].at
        /\ stack'[n].at = m
    BY <1>1, <1>2, AdvancedIs, ZenonT(30)
  <2>2. Top'.fn = f /\ Top'.at = m
    BY <1>1, <1>2, <2>1 DEF Top
  <2>. QED
    BY <2>1, <2>2
<1>5. Needs(f, a) => held.layers # << >>
  BY <1>1, <1>2 DEF Sources, Top
<1>6. Needs(f, m) => held.layers # << >>
  <2>1. CASE f \in NeedsSource
    BY <1>5, <2>1 DEF Needs
  <2>2. CASE f \in Method \union {Within} /\ Use \notin Fresh /\ m \in 2 .. Len(Body(f))
    <3>1. m = a + 1 /\ (Now = "if_err" => held.kind = "err")
      BY <1>1, <1>3, <2>2
    <3>2. CASE a = 1
      <4>1. Len(Body(f)) > 1
        BY <1>3, <2>2
      <4>2. Now = Body(f)[1]
        BY <1>1, <3>2 DEF Now
      <4>3. Now = "if_err"
        BY <1>3, <2>2, <4>1, <4>2, LooksFirst
      <4>. QED
        BY <3>1, <4>3 DEF IsError
    <3>3. CASE a # 1
      <4>1. a \in 2 .. Len(Body(f))
        BY <1>3, <3>3
      <4>. QED
        BY <1>5, <2>2, <4>1 DEF Needs
    <3>. QED
      BY <3>2, <3>3
  <2>. QED
    BY <2>1, <2>2 DEF Needs
<1>7. ~ Awaits(f, m)
  <2>. SUFFICES ASSUME Use = "ensure_into", f = Within, m = 3 PROVE FALSE
    BY DEF Awaits
  <2>1. Len(Body(f)) = 3
    BY EnsureIs
  <2>2. a = 2
    BY <1>1, <1>3, <2>1
  <2>3. Now = "fail"
    BY <1>3, <2>2 DEF Called
  <2>. QED
    BY <2>3 DEF Step, Tests
<1>8. \A i \in 1 .. Len(stack') :
        Needs(stack'[i].fn, stack'[i].at) => held.layers # << >>
  <2>. SUFFICES ASSUME NEW i \in 1 .. n, Needs(stack'[i].fn, stack'[i].at)
                PROVE  held.layers # << >>
    BY <1>4
  <2>1. CASE i \in 1 .. n - 1
    <3>1. stack'[i].fn = stack[i].fn /\ stack'[i].at = stack[i].at
      BY <1>4, <2>1
    <3>. QED
      BY <1>1, <3>1 DEF Sources
  <2>2. CASE i = n
    <3>1. stack'[i].fn = f /\ stack'[i].at = m
      BY <1>4, <2>2 DEF Top
    <3>. QED
      BY <1>6, <3>1
  <2>. QED
    BY <1>2, <2>1, <2>2
<1>. QED
  BY <1>4, <1>7, <1>8, NeedsKept DEF Sources

LEMMA SourcesCalled ==
  ASSUME program \in Programs, line \in 1 .. Len(program), UNCHANGED <<program, line, value>>,
         stack \in Seq([fn : Function, at : Nat]), Path, Sources,
         Top.at <= Len(Body(Top.fn)), Now \in Function, Now \notin Step,
         stack' = Append(Advanced(Top.at + 1), Frame(Now)), held' = held
  PROVE  Sources'
<1>1. PICK n, f, a, x : n = Len(stack) /\ f = Top.fn /\ a = Top.at /\ x = Now
  OBVIOUS
<1>2. n \in Nat \ {0} /\ n \in 1 .. n /\ stack # << >>
  BY <1>1, TopIs
<1>3. /\ Fits(f) /\ a \in 1 .. Len(Body(f)) /\ Len(Body(f)) \in 1 .. 3
      /\ Called(f, a, x)
  BY <1>1, TopIs
<1>4. /\ Len(stack') = n + 1 /\ Top'.fn = x /\ Top'.at = 1
      /\ \A i \in 1 .. n : stack'[i].fn = stack[i].fn
      /\ \A i \in 1 .. n - 1 : stack'[i].at = stack[i].at
      /\ stack'[n].at = a + 1
  <2>1. a + 1 \in Nat /\ x \in Function /\ stack' = Append(Advanced(a + 1), Frame(x))
    BY <1>1, <1>3
  <2>. QED
    BY <1>1, <1>2, <2>1, CalledIs DEF Top
<1>5. Needs(f, a) \/ Awaits(f, a) => held.layers # << >>
  BY <1>1, <1>2 DEF Sources, Top
<1>6. Needs(f, a + 1) => held.layers # << >>
  <2>1. CASE f \in NeedsSource
    BY <1>5, <2>1 DEF Needs
  <2>2. CASE f \in Method \union {Within} /\ Use \notin Fresh /\ a + 1 \in 2 .. Len(Body(f))
    <3>1. a # 1
      <4>1. Len(Body(f)) > 1
        BY <1>3, <2>2
      <4>2. Body(f)[1] = "if_err"
        BY <1>3, <2>2, <4>1, LooksFirst
      <4>. QED
        BY <1>1, <4>2 DEF Now, Step, Tests
    <3>2. a \in 2 .. Len(Body(f))
      BY <1>3, <3>1
    <3>. QED
      BY <1>5, <2>2, <3>2 DEF Needs
  <2>. QED
    BY <2>1, <2>2 DEF Needs
<1>7. Needs(x, 1) => held.layers # << >>
  <2>1. 1 \notin 2 .. Len(Body(x))
    OBVIOUS
  <2>2. x \in NeedsSource => Needs(f, a) \/ Awaits(f, a)
    <3>1. a > 1 => a \in 2 .. Len(Body(f))
      BY <1>3
    <3>. QED
      BY <1>3, <3>1 DEF Called, Needs, Awaits
  <2>. QED
    BY <1>5, <2>1, <2>2 DEF Needs
<1>8. \A i \in 1 .. Len(stack') :
        Needs(stack'[i].fn, stack'[i].at) => held.layers # << >>
  <2>. SUFFICES ASSUME NEW i \in 1 .. n + 1, Needs(stack'[i].fn, stack'[i].at)
                PROVE  held.layers # << >>
    BY <1>4
  <2>1. CASE i \in 1 .. n - 1
    <3>1. i \in 1 .. n
      BY <1>2, <2>1
    <3>2. stack'[i].fn = stack[i].fn /\ stack'[i].at = stack[i].at
      BY <1>4, <2>1, <3>1
    <3>. QED
      BY <1>1, <3>1, <3>2 DEF Sources
  <2>2. CASE i = n
    <3>1. stack'[i].fn = f /\ stack'[i].at = a + 1
      BY <1>1, <1>2, <1>4, <2>2 DEF Top
    <3>. QED
      BY <1>6, <3>1
  <2>3. CASE i = n + 1
    <3>1. stack'[i].fn = x /\ stack'[i].at = 1
      BY <1>4, <2>3 DEF Top
    <3>. QED
      BY <1>7, <3>1
  <2>. QED
    BY <1>2, <2>1, <2>2, <2>3
<1>9. ~ Awaits(x, 1)
  BY DEF Awaits
<1>. QED
  BY <1>4, <1>8, <1>9, NeedsKept DEF Sources

LEMMA SourcesReturned ==
  ASSUME program \in Programs, line \in 1 .. Len(program), UNCHANGED <<program, line, value>>,
         stack \in Seq([fn : Function, at : Nat]), Path, Sources, Len(stack) > 1,
         Top.fn = "fail" => held.layers # << >>,
         stack' = SubSeq(stack, 1, Len(stack) - 1), held' = held
  PROVE  Sources'
<1>1. PICK n : n = Len(stack)
  OBVIOUS
<1>2. /\ n \in Nat \ {0, 1} /\ Len(stack') = n - 1
      /\ \A i \in 1 .. n - 1 : stack'[i] = stack[i]
  BY <1>1, ReturnedIs, Entries
<1>3. n \in 2 .. n /\ n - 1 \in 1 .. n /\ n - 1 \in 1 .. n - 1
  BY <1>2
<1>4. ASSUME Awaits(stack[n - 1].fn, stack[n - 1].at)
      PROVE  held.layers # << >>
  <2>1. Use = "ensure_into" /\ stack[n - 1].fn = Within /\ stack[n - 1].at = 3
    BY <1>4 DEF Awaits
  <2>2. Top.fn = Body(Within)[stack[n - 1].at - 1] /\ Fits(Within)
    BY <1>1, <1>3, <2>1 DEF Path, Top
  <2>3. stack[n - 1].at - 1 = 2
    <3>1. PICK k : k = stack[n - 1].at
      OBVIOUS
    <3>2. k = 3
      BY <2>1, <3>1, Zenon
    <3>3. k - 1 = 2
      BY <3>2
    <3>. QED
      BY <3>1, <3>3, Zenon
  <2>4. 2 \in 1 .. Len(Body(Within))
    <3>1. Len(Body(Within)) = 3
      BY <2>1, EnsureIs, Zenon
    <3>. QED
      BY <3>1
  <2>5. Called(Within, 2, Top.fn)
    BY <2>2, <2>3, <2>4, Calls
  <2>6. Top.fn = "fail"
    BY <2>1, <2>5 DEF Called
  <2>. QED
    BY <2>6
<1>5. \A i \in 1 .. Len(stack') :
        Needs(stack'[i].fn, stack'[i].at) => held.layers # << >>
  <2>. SUFFICES ASSUME NEW i \in 1 .. n - 1, Needs(stack'[i].fn, stack'[i].at)
                PROVE  held.layers # << >>
    BY <1>2
  <2>1. i \in 1 .. n /\ stack'[i] = stack[i]
    BY <1>2
  <2>. QED
    BY <1>1, <2>1 DEF Sources
<1>6. Awaits(Top'.fn, Top'.at) => held.layers # << >>
  BY <1>2, <1>3, <1>4 DEF Top
<1>. QED
  BY <1>5, <1>6, NeedsKept DEF Sources

(* The layers of an error.                                                  *)
LEMMA LayerIs ==
  ASSUME NEW e \in Layer
  PROVE  e.site \in Nat /\ e.marks \in Marks /\ e.loc \in Place /\ e.shown \in Shown
BY DEF Layer

LEMMA MarkedIs ==
  ASSUME NEW e \in Layer, NEW x \in {"closure", "transform"}
  PROVE  /\ [e EXCEPT !.marks = Append(@, x)] \in Layer
         /\ [e EXCEPT !.marks = Append(@, x)].site = e.site
         /\ [e EXCEPT !.marks = Append(@, x)].marks = Append(e.marks, x)
         /\ [e EXCEPT !.marks = Append(@, x)].loc = e.loc
         /\ [e EXCEPT !.marks = Append(@, x)].shown = e.shown
<1>1. Append(e.marks, x) \in Marks
  BY LayerIs DEF Marks
<1>. QED
  BY <1>1 DEF Layer

LEMMA NotedIs ==
  ASSUME NEW l \in Seq(Layer), NEW x \in {"closure", "transform"}
  PROVE  /\ Noted(l, x) \in Seq(Layer) /\ Len(Noted(l, x)) = Len(l)
         /\ l # << >> => Noted(l, x) # << >>
         /\ \A i \in 1 .. Len(l) - 1 : Noted(l, x)[i] = l[i]
         /\ l # << >> => /\ Noted(l, x)[Len(l)].site = l[Len(l)].site
                         /\ Noted(l, x)[Len(l)].marks = Append(l[Len(l)].marks, x)
                         /\ Noted(l, x)[Len(l)].loc = l[Len(l)].loc
                         /\ Noted(l, x)[Len(l)].shown = l[Len(l)].shown
<1>1. CASE l = << >>
  BY <1>1 DEF Noted
<1>2. CASE l # << >>
  <2>1. Len(l) \in Nat \ {0} /\ \A i \in 1 .. Len(l) : l[i] \in Layer
    BY <1>2, Entries
  <2>2. l[Len(l)] \in Layer
    BY <2>1
  <2>3. PICK e : e = [l[Len(l)] EXCEPT !.marks = Append(@, x)]
    OBVIOUS
  <2>4. /\ e \in Layer /\ e.site = l[Len(l)].site /\ e.marks = Append(l[Len(l)].marks, x)
        /\ e.loc = l[Len(l)].loc /\ e.shown = l[Len(l)].shown
    BY <2>2, <2>3, MarkedIs
  <2>5. Noted(l, x) = [l EXCEPT ![Len(l)] = e]
    BY <1>2, <2>1, <2>3 DEF Noted
  <2>6. /\ Noted(l, x) \in Seq(Layer) /\ Len(Noted(l, x)) = Len(l)
        /\ \A i \in 1 .. Len(l) - 1 : Noted(l, x)[i] = l[i]
        /\ Noted(l, x)[Len(l)] = e
    BY <1>2, <2>4, <2>5, Replaced
  <2>7. Noted(l, x) # << >>
    BY <2>1, <2>6
  <2>. QED
    BY <2>4, <2>6, <2>7
<1>. QED
  BY <1>1, <1>2

LEMMA AddedIs ==
  ASSUME line \in Nat, NEW d \in [loc : Place, shown : Shown]
  PROVE  /\ Added(d) \in Layer /\ Added(d).site = line /\ Added(d).marks = << >>
         /\ Added(d).loc = d.loc /\ Added(d).shown = d.shown
<1>1. << >> \in Marks
  BY DEF Marks
<1>. QED
  BY <1>1 DEF Added, Layer

LEMMA LastMarksAre ==
  ASSUME NEW l \in Seq(Layer), l # << >>
  PROVE  LastMarks(l) \in Marks /\ LastMarks(l) \in Shown
<1>1. l[Len(l)] \in Layer
  <2>1. Len(l) \in Nat \ {0} /\ \A i \in 1 .. Len(l) : l[i] \in Layer
    BY Entries
  <2>. QED
    BY <2>1
<1>. QED
  BY <1>1, LayerIs DEF LastMarks, Marks, Shown

LEMMA ErrTyped ==
  ASSUME NEW k \in {"ok", "none", "err"}, NEW c \in Nat, NEW l \in Seq(Layer)
  PROVE  /\ Err(k, c, l) \in Value
         /\ Err(k, c, l).kind = k /\ Err(k, c, l).calls = c /\ Err(k, c, l).layers = l
BY DEF Err, Value

LEMMA ErrNormal ==
  ASSUME NEW v \in Value
  PROVE  v = Err(v.kind, v.calls, v.layers)
BY DEF Err, Value

LEMMA DataIs ==
  ASSUME NEW d \in [loc : Place, shown : Shown], NEW p \in Place, NEW x \in Shown
  PROVE  /\ d = Data(d.loc, d.shown) /\ d.loc \in Place /\ d.shown \in Shown
         /\ [d EXCEPT !.shown = x] = Data(d.loc, x)
         /\ [d EXCEPT !.loc = p] = Data(p, d.shown)
         /\ Data(p, x) \in [loc : Place, shown : Shown]
         /\ Data(p, x).loc = p /\ Data(p, x).shown = x
BY DEF Data

(* The steps are what they are said to be.                                  *)
LEMMA MarkIs ==
  ASSUME NEW x
  PROVE  Mark(x) = Noted(held.layers, x)
BY DEF Mark, Noted

LEMMA TreatDoes ==
  ASSUME held \in Value, Treat
  PROVE  /\ Current' = Treated(Current, Now)
         /\ held' \in Value /\ held'.kind = held.kind
         /\ held'.layers # << >> <=> held.layers # << >>
<1>1. PICK k, c, l : /\ k = held.kind /\ c = held.calls /\ l = held.layers
                     /\ k \in {"ok", "none", "err"} /\ c \in Nat /\ l \in Seq(Layer)
                     /\ held = Err(k, c, l)
  BY ErrNormal, ValueIs
<1>2. PICK a, b : /\ a = IF Now = "transform" THEN c ELSE c + 1
                  /\ b = CASE Now = "look" -> Noted(l, "closure")
                           [] Now = "transform" -> Noted(l, "transform")
                           [] OTHER -> l
  OBVIOUS
<1>3. held' = [held EXCEPT !.calls = a, !.layers = b]
  <2>1. a = IF Now = "transform" THEN held.calls ELSE held.calls + 1
    BY <1>1, <1>2, Zenon
  <2>2. b = CASE Now = "look" -> Mark("closure")
              [] Now = "transform" -> Mark("transform")
              [] OTHER -> held.layers
    BY <1>1, <1>2, MarkIs, Zenon
  <2>3. held' = [held EXCEPT
                   !.calls = IF Now = "transform" THEN held.calls ELSE held.calls + 1,
                   !.layers = CASE Now = "look" -> Mark("closure")
                                [] Now = "transform" -> Mark("transform")
                                [] OTHER -> held.layers]
    BY DEF Treat
  <2>. QED
    BY <2>1, <2>2, <2>3
<1>4. held' = Err(k, a, b)
  <2>1. PICK v : v = Err(k, c, l)
    OBVIOUS
  <2>2. PICK w : w = [v EXCEPT !.calls = a, !.layers = b]
    OBVIOUS
  <2>3. /\ DOMAIN w = {"kind", "calls", "layers"}
        /\ w.kind = k /\ w.calls = a /\ w.layers = b
    BY <2>1, <2>2 DEF Err
  <2>4. w = [x \in DOMAIN w |-> w[x]]
    BY <2>1, <2>2 DEF Err
  <2>5. w = Err(k, a, b)
    BY <2>3, <2>4 DEF Err
  <2>6. held' = [v EXCEPT !.calls = a, !.layers = b]
    BY <1>1, <1>3, <2>1
  <2>. QED
    BY <2>2, <2>5, <2>6
<1>5. Current' = Treated(Current, Now)
  <2>1. data' = data
    BY DEF Treat
  <2>2. Current.held = held /\ Current.data = data
    BY DEF Current, State
  <2>3. Treated(Current, Now) = State(Err(k, a, b), data)
    BY <1>1, <1>2, <2>2, Zenon DEF Treated
  <2>4. Current' = State(held', data')
    BY DEF Current
  <2>. QED
    BY <1>4, <2>1, <2>3, <2>4, Zenon
<1>6. a \in Nat /\ b \in Seq(Layer) /\ (l = << >> => b = << >>) /\ (l # << >> => b # << >>)
  <2>1. a = c \/ a = c + 1
    BY <1>2, Zenon
  <2>2. l = << >> => b = << >>
    BY <1>2 DEF Noted
  <2>3. b \in Seq(Layer) /\ (l # << >> => b # << >>)
    BY <1>1, <1>2, NotedIs
  <2>. QED
    BY <1>1, <2>1, <2>2, <2>3
<1>7. held' \in Value /\ held'.kind = k /\ held'.layers = b
  <2>1. Err(k, a, b) \in Value /\ Err(k, a, b).kind = k /\ Err(k, a, b).layers = b
    BY <1>1, <1>6, ErrTyped
  <2>. QED
    BY <1>4, <2>1
<1>. QED
  BY <1>1, <1>5, <1>6, <1>7, Zenon

LEMMA GenerateDoes ==
  ASSUME program \in Programs, line \in 1 .. Len(program),
         held \in Value, data \in [loc : Place, shown : Shown],
         stack \in Seq([fn : Function, at : Nat]), Path, Sources, Generate,
         NEW p, PlacedAt(Len(stack), p)
  PROVE  /\ Current' = Does(Now, p, Current)
         /\ data' \in [loc : Place, shown : Shown]
<1>1. PICK q, x : q = data.loc /\ x = data.shown /\ data = Data(q, x) /\ q \in Place /\ x \in Shown
  BY DataIs, LastMarksAre DEF Data
<1>2. Current.held = held /\ Current.data = data
  BY DEF Current, State
<1>3. held' = held
  BY DEF Generate
<1>4. CASE Now = "show"
  <2>1. held.layers # << >>
    <3>1. Called(Top.fn, Top.at, Now)
      BY TopIs DEF Generate, AtEnd
    <3>2. Needs(Top.fn, Top.at) \/ Awaits(Top.fn, Top.at)
      <4>1. Top.at > 1 => Top.at \in 2 .. Len(Body(Top.fn))
        BY TopIs DEF Generate, AtEnd
      <4>. QED
        BY <1>4, <3>1, <4>1 DEF Called, Needs, Awaits
    <3>. QED
      BY <3>2, TopIs DEF Sources, Top
  <2>2. PICK m : m = LastMarks(held.layers) /\ m \in Shown
    BY <2>1, LastMarksAre, ValueIs
  <2>3. data' = [data EXCEPT !.shown = m]
    BY <1>4, <2>2 DEF Generate, LastMarks
  <2>4. data' = Data(q, m) /\ data' \in [loc : Place, shown : Shown]
    BY <1>1, <2>2, <2>3, DataIs
  <2>5. Does(Now, p, Current) = State(held, Data(q, m))
    BY <1>1, <1>2, <1>4, <2>2, StepsAre DEF Shows
  <2>. QED
    BY <1>3, <2>4, <2>5 DEF Current, State
<1>5. CASE Now = "caller"
  <2>1. Caller = Here(p) /\ Here(p) \in Place
    <3>1. Caller = Here(p) /\ p \in Function
      BY CallerIs DEF Here
    <3>2. line \in 0 .. MaxStatements
      BY ProgramsAssumption, MaxStatementsAssumption
    <3>. QED
      BY <3>1, <3>2 DEF Place, Here
  <2>2. PICK h : h = Here(p) /\ h \in Place
    BY <2>1
  <2>3. data' = [data EXCEPT !.loc = h]
    BY <1>5, <2>1, <2>2 DEF Generate
  <2>4. data' = Data(h, x) /\ data' \in [loc : Place, shown : Shown]
    BY <1>1, <2>2, <2>3, DataIs
  <2>5. Does(Now, p, Current) = State(held, Data(h, x))
    BY <1>1, <1>2, <1>5, <2>2, StepsAre DEF Located
  <2>. QED
    BY <1>3, <2>4, <2>5 DEF Current, State
<1>. QED
  BY <1>4, <1>5 DEF Generate

LEMMA ConstructDoes ==
  ASSUME held \in Value, data \in [loc : Place, shown : Shown], line \in Nat, Construct
  PROVE  /\ Current' = Constructed(Current)
         /\ held' \in Value /\ held'.kind = "err" /\ held'.layers # << >>
<1>1. PICK k, c, l : /\ k = held.kind /\ c = held.calls /\ l = held.layers
                     /\ k \in {"ok", "none", "err"} /\ c \in Nat /\ l \in Seq(Layer)
                     /\ held = Err(k, c, l)
  BY ErrNormal, ValueIs
<1>2. PICK e, b : e = Added(data) /\ b = Append(l, e)
  OBVIOUS
<1>3. held' = [held EXCEPT !.kind = "err", !.layers = b]
  <2>1. b = Append(held.layers, [site |-> line, marks |-> << >>,
                                 loc |-> data.loc, shown |-> data.shown])
    BY <1>1, <1>2, Zenon DEF Added
  <2>2. held' = [held EXCEPT !.kind = "err",
                             !.layers = Append(held.layers,
                                               [site |-> line, marks |-> << >>,
                                                loc |-> data.loc, shown |-> data.shown])]
    BY DEF Construct
  <2>. QED
    BY <2>1, <2>2
<1>4. held' = Err("err", c, b)
  <2>1. PICK v : v = Err(k, c, l)
    OBVIOUS
  <2>2. PICK w : w = [v EXCEPT !.kind = "err", !.layers = b]
    OBVIOUS
  <2>3. /\ DOMAIN w = {"kind", "calls", "layers"}
        /\ w.kind = "err" /\ w.calls = c /\ w.layers = b
    BY <2>1, <2>2 DEF Err
  <2>4. w = [x \in DOMAIN w |-> w[x]]
    BY <2>1, <2>2 DEF Err
  <2>5. w = Err("err", c, b)
    BY <2>3, <2>4 DEF Err
  <2>6. held' = [v EXCEPT !.kind = "err", !.layers = b]
    BY <1>1, <1>3, <2>1
  <2>. QED
    BY <2>2, <2>5, <2>6
<1>5. Current' = Constructed(Current)
  <2>1. Constructed(State(Err(k, c, l), data)) = State(Err("err", c, b), NoData)
    BY <1>2, ConstructedIs
  <2>2. data' = NoData
    BY DEF Construct
  <2>3. Current' = State(held', data') /\ Current = State(held, data)
    BY DEF Current
  <2>. QED
    BY <1>1, <1>4, <2>1, <2>2, <2>3, Zenon
<1>6. b \in Seq(Layer) /\ b # << >>
  BY <1>1, <1>2, AddedIs, Appended, Longer
<1>7. held' \in Value /\ held'.kind = "err" /\ held'.layers = b
  <2>1. "err" \in {"ok", "none", "err"}
    OBVIOUS
  <2>2. /\ Err("err", c, b) \in Value
        /\ Err("err", c, b).kind = "err" /\ Err("err", c, b).layers = b
    BY <1>1, <1>6, <2>1, ErrTyped
  <2>. QED
    BY <1>4, <2>2
<1>. QED
  BY <1>5, <1>6, <1>7, Zenon

(* No step has the name of a function.                                      *)
LEMMA NoStep ==
  \A x \in Function : x \notin Step
<1>. SUFFICES ASSUME NEW x \in Function, x \in Step PROVE FALSE
  OBVIOUS
<1>1. \/ x \in Method
      \/ x \in {"fail", "build", "into_error_leaf", "into_error", "from", "without_source",
                "with_source", "generate_with_source", "generate", "into", "from_residual",
                "tracked", "question_mark", "map_err", "map_err_into_error", "closure",
                "main", "combinator"}
  BY Domains, Zenon DEF Function, Tracked, Method
<1>. QED
  BY <1>1, MethodIs DEF Step, Tests

(* What a statement that is executed leaves alone.                          *)
LEMMA Still ==
  ASSUME IInv, UNCHANGED <<program, line, value>>
  PROVE  /\ program' \in Programs /\ line' \in 1 .. MaxStatements + 1 /\ value' \in Value
         /\ line' \in 1 .. Len(program') + 1 /\ IsError(value)'
         /\ \A i \in DOMAIN value'.layers : value'.layers[i].site < line'
         /\ OwnPlace' /\ DataSeesTheSource'
BY SMTT(30) DEF IInv, TypeOK, IsError, OwnPlace, DataSeesTheSource

LEMMA Facts ==
  ASSUME IInv, Executing
  PROVE  /\ program \in Programs /\ line \in 1 .. Len(program) /\ line \in Nat
         /\ held \in Value /\ data \in [loc : Place, shown : Shown]
         /\ stack \in Seq([fn : Function, at : Nat]) /\ stack # << >>
         /\ Path /\ Sources /\ Continues /\ IsError(held)
<1>1. program \in Programs /\ line \in 1 .. Len(program) + 1 /\ line <= Len(program)
  BY DEF IInv, TypeOK, Executing
<1>2. Len(program) \in Nat
  BY <1>1, ProgramsAssumption
<1>. QED
  BY <1>1, <1>2 DEF IInv, TypeOK, Executing

LEMMA StepKeeps ==
  ASSUME IInv, Executing, ~ AtEnd, UNCHANGED <<program, line, value>>,
         Now \in Step, NEW m \in Nat,
         \/ m = Len(Body(Top.fn)) + 1
         \/ m = Top.at + 1 /\ (Now = "if_err" => held.kind = "err"),
         stack' = Advanced(m), held' \in Value, IsError(held)',
         data' \in [loc : Place, shown : Shown],
         held.layers # << >> => held'.layers # << >>,
         \A p : PlacedAt(Len(stack), p) =>
                  Rest(Top.fn, Top.at, p, Current) = Rest(Top.fn, m, p, Current')
  PROVE  IInv'
<1>1. /\ program \in Programs /\ line \in 1 .. Len(program)
      /\ stack \in Seq([fn : Function, at : Nat]) /\ stack # << >>
      /\ Path /\ Sources /\ Continues /\ IsError(held)
  BY Facts
<1>2. Top.at \in 1 .. Len(Body(Top.fn)) /\ Len(Body(Top.fn)) \in 1 .. 3
  BY <1>1, TopIs DEF AtEnd
<1>3. Continues'
  BY <1>1, GoesOn
<1>4. Path'
  <2>1. m \in 2 .. Len(Body(Top.fn)) + 1
    BY <1>2
  <2>. QED
    BY <1>1, <2>1, PathOn
<1>5. Sources'
  BY <1>1, <1>2, SourcesOn
<1>6. stack' \in Seq([fn : Function, at : Nat])
  BY <1>1, AdvancedIs
<1>7. TypeOK'
  BY <1>6, Still DEF TypeOK
<1>. QED
  BY <1>3, <1>4, <1>5, <1>7, Still DEF IInv

LEMMA UnfoldNow ==
  ASSUME IInv, Executing, ~ AtEnd, NEW p
  PROVE  Rest(Top.fn, Top.at, p, Current)
           = IF held.kind # Wanted(Now, Current) THEN Current
             ELSE Rest(Top.fn, Top.at + 1, p, Does(Now, p, Current))
<1>1. program \in Programs /\ line \in 1 .. Len(program)
  BY Facts
<1>2. Fits(Top.fn) /\ Top.at \in 1 .. Len(Body(Top.fn))
  BY Facts, TopIs DEF AtEnd
<1>3. Current.held = held
  BY DEF Current, State
<1>. QED
  BY <1>1, <1>2, <1>3, Unfold DEF Now

(* Each of the actions.                                                     *)
LEMMA TestKeeps ==
  ASSUME IInv, Test
  PROVE  IInv'
<1>1. /\ Executing /\ ~ AtEnd /\ UNCHANGED <<program, line, value, held, data>>
      /\ Now \in {"if_none", "if_err"}
  BY DEF Test
<1>2. PICK m : m = IF held.kind = IF Now = "if_err" THEN "err" ELSE "none"
                   THEN Top.at + 1 ELSE Len(Body(Top.fn)) + 1
  OBVIOUS
<1>3. stack' = Advanced(m)
  BY <1>2, Zenon DEF Test
<1>4. Top.at \in 1 .. Len(Body(Top.fn)) /\ Len(Body(Top.fn)) \in 1 .. 3 /\ Fits(Top.fn)
  BY <1>1, Facts, TopIs DEF AtEnd
<1>5. Current' = Current
  BY <1>1 DEF Current, State
<1>6. ASSUME NEW p, PlacedAt(Len(stack), p)
      PROVE  Rest(Top.fn, Top.at, p, Current) = Rest(Top.fn, m, p, Current')
  <2>1. Does(Now, p, Current) = Current
    BY <1>1, StepsAre
  <2>2. Wanted(Now, Current) = IF Now = "if_err" THEN "err" ELSE "none"
    BY <1>1 DEF Wanted
  <2>3. Rest(Top.fn, Len(Body(Top.fn)) + 1, p, Current) = Current
    BY <1>1, <1>4, Facts, Ended
  <2>4. CASE held.kind = Wanted(Now, Current)
    <3>1. m = Top.at + 1
      BY <1>2, <2>2, <2>4, Zenon
    <3>2. Rest(Top.fn, Top.at, p, Current) = Rest(Top.fn, Top.at + 1, p, Current)
      BY <1>1, <2>1, <2>4, UnfoldNow
    <3>. QED
      BY <1>5, <3>1, <3>2, Zenon
  <2>5. CASE held.kind # Wanted(Now, Current)
    <3>1. m = Len(Body(Top.fn)) + 1
      BY <1>2, <2>2, <2>5
    <3>2. Rest(Top.fn, Top.at, p, Current) = Current
      BY <1>1, <2>5, UnfoldNow
    <3>. QED
      BY <1>5, <2>3, <3>1, <3>2, Zenon
  <2>. QED
    BY <2>4, <2>5
<1>7. /\ m \in Nat
      /\ \/ m = Len(Body(Top.fn)) + 1
         \/ m = Top.at + 1 /\ (Now = "if_err" => held.kind = "err")
  BY <1>2, <1>4
<1>8. Now \in Step
  BY <1>1 DEF Step, Tests
<1>9. held' \in Value /\ IsError(held)' /\ data' \in [loc : Place, shown : Shown]
  BY <1>1, Facts DEF IsError
<1>. QED
  BY <1>1, <1>3, <1>6, <1>7, <1>8, <1>9, StepKeeps

(* A step that is no test is done, and the function goes on behind it.      *)
LEMMA DoneKeeps ==
  ASSUME IInv, Executing, ~ AtEnd, UNCHANGED <<program, line, value>>,
         Now \in Step \ Tests, stack' = Advanced(Top.at + 1),
         held' \in Value, IsError(held)', data' \in [loc : Place, shown : Shown],
         held.layers # << >> => held'.layers # << >>,
         \A p : PlacedAt(Len(stack), p) => Current' = Does(Now, p, Current)
  PROVE  IInv'
<1>1. PICK m : m = Top.at + 1
  OBVIOUS
<1>2. m \in Nat
  BY <1>1, Facts, TopIs
<1>3. ASSUME NEW p, PlacedAt(Len(stack), p)
      PROVE  Rest(Top.fn, Top.at, p, Current) = Rest(Top.fn, m, p, Current')
  <2>1. held.kind = Wanted(Now, Current)
    BY DEF Wanted, Tests, Current, State
  <2>. QED
    BY <1>1, <1>3, <2>1, UnfoldNow
<1>4. Now \in Step /\ Now # "if_err"
  BY DEF Tests
<1>. QED
  BY <1>1, <1>2, <1>3, <1>4, StepKeeps

LEMMA TreatKeeps ==
  ASSUME IInv, Treat
  PROVE  IInv'
<1>1. /\ Executing /\ ~ AtEnd /\ UNCHANGED <<program, line, value, data>>
      /\ Now \in {"format", "look", "transform"} /\ stack' = Advanced(Top.at + 1)
  BY DEF Treat
<1>2. /\ Current' = Treated(Current, Now) /\ held' \in Value /\ held'.kind = held.kind
      /\ held'.layers # << >> <=> held.layers # << >>
  BY <1>1, Facts, TreatDoes
<1>3. \A p : Current' = Does(Now, p, Current)
  BY <1>1, <1>2, StepsAre
<1>4. IsError(held)' /\ data' \in [loc : Place, shown : Shown]
  BY <1>1, <1>2, Facts DEF IsError
<1>5. Now \in Step \ Tests
  BY <1>1 DEF Step, Tests
<1>. QED
  BY <1>1, <1>2, <1>3, <1>4, <1>5, DoneKeeps

LEMMA GenerateKeeps ==
  ASSUME IInv, Generate
  PROVE  IInv'
<1>1. /\ Executing /\ ~ AtEnd /\ UNCHANGED <<program, line, value, held>>
      /\ Now \in {"show", "caller"} /\ stack' = Advanced(Top.at + 1)
  BY DEF Generate
<1>2. \A p : PlacedAt(Len(stack), p) => Current' = Does(Now, p, Current)
  BY <1>1, Facts, GenerateDoes
<1>3. data' \in [loc : Place, shown : Shown]
  <2>1. PICK p : PlacedAt(Len(stack), p)
    BY <1>1, Facts, TopIs DEF Continues
  <2>. QED
    BY <1>1, <2>1, Facts, GenerateDoes
<1>4. IsError(held)' /\ held' \in Value
  BY <1>1, Facts DEF IsError
<1>5. Now \in Step \ Tests
  BY <1>1 DEF Step, Tests
<1>. QED
  BY <1>1, <1>2, <1>3, <1>4, <1>5, DoneKeeps

LEMMA ConstructKeeps ==
  ASSUME IInv, Construct
  PROVE  IInv'
<1>1. /\ Executing /\ ~ AtEnd /\ UNCHANGED <<program, line, value>>
      /\ Now = "construct" /\ stack' = Advanced(Top.at + 1) /\ data' = NoData
  BY DEF Construct
<1>2. /\ Current' = Constructed(Current)
      /\ held' \in Value /\ held'.kind = "err" /\ held'.layers # << >>
  BY <1>1, Facts, ConstructDoes
<1>3. \A p : Current' = Does(Now, p, Current)
  BY <1>1, <1>2, StepsAre
<1>4. IsError(held)'
  BY <1>2 DEF IsError
<1>5. data' \in [loc : Place, shown : Shown]
  BY <1>1, MaxStatementsAssumption DEF NoData, Nowhere, Place, Shown, Function
<1>6. Now \in Step \ Tests
  BY <1>1 DEF Step, Tests
<1>. QED
  BY <1>1, <1>2, <1>3, <1>4, <1>5, <1>6, DoneKeeps

LEMMA CallKeeps ==
  ASSUME IInv, Call
  PROVE  IInv'
<1>1. /\ Executing /\ ~ AtEnd /\ UNCHANGED <<program, line, value, held, data>>
      /\ Now \in Function /\ stack' = Append(Advanced(Top.at + 1), Frame(Now))
  BY DEF Call
<1>2. /\ program \in Programs /\ line \in 1 .. Len(program)
      /\ stack \in Seq([fn : Function, at : Nat]) /\ stack # << >>
      /\ Path /\ Sources /\ Continues /\ held \in Value
  BY <1>1, Facts
<1>3. /\ Fits(Top.fn) /\ Top.at \in 1 .. Len(Body(Top.fn)) /\ Len(Body(Top.fn)) \in 1 .. 3
      /\ Called(Top.fn, Top.at, Now)
  BY <1>1, <1>2, TopIs DEF AtEnd
<1>4. Now \notin Step
  BY <1>1, NoStep
<1>5. Fits(Now)
  BY <1>3, <1>4 DEF Called
<1>6. Current' = Current
  BY <1>1 DEF Current, State
<1>7. ASSUME NEW p
      PROVE  Rest(Top.fn, Top.at, p, Current)
               = Rest(Top.fn, Top.at + 1, p, Does(Now, p, Current))
  <2>1. held.kind = Wanted(Now, Current)
    BY <1>4 DEF Wanted, Step, Tests, Current, State
  <2>. QED
    BY <1>1, <2>1, UnfoldNow
<1>8. Continues'
  <2>1. PICK x : x = Now
    OBVIOUS
  <2>2. Top.at \in Nat
    BY <1>3
  <2>. QED
    BY <1>1, <1>2, <1>3, <1>5, <1>6, <1>7, <2>1, <2>2, CallsOn
<1>9. Path' /\ Sources'
  BY <1>1, <1>2, <1>3, <1>4, <1>5, PathCalled, SourcesCalled
<1>10. stack' \in Seq([fn : Function, at : Nat])
  <2>1. PICK m : m = Top.at + 1 /\ m \in Nat
    BY <1>3
  <2>. QED
    BY <1>1, <1>2, <2>1, CalledIs
<1>11. TypeOK' /\ IsError(held)'
  BY <1>1, <1>10, Still, Facts DEF TypeOK, IsError
<1>. QED
  BY <1>1, <1>8, <1>9, <1>11, Still DEF IInv

LEMMA ReturnKeeps ==
  ASSUME IInv, Return
  PROVE  IInv'
<1>1. /\ Executing /\ AtEnd /\ UNCHANGED <<program, line, value, held, data>>
      /\ Len(stack) > 1 /\ stack' = SubSeq(stack, 1, Len(stack) - 1)
  BY DEF Return
<1>2. /\ program \in Programs /\ line \in 1 .. Len(program)
      /\ stack \in Seq([fn : Function, at : Nat]) /\ stack # << >>
      /\ Path /\ Sources /\ Continues
  BY <1>1, Facts
<1>3. Fits(Top.fn) /\ Top.at = Len(Body(Top.fn)) + 1
  BY <1>1, <1>2, TopIs DEF AtEnd
<1>4. \A p : Rest(Top.fn, Top.at, p, Current) = Current
  BY <1>2, <1>3, Ended
<1>5. Current' = Current
  BY <1>1 DEF Current, State
<1>6. Continues' /\ (Top.fn = "fail" => held.layers # << >>)
  BY <1>1, <1>2, <1>4, <1>5, ReturnsOn
<1>7. Path' /\ Sources'
  BY <1>1, <1>2, <1>6, PathReturned, SourcesReturned
<1>8. stack' \in Seq([fn : Function, at : Nat])
  BY <1>1, <1>2, ReturnedIs
<1>9. TypeOK' /\ IsError(held)'
  BY <1>1, <1>8, Still, Facts DEF TypeOK, IsError
<1>. QED
  BY <1>1, <1>6, <1>7, <1>9, Still DEF IInv

(* The sorts of statements, and what the promise calls them.                *)
LEMMA SortsAre ==
  ASSUME Use \in Uses
  PROVE  /\ Use \in Fresh <=> Use \notin Promise!Wrapping
         /\ Use \in Fresh => Use \notin Converting /\ Use \notin Storing
         /\ Use \notin Fresh => Use \in Converting \/ Use \in Storing
         /\ Use \in Converting => Use \notin Storing
         /\ Use = "ensure_into" => Use \in Fresh /\ Use \notin Formatting /\ Use \notin Closing
         /\ Use \in Promise!Lazy <=> Use \in Formatting \/ Use \in Closing
         /\ Use \in Promise!Wrapping => (Use \in Promise!Looking <=> Use \in Closing)
         /\ Use \in Formatting => Use \notin Closing
BY UsesAre DEF Fresh, Promise!Fresh, Promise!Wrapping, Promise!Lazy, Promise!Looking,
               Converting, Storing, Formatting, Closing

(* What a statement makes of an error.                                      *)
Counted(c) == IF Use \in Formatting \/ Use \in Closing THEN c + 1 ELSE c
Seen(l) == IF Use \in Closing THEN Noted(l, "closure") ELSE l
Kept(l) == Noted(Seen(l), "transform")
LeafLayer == Added(Data(Here(Spot), <<"nothing">>))
Wrapper(l) == Added(Data(Here(Spot), IF Use \in Storing THEN LastMarks(Seen(l))
                                     ELSE LastMarks(Kept(l))))
Outer(l) == Added(Data(Here("map_err"), LastMarks(Noted(l, "transform"))))

Layers(l) == IF Use \notin Fresh THEN Append(Kept(l), Wrapper(l))
             ELSE IF Use = "ensure_into"
             THEN Append(Noted(Append(l, LeafLayer), "transform"), Outer(Append(l, LeafLayer)))
             ELSE Append(Seen(l), LeafLayer)

LEMMA PreparedIs ==
  ASSUME Use \in Uses, NEW k, NEW c, NEW l, NEW d
  PROVE  Prepared(State(Err(k, c, l), d)) = State(Err(k, Counted(c), Seen(l)), d)
<1>1. CASE Use \in Formatting
  <2>1. Prepared(State(Err(k, c, l), d)) = Treated(State(Err(k, c, l), d), "format")
    BY <1>1 DEF Prepared
  <2>2. Counted(c) = c + 1 /\ Seen(l) = l
    BY <1>1, SortsAre DEF Counted, Seen
  <2>. QED
    BY <2>1, <2>2, TreatedIs
<1>2. CASE Use \in Closing
  <2>1. Prepared(State(Err(k, c, l), d)) = Treated(State(Err(k, c, l), d), "look")
    BY <1>2, SortsAre DEF Prepared
  <2>2. Counted(c) = c + 1 /\ Seen(l) = Noted(l, "closure")
    BY <1>2 DEF Counted, Seen
  <2>. QED
    BY <2>1, <2>2, TreatedIs
<1>3. CASE Use \notin Formatting /\ Use \notin Closing
  BY <1>3 DEF Prepared, Counted, Seen
<1>. QED
  BY <1>1, <1>2, <1>3

LEMMA OutcomeIs ==
  ASSUME Use \in Uses, NEW k, NEW c, NEW l, value = Err(k, c, l)
  PROVE  Outcome = IF k = IF Use \in Fresh THEN "none" ELSE "err"
                   THEN State(Err("err", Counted(c), Layers(l)), NoData)
                   ELSE State(value, NoData)
<1>1. PICK s : s = State(Err(k, c, l), NoData)
  OBVIOUS
<1>2. Outcome = Executed(Spot, s)
  BY <1>1 DEF Outcome
<1>3. Concerned(s) <=> k = IF Use \in Fresh THEN "none" ELSE "err"
  <2>1. s.held.kind = k
    BY <1>1 DEF State, Err
  <2>. QED
    BY <2>1 DEF Concerned
<1>4. CASE ~ Concerned(s)
  <2>1. Outcome = s
    BY <1>2, <1>4 DEF Executed
  <2>. QED
    BY <1>1, <1>3, <1>4, <2>1
<1>5. CASE Concerned(s)
  <2>1. PICK a, b : a = Counted(c) /\ b = Seen(l)
    OBVIOUS
  <2>2. PICK q, x : q = Nowhere /\ x = <<"nothing">> /\ NoData = Data(q, x)
    BY DEF NoData, Data
  <2>3. PICK r : r = State(Err(k, a, b), Data(q, x)) /\ r = Prepared(s)
    BY <1>1, <2>1, <2>2, PreparedIs
  <2>4. Outcome = Made(Spot, r)
    BY <1>2, <1>5, <2>3 DEF Executed
  <2>5. ASSUME Use \in Converting
        PROVE  Outcome = State(Err("err", a, Layers(l)), NoData)
    <3>1. Outcome = Converted(Spot, r)
      BY <2>4, <2>5 DEF Made
    <3>2. Converted(Spot, State(Err(k, a, b), Data(q, x)))
            = State(Err("err", a, Append(Noted(b, "transform"), Added(Data(Here(Spot),
                                                  LastMarks(Noted(b, "transform")))))), NoData)
      BY MadeIs
    <3>3. Layers(l) = Append(Kept(l), Added(Data(Here(Spot), LastMarks(Kept(l)))))
      BY <2>5, SortsAre, Zenon DEF Layers, Wrapper
    <3>4. Noted(b, "transform") = Kept(l) /\ b = Seen(l)
      BY <2>1 DEF Kept
    <3>. QED
      BY <2>3, <3>1, <3>2, <3>3, <3>4
  <2>6. ASSUME Use \in Storing
        PROVE  Outcome = State(Err("err", a, Layers(l)), NoData)
    <3>1. Outcome = Stored(Spot, r)
      BY <2>4, <2>6, SortsAre DEF Made
    <3>2. Stored(Spot, State(Err(k, a, b), Data(q, x)))
            = State(Err("err", a, Append(Noted(b, "transform"), Added(Data(Here(Spot),
                                                  LastMarks(b))))), NoData)
      BY MadeIs
    <3>3. Layers(l) = Append(Kept(l), Added(Data(Here(Spot), LastMarks(Seen(l)))))
      BY <2>6, SortsAre, Zenon DEF Layers, Wrapper
    <3>4. Noted(b, "transform") = Kept(l) /\ b = Seen(l)
      BY <2>1 DEF Kept
    <3>. QED
      BY <2>3, <3>1, <3>2, <3>3, <3>4
  <2>7. ASSUME Use \in Fresh, Use # "ensure_into"
        PROVE  Outcome = State(Err("err", a, Layers(l)), NoData)
    <3>1. Outcome = LeafMade(Spot, r)
      BY <2>4, <2>7, SortsAre DEF Made
    <3>2. LeafMade(Spot, State(Err(k, a, b), Data(q, x)))
            = State(Err("err", a, Append(b, Added(Data(Here(Spot), x)))), NoData)
      BY MadeIs
    <3>4. Added(Data(Here(Spot), x)) = LeafLayer
      BY <2>2 DEF LeafLayer
    <3>3. Layers(l) = Append(b, LeafLayer)
      BY <2>1, <2>7 DEF Layers
    <3>. QED
      BY <2>3, <3>1, <3>2, <3>3, <3>4
  <2>8. ASSUME Use = "ensure_into"
        PROVE  Outcome = State(Err("err", a, Layers(l)), NoData)
    <3>1. Outcome = Converted("map_err", LeafMade(Spot, r))
      BY <2>4, <2>8, SortsAre DEF Made
    <3>2. PICK m : m = Append(l, LeafLayer)
      OBVIOUS
    <3>3. b = l
      BY <2>1, <2>8, SortsAre DEF Seen
    <3>4. LeafMade(Spot, r) = State(Err("err", a, m), Data(q, x))
      <4>1. LeafMade(Spot, State(Err(k, a, b), Data(q, x)))
              = State(Err("err", a, Append(b, Added(Data(Here(Spot), x)))), NoData)
        BY MadeIs
      <4>2. Added(Data(Here(Spot), x)) = LeafLayer
        BY <2>2 DEF LeafLayer
      <4>. QED
        BY <2>2, <2>3, <3>2, <3>3, <4>1, <4>2
    <3>5. Converted("map_err", State(Err("err", a, m), Data(q, x)))
            = State(Err("err", a, Append(Noted(m, "transform"), Outer(m))), NoData)
      BY MadeIs DEF Outer
    <3>6. Layers(l) = Append(Noted(m, "transform"), Outer(m))
      BY <2>8, <3>2, SortsAre DEF Layers
    <3>. QED
      BY <3>1, <3>4, <3>5, <3>6
  <2>9. Outcome = State(Err("err", a, Layers(l)), NoData)
    BY <2>5, <2>6, <2>7, <2>8, SortsAre
  <2>. QED
    BY <1>3, <1>5, <2>1, <2>9
<1>. QED
  BY <1>4, <1>5

(* The layers that a statement adds, and what it does to the one underneath.*)
LEMMA HereIs ==
  ASSUME program \in Programs, line \in 1 .. Len(program), NEW p \in Function
  PROVE  Here(p) \in Place
<1>1. line \in 0 .. MaxStatements
  BY ProgramsAssumption, MaxStatementsAssumption
<1>. QED
  BY <1>1 DEF Here, Place

LEMMA SpotIs ==
  Spot \in Function /\ "map_err" \in Function
BY Domains DEF Spot, Function

LEMMA NewLayer ==
  ASSUME program \in Programs, line \in 1 .. Len(program), NEW p \in Function, NEW x \in Shown
  PROVE  /\ Added(Data(Here(p), x)) \in Layer
         /\ Added(Data(Here(p), x)).site = line /\ Added(Data(Here(p), x)).marks = << >>
         /\ Added(Data(Here(p), x)).loc = Here(p) /\ Added(Data(Here(p), x)).shown = x
<1>1. PICK h : h = Here(p) /\ h \in Place
  BY HereIs
<1>2. PICK d : d = Data(h, x)
  OBVIOUS
<1>3. d \in [loc : Place, shown : Shown] /\ d.loc = h /\ d.shown = x
  BY <1>1, <1>2 DEF Data
<1>4. line \in Nat
  BY ProgramsAssumption
<1>. QED
  BY <1>1, <1>2, <1>3, <1>4, AddedIs

LEMMA LeafIs ==
  ASSUME program \in Programs, line \in 1 .. Len(program)
  PROVE  /\ LeafLayer \in Layer /\ LeafLayer.site = line /\ LeafLayer.marks = << >>
         /\ LeafLayer.loc = Here(Spot) /\ LeafLayer.shown = <<"nothing">>
<1>1. PICK x : x = <<"nothing">> /\ x \in Shown
  BY DEF Shown
<1>. QED
  BY <1>1, NewLayer, SpotIs DEF LeafLayer

LEMMA LastIs ==
  ASSUME NEW l \in Seq(Layer), l # << >>
  PROVE  Len(l) \in Nat \ {0} /\ Len(l) \in 1 .. Len(l) /\ l[Len(l)] \in Layer
<1>1. Len(l) \in Nat \ {0} /\ \A i \in 1 .. Len(l) : l[i] \in Layer
  BY Entries
<1>. QED
  BY <1>1

LEMMA SeenIs ==
  ASSUME NEW l \in Seq(Layer), l # << >>
  PROVE  /\ Seen(l) \in Seq(Layer) /\ Len(Seen(l)) = Len(l) /\ Seen(l) # << >>
         /\ \A i \in 1 .. Len(l) - 1 : Seen(l)[i] = l[i]
         /\ Seen(l)[Len(l)].site = l[Len(l)].site
         /\ Seen(l)[Len(l)].marks = IF Use \in Closing THEN Append(l[Len(l)].marks, "closure")
                                    ELSE l[Len(l)].marks
         /\ Seen(l)[Len(l)].loc = l[Len(l)].loc
         /\ Seen(l)[Len(l)].shown = l[Len(l)].shown
<1>1. CASE Use \in Closing
  <2>1. PICK m : m = Noted(l, "closure") /\ Seen(l) = m
    BY <1>1 DEF Seen
  <2>2. PICK x \in {"closure", "transform"} : x = "closure"
    OBVIOUS
  <2>3. m = Noted(l, x)
    BY <2>1, <2>2
  <2>4. \A i \in 1 .. Len(l) - 1 : Noted(l, x)[i] = l[i]
    BY NotedIs
  <2>5. /\ m \in Seq(Layer) /\ Len(m) = Len(l) /\ m # << >>
        /\ m[Len(l)].site = l[Len(l)].site
        /\ m[Len(l)].marks = Append(l[Len(l)].marks, x)
        /\ m[Len(l)].loc = l[Len(l)].loc
        /\ m[Len(l)].shown = l[Len(l)].shown
    BY <2>3, NotedIs
  <2>. QED
    BY <1>1, <2>1, <2>2, <2>3, <2>4, <2>5
<1>2. CASE Use \notin Closing
  BY <1>2 DEF Seen
<1>. QED
  BY <1>1, <1>2

LEMMA KeptIs ==
  ASSUME NEW l \in Seq(Layer), l # << >>
  PROVE  /\ Kept(l) \in Seq(Layer) /\ Len(Kept(l)) = Len(l) /\ Kept(l) # << >>
         /\ \A i \in 1 .. Len(l) - 1 : Kept(l)[i] = l[i]
         /\ Kept(l)[Len(l)].site = l[Len(l)].site
         /\ Kept(l)[Len(l)].marks = Append(Seen(l)[Len(l)].marks, "transform")
         /\ Kept(l)[Len(l)].loc = l[Len(l)].loc
         /\ Kept(l)[Len(l)].shown = l[Len(l)].shown
<1>1. PICK s, m : s = Seen(l) /\ m = Noted(s, "transform") /\ m = Kept(l)
  BY DEF Kept
<1>2. /\ s \in Seq(Layer) /\ Len(s) = Len(l) /\ s # << >>
      /\ \A i \in 1 .. Len(l) - 1 : s[i] = l[i]
      /\ s[Len(l)].site = l[Len(l)].site
      /\ s[Len(l)].loc = l[Len(l)].loc
      /\ s[Len(l)].shown = l[Len(l)].shown
  BY <1>1, SeenIs
<1>3. PICK x \in {"closure", "transform"} : x = "transform"
  OBVIOUS
<1>4. m = Noted(s, x)
  BY <1>1, <1>3
<1>5. \A i \in 1 .. Len(s) - 1 : Noted(s, x)[i] = s[i]
  BY <1>2, NotedIs
<1>6. /\ m \in Seq(Layer) /\ Len(m) = Len(s) /\ m # << >>
      /\ m[Len(s)].site = s[Len(s)].site
      /\ m[Len(s)].marks = Append(s[Len(s)].marks, x)
      /\ m[Len(s)].loc = s[Len(s)].loc
      /\ m[Len(s)].shown = s[Len(s)].shown
  BY <1>2, <1>4, NotedIs
<1>7. \A i \in 1 .. Len(l) - 1 : m[i] = l[i]
  BY <1>2, <1>4, <1>5
<1>. QED
  BY <1>1, <1>2, <1>3, <1>6, <1>7

LEMMA WrapperIs ==
  ASSUME program \in Programs, line \in 1 .. Len(program), NEW l \in Seq(Layer), l # << >>
  PROVE  /\ Wrapper(l) \in Layer /\ Wrapper(l).site = line /\ Wrapper(l).marks = << >>
         /\ Wrapper(l).loc = Here(Spot)
         /\ Wrapper(l).shown = IF Use \in Storing THEN Seen(l)[Len(l)].marks
                               ELSE Kept(l)[Len(l)].marks
<1>1. PICK x : x = IF Use \in Storing THEN LastMarks(Seen(l)) ELSE LastMarks(Kept(l))
  OBVIOUS
<1>2. /\ LastMarks(Seen(l)) = Seen(l)[Len(l)].marks /\ LastMarks(Seen(l)) \in Shown
      /\ LastMarks(Kept(l)) = Kept(l)[Len(l)].marks /\ LastMarks(Kept(l)) \in Shown
  <2>1. PICK s, m : s = Seen(l) /\ m = Kept(l)
    OBVIOUS
  <2>2. /\ s \in Seq(Layer) /\ s # << >> /\ Len(s) = Len(l)
        /\ m \in Seq(Layer) /\ m # << >> /\ Len(m) = Len(l)
    BY <2>1, SeenIs, KeptIs
  <2>3. LastMarks(s) = s[Len(l)].marks /\ LastMarks(m) = m[Len(l)].marks
    BY <2>2 DEF LastMarks
  <2>4. LastMarks(s) \in Shown /\ LastMarks(m) \in Shown
    BY <2>2, LastMarksAre
  <2>. QED
    BY <2>1, <2>3, <2>4
<1>3. x \in Shown /\ x = IF Use \in Storing THEN Seen(l)[Len(l)].marks ELSE Kept(l)[Len(l)].marks
  BY <1>1, <1>2
<1>4. Wrapper(l) = Added(Data(Here(Spot), x))
  BY <1>1 DEF Wrapper
<1>. QED
  BY <1>3, <1>4, NewLayer, SpotIs

(* An error that `ensure!` makes and converts has two layers.               *)
LEMMA EnsuredIs ==
  ASSUME program \in Programs, line \in 1 .. Len(program),
         NEW l, l = << >>, NEW u, u = Append(l, LeafLayer), NEW m, m = Noted(u, "transform")
  PROVE  /\ u \in Seq(Layer) /\ m \in Seq(Layer) /\ Len(m) = 1
         /\ m[1].site = line /\ m[1].marks = <<"transform">>
         /\ m[1].loc = Here(Spot) /\ m[1].shown = <<"nothing">>
         /\ Outer(u) \in Layer /\ Outer(u).site = line /\ Outer(u).marks = << >>
         /\ Outer(u).loc = Here("map_err") /\ Outer(u).shown = <<"transform">>
<1>1. u \in Seq(Layer) /\ Len(u) = 1 /\ u[1] = LeafLayer /\ u # << >>
  BY LeafIs
<1>2. PICK x \in {"closure", "transform"} : x = "transform"
  OBVIOUS
<1>3. /\ m \in Seq(Layer) /\ Len(m) = 1 /\ m # << >>
      /\ m[1].site = u[1].site /\ m[1].marks = Append(u[1].marks, x)
      /\ m[1].loc = u[1].loc /\ m[1].shown = u[1].shown
  <2>1. /\ m \in Seq(Layer) /\ Len(m) = Len(u) /\ m # << >>
        /\ m[Len(u)].site = u[Len(u)].site
        /\ m[Len(u)].marks = Append(u[Len(u)].marks, x)
        /\ m[Len(u)].loc = u[Len(u)].loc /\ m[Len(u)].shown = u[Len(u)].shown
    BY <1>1, <1>2, NotedIs
  <2>. QED
    BY <1>1, <2>1
<1>4. m[1].marks = <<"transform">>
  <2>1. Append(<< >>, "transform") = <<"transform">>
    OBVIOUS
  <2>. QED
    BY <1>1, <1>2, <1>3, <2>1, LeafIs
<1>5. PICK y : y = LastMarks(m) /\ y \in Shown /\ y = <<"transform">>
  BY <1>3, <1>4, LastMarksAre DEF LastMarks
<1>6. Outer(u) = Added(Data(Here("map_err"), y))
  BY <1>5 DEF Outer
<1>7. PICK p \in Function : p = "map_err"
  BY SpotIs
<1>. QED
  BY <1>1, <1>3, <1>4, <1>5, <1>6, <1>7, LeafIs, NewLayer

(* OwnPlace and DataSeesTheSource, layer by layer.                          *)
RightPlace(l, i) ==
  l[i].site > 0 =>
    l[i].loc = [line |-> l[i].site,
                fn |-> CASE i > 1 /\ l[i - 1].site = l[i].site -> "map_err"
                         [] program[l[i].site].within = "combinator" -> "combinator"
                         [] OTHER -> "main"]

RightData(l, i) ==
  l[i].site > 0 =>
    IF i = 1 THEN l[i].shown = <<"nothing">>
    ELSE l[i].shown = IF program[l[i].site].use \in Storing
                      THEN SubSeq(l[i - 1].marks, 1, Len(l[i - 1].marks) - 1)
                      ELSE l[i - 1].marks

Fine(l) == \A i \in 1 .. Len(l) : RightPlace(l, i) /\ RightData(l, i)
Earlier(l) == \A i \in 1 .. Len(l) : l[i].site < line

LEMMA PropertiesAre ==
  ASSUME value.layers \in Seq(Layer)
  PROVE  OwnPlace /\ DataSeesTheSource <=> Fine(value.layers)
<1>1. DOMAIN value.layers = 1 .. Len(value.layers)
  OBVIOUS
<1>2. OwnPlace <=> \A i \in 1 .. Len(value.layers) : RightPlace(value.layers, i)
  BY <1>1, Zenon DEF OwnPlace, RightPlace
<1>3. DataSeesTheSource <=> \A i \in 1 .. Len(value.layers) : RightData(value.layers, i)
  BY <1>1 DEF DataSeesTheSource, RightData, Storing
<1>. QED
  BY <1>2, <1>3 DEF Fine

LEMMA SameLayer ==
  ASSUME NEW l, NEW m, NEW i \in Nat, l[i].site = m[i].site, l[i].loc = m[i].loc,
         l[i].shown = m[i].shown,
         i # 1 => l[i - 1].site = m[i - 1].site /\ l[i - 1].marks = m[i - 1].marks
  PROVE  /\ RightPlace(l, i) => RightPlace(m, i)
         /\ RightData(l, i) => RightData(m, i)
<1>1. i > 1 => i # 1
  OBVIOUS
<1>2. RightPlace(l, i) => RightPlace(m, i)
  BY <1>1 DEF RightPlace
<1>3. RightData(l, i) => RightData(m, i)
  BY DEF RightData
<1>. QED
  BY <1>2, <1>3

(* The layer of this statement.                                             *)
LEMMA FirstPlace ==
  ASSUME NEW l, NEW i \in Nat, l[i].site = line, l[i].loc = Here(Spot),
         i # 1 => l[i - 1].site # line
  PROVE  RightPlace(l, i)
<1>1. PICK h : h = Spot /\ h = IF program[line].within = "combinator" THEN "combinator" ELSE "main"
  BY DEF Spot, Within
<1>2. l[i].loc = [line |-> line, fn |-> h]
  BY <1>1 DEF Here
<1>3. ~ (i > 1 /\ l[i - 1].site = line)
  OBVIOUS
<1>. QED
  BY <1>1, <1>2, <1>3 DEF RightPlace

LEMMA SecondPlace ==
  ASSUME NEW l, NEW i \in Nat, i > 1, l[i].site = line, l[i].loc = Here("map_err"),
         l[i - 1].site = line, Within # "combinator",
         Use \notin Storing, l[i].shown = l[i - 1].marks
  PROVE  RightPlace(l, i) /\ RightData(l, i)
<1>1. l[i].loc = [line |-> line, fn |-> "map_err"]
  BY DEF Here
<1>2. i # 1
  OBVIOUS
<1>3. RightPlace(l, i)
  <2>1. l[i - 1].site = l[i].site
    OBVIOUS
  <2>2. PICK f : f = CASE i > 1 /\ l[i - 1].site = l[i].site -> "map_err"
                       [] program[l[i].site].within = "combinator" -> "combinator"
                       [] OTHER -> "main"
    OBVIOUS
  <2>3. f = "map_err"
    BY <2>1, <2>2 DEF Within
  <2>4. l[i].loc = [line |-> l[i].site, fn |-> f]
    BY <1>1, <2>3
  <2>. QED
    BY <2>2, <2>4 DEF RightPlace
<1>4. RightData(l, i)
  BY <1>2 DEF RightData, Use
<1>. QED
  BY <1>3, <1>4

LEMMA FrontOfAppend ==
  ASSUME NEW S, NEW q \in Seq(S), NEW x \in S
  PROVE  SubSeq(Append(q, x), 1, Len(Append(q, x)) - 1) = q
OBVIOUS

(* A statement that wraps an error.                                         *)
LEMMA WrapFine ==
  ASSUME program \in Programs, line \in 1 .. Len(program), Use \notin Fresh,
         NEW l \in Seq(Layer), l # << >>, Fine(l), Earlier(l)
  PROVE  /\ Append(Kept(l), Wrapper(l)) \in Seq(Layer)
         /\ Append(Kept(l), Wrapper(l)) # << >>
         /\ Fine(Append(Kept(l), Wrapper(l)))
         /\ \A i \in 1 .. Len(Append(Kept(l), Wrapper(l))) :
              Append(Kept(l), Wrapper(l))[i].site < line + 1
<1>1. PICK n, m, e, w : n = Len(l) /\ m = Kept(l) /\ e = Wrapper(l) /\ w = Append(m, e)
  OBVIOUS
<1>2. /\ n \in Nat \ {0} /\ line \in Nat \ {0}
      /\ Use \in Uses
      /\ \A i \in 1 .. n : l[i] \in Layer /\ l[i].site \in Nat /\ l[i].site < line
  <2>1. n \in Nat \ {0} /\ \A i \in 1 .. n : l[i] \in Layer
    BY <1>1, Entries
  <2>2. line \in Nat \ {0}
    BY ProgramsAssumption
  <2>. QED
    BY <1>1, <2>1, <2>2, StatementIs, LayerIs DEF Earlier
<1>3. /\ m \in Seq(Layer) /\ Len(m) = n
      /\ m[n].site = l[n].site /\ m[n].loc = l[n].loc /\ m[n].shown = l[n].shown
  BY <1>1, KeptIs
<1>4. \A i \in 1 .. n - 1 : m[i] = l[i]
  BY <1>1, KeptIs
<1>5. /\ e \in Layer /\ e.site = line /\ e.loc = Here(Spot)
      /\ e.shown = IF Use \in Storing THEN Seen(l)[n].marks ELSE m[n].marks
  BY <1>1, WrapperIs
<1>6. w \in Seq(Layer) /\ Len(w) = n + 1 /\ w[n + 1] = e
  BY <1>1, <1>3, <1>5, Appended
<1>7. \A i \in 1 .. n : w[i] = m[i]
  BY <1>1, <1>3, <1>5, Appended
<1>8. \A i \in 1 .. n : w[i].site = l[i].site /\ w[i].loc = l[i].loc /\ w[i].shown = l[i].shown
  <2>. SUFFICES ASSUME NEW i \in 1 .. n
                PROVE  w[i].site = l[i].site /\ w[i].loc = l[i].loc /\ w[i].shown = l[i].shown
    OBVIOUS
  <2>1. CASE i \in 1 .. n - 1
    BY <1>4, <1>7, <2>1
  <2>2. CASE i = n
    BY <1>3, <1>7, <2>2
  <2>. QED
    BY <1>2, <2>1, <2>2
<1>9. \A i \in 1 .. n - 1 : w[i].marks = l[i].marks
  <2>. SUFFICES ASSUME NEW i \in 1 .. n - 1 PROVE w[i].marks = l[i].marks
    OBVIOUS
  <2>1. i \in 1 .. n
    BY <1>2
  <2>. QED
    BY <1>4, <1>7, <2>1
<1>10. ASSUME NEW i \in 1 .. n
       PROVE  RightPlace(w, i) /\ RightData(w, i)
  <2>1. i \in Nat /\ (i # 1 => i - 1 \in 1 .. n /\ i - 1 \in 1 .. n - 1)
    BY <1>2
  <2>2. RightPlace(l, i) /\ RightData(l, i)
    BY <1>1 DEF Fine
  <2>3. /\ l[i].site = w[i].site /\ l[i].loc = w[i].loc /\ l[i].shown = w[i].shown
        /\ i # 1 => l[i - 1].site = w[i - 1].site /\ l[i - 1].marks = w[i - 1].marks
    BY <1>8, <1>9, <2>1
  <2>. QED
    BY <2>1, <2>2, <2>3, SameLayer
<1>11. RightPlace(w, n + 1) /\ RightData(w, n + 1)
  <2>1. n + 1 \in Nat /\ n + 1 # 1 /\ (n + 1) - 1 = n /\ n \in 1 .. n
    BY <1>2
  <2>2. w[n].site # line
    BY <1>2, <1>8, <2>1
  <2>3. RightPlace(w, n + 1)
    BY <1>5, <1>6, <2>1, <2>2, FirstPlace
  <2>4. w[n].marks = Append(Seen(l)[n].marks, "transform") /\ Seen(l)[n].marks \in Marks
    <3>1. m[n].marks = Append(Seen(l)[n].marks, "transform")
      BY <1>1, KeptIs
    <3>2. PICK s : s = Seen(l) /\ s \in Seq(Layer) /\ s # << >> /\ Len(s) = n
      BY <1>1, SeenIs
    <3>3. s[n].marks \in Marks
      BY <3>2, LastIs, LayerIs
    <3>. QED
      BY <1>7, <2>1, <3>1, <3>2, <3>3
  <2>5. SubSeq(w[n].marks, 1, Len(w[n].marks) - 1) = Seen(l)[n].marks
    <3>1. PICK q, x : /\ q = Seen(l)[n].marks /\ x = "transform"
                      /\ q \in Seq({"closure", "transform"}) /\ x \in {"closure", "transform"}
      BY <2>4 DEF Marks
    <3>. QED
      BY <2>4, <3>1, FrontOfAppend
  <2>6. w[n + 1].shown = IF Use \in Storing
                         THEN SubSeq(w[n].marks, 1, Len(w[n].marks) - 1) ELSE w[n].marks
    BY <1>5, <1>6, <1>7, <2>1, <2>5
  <2>7. RightData(w, n + 1)
    BY <1>5, <1>6, <2>1, <2>6 DEF RightData, Use
  <2>. QED
    BY <2>3, <2>7
<1>12. Fine(w)
  <2>1. \A i \in 1 .. Len(w) : i \in 1 .. n \/ i = n + 1
    BY <1>2, <1>6
  <2>. QED
    BY <1>10, <1>11, <2>1 DEF Fine
<1>13. \A i \in 1 .. Len(w) : w[i].site < line + 1
  <2>. SUFFICES ASSUME NEW i \in 1 .. n + 1 PROVE w[i].site < line + 1
    BY <1>6
  <2>1. CASE i \in 1 .. n
    BY <1>2, <1>8, <2>1, SMTT(30)
  <2>2. CASE i = n + 1
    BY <1>2, <1>5, <1>6, <2>2
  <2>. QED
    BY <1>2, <2>1, <2>2
<1>14. w # << >>
  BY <1>1, <1>3, Longer
<1>. QED
  BY <1>1, <1>6, <1>12, <1>13, <1>14

(* One that makes an error without one underneath.                          *)
LEMMA LeafFine ==
  ASSUME program \in Programs, line \in 1 .. Len(program), NEW w, w = <<LeafLayer>>
  PROVE  /\ w \in Seq(Layer) /\ w # << >> /\ Fine(w)
         /\ \A i \in 1 .. Len(w) : w[i].site < line + 1
<1>1. w \in Seq(Layer) /\ Len(w) = 1 /\ w[1] = LeafLayer /\ w # << >>
  BY LeafIs
<1>2. line \in Nat \ {0}
  BY ProgramsAssumption
<1>3. 1 .. Len(w) = {1}
  BY <1>1
<1>4. RightPlace(w, 1)
  BY <1>1, LeafIs, FirstPlace
<1>5. RightData(w, 1)
  BY <1>1, LeafIs DEF RightData
<1>. QED
  BY <1>1, <1>2, <1>3, <1>4, <1>5, LeafIs DEF Fine

LEMMA EnsureFine ==
  ASSUME program \in Programs, line \in 1 .. Len(program), Use = "ensure_into",
         NEW u, u = Append(<< >>, LeafLayer),
         NEW w, w = Append(Noted(u, "transform"), Outer(u))
  PROVE  /\ w \in Seq(Layer) /\ w # << >> /\ Fine(w)
         /\ \A i \in 1 .. Len(w) : w[i].site < line + 1
<1>1. PICK m, e : m = Noted(u, "transform") /\ e = Outer(u) /\ w = Append(m, e)
  OBVIOUS
<1>2. /\ m \in Seq(Layer) /\ Len(m) = 1
      /\ m[1].site = line /\ m[1].marks = <<"transform">>
      /\ m[1].loc = Here(Spot) /\ m[1].shown = <<"nothing">>
      /\ e \in Layer /\ e.site = line /\ e.loc = Here("map_err") /\ e.shown = <<"transform">>
  BY <1>1, EnsuredIs
<1>3. w \in Seq(Layer) /\ Len(w) = 2 /\ w[1] = m[1] /\ w[2] = e /\ w # << >>
  BY <1>1, <1>2
<1>4. line \in Nat \ {0}
  BY ProgramsAssumption
<1>5. 1 .. Len(w) = {1, 2}
  BY <1>3
<1>6. RightPlace(w, 1)
  BY <1>2, <1>3, FirstPlace
<1>7. RightData(w, 1)
  BY <1>2, <1>3 DEF RightData
<1>8. RightPlace(w, 2) /\ RightData(w, 2)
  <2>1. PICK i : i = 2
    OBVIOUS
  <2>2. i \in Nat /\ i > 1 /\ i - 1 = 1
    BY <2>1
  <2>3. Use \notin Storing /\ Within # "combinator"
    BY StatementIs DEF Storing, Polls
  <2>4. /\ w[i].site = line /\ w[i].loc = Here("map_err") /\ w[i - 1].site = line
        /\ w[i].shown = w[i - 1].marks
    BY <1>2, <1>3, <2>1, <2>2
  <2>. QED
    BY <2>1, <2>2, <2>3, <2>4, SecondPlace
<1>9. Fine(w)
  BY <1>5, <1>6, <1>7, <1>8 DEF Fine
<1>10. \A i \in 1 .. Len(w) : w[i].site < line + 1
  BY <1>2, <1>3, <1>4, <1>5
<1>. QED
  BY <1>3, <1>9, <1>10

(* The layers as the promise sees them.                                     *)
Bare(l) == [i \in DOMAIN l |-> [site |-> l[i].site, marks |-> l[i].marks]]
BareLayer == [site : Nat, marks : Marks]

LEMMA SameSeq ==
  ASSUME NEW S, NEW q \in Seq(S), NEW r \in Seq(S), Len(q) = Len(r),
         \A i \in 1 .. Len(q) : q[i] = r[i]
  PROVE  q = r
OBVIOUS

LEMMA MappedSeq ==
  ASSUME NEW S, NEW n \in Nat, NEW f, f = [i \in 1 .. n |-> f[i]], \A i \in 1 .. n : f[i] \in S
  PROVE  f \in Seq(S) /\ Len(f) = n
<1>1. f \in [1 .. n -> S]
  OBVIOUS
<1>. QED
  BY <1>1

LEMMA BareIs ==
  ASSUME NEW l \in Seq(Layer)
  PROVE  /\ Bare(l) \in Seq(BareLayer) /\ Len(Bare(l)) = Len(l)
         /\ \A i \in 1 .. Len(l) : /\ Bare(l)[i] = [site |-> l[i].site, marks |-> l[i].marks]
                                   /\ l[i].site \in Nat /\ l[i].marks \in Marks
<1>1. PICK n : n = Len(l) /\ n \in Nat /\ DOMAIN l = 1 .. n /\ \A i \in 1 .. n : l[i] \in Layer
  OBVIOUS
<1>2. PICK f : f = Bare(l)
  OBVIOUS
<1>3. f = [i \in 1 .. n |-> [site |-> l[i].site, marks |-> l[i].marks]]
  BY <1>1, <1>2 DEF Bare
<1>4. \A i \in 1 .. n : /\ f[i] = [site |-> l[i].site, marks |-> l[i].marks]
                        /\ l[i].site \in Nat /\ l[i].marks \in Marks
  <2>1. \A i \in 1 .. n : f[i] = [site |-> l[i].site, marks |-> l[i].marks]
    BY <1>3
  <2>2. \A e \in Layer : e.site \in Nat /\ e.marks \in Marks
    BY LayerIs
  <2>. QED
    BY <1>1, <2>1, <2>2
<1>5. \A i \in 1 .. n : f[i] \in BareLayer
  <2>. SUFFICES ASSUME NEW i \in 1 .. n PROVE f[i] \in BareLayer
    OBVIOUS
  <2>1. PICK a, b : a = l[i].site /\ b = l[i].marks /\ a \in Nat /\ b \in Marks
    BY <1>4
  <2>2. f[i] = [site |-> a, marks |-> b]
    BY <1>4, <2>1
  <2>. QED
    BY <2>1, <2>2 DEF BareLayer
<1>6. f = [i \in 1 .. n |-> f[i]]
  BY <1>3
<1>7. f \in Seq(BareLayer) /\ Len(f) = n
  BY <1>1, <1>5, <1>6, MappedSeq
<1>. QED
  BY <1>1, <1>2, <1>4, <1>7

LEMMA BareAppend ==
  ASSUME NEW l \in Seq(Layer), NEW e \in Layer
  PROVE  Bare(Append(l, e)) = Append(Bare(l), Promise!Layer(e.site, e.marks))
<1>1. PICK m, a, b, c : /\ m = Append(l, e) /\ a = Bare(l) /\ b = Bare(m)
                        /\ c = Promise!Layer(e.site, e.marks)
  OBVIOUS
<1>2. m \in Seq(Layer) /\ Len(m) = Len(l) + 1 /\ m[Len(l) + 1] = e
  BY <1>1, Appended
<1>3. \A i \in 1 .. Len(l) : m[i] = l[i]
  BY <1>1, Appended
<1>4. /\ a \in Seq(BareLayer) /\ Len(a) = Len(l)
      /\ \A i \in 1 .. Len(l) : a[i] = [site |-> l[i].site, marks |-> l[i].marks]
  BY <1>1, BareIs
<1>5. /\ b \in Seq(BareLayer) /\ Len(b) = Len(m)
      /\ \A i \in 1 .. Len(m) : b[i] = [site |-> m[i].site, marks |-> m[i].marks]
  BY <1>1, <1>2, BareIs
<1>6. c \in BareLayer /\ c = [site |-> e.site, marks |-> e.marks]
  BY <1>1, LayerIs DEF BareLayer, Promise!Layer
<1>7. PICK d : d = Append(a, c)
  OBVIOUS
<1>8. d \in Seq(BareLayer) /\ Len(d) = Len(a) + 1 /\ d[Len(a) + 1] = c
  BY <1>4, <1>6, <1>7, Appended
<1>9. \A i \in 1 .. Len(a) : d[i] = a[i]
  BY <1>4, <1>6, <1>7, Appended
<1>10. \A i \in 1 .. Len(b) : b[i] = d[i]
  <2>. SUFFICES ASSUME NEW i \in 1 .. Len(b) PROVE b[i] = d[i]
    OBVIOUS
  <2>1. i \in 1 .. Len(l) \/ i = Len(l) + 1
    BY <1>2, <1>5
  <2>2. CASE i \in 1 .. Len(l)
    <3>1. b[i] = [site |-> m[i].site, marks |-> m[i].marks]
      BY <1>5
    <3>2. m[i] = l[i] /\ d[i] = a[i] /\ a[i] = [site |-> l[i].site, marks |-> l[i].marks]
      BY <1>3, <1>4, <1>9, <2>2
    <3>. QED
      BY <3>1, <3>2
  <2>3. CASE i = Len(l) + 1
    <3>1. b[i] = [site |-> m[i].site, marks |-> m[i].marks]
      BY <1>5
    <3>2. m[i] = e /\ d[i] = c
      BY <1>2, <1>4, <1>8, <2>3
    <3>. QED
      BY <1>6, <3>1, <3>2
  <2>. QED
    BY <2>1, <2>2, <2>3
<1>11. Len(b) = Len(d)
  BY <1>2, <1>4, <1>5, <1>8
<1>12. b = d
  BY <1>5, <1>8, <1>10, <1>11, SameSeq
<1>. QED
  BY <1>1, <1>7, <1>12

(* The marks on an error that is wrapped.                                   *)
LEMMA JoinedMarks ==
  ASSUME NEW q \in Seq({"closure", "transform"})
  PROVE  /\ q \o (<< >> \o <<"transform">>) = Append(q, "transform")
         /\ q \o (<<"closure">> \o <<"transform">>) = Append(Append(q, "closure"), "transform")
<1>1. << >> \o <<"transform">> = <<"transform">>
  <2>1. <<"transform">> \in Seq({"closure", "transform"})
    OBVIOUS
  <2>. QED
    BY <2>1, ConcatEmptySeq
<1>2. PICK r, s : /\ r = <<"closure">> /\ s = <<"transform">>
                  /\ r \in Seq({"closure", "transform"}) /\ s \in Seq({"closure", "transform"})
  <2>1. <<"closure">> \in Seq({"closure", "transform"})
    OBVIOUS
  <2>2. <<"transform">> \in Seq({"closure", "transform"})
    OBVIOUS
  <2>. QED
    BY <2>1, <2>2, Zenon
<1>3. \A p \in Seq({"closure", "transform"}) : p \o <<"transform">> = Append(p, "transform")
  OBVIOUS
<1>4. q \o <<"closure">> = Append(q, "closure")
  OBVIOUS
<1>5. q \o (r \o s) = (q \o r) \o s
  BY <1>2, ConcatAssociative
<1>6. Append(q, "closure") \in Seq({"closure", "transform"})
  OBVIOUS
<1>7. (q \o r) \o s = Append(Append(q, "closure"), "transform")
  BY <1>2, <1>3, <1>4, <1>6
<1>. QED
  BY <1>1, <1>2, <1>3, <1>5, <1>7

LEMMA BareKept ==
  ASSUME NEW l \in Seq(Layer), l # << >>, Use \in Uses, Use \notin Fresh
  PROVE  Bare(Kept(l)) = Promise!Marked(Bare(l), Use)
<1>1. PICK n, m, a, b : n = Len(l) /\ m = Kept(l) /\ a = Bare(l) /\ b = Bare(m)
  OBVIOUS
<1>2. n \in Nat \ {0} /\ n \in 1 .. n
  BY <1>1, LastIs
<1>3. /\ m \in Seq(Layer) /\ Len(m) = n /\ m[n].site = l[n].site
      /\ m[n].marks = Append(Seen(l)[n].marks, "transform")
  BY <1>1, KeptIs
<1>4. \A i \in 1 .. n - 1 : m[i] = l[i]
  BY <1>1, KeptIs
<1>5. /\ a \in Seq(BareLayer) /\ Len(a) = n
      /\ \A i \in 1 .. n : /\ a[i] = [site |-> l[i].site, marks |-> l[i].marks]
                           /\ l[i].site \in Nat /\ l[i].marks \in Marks
  BY <1>1, BareIs
<1>6. /\ b \in Seq(BareLayer) /\ Len(b) = n
      /\ \A i \in 1 .. n : /\ b[i] = [site |-> m[i].site, marks |-> m[i].marks]
                           /\ m[i].site \in Nat /\ m[i].marks \in Marks
  BY <1>1, <1>3, BareIs
<1>7. PICK x : x = (IF Use \in Promise!Looking THEN <<"closure">> ELSE << >>) \o <<"transform">>
  OBVIOUS
<1>8. m[n].marks = l[n].marks \o x
  <2>1. PICK q : q = l[n].marks /\ q \in Seq({"closure", "transform"})
    BY <1>2, <1>5 DEF Marks
  <2>2. CASE Use \in Closing
    <3>1. x = <<"closure">> \o <<"transform">>
      BY <1>7, <2>2, SortsAre
    <3>2. Seen(l)[n].marks = Append(q, "closure")
      BY <1>1, <2>1, <2>2, SeenIs
    <3>. QED
      BY <1>3, <2>1, <3>1, <3>2, JoinedMarks
  <2>3. CASE Use \notin Closing
    <3>1. x = << >> \o <<"transform">>
      BY <1>7, <2>3, SortsAre
    <3>2. Seen(l)[n].marks = q
      BY <1>1, <2>1, <2>3, SeenIs
    <3>. QED
      BY <1>3, <2>1, <3>1, <3>2, JoinedMarks
  <2>. QED
    BY <2>2, <2>3
<1>9. PICK e : e = Promise!Layer(a[n].site, a[n].marks \o x)
  OBVIOUS
<1>10. e = b[n] /\ e \in BareLayer
  <2>1. a[n].site = l[n].site /\ a[n].marks = l[n].marks
    BY <1>2, <1>5
  <2>2. e = [site |-> m[n].site, marks |-> m[n].marks]
    BY <1>3, <1>8, <1>9, <2>1 DEF Promise!Layer
  <2>3. e = b[n]
    BY <1>2, <1>6, <2>2
  <2>4. b[n] \in BareLayer
    BY <1>2, <1>6
  <2>. QED
    BY <2>3, <2>4
<1>11. PICK c : c = [a EXCEPT ![n] = e]
  OBVIOUS
<1>12. c = Promise!Marked(a, Use)
  BY <1>5, <1>7, <1>9, <1>11 DEF Promise!Marked
<1>13. /\ c \in Seq(BareLayer) /\ Len(c) = n /\ c[n] = e
       /\ \A i \in 1 .. n - 1 : c[i] = a[i]
  <2>1. a # << >>
    BY <1>2, <1>5
  <2>2. c = [a EXCEPT ![Len(a)] = e]
    BY <1>5, <1>11
  <2>. QED
    BY <1>5, <1>10, <2>1, <2>2, Replaced
<1>14. \A i \in 1 .. n : b[i] = c[i]
  <2>. SUFFICES ASSUME NEW i \in 1 .. n PROVE b[i] = c[i]
    OBVIOUS
  <2>1. CASE i \in 1 .. n - 1
    BY <1>4, <1>5, <1>6, <1>13, <2>1
  <2>2. CASE i = n
    BY <1>10, <1>13, <2>2
  <2>. QED
    BY <1>2, <2>1, <2>2
<1>15. b = c
  BY <1>6, <1>13, <1>14, SameSeq
<1>. QED
  BY <1>1, <1>12, <1>15

(* A statement that is about to be executed.                                *)
Ready == /\ program \in Programs /\ line \in 1 .. Len(program)
         /\ value \in Value /\ IsError(value)
         /\ held = value /\ data = NoData /\ stack = <<Frame("main")>>
Underway == Path /\ Sources /\ Continues

LEMMA Begins ==
  Ready => Underway
<1>. SUFFICES ASSUME Ready PROVE Underway
  OBVIOUS
<1>1. program \in Programs /\ line \in 1 .. Len(program)
  BY DEF Ready
<1>2. /\ Len(stack) = 1 /\ stack[1].fn = "main" /\ stack[1].at = 1
      /\ Top.fn = "main" /\ Top.at = 1
  BY DEF Ready, Frame, Top
<1>3. Fits("main")
  BY DEF Fits
<1>4. Len(Body("main")) \in 1 .. 3
  BY <1>1, <1>3, Calls
<1>5. Path
  BY <1>2, <1>3, <1>4 DEF Path
<1>6. Sources
  <2>1. "main" \notin NeedsSource /\ 1 \notin 2 .. Len(Body("main"))
    BY DEF NeedsSource, Converters
  <2>. QED
    BY <1>2, <2>1 DEF Sources, Needs, Awaits
<1>7. Continues
  <2>1. "main" \notin Tracked
    BY Domains DEF Tracked
  <2>2. PICK p : p = "main" /\ PlacedAt(1, p)
    BY <1>2, <2>1 DEF PlacedAt
  <2>3. PICK s, t : s = Current /\ t = Outcome
    OBVIOUS
  <2>4. Rest("main", 1, p, s) = t
    <3>1. Placed("main", p) = p
      BY <2>1, <2>2 DEF Placed
    <3>2. Rest("main", 1, p, s) = Does("main", p, s)
      BY <1>1, <1>3, <3>1, Whole
    <3>3. Does("main", p, s) = Executed(Spot, s)
      BY LeavesAre
    <3>4. s = State(value, NoData)
      BY <2>3 DEF Current, Ready
    <3>. QED
      BY <2>3, <3>2, <3>3, <3>4 DEF Outcome
  <2>5. PICK after : after = [i \in 1 .. 2 |-> IF i = 1 THEN t ELSE s]
    OBVIOUS
  <2>6. PICK place : place = [i \in {1} |-> p]
    OBVIOUS
  <2>7. after[1] = t /\ after[2] = s /\ place[1] = p
    BY <2>5, <2>6
  <2>8. after[Len(stack) + 1] = s
    BY <1>2, <2>7
  <2>9. ASSUME NEW i \in 1 .. Len(stack)
        PROVE  /\ after[i] = Rest(stack[i].fn, stack[i].at, place[i], after[i + 1])
               /\ PlacedAt(i, place[i])
               /\ stack[i].fn = "fail" => after[i].held.layers # << >>
    <3>1. i = 1 /\ i + 1 = 2
      BY <1>2
    <3>2. stack[i].fn # "fail"
      BY <1>2, <3>1
    <3>. QED
      BY <1>2, <2>2, <2>4, <2>7, <3>1, <3>2
  <2>. QED
    BY <2>3, <2>7, <2>8, <2>9 DEF Continues
<1>. QED
  BY <1>5, <1>6, <1>7 DEF Underway

LEMMA BeginsNext ==
  Ready' => Underway'
BY Begins, PTL

(* A statement that is done has come to its outcome.                        *)
LEMMA Comes ==
  ASSUME IInv, Finish
  PROVE  Current = Outcome
<1>1. Executing /\ AtEnd /\ Len(stack) = 1
  BY DEF Finish
<1>2. /\ program \in Programs /\ line \in 1 .. Len(program)
      /\ stack \in Seq([fn : Function, at : Nat]) /\ Path /\ Continues
  BY <1>1, Facts
<1>3. Fits(Top.fn) /\ Top.at = Len(Body(Top.fn)) + 1
  BY <1>1, <1>2, TopIs DEF AtEnd
<1>4. PICK after, place :
        /\ after[1] = Outcome
        /\ after[Len(stack) + 1] = Current
        /\ \A i \in 1 .. Len(stack) :
             after[i] = Rest(stack[i].fn, stack[i].at, place[i], after[i + 1])
  BY <1>2 DEF Continues
<1>5. PICK i : i = 1
  OBVIOUS
<1>6. i = Len(stack) /\ i \in 1 .. Len(stack) /\ Len(stack) + 1 = i + 1
  BY <1>1, <1>5
<1>7. after[i] = Rest(Top.fn, Top.at, place[i], Current)
  BY <1>4, <1>6 DEF Top
<1>8. Rest(Top.fn, Top.at, place[i], Current) = Current
  BY <1>2, <1>3, Ended
<1>. QED
  BY <1>4, <1>5, <1>7, <1>8

(* What it leaves in hand.                                                  *)
LEMMA ComesTo ==
  ASSUME IInv, Finish, NEW k, NEW c, NEW l, value = Err(k, c, l)
  PROVE  /\ data = NoData
         /\ held = IF k = IF Use \in Fresh THEN "none" ELSE "err"
                   THEN Err("err", Counted(c), Layers(l)) ELSE value
<1>1. Use \in Uses
  BY Facts, StatementIs DEF Finish
<1>2. PICK e : e = Err("err", Counted(c), Layers(l))
  OBVIOUS
<1>3. State(held, data) = IF k = IF Use \in Fresh THEN "none" ELSE "err"
                          THEN State(e, NoData) ELSE State(value, NoData)
  BY <1>1, <1>2, Comes, OutcomeIs DEF Current
<1>4. \A h, d, g, f : State(h, d) = State(g, f) => h = g /\ d = f
  BY DEF State
<1>. QED
  BY <1>2, <1>3, <1>4

(* The layers of what it leaves are as they should be.                      *)
LEMMA LayersAre ==
  ASSUME program \in Programs, line \in 1 .. Len(program), NEW l \in Seq(Layer),
         Fine(l), Earlier(l), Use \in Fresh <=> l = << >>
  PROVE  /\ Layers(l) \in Seq(Layer) /\ Layers(l) # << >>
         /\ Fine(Layers(l)) /\ \A i \in 1 .. Len(Layers(l)) : Layers(l)[i].site < line + 1
<1>0. Use \in Uses
  BY StatementIs
<1>1. CASE Use \notin Fresh
  <2>1. Layers(l) = Append(Kept(l), Wrapper(l))
    BY <1>1 DEF Layers
  <2>. QED
    BY <1>1, <2>1, WrapFine
<1>2. CASE Use = "ensure_into"
  <2>1. PICK u, w : /\ u = Append(<< >>, LeafLayer)
                    /\ w = Append(Noted(u, "transform"), Outer(u))
    OBVIOUS
  <2>2. Layers(l) = w
    BY <1>0, <1>2, <2>1, SortsAre DEF Layers
  <2>. QED
    BY <1>2, <2>1, <2>2, EnsureFine
<1>3. CASE Use \in Fresh /\ Use # "ensure_into"
  <2>1. Seen(l) = << >>
    BY <1>3 DEF Seen, Noted
  <2>2. PICK w : w = <<LeafLayer>>
    OBVIOUS
  <2>3. Layers(l) = w
    <3>1. Layers(l) = Append(Seen(l), LeafLayer)
      BY <1>3 DEF Layers
    <3>. QED
      BY <2>1, <2>2, <3>1
  <2>. QED
    BY <2>2, <2>3, LeafFine
<1>. QED
  BY <1>1, <1>2, <1>3

LEMMA CountedIs ==
  ASSUME NEW c \in Nat
  PROVE  Counted(c) \in Nat
BY DEF Counted

LEMMA PropertiesNext ==
  (value.layers \in Seq(Layer) => (OwnPlace /\ DataSeesTheSource <=> Fine(value.layers)))'
<1>1. value.layers \in Seq(Layer) => (OwnPlace /\ DataSeesTheSource <=> Fine(value.layers))
  BY PropertiesAre
<1>. QED
  BY <1>1, PTL

LEMMA FinishKeeps ==
  ASSUME IInv, Finish
  PROVE  IInv'
<1>1. /\ Executing /\ value' = held /\ line' = line + 1
      /\ stack' = IF line = Len(program) THEN << >> ELSE <<Frame("main")>>
      /\ UNCHANGED <<program, held, data>>
  BY DEF Finish
<1>2. /\ program \in Programs /\ line \in 1 .. Len(program)
      /\ held \in Value /\ IsError(held) /\ data \in [loc : Place, shown : Shown]
      /\ line \in Nat /\ Len(program) \in Nat /\ Len(program) <= MaxStatements
      /\ value \in Value /\ IsError(value) /\ MaxStatements \in Nat
  BY <1>1, Facts, ProgramsAssumption, MaxStatementsAssumption DEF IInv, TypeOK
<1>3. PICK k, c, l : /\ value = Err(k, c, l) /\ k = value.kind /\ l = value.layers
                     /\ k \in {"ok", "none", "err"} /\ c \in Nat /\ l \in Seq(Layer)
  BY <1>2, ErrNormal, ValueIs
<1>4. /\ data = NoData
      /\ held = IF k = IF Use \in Fresh THEN "none" ELSE "err"
                THEN Err("err", Counted(c), Layers(l)) ELSE value
  BY <1>3, ComesTo
<1>5. Fine(l) /\ Earlier(l) /\ DOMAIN l = 1 .. Len(l) /\ \A i \in 1 .. Len(l) : l[i].site \in Nat
  <2>1. DOMAIN l = 1 .. Len(l) /\ \A i \in 1 .. Len(l) : l[i] \in Layer
    BY <1>3
  <2>2. \A e \in Layer : e.site \in Nat
    BY LayerIs
  <2>3. Fine(l)
    BY <1>3, PropertiesAre DEF IInv
  <2>4. Earlier(l)
    BY <1>3, <2>1 DEF IInv, Earlier
  <2>. QED
    BY <2>1, <2>2, <2>3, <2>4
<1>6. PICK w : w = held.layers
  OBVIOUS
<1>7. w \in Seq(Layer) /\ Fine(w) /\ \A i \in 1 .. Len(w) : w[i].site < line + 1
  <2>1. CASE k = IF Use \in Fresh THEN "none" ELSE "err"
    <3>1. w = Layers(l)
      <4>1. held = Err("err", Counted(c), Layers(l))
        BY <1>4, <2>1
      <4>. QED
        BY <1>6, <4>1 DEF Err
    <3>2. Use \in Fresh <=> l = << >>
      BY <1>2, <1>3, <2>1 DEF IsError
    <3>. QED
      BY <1>2, <1>3, <1>5, <3>1, <3>2, LayersAre
  <2>2. CASE k # IF Use \in Fresh THEN "none" ELSE "err"
    <3>1. w = l
      BY <1>3, <1>4, <1>6, <2>2
    <3>2. \A i \in 1 .. Len(l) : l[i].site < line + 1
      BY <1>2, <1>5 DEF Earlier
    <3>. QED
      BY <1>3, <1>5, <3>1, <3>2
  <2>. QED
    BY <2>1, <2>2
<1>8. OwnPlace' /\ DataSeesTheSource'
  <2>1. PICK v : v = value'
    OBVIOUS
  <2>2. v.layers = w /\ value'.layers = w
    BY <1>1, <1>6, <2>1
  <2>3. Fine(w)' = Fine(w)
    BY <1>1 DEF Fine, RightPlace, RightData
  <2>4. Fine(value.layers)'
    BY <1>7, <2>2, <2>3
  <2>5. (OwnPlace /\ DataSeesTheSource)'
    BY <1>7, <2>2, <2>4, PropertiesNext
  <2>. QED
    BY <2>5
<1>9. /\ line' \in 1 .. MaxStatements + 1 /\ line' \in 1 .. Len(program') + 1
      /\ program' \in Programs
      /\ value' \in Value /\ held' \in Value /\ data' \in [loc : Place, shown : Shown]
      /\ IsError(held)' /\ IsError(value)'
  BY <1>1, <1>2 DEF IsError
<1>10. \A i \in DOMAIN value'.layers : value'.layers[i].site < line'
  <2>1. DOMAIN w = 1 .. Len(w)
    BY <1>7
  <2>2. value'.layers = w
    BY <1>1, <1>6
  <2>. QED
    BY <1>1, <1>7, <2>1, <2>2
<1>11. stack' \in Seq([fn : Function, at : Nat])
  <2>1. Frame("main") \in [fn : Function, at : Nat]
    BY DEF Frame, Function
  <2>2. PICK f, S : f = Frame("main") /\ S = [fn : Function, at : Nat] /\ f \in S
    BY <2>1
  <2>3. << >> \in Seq(S) /\ <<f>> \in Seq(S)
    BY <2>2
  <2>4. stack' = << >> \/ stack' = <<f>>
    BY <1>1, <2>2, Zenon
  <2>. QED
    BY <2>2, <2>3, <2>4, Zenon
<1>12. line' <= Len(program') => Path' /\ Sources' /\ Continues'
  <2>. SUFFICES ASSUME line' <= Len(program') PROVE Ready'
    BY BeginsNext DEF Underway
  <2>1. line' \in 1 .. Len(program')
    BY <1>1, <1>2
  <2>2. stack' = <<Frame("main")'>>
    <3>1. line # Len(program)
      BY <1>1, <1>2
    <3>. QED
      BY <1>1, <3>1 DEF Frame
  <2>3. data' = NoData'
    BY <1>1, <1>4 DEF NoData, Nowhere
  <2>4. held' = value'
    BY <1>1
  <2>. QED
    BY <1>9, <2>1, <2>2, <2>3, <2>4 DEF Ready
<1>. QED
  BY <1>8, <1>9, <1>10, <1>11, <1>12 DEF IInv, TypeOK

LEMMA StutterKeeps ==
  ASSUME IInv, UNCHANGED vars
  PROVE  IInv'
<1>1. /\ UNCHANGED <<program, line, value, held, data>> /\ stack' = stack
  BY DEF vars
<1>2. TypeOK' /\ IsError(held)'
  BY <1>1, Still DEF IInv, TypeOK, IsError
<1>3. line' <= Len(program') => Path' /\ Sources' /\ Continues'
  <2>. SUFFICES ASSUME line <= Len(program) PROVE Path' /\ Sources' /\ Continues'
    BY <1>1
  <2>1. /\ \A f : Body(f)' = Body(f) /\ Fits(f)' = Fits(f)
    BY <1>1, Keeps
  <2>2. Path'
    BY <1>1, <2>1 DEF IInv, Path
  <2>3. Sources'
    BY <1>1, NeedsKept DEF IInv, Sources, Top
  <2>4. Continues'
    <3>1. PICK after, place :
            /\ after[1] = Outcome
            /\ after[Len(stack) + 1] = Current
            /\ \A i \in 1 .. Len(stack) :
                 /\ after[i] = Rest(stack[i].fn, stack[i].at, place[i], after[i + 1])
                 /\ PlacedAt(i, place[i])
                 /\ stack[i].fn = "fail" => after[i].held.layers # << >>
      BY DEF IInv, Continues
    <3>2. Outcome' = Outcome /\ Current' = Current
      BY <1>1, Keeps DEF Current, State
    <3>3. ASSUME NEW i \in 1 .. Len(stack)
          PROVE  /\ after[i] = Rest(stack[i].fn, stack[i].at, place[i], after[i + 1])'
                 /\ PlacedAt(i, place[i])'
      <4>1. Rest(stack[i].fn, stack[i].at, place[i], after[i + 1])'
              = Rest(stack'[i].fn, stack'[i].at, place[i], after[i + 1])
        BY <1>1, Keeps
      <4>2. PlacedAt(i, place[i])' = PlacedAt(i, place[i])
        BY <1>1 DEF PlacedAt
      <4>. QED
        BY <1>1, <3>1, <4>1, <4>2
    <3>. QED
      BY <1>1, <3>1, <3>2, <3>3 DEF Continues
  <2>. QED
    BY <2>2, <2>3, <2>4
<1>. QED
  BY <1>1, <1>2, <1>3, Still DEF IInv

(* Init.                                                                    *)
LEMMA GivenIs ==
  ASSUME NEW kind \in {"ok", "none", "err"}
  PROVE  /\ Given(kind) \in Value /\ IsError(Given(kind))
         /\ Given(kind).layers \in Seq(Layer)
         /\ \A i \in 1 .. Len(Given(kind).layers) : Given(kind).layers[i].site = 0
<1>1. PICK e : e = [site |-> 0, marks |-> << >>, loc |-> Nowhere, shown |-> <<"nothing">>]
  OBVIOUS
<1>2. e \in Layer /\ e.site = 0
  <2>1. Nowhere \in Place
    BY MaxStatementsAssumption DEF Nowhere, Place, Function
  <2>2. PICK q, x, m : /\ q = Nowhere /\ x = <<"nothing">> /\ m = << >>
                       /\ q \in Place /\ x \in Shown /\ m \in Marks
    <3>1. <<"nothing">> \in Shown
      BY DEF Shown
    <3>2. << >> \in Marks
      BY DEF Marks
    <3>. QED
      BY <2>1, <3>1, <3>2, Zenon
  <2>3. e = [site |-> 0, marks |-> m, loc |-> q, shown |-> x]
    BY <1>1, <2>2
  <2>. QED
    BY <2>2, <2>3 DEF Layer
<1>3. PICK l : l = IF kind = "err" THEN <<e>> ELSE << >>
  OBVIOUS
<1>4. Given(kind) = Err(kind, 0, l)
  BY <1>1, <1>3 DEF Given, Err
<1>5. /\ l \in Seq(Layer) /\ (kind = "err" => l # << >>) /\ (kind # "err" => l = << >>)
      /\ \A i \in 1 .. Len(l) : l[i].site = 0
  <2>1. CASE kind = "err"
    <3>1. l = <<e>>
      BY <1>3, <2>1
    <3>2. l \in Seq(Layer) /\ Len(l) = 1 /\ l[1] = e /\ l # << >>
      BY <1>2, <3>1
    <3>. QED
      BY <1>2, <2>1, <3>2
  <2>2. CASE kind # "err"
    <3>1. l = << >>
      BY <1>3, <2>2
    <3>. QED
      BY <2>2, <3>1
  <2>. QED
    BY <2>1, <2>2
<1>6. 0 \in Nat
  OBVIOUS
<1>7. /\ Err(kind, 0, l) \in Value
      /\ Err(kind, 0, l).kind = kind /\ Err(kind, 0, l).layers = l
  BY <1>5, <1>6, ErrTyped
<1>. QED
  BY <1>4, <1>5, <1>7 DEF IsError

LEMMA InitHolds ==
  Init => IInv
<1>. SUFFICES ASSUME Init PROVE IInv
  OBVIOUS
<1>1. PICK kind \in {"ok", "none", "err"} : value = Given(kind)
  BY DEF Init
<1>2. /\ program \in Programs /\ line = 1 /\ held = value /\ data = NoData
      /\ stack = <<Frame("main")>>
  BY DEF Init
<1>3. /\ Len(program) \in 1 .. MaxStatements /\ MaxStatements \in Nat
      /\ line \in 1 .. Len(program) /\ line \in 1 .. MaxStatements + 1
      /\ line \in 1 .. Len(program) + 1
  BY <1>2, ProgramsAssumption, MaxStatementsAssumption
<1>4. /\ value \in Value /\ IsError(value) /\ value.layers \in Seq(Layer)
      /\ \A i \in 1 .. Len(value.layers) : value.layers[i].site = 0
  BY <1>1, GivenIs
<1>5. Path /\ Sources /\ Continues
  BY <1>2, <1>3, <1>4, Begins DEF Ready, Underway
<1>6. OwnPlace /\ DataSeesTheSource
  <2>1. Fine(value.layers)
    BY <1>4 DEF Fine, RightPlace, RightData
  <2>. QED
    BY <1>4, <2>1, PropertiesAre
<1>7. \A i \in DOMAIN value.layers : value.layers[i].site < line
  <2>1. DOMAIN value.layers = 1 .. Len(value.layers)
    BY <1>4
  <2>. QED
    BY <1>2, <1>4, <2>1
<1>8. data \in [loc : Place, shown : Shown]
  BY <1>2, MaxStatementsAssumption DEF NoData, Nowhere, Place, Shown, Function
<1>9. stack \in Seq([fn : Function, at : Nat])
  <2>1. Frame("main") \in [fn : Function, at : Nat]
    BY DEF Frame, Function
  <2>2. PICK f, S : f = Frame("main") /\ S = [fn : Function, at : Nat] /\ f \in S
    BY <2>1
  <2>3. <<f>> \in Seq(S)
    BY <2>2
  <2>. QED
    BY <1>2, <2>2, <2>3
<1>10. TypeOK
  BY <1>2, <1>3, <1>4, <1>8, <1>9 DEF TypeOK
<1>. QED
  BY <1>2, <1>3, <1>4, <1>5, <1>6, <1>7, <1>10 DEF IInv

LEMMA StepHolds ==
  IInv /\ [Next]_vars => IInv'
<1>. SUFFICES ASSUME IInv, [Next]_vars PROVE IInv'
  OBVIOUS
<1>1. CASE Call
  BY <1>1, CallKeeps
<1>2. CASE Return
  BY <1>2, ReturnKeeps
<1>3. CASE Test
  BY <1>3, TestKeeps
<1>4. CASE Treat
  BY <1>4, TreatKeeps
<1>5. CASE Generate
  BY <1>5, GenerateKeeps
<1>6. CASE Construct
  BY <1>6, ConstructKeeps
<1>7. CASE Finish
  BY <1>7, FinishKeeps
<1>8. CASE Done
  BY <1>8, StutterKeeps DEF Done
<1>9. CASE UNCHANGED vars
  BY <1>9, StutterKeeps
<1>. QED
  BY <1>1, <1>2, <1>3, <1>4, <1>5, <1>6, <1>7, <1>8, <1>9 DEF Next

-----------------------------------------------------------------------------
(* The functions called go on, whatever the program, until each statement   *)
(* has come to its outcome: the invariant that the theorems rest on.        *)
THEOREM Invariance ==
  Spec => []IInv
<1>. QED
  BY InitHolds, StepHolds, PTL DEF Spec

(* The values that the statements return, and the frames of the functions   *)
(* that they call, are of their types.                                      *)
THEOREM TypeCorrect ==
  Spec => []TypeOK
<1>1. IInv => TypeOK
  BY DEF IInv
<1>. QED
  BY <1>1, Invariance, PTL

(* Every error names the place in the program that it was made at, whatever *)
(* functions of this crate are called in between (lib.rs:1470-1512).        *)
THEOREM PlacesAreOwn ==
  Spec => []OwnPlace
<1>1. IInv => OwnPlace
  BY DEF IInv
<1>. QED
  BY <1>1, Invariance, PTL

(* Implicit data is generated from the error underneath as it is found      *)
(* there by the user, or, for a whatever error, as it was before it was     *)
(* transformed (shared.rs:458-486, 505-552; lib.rs:1327-1340).              *)
THEOREM DataIsOfTheSource ==
  Spec => []DataSeesTheSource
<1>1. IInv => DataSeesTheSource
  BY DEF IInv
<1>. QED
  BY <1>1, Invariance, PTL

(* The refinement.                                                          *)
SeenValue == [kind |-> value.kind, calls |-> value.calls, layers |-> Bare(value.layers)]

LEMMA PromisedIs ==
  /\ Promise!Execute =
       /\ line <= Len(program)
       /\ SeenValue' = IF Promise!Concerns(Use, SeenValue) THEN Promise!Failed(SeenValue, Use, line)
                       ELSE SeenValue
       /\ line' = line + 1
       /\ UNCHANGED program
  /\ Promise!vars = <<program, line, SeenValue>>
BY DEF Promise!Execute, Promise!vars, SeenValue, Bare, Use

LEMMA ShortSeqs ==
  ASSUME NEW S, NEW q \in Seq(S)
  PROVE  /\ Len(q) = 0 => q = << >>
         /\ Len(q) = 1 => q = <<q[1]>> /\ q[1] \in S
OBVIOUS

LEMMA Two ==
  ASSUME NEW a, NEW b
  PROVE  Append(<<a>>, b) = <<a, b>>
<1>1. PICK q, r : q = Append(<<a>>, b) /\ r = <<a, b>>
  OBVIOUS
<1>2. q \in Seq({a, b}) /\ Len(q) = 2 /\ q[1] = a /\ q[2] = b
  <2>1. <<a>> \in Seq({a, b}) /\ Len(<<a>>) = 1 /\ <<a>>[1] = a
    OBVIOUS
  <2>. QED
    BY <1>1, <2>1
<1>3. r \in Seq({a, b}) /\ Len(r) = 2 /\ r[1] = a /\ r[2] = b
  BY <1>1
<1>4. \A i \in 1 .. Len(q) : q[i] = r[i]
  <2>1. 1 .. Len(q) = {1, 2}
    BY <1>2
  <2>. QED
    BY <1>2, <1>3, <2>1
<1>. QED
  BY <1>1, <1>2, <1>3, <1>4, SameSeq

LEMMA BareNone ==
  Bare(<< >>) = << >>
<1>0. << >> \in Seq(Layer)
  OBVIOUS
<1>1. PICK l : l = << >> /\ l \in Seq(Layer)
  BY <1>0, Zenon
<1>2. Bare(l) \in Seq(BareLayer) /\ Len(Bare(l)) = 0
  <2>1. Len(l) = 0
    BY <1>1
  <2>. QED
    BY <1>1, <2>1, BareIs
<1>3. Bare(l) = << >>
  BY <1>2, ShortSeqs
<1>. QED
  BY <1>1, <1>3, Zenon

LEMMA BareLeaf ==
  ASSUME NEW e \in Layer
  PROVE  Bare(<<e>>) = <<Promise!Layer(e.site, e.marks)>>
<1>0. << >> \in Seq(Layer)
  OBVIOUS
<1>1. PICK l : l = << >> /\ l \in Seq(Layer)
  BY <1>0, Zenon
<1>2. Bare(Append(l, e)) = Append(Bare(l), Promise!Layer(e.site, e.marks))
  BY <1>1, BareAppend
<1>3. Bare(l) = << >>
  BY <1>1, BareNone
<1>4. Append(l, e) = <<e>>
  BY <1>1
<1>. QED
  BY <1>2, <1>3, <1>4

LEMMA PromiseBegins ==
  Init => Promise!Init
<1>. SUFFICES ASSUME Init PROVE Promise!Init
  OBVIOUS
<1>1. program \in Programs /\ line = 1
  BY DEF Init
<1>2. PICK kind \in {"ok", IF program[1].use \in Fresh THEN "none" ELSE "err"} :
        value = Given(kind)
  BY DEF Init
<1>3. PICK e : e = [site |-> 0, marks |-> << >>, loc |-> Nowhere, shown |-> <<"nothing">>]
  OBVIOUS
<1>4. e \in Layer /\ e.site = 0 /\ e.marks = << >>
  <2>1. Nowhere \in Place /\ <<"nothing">> \in Shown
    <3>1. Nowhere \in Place
      BY MaxStatementsAssumption DEF Nowhere, Place, Function
    <3>2. <<"nothing">> \in Shown
      BY DEF Shown
    <3>. QED
      BY <3>1, <3>2
  <2>2. PICK q, x, m : q = Nowhere /\ x = <<"nothing">> /\ m = << >> /\ m \in Marks
    <3>1. << >> \in Marks
      BY DEF Marks
    <3>. QED
      BY <3>1, Zenon
  <2>3. e = [site |-> 0, marks |-> m, loc |-> q, shown |-> x]
    BY <1>3, <2>2
  <2>. QED
    BY <2>1, <2>2, <2>3 DEF Layer
<1>5. SeenValue = Promise!Given(kind)
  <2>1. value.kind = kind /\ value.calls = 0
    BY <1>2 DEF Given
  <2>2. Bare(value.layers) = IF kind = "err" THEN <<Promise!Layer(0, << >>)>> ELSE << >>
    <3>1. CASE kind = "err"
      <4>1. value.layers = <<e>>
        BY <1>2, <1>3, <3>1 DEF Given
      <4>. QED
        BY <1>4, <3>1, <4>1, BareLeaf
    <3>2. CASE kind # "err"
      <4>1. value.layers = << >>
        BY <1>2, <3>2 DEF Given
      <4>. QED
        BY <3>2, <4>1, BareNone
    <3>. QED
      BY <3>1, <3>2
  <2>. QED
    BY <2>1, <2>2 DEF SeenValue, Promise!Given
<1>. QED
  BY <1>1, <1>2, <1>5 DEF Promise!Init, SeenValue, Bare, Fresh

(* A statement does what it promises.                                       *)
LEMMA BareLayers ==
  ASSUME program \in Programs, line \in 1 .. Len(program), NEW l \in Seq(Layer),
         Use \in Fresh <=> l = << >>
  PROVE  Bare(Layers(l)) =
           CASE Use \in Promise!Wrapping ->
                  Append(Promise!Marked(Bare(l), Use), Promise!Layer(line, << >>))
             [] Use = "ensure_into" ->
                  <<Promise!Layer(line, <<"transform">>), Promise!Layer(line, << >>)>>
             [] OTHER -> <<Promise!Layer(line, << >>)>>
<1>0. Use \in Uses
  BY StatementIs
<1>1. CASE Use \notin Fresh
  <2>1. Layers(l) = Append(Kept(l), Wrapper(l))
    BY <1>1 DEF Layers
  <2>2. /\ Kept(l) \in Seq(Layer)
        /\ Wrapper(l) \in Layer /\ Wrapper(l).site = line /\ Wrapper(l).marks = << >>
    BY <1>1, KeptIs, WrapperIs
  <2>3. Bare(Layers(l)) = Append(Bare(Kept(l)), Promise!Layer(line, << >>))
    BY <2>1, <2>2, BareAppend
  <2>4. Bare(Kept(l)) = Promise!Marked(Bare(l), Use)
    BY <1>0, <1>1, BareKept
  <2>5. Use \in Promise!Wrapping /\ Use # "ensure_into"
    BY <1>0, <1>1, SortsAre
  <2>. QED
    BY <2>3, <2>4, <2>5
<1>2. CASE Use = "ensure_into"
  <2>1. Use \in Fresh /\ Use \notin Promise!Wrapping /\ l = << >>
    BY <1>0, <1>2, SortsAre
  <2>2. PICK u, m, e, a, b :
          /\ u = Append(l, LeafLayer) /\ m = Noted(u, "transform") /\ e = Outer(u)
          /\ a = Promise!Layer(line, <<"transform">>) /\ b = Promise!Layer(line, << >>)
    OBVIOUS
  <2>3. Layers(l) = Append(m, e)
    BY <1>2, <2>1, <2>2 DEF Layers
  <2>4. /\ m \in Seq(Layer) /\ Len(m) = 1 /\ m[1].site = line /\ m[1].marks = <<"transform">>
        /\ e \in Layer /\ e.site = line /\ e.marks = << >>
    BY <2>1, <2>2, EnsuredIs
  <2>5. Bare(Layers(l)) = Append(Bare(m), b)
    BY <2>2, <2>3, <2>4, BareAppend
  <2>6. Bare(m) = <<a>>
    <3>1. PICK f : f = m[1] /\ m = <<f>> /\ f \in Layer
      BY <2>4, ShortSeqs
    <3>. QED
      BY <2>2, <2>4, <3>1, BareLeaf
  <2>7. Append(<<a>>, b) = <<a, b>>
    BY Two
  <2>. QED
    BY <1>2, <2>1, <2>2, <2>5, <2>6, <2>7
<1>3. CASE Use \in Fresh /\ Use # "ensure_into"
  <2>1. Use \notin Promise!Wrapping /\ l = << >>
    BY <1>0, <1>3, SortsAre
  <2>2. Layers(l) = <<LeafLayer>>
    <3>1. Seen(l) = << >>
      BY <2>1 DEF Seen, Noted
    <3>2. Layers(l) = Append(Seen(l), LeafLayer)
      BY <1>3 DEF Layers
    <3>. QED
      BY <3>1, <3>2
  <2>3. Bare(Layers(l)) = <<Promise!Layer(line, << >>)>>
    BY <2>2, LeafIs, BareLeaf
  <2>. QED
    BY <1>3, <2>1, <2>3
<1>. QED
  BY <1>1, <1>2, <1>3

LEMMA FinishPromised ==
  ASSUME IInv, Finish
  PROVE  Promise!Execute
<1>1. /\ Executing /\ value' = held /\ line' = line + 1 /\ program' = program
  BY DEF Finish
<1>2. /\ program \in Programs /\ line \in 1 .. Len(program) /\ Use \in Uses
      /\ line <= Len(program) /\ value \in Value /\ IsError(value)
  BY <1>1, Facts, StatementIs DEF IInv, TypeOK, Executing
<1>3. PICK k, c, l : /\ value = Err(k, c, l) /\ k = value.kind /\ c = value.calls
                     /\ l = value.layers
                     /\ k \in {"ok", "none", "err"} /\ c \in Nat /\ l \in Seq(Layer)
  BY <1>2, ErrNormal, ValueIs
<1>4. held = IF k = IF Use \in Fresh THEN "none" ELSE "err"
             THEN Err("err", Counted(c), Layers(l)) ELSE value
  BY <1>3, ComesTo
<1>5. Promise!Concerns(Use, SeenValue) <=> k = IF Use \in Fresh THEN "none" ELSE "err"
  <2>1. SeenValue.kind = k
    BY <1>3 DEF SeenValue
  <2>. QED
    BY <1>2, <2>1, SortsAre DEF Promise!Concerns, Fresh
<1>6. CASE k = IF Use \in Fresh THEN "none" ELSE "err"
  <2>1. PICK w : w = Layers(l)
    OBVIOUS
  <2>2. value' = Err("err", Counted(c), w)
    BY <1>1, <1>4, <1>6, <2>1
  <2>3. SeenValue' = [kind |-> "err", calls |-> Counted(c), layers |-> Bare(w)]
    <3>1. PICK v : v = value'
      OBVIOUS
    <3>2. v.kind = "err" /\ v.calls = Counted(c) /\ v.layers = w
      BY <2>2, <3>1 DEF Err
    <3>3. SeenValue' = [kind |-> v.kind, calls |-> v.calls, layers |-> Bare(v.layers)]
      BY <3>1 DEF SeenValue, Bare
    <3>. QED
      BY <3>2, <3>3
  <2>4. Use \in Fresh <=> l = << >>
    BY <1>2, <1>3, <1>6 DEF IsError
  <2>5. Bare(w) =
           CASE Use \in Promise!Wrapping ->
                  Append(Promise!Marked(Bare(l), Use), Promise!Layer(line, << >>))
             [] Use = "ensure_into" ->
                  <<Promise!Layer(line, <<"transform">>), Promise!Layer(line, << >>)>>
             [] OTHER -> <<Promise!Layer(line, << >>)>>
    BY <1>2, <1>3, <2>1, <2>4, BareLayers
  <2>6. Counted(c) = c + (IF Use \in Promise!Lazy THEN 1 ELSE 0)
    BY <1>2, <1>3, SortsAre DEF Counted
  <2>7. SeenValue.calls = c /\ SeenValue.layers = Bare(l)
    BY <1>3 DEF SeenValue
  <2>8. SeenValue' = Promise!Failed(SeenValue, Use, line)
    BY <2>3, <2>5, <2>6, <2>7 DEF Promise!Failed
  <2>. QED
    BY <1>1, <1>2, <1>5, <1>6, <2>8, PromisedIs
<1>7. CASE k # IF Use \in Fresh THEN "none" ELSE "err"
  <2>1. value' = value
    BY <1>1, <1>4, <1>7
  <2>2. SeenValue' = SeenValue
    BY <2>1 DEF SeenValue, Bare
  <2>. QED
    BY <1>1, <1>2, <1>5, <1>7, <2>2, PromisedIs
<1>. QED
  BY <1>6, <1>7

LEMMA StepPromised ==
  IInv /\ [Next]_vars => [Promise!Execute]_Promise!vars
<1>. SUFFICES ASSUME IInv, [Next]_vars PROVE Promise!Execute \/ UNCHANGED Promise!vars
  OBVIOUS
<1>1. CASE Finish
  BY <1>1, FinishPromised
<1>2. CASE UNCHANGED <<program, line, value>>
  BY <1>2 DEF Promise!vars
<1>3. \/ Finish
      \/ UNCHANGED <<program, line, value>>
  BY DEF Next, Call, Return, Test, Treat, Generate, Construct, Done, vars
<1>. QED
  BY <1>1, <1>2, <1>3

-----------------------------------------------------------------------------
(* Through whatever functions it is made, a statement does to the errors    *)
(* what WrappedErrors says of it, and nothing else, for every program       *)
(* (lib.rs:449-597, 871-1163).                                              *)
THEOREM StatementsKeepThePromise ==
  Spec => PromiseKept
<1>. QED
  BY PromiseBegins, Invariance, StepPromised, PTL DEF Spec, PromiseKept, Promise!Spec
=============================================================================
