----------------------------- MODULE Attributes -----------------------------
(***************************************************************************)
(* How the derive macro reads the `#[snafu(..)]` attributes and the doc    *)
(* comment of one item: `syn_attrs` (parse.rs) hands the attributes, one   *)
(* by one, to the `Attributes::from_syn` of the item (six of them, one for *)
(* each place attributes may be in), which keeps, collects or refuses      *)
(* them, and then checks what has been kept against each other.            *)
(*                                                                         *)
(* An attribute is a kind and the part of its argument that matters here.  *)
(* The attributes of all lists are one sequence; `source(a, b)` is two     *)
(* attributes, and a list that does not parse is one attribute of kind     *)
(* "malformed", since the rest of it is never seen.                        *)
(***************************************************************************)
EXTENDS Naturals, Sequences, Diagnostics

CONSTANTS Items,         \* the items looked at: their places and attributes
          MaxAttributes  \* bound: the number of attributes of an item

Location == {"OnEnum", "OnVariant", "OnField", "OnNamedStruct",
             "OnTupleStruct", "OnTupleStructField"}

Flags == {"Backtrace", "ContextFlag", "Implicit", "ProvideFlag", "SourceFlag",
          "Transparent"}
Values == {"ContextName", "ContextSuffix", "CrateRoot", "Display", "Module",
           "ProvideExpression", "SourceFrom", "Visibility", "Whatever"}
Kinds == Flags \union Values

(* A flag is enabled or not, however that is written.  A doc comment is a   *)
(* line of words, a blank line, or a block of several paragraphs.           *)
Attribute == [kind : Flags, value : {"true", "false"}]
               \union [kind : Values, value : {"some"}]
               \union [kind : {"DocComment"}, value : {"words", "blank", "paragraphs"}]
               \union [kind : {"malformed"}, value : {"some"}]

ASSUME MaxAttributesAssumption == MaxAttributes \in Nat
ASSUME ItemsAssumption ==
  \A i \in Items : /\ i.location \in Location
                   /\ i.attrs \in Seq(Attribute) /\ Len(i.attrs) <= MaxAttributes

VARIABLES location,  \* where the item is
          attrs,     \* its attributes, in order
          next,      \* the attribute to look at next
          once,      \* AtMostOne per kind
          provides,  \* Vec of `provide` expressions
          docs,      \* DocCommentBuilder: what it holds, and whether it has ended
          errors,    \* SynErrors
          stage,     \* how far `from_syn` is
          kept,      \* the Option per kind, once the AtMostOnes are finished
          selector   \* IntermediateSelectorKind

item == <<location, attrs>>
vars == <<item, next, once, provides, docs, errors, stage, kept, selector>>

Given == 1 .. Len(attrs)
Position == 1 .. MaxAttributes

IsContainer == location \in {"OnVariant", "OnNamedStruct"}

-----------------------------------------------------------------------------
(* The `match`es: what an attribute is good for, by the place it is in.     *)

(* Mutant: a struct refuses an attribute of which its message says that it  *)
(* is valid there.                                                          *)
AtMostOnce_NoCrateRoot(at) ==
  CASE at = "OnEnum" -> {"ContextSuffix", "CrateRoot", "Module", "Visibility"}
    [] at \in {"OnVariant", "OnNamedStruct"} ->
         {"ContextFlag", "ContextName", "ContextSuffix", "Display", "Module",
          "Transparent", "Visibility", "Whatever"}
    [] at = "OnField" -> {"Backtrace", "Implicit", "ProvideFlag", "SourceFlag", "SourceFrom"}
    [] at = "OnTupleStruct" -> {"CrateRoot", "SourceFrom"}
    [] OTHER -> {}

AtMostOnce(at) ==
  CASE at = "OnEnum" -> {"ContextSuffix", "CrateRoot", "Module", "Visibility"}
    [] at \in {"OnVariant", "OnNamedStruct"} ->
         {"ContextFlag", "ContextName", "ContextSuffix", "Display", "Module",
          "Transparent", "Visibility", "Whatever"}
           \union {k \in {"CrateRoot"} : at = "OnNamedStruct"}
    [] at = "OnField" -> {"Backtrace", "Implicit", "ProvideFlag", "SourceFlag", "SourceFrom"}
    [] at = "OnTupleStruct" -> {"CrateRoot", "SourceFrom"}
    [] OTHER -> {}

Repeatable(at) ==
  {k \in {"ProvideExpression"} : at \in {"OnVariant", "OnNamedStruct", "OnTupleStruct"}}

Misplaced(at) == Kinds \ (AtMostOnce(at) \union Repeatable(at))

(* What the message about a misplaced attribute says: "... is only valid    *)
(* on ..." (attr.rs).                                                       *)
ValidOn(kind) ==
  CASE kind = "CrateRoot" -> {"OnEnum", "OnNamedStruct", "OnTupleStruct"}
    [] kind = "Module" -> {"OnEnum", "OnNamedStruct"}
    [] kind = "Visibility" -> {"OnEnum", "OnVariant", "OnNamedStruct"}
    [] kind \in {"Backtrace", "Implicit", "ProvideFlag", "SourceFlag", "SourceFrom"} ->
         {"OnField"}
    [] kind = "ProvideExpression" -> {"OnVariant", "OnNamedStruct", "OnTupleStruct"}
    [] OTHER -> {"OnVariant", "OnNamedStruct"}

-----------------------------------------------------------------------------
NoDocs == [lines |-> << >>, ended |-> FALSE]

(* Mutant: blank lines are skipped.                                         *)
PushDoc_SkipsBlanks(d, i) ==
  IF attrs[i].value = "blank" THEN d ELSE [d EXCEPT !.lines = Append(@, i)]

(* `DocCommentBuilder::push`: the first blank line is the end.              *)
PushDoc(d, i) ==
  IF d.ended THEN d
  ELSE IF attrs[i].value = "blank" THEN [d EXCEPT !.ended = TRUE]
  ELSE [d EXCEPT !.lines = Append(@, i)]

Texts == {"syntax", "only valid on", "multiple", "transparent(false) has no effect",
          "implicit(false) has no effect", "transparent and display",
          "may not be provided together", "source(false) and source(from)"}
Selectors == {"context", "context(name)", "context(suffix)", "context(false)",
              "transparent", "whatever"}

TypeOK ==
  /\ location \in Location
  /\ attrs \in Seq(Attribute) /\ Len(attrs) <= MaxAttributes
  /\ next \in 1 .. Len(attrs) + 1
  /\ once \in [Kinds -> [one : 0 .. MaxAttributes, more : SUBSET Position]]
  /\ provides \in SUBSET Position
  /\ docs \in [lines : Seq(Position), ended : BOOLEAN]
  /\ errors \in SUBSET [at : Position, text : Texts]
  /\ stage \in {"attributes", "checks", "finish", "accepted", "rejected"}
  /\ kept \in [Kinds -> 0 .. MaxAttributes]
  /\ selector \in Selectors

Init ==
  /\ \E i \in Items : location = i.location /\ attrs = i.attrs
  /\ next = 1
  /\ once = [k \in Kinds |-> Empty]
  /\ provides = {}
  /\ docs = NoDocs
  /\ errors = {}
  /\ stage = "attributes"
  /\ kept = [k \in Kinds |-> 0]
  /\ selector = "context"

-----------------------------------------------------------------------------
(* `syn_attrs` and the closures.                                            *)

Take(kinds) ==
  /\ stage = "attributes"
  /\ next <= Len(attrs)
  /\ attrs[next].kind \in kinds
  /\ next' = next + 1
  /\ UNCHANGED <<item, stage, kept, selector>>

(* Mutant: a list that does not parse is passed over in silence.            *)
TakeMalformed_Silent ==
  /\ Take({"malformed"})
  /\ UNCHANGED <<once, provides, docs, errors>>

(* `errors.push(e); continue`                                               *)
TakeMalformed ==
  /\ Take({"malformed"})
  /\ errors' = errors \union At({next}, "syntax")
  /\ UNCHANGED <<once, provides, docs>>

TakeMisplaced ==
  /\ Take(Misplaced(location))
  /\ errors' = errors \union At({next}, "only valid on")
  /\ UNCHANGED <<once, provides, docs>>

TakeOnce ==
  /\ Take(AtMostOnce(location))
  /\ once' = [once EXCEPT ![attrs[next].kind] = Push(@, next)]
  /\ UNCHANGED <<provides, docs, errors>>

TakeProvide ==
  /\ Take(Repeatable(location))
  /\ provides' = provides \union {next}
  /\ UNCHANGED <<once, docs, errors>>

TakeDocComment ==
  /\ Take({"DocComment"})
  /\ docs' = IF IsContainer THEN PushDoc(docs, next) ELSE docs
  /\ UNCHANGED <<once, provides, errors>>

(* `finish_default` of every AtMostOne.                                     *)
FinishOnce ==
  /\ stage = "attributes"
  /\ next > Len(attrs)
  /\ errors' = errors \union At(UNION {once[k].more : k \in Kinds}, "multiple")
  /\ kept' = [k \in Kinds |-> FinishDefault(once[k])]
  /\ stage' = "checks"
  /\ UNCHANGED <<item, next, once, provides, docs, selector>>

-----------------------------------------------------------------------------
(* What the three kinds of `from_syn` do with what has been kept.           *)

Has(kind) == kept[kind] # 0
IsEnabled(kind) == Has(kind) /\ attrs[kept[kind]].value = "true"
IsDisabled(kind) == Has(kind) /\ attrs[kept[kind]].value = "false"

(* The attributes that decide what the context selector is; a disabled      *)
(* `transparent` has been filtered out.                                     *)
Deciding == {k \in {"ContextFlag", "ContextName", "ContextSuffix", "Whatever"} : Has(k)}
              \union {k \in {"Transparent"} : IsEnabled(k)}

(* Mutant: `context(true)` is taken for `context(false)`.                   *)
SelectorKind_FlagIsFlag ==
  CASE Deciding = {"ContextFlag"} -> "context(false)"
    [] Deciding = {"ContextName"} -> "context(name)"
    [] Deciding = {"ContextSuffix"} -> "context(suffix)"
    [] Deciding = {"Transparent"} -> "transparent"
    [] Deciding = {"Whatever"} -> "whatever"
    [] OTHER -> "context"

SelectorKind ==
  CASE Deciding = {"ContextFlag"} /\ IsDisabled("ContextFlag") -> "context(false)"
    [] Deciding = {"ContextName"} -> "context(name)"
    [] Deciding = {"ContextSuffix"} -> "context(suffix)"
    [] Deciding = {"Transparent"} -> "transparent"
    [] Deciding = {"Whatever"} -> "whatever"
    [] OTHER -> "context"

(* A conflict of the selector has more than one party; each is told.        *)
Conflicting == IF \E j, k \in Deciding : j # k THEN Deciding ELSE {}

Where(kinds) == {kept[k] : k \in kinds}

CheckContainer ==
  /\ stage = "checks" /\ IsContainer
  /\ errors' = errors
       \union At(Where({k \in {"Transparent"} : IsDisabled(k)}),
                 "transparent(false) has no effect")
       \union At(Where({k \in {"Transparent", "Display"} :
                          IsEnabled("Transparent") /\ Has("Display")}),
                 "transparent and display")
       \union At(Where(Conflicting), "may not be provided together")
  /\ selector' = SelectorKind
  /\ stage' = "finish"
  /\ UNCHANGED <<item, next, once, provides, docs, kept>>

CheckField ==
  /\ stage = "checks" /\ location = "OnField"
  /\ errors' = errors
       \union At(Where({k \in {"Implicit"} : IsDisabled(k)}), "implicit(false) has no effect")
       \union At(Where({k \in {"SourceFlag", "SourceFrom"} :
                          IsDisabled("SourceFlag") /\ Has("SourceFrom")}),
                 "source(false) and source(from)")
  /\ stage' = "finish"
  /\ UNCHANGED <<item, next, once, provides, docs, kept, selector>>

CheckNothing ==
  /\ stage = "checks" /\ location \in {"OnEnum", "OnTupleStruct", "OnTupleStructField"}
  /\ stage' = "finish"
  /\ UNCHANGED <<item, next, once, provides, docs, errors, kept, selector>>

(* `errors.finish(Self { .. })`                                             *)
Finish ==
  /\ stage = "finish"
  /\ stage' = IF errors = {} THEN "accepted" ELSE "rejected"
  /\ UNCHANGED <<item, next, once, provides, docs, errors, kept, selector>>

Next == \/ TakeMalformed \/ TakeMisplaced \/ TakeOnce \/ TakeProvide \/ TakeDocComment
        \/ FinishOnce \/ CheckContainer \/ CheckField \/ CheckNothing \/ Finish

Spec == Init /\ [][Next]_vars

-----------------------------------------------------------------------------
(* The properties.                                                          *)

Answered == stage \in {"accepted", "rejected"}

OfKind(k) == {i \in Given : attrs[i].kind = k}
On(k) == {i \in OfKind(k) : attrs[i].value = "true"}
Off(k) == {i \in OfKind(k) : attrs[i].value = "false"}

(* The attributes that say what the selector is, all those given.           *)
SaysSelector == OfKind("ContextFlag") \union OfKind("ContextName")
                  \union OfKind("ContextSuffix") \union On("Transparent")
                  \union OfKind("Whatever")

(* What the attributes of an item must be like, as a whole.                 *)
Acceptable ==
  /\ OfKind("malformed") = {}
  /\ \A i \in Given : attrs[i].kind \notin Misplaced(location)
  /\ \A i, j \in Given : attrs[i].kind = attrs[j].kind
                           /\ attrs[i].kind \in AtMostOnce(location) => i = j
  /\ IsContainer => /\ Off("Transparent") = {}
                    /\ On("Transparent") = {} \/ OfKind("Display") = {}
                    /\ \A i, j \in SaysSelector : i = j
  /\ location = "OnField" => /\ Off("Implicit") = {}
                             /\ Off("SourceFlag") = {} \/ OfKind("SourceFrom") = {}

(* No mistake is swallowed when parsing goes on after an error, although    *)
(* surplus values hide one another from the checks that follow; and no      *)
(* diagnostic is given without a mistake.                                   *)
RejectedForCause == Answered => (stage = "accepted") = Acceptable

(* An attribute that repeats an earlier one, and one that is the only one   *)
(* of its kind.                                                             *)
Repeats(k) == {i \in OfKind(k) : \E j \in OfKind(k) : j < i}
Single(k) == IF Repeats(k) = {} THEN OfKind(k) ELSE {}

(* The parties of the conflicts there can be on a variant or a struct: who  *)
(* says what the selector is, and who else there is.                        *)
TransparentOn == Single("Transparent") \intersect On("Transparent")
Says == (UNION {Single(k) : k \in {"ContextFlag", "ContextName", "ContextSuffix", "Whatever"}})
          \union TransparentOn
ContainerConflicts ==
  (Single("Transparent") \intersect Off("Transparent"))
    \union {i \in TransparentOn : Single("Display") # {}}
    \union {i \in Single("Display") : TransparentOn # {}}
    \union {i \in Says : \E j \in Says : i # j}

(* And on a field.                                                          *)
SourceOff == Single("SourceFlag") \intersect Off("SourceFlag")
FieldConflicts ==
  (Single("Implicit") \intersect Off("Implicit"))
    \union {i \in SourceOff : Single("SourceFrom") # {}}
    \union {i \in Single("SourceFrom") : SourceOff # {}}

(* The attributes somebody has to look at: those that are wrong by          *)
(* themselves, those that repeat an earlier one, and the parties of a       *)
(* conflict between attributes that are not repeated.                       *)
Culprits ==
  OfKind("malformed")
    \union (UNION {OfKind(k) : k \in Misplaced(location)})
    \union (UNION {Repeats(k) : k \in AtMostOnce(location)})
    \union (IF IsContainer THEN ContainerConflicts
            ELSE IF location = "OnField" THEN FieldConflicts ELSE {})

(* One run of the macro points at every culprit and at nothing else.        *)
EveryCulpritNamed == stage = "rejected" => {e.at : e \in errors} = Culprits

(* No attribute vanishes: of an accepted item each one is a value that has  *)
(* been kept, a `provide` expression, or a line of the doc comment before   *)
(* the first blank line, wherever the lines are among the attributes.       *)
NothingVanishes ==
  stage = "accepted" =>
    LET doc == OfKind("DocComment")
        summary == {i \in doc : \A j \in doc : j <= i => attrs[j].value # "blank"}
    IN  /\ \A i \in Given \ doc : \/ attrs[i].kind \in Kinds /\ kept[attrs[i].kind] = i
                                  \/ i \in provides
        /\ IsContainer => {docs.lines[n] : n \in DOMAIN docs.lines} = summary

(* The context selector is the one that the attributes ask for: the only    *)
(* one of them that has a say has it, and `context(true)` says the default. *)
SelectorAsWritten ==
  stage = "accepted" /\ IsContainer =>
    /\ selector = "context" <=> SaysSelector \subseteq On("ContextFlag")
    /\ selector = "context(false)" <=> Off("ContextFlag") # {}
    /\ selector = "context(name)" <=> OfKind("ContextName") # {}
    /\ selector = "context(suffix)" <=> OfKind("ContextSuffix") # {}
    /\ selector = "transparent" <=> On("Transparent") # {}
    /\ selector = "whatever" <=> OfKind("Whatever") # {}

(* An attribute is never refused with a message that says it is valid where *)
(* it is.                                                                   *)
MessagesHold ==
  \A e \in errors : e.text = "only valid on" => location \notin ValidOn(attrs[e.at].kind)
=============================================================================
