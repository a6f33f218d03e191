----------------------------- MODULE DeriveInput -----------------------------
(***************************************************************************)
(* What the derive macro makes of a whole item: it parses an enum variant  *)
(* by variant (enum_impl.rs, variant_impl.rs), a struct as if it were one  *)
(* variant (named_struct_impl.rs), a tuple struct by its one field         *)
(* (tuple_struct_impl.rs), collects what is wrong, and, if that is         *)
(* nothing, generates the context selectors and the Display implementation *)
(* (lib.rs, shared.rs).                                                    *)
(*                                                                         *)
(* What goes on among the attributes of one place is in the module         *)
(* Attributes, and among the fields of one variant in FieldContainer; here *)
(* each has an outcome.  A variant, or the struct, is a part, named by its *)
(* position; 0 is the item.                                                *)
(***************************************************************************)
EXTENDS Naturals, Sequences, Diagnostics, DisplayFormat

CONSTANTS Items,    \* the items looked at
          MaxParts  \* bound: the number of variants, or of unnamed fields

(* What a visibility is, and how far it reaches: the context module, the    *)
(* module of the error, the one around it, the crate, everywhere.           *)
Visibility == {"unset", "private", "pub(super)", "pub(crate)", "pub"}
Reach == 1 .. 5
ContextModule == 1
ErrorModule == 2

(* An identifier is the sequence of its words, a field is one letter.       *)
Name == Seq({"Error", "Foo", "Snafu", "Ctx", "Given"})
Suffixes == {"default", "none", "Ctx"}
FieldName == {<<c>> : c \in Identifiers}
Selector == {"context", "name", "context(false)", "transparent", "whatever"}

(* "hopeless" fields lack the source or the message that the selector needs.*)
Part == [name : Name, attrs : {"ok", "bad"}, shape : {"named", "unnamed"},
         fields : {"ok", "bad", "hopeless"}, fieldNames : SUBSET FieldName,
         selector : Selector, suffix : Suffixes, visibility : Visibility,
         doc : Seq(Character), display : [given : BOOLEAN, text : Seq(Character),
                                          assigned : SUBSET FieldName]]

Item == [shape : {"enum", "struct", "tuple struct", "union"}, attrs : {"ok", "bad"},
         module : BOOLEAN, suffix : Suffixes, visibility : Visibility,
         parts : Seq(Part), unnamed : Seq({"ok", "bad"})]

ASSUME MaxPartsAssumption == MaxParts \in Nat
ASSUME ItemsAssumption ==
  \A d \in Items : /\ d \in Item /\ Len(d.parts) <= MaxParts /\ Len(d.unnamed) <= MaxParts
                   /\ d.shape = "struct" => Len(d.parts) = 1 /\ d.visibility = "unset"
                   /\ d.shape \in {"tuple struct", "union"} => d.parts = << >>

VARIABLES item,    \* the item
          next,    \* the variant to parse next
          errors,  \* SynErrors
          stage,   \* where the macro is
          code     \* the selector and the match arm of Display, per part

vars == <<item, next, errors, stage, code>>

Position == 1 .. MaxParts
Texts == {"attribute", "unnamed fields", "field", "exactly one field", "union"}

-----------------------------------------------------------------------------
(* One part: `Attributes::from_syn`, then `parse_field_container`.          *)

(* `format_ident!` for each name.                                           *)
Panics(text) == \E n \in extract_field_names(text) : ~IsIdent(n)

(* `join_syn_error!`: of the attributes, and of the kind of fields.         *)
HeaderErrors(p) == {t \in {"attribute"} : p.attrs = "bad"}
                     \union {t \in {"unnamed fields"} : p.shape = "unnamed"}

PartErrors(p) == IF HeaderErrors(p) # {} THEN HeaderErrors(p)
                 ELSE {t \in {"field"} : p.fields # "ok"}

(* The doc comment is looked at with the attributes, whatever else is wrong *)
(* and whether it is used or not; the format string once the fields have    *)
(* been gone through.                                                       *)
PartPanics(p) ==
  \/ Panics(p.doc)
  \/ /\ HeaderErrors(p) = {} /\ p.fields # "hopeless"
     /\ p.display.given /\ Panics(p.display.text)

Diagnosed(i, texts) == UNION {At({i}, t) : t \in texts}

-----------------------------------------------------------------------------
(* The generated code.                                                      *)

(* Mutant: one `Error` is removed, and not all of them.                     *)
StripError_Once(name) ==
  IF name # << >> /\ name[Len(name)] = "Error" THEN SubSeq(name, 1, Len(name) - 1) ELSE name

(* `trim_end_matches("Error")`.                                             *)
StripError(name) ==
  LET to[n \in 0 .. Len(name)] ==
        IF n = 0 THEN << >>
        ELSE IF name[n] = "Error" THEN to[n - 1] ELSE SubSeq(name, 1, n)
  IN  to[Len(name)]

(* `SuffixKind::resolve_name`.                                              *)
ResolveSuffix(suffix, default) ==
  LET chosen == IF suffix # "default" THEN suffix ELSE default
  IN  CASE chosen = "default" -> <<"Snafu">>
        [] chosen = "none" -> << >>
        [] OTHER -> <<chosen>>

SelectorName(p) ==
  IF p.selector = "name" THEN <<"Given">>
  ELSE StripError(p.name) \o ResolveSuffix(p.suffix, item.suffix)

HasSelector(p) == p.selector \in {"context", "name"}

(* How far something reaches that has this visibility in this module.       *)
ReachOf(visibility, module) ==
  CASE visibility \in {"unset", "private"} -> module
    [] visibility = "pub(super)" -> module + 1
    [] visibility = "pub(crate)" -> 4
    [] visibility = "pub" -> 5

(* Mutant: selectors in a module are private to it by default.              *)
SelectorVisibility_NoSuper(p) ==
  IF p.visibility # "unset" THEN p.visibility ELSE item.visibility

(* The `match` on the visibilities and the module; an enum has a default,   *)
(* a struct has none.                                                       *)
SelectorVisibility(p) ==
  IF p.visibility # "unset" THEN p.visibility
  ELSE IF item.visibility # "unset" THEN item.visibility
  ELSE IF item.module THEN "pub(super)" ELSE "unset"

ModuleVisibility(p) == IF item.shape = "enum" THEN item.visibility ELSE p.visibility

(* A selector is used through the context module it is in.                  *)
SelectorReach(p) ==
  IF item.module
  THEN LET inner == ReachOf(SelectorVisibility(p), ContextModule)
           outer == ReachOf(ModuleVisibility(p), ErrorModule)
       IN  IF inner < outer THEN inner ELSE outer
  ELSE ReachOf(SelectorVisibility(p), ErrorModule)

(* `DisplayMatchArm`: the text that is used, and the fields passed to it.   *)
Format(p) == IF p.selector = "transparent" THEN "delegate"
             ELSE IF p.display.given THEN "display"
             ELSE IF p.doc # << >> THEN "doc" ELSE "name"

Passed(p) ==
  CASE Format(p) = "display" ->
         (extract_field_names(p.display.text) \intersect p.fieldNames) \ p.display.assigned
    [] Format(p) = "doc" -> extract_field_names(p.doc) \intersect p.fieldNames
    [] OTHER -> {}

Generated(p) == [named |-> HasSelector(p),
                 name |-> IF HasSelector(p) THEN SelectorName(p) ELSE << >>,
                 reach |-> SelectorReach(p), format |-> Format(p), passed |-> Passed(p)]

Code == [named : BOOLEAN, name : Name, reach : Reach,
         format : {"delegate", "display", "doc", "name"}, passed : SUBSET FieldName]

-----------------------------------------------------------------------------
TypeOK == /\ item \in Items
          /\ next \in 1 .. MaxParts + 1
          /\ errors \subseteq [at : 0 .. MaxParts, text : Texts]
          /\ stage \in {"parsing", "parsed", "rejected", "panicked", "expanded"}
          /\ code \in Seq(Code)

Init == /\ item \in Items
        /\ next = 1
        /\ errors = {}
        /\ stage = "parsing"
        /\ code = << >>

(* The panic of a macro takes the diagnostics with it.                      *)
Panic == /\ stage' = "panicked"
         /\ errors' = {}
         /\ UNCHANGED <<item, next, code>>

Finish(found) == /\ errors' = found
                 /\ stage' = IF found = {} THEN "parsed" ELSE "rejected"
                 /\ UNCHANGED <<item, next, code>>

(* `parse_variant`, and the loop of `parse_enum` around it.                 *)
ParseVariant ==
  /\ stage = "parsing" /\ item.shape = "enum" /\ next <= Len(item.parts)
  /\ LET p == item.parts[next]
     IN  \/ PartPanics(p) /\ Panic
         \/ /\ ~PartPanics(p)
            /\ errors' = errors \union Diagnosed(next, PartErrors(p))
            /\ next' = next + 1
            /\ UNCHANGED <<item, stage, code>>

(* Mutant: what is wrong with the variants is lost if the attributes of the *)
(* enum are wrong as well.                                                  *)
FinishEnum_AttributesOnly ==
  /\ stage = "parsing" /\ item.shape = "enum" /\ next > Len(item.parts)
  /\ Finish(IF item.attrs = "bad" THEN At({0}, "attribute") ELSE errors)

(* The attributes of the enum come first and their errors last.             *)
FinishEnum ==
  /\ stage = "parsing" /\ item.shape = "enum" /\ next > Len(item.parts)
  /\ Finish(errors \union {e \in At({0}, "attribute") : item.attrs = "bad"})

ParseNamedStruct ==
  /\ stage = "parsing" /\ item.shape = "struct"
  /\ LET p == item.parts[1]
     IN  \/ PartPanics(p) /\ Panic
         \/ ~PartPanics(p) /\ Finish(Diagnosed(1, PartErrors(p)))

(* Mutant: a tuple struct without a field is fine.                          *)
UnnamedErrors_AtMostOne ==
  LET n == Len(item.unnamed)
  IN  CASE n = 0 -> {}
        [] n = 1 -> At({i \in {1} : item.unnamed[1] = "bad"}, "attribute")
        [] OTHER -> At(2 .. n, "exactly one field")

(* `parse_tuple_struct_field`: the surplus fields, or the attributes of the *)
(* only one.                                                                *)
UnnamedErrors ==
  LET n == Len(item.unnamed)
  IN  CASE n = 0 -> At({0}, "exactly one field")
        [] n = 1 -> At({i \in {1} : item.unnamed[1] = "bad"}, "attribute")
        [] OTHER -> At(2 .. n, "exactly one field")

ParseTupleStruct ==
  /\ stage = "parsing" /\ item.shape = "tuple struct"
  /\ Finish(UnnamedErrors \union {e \in At({0}, "attribute") : item.attrs = "bad"})

RejectUnion == /\ stage = "parsing" /\ item.shape = "union"
               /\ Finish(At({0}, "union"))

(* `generate_snafu`; `format_ident!` panics for a selector without a name.  *)
Expand ==
  /\ stage = "parsed"
  /\ \/ /\ \E i \in DOMAIN item.parts : HasSelector(item.parts[i])
                                        /\ SelectorName(item.parts[i]) = << >>
        /\ Panic
     \/ /\ \A i \in DOMAIN item.parts : HasSelector(item.parts[i])
                                        => SelectorName(item.parts[i]) # << >>
        /\ stage' = "expanded"
        /\ code' = [i \in DOMAIN item.parts |-> Generated(item.parts[i])]
        /\ UNCHANGED <<item, next, errors>>

(* What comes next is the compiler's.                                       *)
Done == stage \in {"rejected", "panicked", "expanded"} /\ UNCHANGED vars

Next == \/ ParseVariant \/ FinishEnum \/ ParseNamedStruct \/ ParseTupleStruct
        \/ RejectUnion \/ Expand \/ Done

Spec == Init /\ [][Next]_vars

-----------------------------------------------------------------------------
Parts == IF item.shape \in {"enum", "struct"} THEN DOMAIN item.parts ELSE {}

(* What is wrong with an item, found without the order things are done in.  *)
WrongPart(p) == p.attrs = "bad" \/ p.shape = "unnamed" \/ p.fields # "ok"
WrongItem == \/ item.shape = "union"
             \/ item.shape \in {"enum", "tuple struct"} /\ item.attrs = "bad"
             \/ item.shape = "tuple struct" /\ item.unnamed # <<"ok">>
             \/ \E i \in Parts : WrongPart(item.parts[i])

(* An item is expanded if it has no mistake, and rejected only if it has    *)
(* one; the macro panics only over an argument of a format string that is   *)
(* no identifier, or for a selector named neither by the variant nor by a   *)
(* suffix (enum_impl.rs:79-115, lib.rs:107-121).                            *)
RejectedForCause ==
  /\ stage = "expanded" => ~WrongItem
  /\ stage = "rejected" => WrongItem
  /\ stage = "panicked" =>
       \E i \in Parts : LET p == item.parts[i] IN
         \/ \E text \in {p.doc, p.display.text} :
              \E n \in extract_field_names(text) : ~IsIdent(n)
         \/ /\ p.selector = "context" /\ \A j \in DOMAIN p.name : p.name[j] = "Error"
            /\ p.suffix = "none" \/ (p.suffix = "default" /\ item.suffix = "none")

(* One compilation tells the user about every part that is wrong, and about *)
(* the item's own attributes, whatever is wrong elsewhere; all that stays   *)
(* unsaid is what is wrong with the fields of a part whose attributes or    *)
(* kind of fields are wrong (join_syn_error, SynErrors::push).              *)
EveryPartHeard ==
  stage = "rejected" =>
    /\ {e.at : e \in errors} \ {0} =
         {i \in Parts : WrongPart(item.parts[i])}
           \union (IF item.shape = "tuple struct"
                   THEN {i \in DOMAIN item.unnamed : i > 1 \/ (item.unnamed = <<"bad">>)}
                   ELSE {})
    /\ item.shape \in {"enum", "tuple struct"} /\ item.attrs = "bad" =>
         \E e \in errors : e = [at |-> 0, text |-> "attribute"]
    /\ \A i \in Parts : LET texts == {e.text : e \in {d \in errors : d.at = i}} IN
         /\ item.parts[i].attrs = "bad" <=> "attribute" \in texts
         /\ item.parts[i].shape = "unnamed" <=> "unnamed fields" \in texts
         /\ "field" \in texts => texts = {"field"}

(* A selector has the name that was given, or that of the variant without   *)
(* any `Error` at its end, and the suffix of the variant, else of the enum, *)
(* else Snafu; it is never nameless (Snafu.md:120-159).                     *)
NamesAsDocumented ==
  stage = "expanded" =>
    \A i \in Parts : LET p == item.parts[i] IN
      /\ code[i].named <=> p.selector \in {"context", "name"}
      /\ code[i].named => code[i].name # << >>
      /\ p.selector = "name" => code[i].name = <<"Given">>
      /\ p.selector = "context" =>
           \E n \in 0 .. Len(p.name) :
             LET base == SubSeq(p.name, 1, n)
                 suffix == IF p.suffix = "default" THEN item.suffix ELSE p.suffix
             IN  /\ n > 0 => base[n] # "Error"
                 /\ \A j \in n + 1 .. Len(p.name) : p.name[j] = "Error"
                 /\ code[i].name = IF suffix = "none" THEN base
                                   ELSE Append(base, IF suffix = "Ctx" THEN "Ctx" ELSE "Snafu")

(* Left alone, a selector is for the module of its error and no other, in a *)
(* context module or not.  A visibility given to the whole error moves both *)
(* the selectors and their module, so that `pub` and `pub(crate)` mean the  *)
(* same with a module as without one; and one on a variant never takes its  *)
(* selector out of a module that is private (Snafu.md:294-314, 403-407).    *)
ReachesAsWritten ==
  stage = "expanded" =>
    \A i \in {j \in Parts : code[j].named} :
      LET own == item.parts[i].visibility
          shared == IF item.shape = "enum" THEN item.visibility ELSE own
          written == IF own = "unset" THEN shared ELSE own
      IN  /\ written = "unset" => code[i].reach = ErrorModule
          /\ written = shared /\ written \in {"pub(crate)", "pub"} =>
               code[i].reach = IF written = "pub" THEN 5 ELSE 4
          /\ item.module /\ shared \in {"unset", "private"} => code[i].reach <= ErrorModule
          /\ code[i].reach < ErrorModule => item.module /\ written = "private"

(* For a string that `format_args!` takes, the arguments passed are the     *)
(* fields it names, but for the names the user assigns: a field not passed  *)
(* would not be found, one too many is refused as unused, and one assigned  *)
(* as well as a duplicate (parse.rs:663-724, shared.rs:722-754).            *)
ArgumentsMatch ==
  stage = "expanded" =>
    \A i \in Parts : LET p == item.parts[i] IN
      /\ code[i].format = "display" /\ IsFormat(p.display.text) =>
           code[i].passed = (NamedArguments(p.display.text) \intersect p.fieldNames)
                              \ p.display.assigned
      /\ code[i].format = "doc" /\ IsFormat(p.doc) =>
           code[i].passed = NamedArguments(p.doc) \intersect p.fieldNames
      /\ code[i].format \in {"name", "delegate"} => code[i].passed = {}

(* Format strings are read as well as they can be, and the compiler says    *)
(* what is wrong with them (parse.rs:670-672): the macro does not panic     *)
(* over one that `format_args!` takes.  A display string is followed by as  *)
(* many arguments as it takes by position, a doc comment by none.           *)
ValidFormatsAccepted ==
  stage = "panicked" =>
    \E i \in Parts : LET p == item.parts[i] IN
      \/ ~IsFormat(p.doc) \/ TakesByPosition(p.doc)
      \/ ~IsFormat(p.display.text) \/ SelectorName(p) = << >>
=============================================================================
