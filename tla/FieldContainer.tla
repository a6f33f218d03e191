--------------------------- MODULE FieldContainer ---------------------------
(***************************************************************************)
(* How the derive macro turns the named fields of one enum variant, or of  *)
(* one struct, into the code it generates.                                 *)
(*                                                                         *)
(* `parse_field` (parse/field_impl.rs) decides what one field is;          *)
(* `parse_field_container` (parse/field_container_impl.rs) runs it over    *)
(* the fields, checks them against one another and against the kind of     *)
(* context selector, and collects every diagnostic; shared.rs generates    *)
(* the constructors and the match arms of the accepted container.          *)
(*                                                                         *)
(* A field is named by its position, an AtMostOne and an Option<Field> by  *)
(* positions, 0 being none; a Vec of fields is the set of its positions.   *)
(***************************************************************************)
EXTENDS Naturals, Sequences, Diagnostics

CONSTANTS Declarations,  \* the containers looked at: their fields, in order
          MaxFields      \* bound: the number of fields of a container

Name == {"source", "backtrace", "message", "other"}
Flag == {"absent", "on", "off"}
From == {"absent", "exact", "generic", "transform"}

(* A field as declared: its name, whether some attribute of it is unknown,  *)
(* misplaced or repeated, its flags, and its `source(from(..))`: a type, a  *)
(* type and an expression, or `generic`.                                    *)
Field == [name : Name, wellFormed : BOOLEAN, backtrace : Flag, implicit : Flag,
          provide : Flag, source : Flag, from : From]

ASSUME MaxFieldsAssumption == MaxFields \in Nat
ASSUME DeclarationsAssumption ==
  \A d \in Declarations : d \in Seq(Field) /\ Len(d) <= MaxFields

(* IntermediateSelectorKind, with the WithoutContextSource.                 *)
Selector == {"context", "context(false)", "transparent", "whatever"}
WithoutContext == {"context(false)", "transparent"}

VARIABLES fields,      \* the declared fields, in order
          selector,    \* what the attributes of the container ask for
          next,        \* the field to parse next
          sources,     \* AtMostOne
          backtraces,  \* AtMostOne
          implicit,    \* Vec
          user,        \* Vec
          errors,      \* SynErrors
          stage,       \* where the macro is
          container    \* the FieldContainer, once it has been built

input == <<fields, selector>>
vars == <<input, next, sources, backtraces, implicit, user, errors, stage, container>>

Position == 1 .. MaxFields
Declared == 1 .. Len(fields)
Opt(i) == IF i = 0 THEN {} ELSE {i}

-----------------------------------------------------------------------------
(* `parse_field`: what one field is, or what is wrong with it.              *)

(* Diagnostics of `Attributes::from_syn`, which end `parse_field`.          *)
AttributeErrors(f) ==
  {t \in {"attribute"} : ~f.wellFormed}
    \union {t \in {"implicit(false) does nothing"} : f.implicit = "off"}
    \union {t \in {"source(false) and source(from)"} :
              f.source = "off" /\ f.from # "absent"}

(* Mutant: a misplaced backtrace(false) is let through.                     *)
OptOutErrors_Lenient(f) ==
  {t \in {"source(false) on the wrong field"} : f.source = "off" /\ f.name # "source"}
    \union {t \in {"provide(false) on the wrong field"} :
              f.provide = "off" /\ f.name # "backtrace"}

(* Diagnostics of the three `match`es that follow.                          *)
OptOutErrors(f) ==
  {t \in {"backtrace(false) on the wrong field"} :
     f.backtrace = "off" /\ f.name # "backtrace"}
    \union {t \in {"source(false) on the wrong field"} :
              f.source = "off" /\ f.name # "source"}
    \union {t \in {"provide(false) on the wrong field"} :
              f.provide = "off" /\ f.name # "backtrace"}

FieldErrors(f) == IF AttributeErrors(f) # {} THEN AttributeErrors(f) ELSE OptOutErrors(f)

(* A flag, or `source(from)`, overrides what the name says.                 *)
IsSource(f) == f.source = "on" \/ f.from # "absent" \/ (f.source = "absent" /\ f.name = "source")
IsBacktrace(f) == f.backtrace = "on" \/ (f.backtrace = "absent" /\ f.name = "backtrace")
IsProvided(f) == f.provide = "on" \/ (f.provide = "absent" /\ f.name = "backtrace")

FieldKind(f) == IF IsSource(f) THEN "source"
                ELSE IF IsBacktrace(f) THEN "backtrace"
                ELSE IF f.implicit = "on" THEN "implicit"
                ELSE "user"

BacktraceDelegate(f) == IsSource(f) /\ IsBacktrace(f)
IsGeneric(f) == f.from = "generic"

-----------------------------------------------------------------------------
Texts == {"attribute", "implicit(false) does nothing", "source(false) and source(from)",
          "backtrace(false) on the wrong field", "source(false) on the wrong field",
          "provide(false) on the wrong field", "multiple source fields",
          "multiple backtrace fields", "backtrace field and backtrace delegate",
          "generic source with a context selector", "must not have context fields",
          "must have a source field", "exactly one message field"}

-----------------------------------------------------------------------------
(* The FieldContainer, and the code shared.rs generates from it.            *)

Container(kind, source, backtrace, implicits, users, message) ==
  [kind |-> kind, source |-> source, backtrace |-> backtrace, implicit |-> implicits,
   user |-> users, message |-> message, transparent |-> selector = "transparent"]

NoContainer == Container("none", 0, 0, {}, {}, 0)

(* Mutant: the message of a whatever selector is forgotten.                 *)
FieldNames_NoMessage(c) ==
  c.user \union Opt(c.backtrace) \union c.implicit \union Opt(c.source)

FieldNames(c) ==
  c.user \union Opt(c.backtrace) \union c.implicit \union Opt(c.message) \union Opt(c.source)

Group(positions, value) == [fields |-> positions, value |-> value]
(* Mutant: the backtrace is not generated.                                  *)
Implicitly_NoBacktrace(c, value) == Group(c.implicit, value)

Implicitly(c, value) == Group(c.implicit \union Opt(c.backtrace), value)

(* The struct literals, group by group in the order in which they evaluate. *)
Leaf(c) == <<Implicitly(c, "generate()"), Group(c.user, "selector")>>

IntoError(c) ==
  IF c.source = 0
  THEN Leaf(c)
  ELSE <<Implicitly(c, "generate_with_source(&error)"), Group({c.source}, "error"),
         Group(c.user, "selector")>>

WithoutSource(c) ==
  <<Implicitly(c, "generate()"), Group(Opt(c.source), "None"), Group({c.message}, "message")>>

WithSource(c) ==
  <<Implicitly(c, "generate_with_source(&error)"), Group(Opt(c.source), "error"),
    Group({c.message}, "message")>>

FromSource(c) ==
  <<Implicitly(c, "generate_with_source(&error)"), Group({c.source}, "error")>>

Constructors(c) ==
  CASE c.kind = "Context" -> {IntoError(c)} \union {l \in {Leaf(c)} : c.source = 0}
    [] c.kind = "Whatever" -> {WithoutSource(c), WithSource(c)}
    [] c.kind = "NoContext" -> {FromSource(c)}
    [] OTHER -> {}

(* `Error::source`: the field it reads and how.                             *)
SourceArm(c) ==
  [field |-> c.source,
   how |-> IF c.source = 0 THEN "none"
           ELSE IF c.kind = "Whatever" THEN "the optional field"
           ELSE IF c.transparent THEN "the source of the field"
           ELSE "the field"]

(* Mutant: a source that carries the backtrace is not asked for it.         *)
BacktraceArm_OwnOnly(c) ==
  [field |-> c.backtrace, how |-> IF c.backtrace = 0 THEN "none" ELSE "the field"]

(* `ErrorCompat::backtrace`.                                                *)
BacktraceArm(c) ==
  IF c.source # 0 /\ BacktraceDelegate(fields[c.source])
  THEN [field |-> c.source, how |-> "the backtrace of the field"]
  ELSE [field |-> c.backtrace, how |-> IF c.backtrace = 0 THEN "none" ELSE "the field"]

(* `Error::provide`: the fields it provides references to, and the type it  *)
(* says they have: of a source field, the one it is transformed from; of a  *)
(* backtrace field, whatever `as_backtrace` makes of it.                    *)
ProvidedFields(c) ==
  LET Provided(positions) == {i \in positions : IsProvided(fields[i])}
      FromType(f) == IF f.from = "transform" THEN "transformed from" ELSE "declared"
  IN  {[field |-> i, type |-> "declared"] :
         i \in Provided(c.user \union c.implicit \union Opt(c.message))}
        \union {[field |-> i, type |-> FromType(fields[i])] : i \in Provided(Opt(c.source))}
        \union {[field |-> i, type |-> "Backtrace"] : i \in Provided(Opt(c.backtrace))}

(* `assert!(maybe_generic.is_none())` of into_error and the `unwrap` of the *)
(* transparent Display.                                                     *)
ExpansionPanics(c) ==
  \/ /\ c.kind = "Context"
     /\ c.source # 0
     /\ IsGeneric(fields[c.source])
  \/ /\ c.transparent
     /\ c.source = 0

-----------------------------------------------------------------------------
AtMostOneType == [one : 0 .. MaxFields, more : SUBSET Position]

TypeOK ==
  /\ fields \in Seq(Field) /\ Len(fields) <= MaxFields
  /\ selector \in Selector
  /\ next \in 1 .. Len(fields) + 1
  /\ sources \in AtMostOneType
  /\ backtraces \in AtMostOneType
  /\ implicit \in SUBSET Position
  /\ user \in SUBSET Position
  /\ errors \in SUBSET [at : 0 .. MaxFields, text : Texts]
  /\ stage \in {"fields", "conflicts", "select", "finish", "expand",
                "expanded", "rejected", "panic"}
  /\ container \in [kind : {"none", "Context", "Whatever", "NoContext"},
                    source : 0 .. MaxFields, backtrace : 0 .. MaxFields,
                    implicit : SUBSET Position, user : SUBSET Position,
                    message : 0 .. MaxFields, transparent : BOOLEAN]

Init ==
  /\ fields \in Declarations
  /\ selector \in Selector
  /\ next = 1
  /\ sources = Empty
  /\ backtraces = Empty
  /\ implicit = {}
  /\ user = {}
  /\ errors = {}
  /\ stage = "fields"
  /\ container = NoContainer

-----------------------------------------------------------------------------
(* The loop over the fields.                                                *)

ParseNext == /\ stage = "fields"
             /\ next <= Len(fields)
             /\ next' = next + 1
             /\ UNCHANGED <<input, stage, container>>

Parsed(kind) == FieldErrors(fields[next]) = {} /\ FieldKind(fields[next]) = kind

RejectField ==
  /\ ParseNext
  /\ FieldErrors(fields[next]) # {}
  /\ errors' = errors \union {[at |-> next, text |-> t] : t \in FieldErrors(fields[next])}
  /\ UNCHANGED <<sources, backtraces, implicit, user>>

PushSource == /\ ParseNext
              /\ Parsed("source")
              /\ sources' = Push(sources, next)
              /\ UNCHANGED <<backtraces, implicit, user, errors>>

PushBacktrace == /\ ParseNext
                 /\ Parsed("backtrace")
                 /\ backtraces' = Push(backtraces, next)
                 /\ UNCHANGED <<sources, implicit, user, errors>>

PushImplicit == /\ ParseNext
                /\ Parsed("implicit")
                /\ implicit' = implicit \union {next}
                /\ UNCHANGED <<sources, backtraces, user, errors>>

PushUser == /\ ParseNext
            /\ Parsed("user")
            /\ user' = user \union {next}
            /\ UNCHANGED <<sources, backtraces, implicit, errors>>

ParseField == RejectField \/ PushSource \/ PushBacktrace \/ PushImplicit \/ PushUser

-----------------------------------------------------------------------------
(* After the loop.                                                          *)

(* Mutant: a second backtrace is not reported.                              *)
FinishFields_OneKind ==
  /\ stage = "fields"
  /\ next > Len(fields)
  /\ errors' = errors \union At(sources.more, "multiple source fields")
  /\ stage' = "conflicts"
  /\ UNCHANGED <<input, next, sources, backtraces, implicit, user, container>>

FinishFields ==
  /\ stage = "fields"
  /\ next > Len(fields)
  /\ errors' = errors \union At(sources.more, "multiple source fields")
                      \union At(backtraces.more, "multiple backtrace fields")
  /\ stage' = "conflicts"
  /\ UNCHANGED <<input, next, sources, backtraces, implicit, user, container>>

Source == FinishDefault(sources)
Backtrace == FinishDefault(backtraces)

DelegateConflict ==
  Source # 0 /\ Backtrace # 0 /\ BacktraceDelegate(fields[Source])
(* Mutant: the condition on the selector is the wrong way round.            *)
GenericConflict_Reversed ==
  Source # 0 /\ IsGeneric(fields[Source]) /\ selector \in WithoutContext

GenericConflict ==
  Source # 0 /\ IsGeneric(fields[Source]) /\ selector \notin WithoutContext

CheckConflicts ==
  /\ stage = "conflicts"
  /\ errors' = errors
       \union At({i \in {Source, Backtrace} : DelegateConflict},
                 "backtrace field and backtrace delegate")
       \union At({i \in {Source} : GenericConflict},
                 "generic source with a context selector")
  /\ stage' = "select"
  /\ UNCHANGED <<input, next, sources, backtraces, implicit, user, container>>

Build(kind, users, message) ==
  /\ container' = Container(kind, Source, Backtrace, implicit, users, message)
  /\ stage' = "finish"
  /\ UNCHANGED <<input, next, sources, backtraces, implicit, user>>

(* `errors.assume_failed()`                                                 *)
AssumeFailed(reported) ==
  /\ errors' = errors \union reported
  /\ stage' = IF errors' = {} THEN "panic" ELSE "rejected"
  /\ UNCHANGED <<input, next, sources, backtraces, implicit, user, container>>

SelectContext ==
  /\ stage = "select" /\ selector = "context"
  /\ Build("Context", user, 0)
  /\ UNCHANGED errors

SelectWithoutContext ==
  /\ stage = "select" /\ selector \in WithoutContext
  /\ IF Source # 0
     THEN /\ errors' = errors \union At(user, "must not have context fields")
          /\ Build("NoContext", {}, 0)
     ELSE AssumeFailed(At(user, "must not have context fields")
                         \union At({0}, "must have a source field"))

Messages == {i \in user : fields[i].name = "message"}

(* The diagnostics of the AtMostOne of message fields: on each but the      *)
(* first, or on the variant if there is none.                               *)
MessageErrors ==
  IF Messages = {}
  THEN At({0}, "exactly one message field")
  ELSE At({i \in Messages : \E j \in Messages : j < i}, "exactly one message field")

SelectWhatever ==
  /\ stage = "select" /\ selector = "whatever"
  /\ IF MessageErrors = {}
     THEN /\ errors' = errors \union At(user \ Messages, "must not have context fields")
          /\ \E m \in Messages : Build("Whatever", {}, m)
     ELSE AssumeFailed(At(user \ Messages, "must not have context fields")
                         \union MessageErrors)

(* `errors.finish(..)`                                                      *)
Finish ==
  /\ stage = "finish"
  /\ stage' = IF errors = {} THEN "expand" ELSE "rejected"
  /\ UNCHANGED <<input, next, sources, backtraces, implicit, user, errors, container>>

Expand ==
  /\ stage = "expand"
  /\ stage' = IF ExpansionPanics(container) THEN "panic" ELSE "expanded"
  /\ UNCHANGED <<input, next, sources, backtraces, implicit, user, errors, container>>

Next == \/ ParseField \/ FinishFields \/ CheckConflicts
        \/ SelectContext \/ SelectWithoutContext \/ SelectWhatever
        \/ Finish \/ Expand

Spec == Init /\ [][Next]_vars

-----------------------------------------------------------------------------
(* The properties.                                                          *)

Answered == stage \in {"expanded", "rejected", "panic"}

(* Every struct literal the macro generates gives every declared field of   *)
(* the error exactly one value, whichever way the field was classified, and *)
(* uses the error only before it is moved into its field: otherwise the     *)
(* expansion does not compile, far away from the cause.                     *)
LiteralsAreWhole ==
  stage = "expanded" =>
    \A l \in Constructors(container) :
      /\ \A i \in Declared :
           \E g \in 1 .. Len(l) : /\ i \in l[g].fields
                                 /\ \A h \in 1 .. Len(l) : i \in l[h].fields => h = g
      /\ \A g, h \in 1 .. Len(l) :
           /\ l[g].value = "error" /\ l[g].fields # {}
           /\ l[h].value = "generate_with_source(&error)"
           => h < g

(* The patterns of Display name every field, and no other: they have no     *)
(* `..` that would make up for one which classification has lost.           *)
EveryFieldMatched == stage = "expanded" => FieldNames(container) = Declared

(* `unreachable!("No error recorded")`, `assert!(.., "Internal error")` and *)
(* the `unwrap` of "transparent errors always have a source field" hold.    *)
NeverPanics == stage # "panic"

(* What a container must be like to be accepted, as a whole.                *)
Acceptable ==
  LET source == {i \in Declared : IsSource(fields[i])}
      backtrace == {i \in Declared : IsBacktrace(fields[i])}
      plain == {i \in Declared : FieldKind(fields[i]) = "user"}
  IN  /\ \A i \in Declared : FieldErrors(fields[i]) = {}
      /\ \A i, j \in source : i = j
      /\ \A i, j \in backtrace : i = j
      /\ (\E i \in source : IsGeneric(fields[i])) => selector \in WithoutContext
      /\ selector \in WithoutContext => source # {} /\ plain = {}
      /\ selector = "whatever" => \E i \in plain : /\ plain = {i}
                                                  /\ fields[i].name = "message"

(* No mistake is swallowed when the loop goes on after an error, and no     *)
(* diagnostic is given without a mistake.                                   *)
RejectedForCause == Answered => (stage = "expanded") = Acceptable

(* The fields somebody has to look at: those that are wrong by themselves,  *)
(* those that repeat what an earlier one is, and those in a conflict.       *)
Culprits ==
  LET Kind(k) == {i \in Declared : /\ FieldErrors(fields[i]) = {}
                                   /\ FieldKind(fields[i]) = k}
      Repeated(S) == {i \in S : \E j \in S : j < i}
      Single(S) == IF Repeated(S) = {} THEN S ELSE {}
      source == Single(Kind("source"))
      backtrace == Single(Kind("backtrace"))
      plain == Kind("user")
      message == {i \in plain : fields[i].name = "message"}
  IN  {i \in Declared : FieldErrors(fields[i]) # {}}
        \union Repeated(Kind("source")) \union Repeated(Kind("backtrace"))
        \union {i \in source : BacktraceDelegate(fields[i]) /\ backtrace # {}}
        \union {i \in backtrace : \E j \in source : BacktraceDelegate(fields[j])}
        \union {i \in source : IsGeneric(fields[i]) /\ selector \notin WithoutContext}
        \union {i \in plain : selector \in WithoutContext}
        \union {i \in plain \ message : selector = "whatever"}
        \union {i \in Repeated(message) : selector = "whatever"}

(* One run of the macro points at every culprit and at no other field, also *)
(* when an early return cuts the checks short.                              *)
EveryCulpritNamed == stage = "rejected" => {e.at : e \in errors} \ {0} = Culprits

(* A field that says it is the source, or the backtrace, is the one that    *)
(* `source` and `backtrace` read, and one that says it is provided is:      *)
(* none is ignored, nor shadowed by another.                                *)
ClaimsHonoured ==
  stage = "expanded" => \A i \in Declared :
    /\ IsSource(fields[i]) => SourceArm(container).field = i
    /\ IsBacktrace(fields[i]) => BacktraceArm(container).field = i
    /\ IsProvided(fields[i]) => \E p \in ProvidedFields(container) : p.field = i

(* What the attributes and the name of a field make of it.                  *)
Meaning(f) == <<FieldKind(f), BacktraceDelegate(f), IsProvided(f)>>

(* No opt-out is "redundant but misleading" (field_impl.rs:152, 170, 189):  *)
(* in an accepted container every `flag(false)` makes its field something   *)
(* that it would not be without.                                            *)
OptOutsMatter ==
  stage = "expanded" => \A i \in Declared :
    LET f == fields[i]
    IN  /\ f.backtrace = "off" => Meaning(f) # Meaning([f EXCEPT !.backtrace = "absent"])
        /\ f.source = "off" => Meaning(f) # Meaning([f EXCEPT !.source = "absent"])
        /\ f.provide = "off" => Meaning(f) # Meaning([f EXCEPT !.provide = "absent"])

-----------------------------------------------------------------------------
(* What the documentation says and the code does not do.                    *)

(* A field marked `provide` is exposed "as a reference" (Snafu.md:667): its *)
(* own type can be asked for.                                               *)
ProvidedAsDeclared ==
  stage = "expanded" =>
    \A p \in ProvidedFields(container) : p.type # "transformed from"

(* "You can use `#[snafu(implicit(false))]` if a field is incorrectly       *)
(* automatically identified as containing implicit data" (Snafu.md:816):    *)
(* a container is not rejected for that alone.                              *)
ImplicitCanBeDisabled ==
  stage = "rejected" =>
    \E e \in errors : e.text # "implicit(false) does nothing"
=============================================================================
