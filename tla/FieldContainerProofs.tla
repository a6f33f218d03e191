------------------------ MODULE FieldContainerProofs ------------------------
(***************************************************************************)
(* Proofs about FieldContainer, for fields of any shape and any number.    *)
(*                                                                         *)
(* The inductive invariant says what the collections of the loop hold:     *)
(* exactly the well-formed fields of their kind among those parsed so far; *)
(* what an empty `errors` stands for at each stage; and what a built       *)
(* container has been built from.  A second one, NInv, says exactly which  *)
(* positions each stage has reported.                                      *)
(***************************************************************************)
EXTENDS FieldContainer, TLAPS

Past == 1 .. (next - 1)
OfKind(k) == {i \in Past : FieldErrors(fields[i]) = {} /\ FieldKind(fields[i]) = k}

(* An AtMostOne into which the positions of S have been pushed.             *)
Gathers(a, S) == /\ S = Opt(a.one) \union a.more
                 /\ a.one \notin a.more
                 /\ a.one = 0 => a.more = {}

Sorted == /\ Gathers(sources, OfKind("source"))
          /\ Gathers(backtraces, OfKind("backtrace"))
          /\ implicit = OfKind("implicit")
          /\ user = OfKind("user")
          /\ stage # "fields" => next = Len(fields) + 1

NoErrorSoFar ==
  errors = {} =>
    /\ \A i \in Past : FieldErrors(fields[i]) = {}
    /\ stage # "fields" => sources.more = {} /\ backtraces.more = {}
    /\ stage \notin {"fields", "conflicts"} => ~DelegateConflict /\ ~GenericConflict

BuiltFrom ==
  stage \in {"finish", "expand", "expanded"} =>
    /\ container.source = Source
    /\ container.backtrace = Backtrace
    /\ container.implicit = implicit
    /\ container.transparent = (selector = "transparent")
    /\ \/ /\ selector = "context"
          /\ container.kind = "Context"
          /\ container.user = user
          /\ container.message = 0
       \/ /\ selector \in WithoutContext
          /\ container.kind = "NoContext"
          /\ container.user = {}
          /\ container.message = 0
          /\ Source # 0
          /\ errors = {} => user = {}
       \/ /\ selector = "whatever"
          /\ container.kind = "Whatever"
          /\ container.user = {}
          /\ container.message \in user
          /\ fields[container.message].name = "message"
          /\ errors = {} => user = {container.message}

Outcome == /\ stage # "panic"
           /\ stage \in {"expand", "expanded"} => errors = {}
           /\ stage = "rejected" => errors # {}
           /\ errors # {} => ~Acceptable

IInv == TypeOK /\ Sorted /\ NoErrorSoFar /\ BuiltFrom /\ Outcome

-----------------------------------------------------------------------------
(* Lemmas about the operators.                                              *)

(* What `parse_field` reports is one of the texts.                          *)
LEMMA FieldErrorsAreTexts == ASSUME NEW f PROVE FieldErrors(f) \subseteq Texts
  <1>1. AttributeErrors(f) \subseteq Texts
    BY DEF AttributeErrors, Texts
  <1>2. OptOutErrors(f) \subseteq Texts
    BY DEF OptOutErrors, Texts
  <1> QED BY <1>1, <1>2 DEF FieldErrors

(* A field is of exactly one of the four kinds; the source fields are those *)
(* of the first, and a field of the second kind is a backtrace field.       *)
LEMMA Kinds == ASSUME NEW f
               PROVE  /\ FieldKind(f) \in {"source", "backtrace", "implicit", "user"}
                      /\ FieldKind(f) = "source" <=> IsSource(f)
                      /\ FieldKind(f) = "backtrace" => IsBacktrace(f)
                      /\ IsBacktrace(f) => FieldKind(f) \in {"source", "backtrace"}
  BY DEF FieldKind

(* Pushing a position that is not in it yet adds it to an AtMostOne.        *)
LEMMA PushGathers ==
  ASSUME NEW a \in AtMostOneType, NEW S, NEW i \in Position, Gathers(a, S), i \notin S
  PROVE  Push(a, i) \in AtMostOneType /\ Gathers(Push(a, i), S \union {i})
  <1> USE DEF AtMostOneType, Position
  <1>1. CASE a.one = 0
    <2>1. Push(a, i) = [one |-> i, more |-> {}]
      BY <1>1 DEF Push, Gathers
    <2> QED BY <1>1, <2>1, MaxFieldsAssumption DEF Gathers, Opt
  <1>2. CASE a.one # 0
    <2>1. Push(a, i) = [one |-> a.one, more |-> a.more \union {i}]
      BY <1>2 DEF Push
    <2> QED BY <1>2, <2>1, MaxFieldsAssumption DEF Gathers, Opt
  <1> QED BY <1>1, <1>2

(* An AtMostOne that reports no error yields what has been pushed into it.  *)
LEMMA FinishYieldsAll ==
  ASSUME NEW a, NEW S, Gathers(a, S), a.more = {}
  PROVE  S = Opt(FinishDefault(a))
  BY DEF Gathers, FinishDefault, Opt

(* A value it yields has been pushed, and nothing else has.                 *)
LEMMA FinishYieldsOne ==
  ASSUME NEW a, NEW S, Gathers(a, S), FinishDefault(a) # 0
  PROVE  S = {FinishDefault(a)}
  BY DEF Gathers, FinishDefault, Opt

LEMMA FinishInRange ==
  ASSUME NEW a \in AtMostOneType PROVE FinishDefault(a) \in 0 .. MaxFields
  BY MaxFieldsAssumption DEF AtMostOneType, FinishDefault

(* Parsing one more field puts it among those of its kind.                  *)
LEMMA OfKindGrows ==
  ASSUME TypeOK, ParseNext, NEW k
  PROVE  /\ OfKind(k)' = IF Parsed(k) THEN OfKind(k) \union {next} ELSE OfKind(k)
         /\ next \notin OfKind(k)
         /\ next \in Position
  <1>1. next \in Nat \ {0} /\ next' = next + 1 /\ fields' = fields
    BY DEF TypeOK, ParseNext, input
  <1>2. Past' = Past \union {next} /\ next \notin Past
    BY <1>1 DEF Past
  <1>3. next \in Position
    BY MaxFieldsAssumption DEF TypeOK, ParseNext, Position
  <1> QED BY <1>1, <1>2, <1>3 DEF OfKind, Parsed

-----------------------------------------------------------------------------
(* The inductive invariant, part by part.                                   *)

LEMMA InitIInv == Init => IInv
  <1> SUFFICES ASSUME Init PROVE IInv
    OBVIOUS
  <1>1. TypeOK
    <2>2. fields \in Seq(Field) /\ Len(fields) <= MaxFields
      BY DeclarationsAssumption DEF Init
    <2>3. container \in [kind : {"none", "Context", "Whatever", "NoContext"},
                         source : 0 .. MaxFields, backtrace : 0 .. MaxFields,
                         implicit : SUBSET Position, user : SUBSET Position,
                         message : 0 .. MaxFields, transparent : BOOLEAN]
      BY MaxFieldsAssumption DEF Init, NoContainer, Container
    <2>4. Empty \in AtMostOneType
      BY MaxFieldsAssumption DEF Empty, AtMostOneType
    <2>5. next \in 1 .. Len(fields) + 1
      BY <2>2, MaxFieldsAssumption DEF Init
    <2> QED BY <2>2, <2>3, <2>4, <2>5, MaxFieldsAssumption DEF Init, TypeOK
  <1>2. Past = {}
    BY DEF Init, Past
  <1>3. \A k : OfKind(k) = {}
    BY <1>2 DEF OfKind
  <1>4. Gathers(Empty, {})
    BY DEF Gathers, Empty, Opt
  <1>5. Sorted
    BY <1>3, <1>4 DEF Init, Sorted
  <1>6. NoErrorSoFar
    BY <1>2 DEF Init, NoErrorSoFar
  <1> QED BY <1>1, <1>5, <1>6 DEF Init, IInv, BuiltFrom, Outcome

LEMMA ParseFieldKeeps == IInv /\ ParseField => IInv'
  <1> SUFFICES ASSUME IInv, ParseField PROVE IInv'
    OBVIOUS
  <1>0. TypeOK /\ ParseNext
    BY DEF IInv, ParseField, RejectField, PushSource, PushBacktrace, PushImplicit, PushUser
  <1>1. \A k : /\ OfKind(k)' = IF Parsed(k) THEN OfKind(k) \union {next} ELSE OfKind(k)
               /\ next \notin OfKind(k)
    BY <1>0, OfKindGrows
  <1>2. next \in Position /\ next' \in 1 .. Len(fields) + 1
    BY <1>0, OfKindGrows DEF TypeOK, ParseNext
  <1>3. stage = "fields" /\ stage' = "fields" /\ container' = container
        /\ fields' = fields /\ selector' = selector
    BY <1>0 DEF ParseNext, input
  <1>4. Past' = Past \union {next}
    BY <1>0 DEF ParseNext, Past, TypeOK
  <1>5. Acceptable' = Acceptable
    BY <1>3 DEF Acceptable, Declared
  <1>6. Gathers(sources, OfKind("source")) /\ Gathers(backtraces, OfKind("backtrace"))
        /\ implicit = OfKind("implicit") /\ user = OfKind("user")
    BY DEF IInv, Sorted
  <1> HIDE DEF OfKind, Gathers
  <1>7. CASE RejectField
    <2>1. sources' = sources /\ backtraces' = backtraces /\ implicit' = implicit /\ user' = user
          /\ FieldErrors(fields[next]) # {}
          /\ errors' = errors \union {[at |-> next, text |-> t] : t \in FieldErrors(fields[next])}
      BY <1>7 DEF RejectField
    <2>2. errors' # {}
      BY <2>1
    <2>3. next \in Declared
      BY <1>0 DEF TypeOK, ParseNext, Declared
    <2>4. ~Acceptable
      BY <2>1, <2>3 DEF Acceptable
    <2>5. errors' \subseteq [at : 0 .. MaxFields, text : Texts]
      <3>1. FieldErrors(fields[next]) \subseteq Texts
        BY FieldErrorsAreTexts
      <3>2. next \in 0 .. MaxFields
        BY <1>2, MaxFieldsAssumption DEF Position
      <3> QED BY <2>1, <3>1, <3>2, <1>0 DEF TypeOK
    <2>6. TypeOK'
      BY <1>0, <1>2, <1>3, <2>1, <2>5 DEF TypeOK
    <2>7. \A k : ~Parsed(k)
      BY <2>1 DEF Parsed
    <2>8. Sorted'
      BY <1>1, <1>3, <1>6, <2>1, <2>7 DEF Sorted, Gathers
    <2> QED BY <1>3, <1>5, <2>2, <2>4, <2>6, <2>8
            DEF IInv, NoErrorSoFar, BuiltFrom, Outcome
  <1>8. ASSUME ~RejectField PROVE IInv'
    <2>1. errors' = errors /\ FieldErrors(fields[next]) = {}
      BY <1>8 DEF ParseField, RejectField, PushSource, PushBacktrace, PushImplicit, PushUser,
                  Parsed
    <2>2. NoErrorSoFar'
      BY <1>3, <1>4, <2>1 DEF IInv, NoErrorSoFar
    <2>3. BuiltFrom' /\ Outcome'
      BY <1>3, <1>5, <2>1 DEF IInv, BuiltFrom, Outcome
    <2>4. ASSUME sources' \in AtMostOneType, backtraces' \in AtMostOneType,
                 implicit' \subseteq Position, user' \subseteq Position
          PROVE  TypeOK'
      BY <1>0, <1>2, <1>3, <2>1, <2>4 DEF TypeOK
    <2>5. sources \in AtMostOneType /\ backtraces \in AtMostOneType
          /\ implicit \subseteq Position /\ user \subseteq Position
      BY <1>0 DEF TypeOK
    <2>6. CASE PushSource
      <3>1. Parsed("source") /\ ~Parsed("backtrace") /\ ~Parsed("implicit") /\ ~Parsed("user")
        BY <2>6 DEF PushSource, Parsed
      <3>2. sources' = Push(sources, next) /\ UNCHANGED <<backtraces, implicit, user>>
        BY <2>6 DEF PushSource
      <3>3. sources' \in AtMostOneType /\ Gathers(sources', OfKind("source") \union {next})
        BY <1>1, <1>2, <1>6, <2>5, <3>2, PushGathers
      <3>4. TypeOK'
        BY <2>4, <2>5, <3>2, <3>3
      <3>5. Gathers(sources, OfKind("source"))' /\ Gathers(backtraces, OfKind("backtrace"))'
        BY <1>1, <1>6, <3>1, <3>2, <3>3 DEF Gathers
      <3>6. Sorted'
        BY <1>1, <1>3, <1>6, <3>1, <3>2, <3>5 DEF Sorted
      <3> QED BY <2>2, <2>3, <3>4, <3>6 DEF IInv
    <2>7. CASE PushBacktrace
      <3>1. Parsed("backtrace") /\ ~Parsed("source") /\ ~Parsed("implicit") /\ ~Parsed("user")
        BY <2>7 DEF PushBacktrace, Parsed
      <3>2. backtraces' = Push(backtraces, next) /\ UNCHANGED <<sources, implicit, user>>
        BY <2>7 DEF PushBacktrace
      <3>3. /\ backtraces' \in AtMostOneType
            /\ Gathers(backtraces', OfKind("backtrace") \union {next})
        BY <1>1, <1>2, <1>6, <2>5, <3>2, PushGathers
      <3>4. TypeOK'
        BY <2>4, <2>5, <3>2, <3>3
      <3>5. Gathers(sources, OfKind("source"))' /\ Gathers(backtraces, OfKind("backtrace"))'
        BY <1>1, <1>6, <3>1, <3>2, <3>3 DEF Gathers
      <3>6. Sorted'
        BY <1>1, <1>3, <1>6, <3>1, <3>2, <3>5 DEF Sorted
      <3> QED BY <2>2, <2>3, <3>4, <3>6 DEF IInv
    <2>8. CASE PushImplicit
      <3>1. Parsed("implicit") /\ ~Parsed("source") /\ ~Parsed("backtrace") /\ ~Parsed("user")
        BY <2>8 DEF PushImplicit, Parsed
      <3>2. implicit' = implicit \union {next} /\ UNCHANGED <<sources, backtraces, user>>
        BY <2>8 DEF PushImplicit
      <3>4. TypeOK'
        BY <1>2, <2>4, <2>5, <3>2
      <3>5. Gathers(sources, OfKind("source"))' /\ Gathers(backtraces, OfKind("backtrace"))'
        BY <1>1, <1>6, <3>1, <3>2 DEF Gathers
      <3>6. Sorted'
        BY <1>1, <1>3, <1>6, <3>1, <3>2, <3>5 DEF Sorted
      <3> QED BY <2>2, <2>3, <3>4, <3>6 DEF IInv
    <2>9. CASE PushUser
      <3>1. Parsed("user") /\ ~Parsed("source") /\ ~Parsed("backtrace") /\ ~Parsed("implicit")
        BY <2>9 DEF PushUser, Parsed
      <3>2. user' = user \union {next} /\ UNCHANGED <<sources, backtraces, implicit>>
        BY <2>9 DEF PushUser
      <3>4. TypeOK'
        BY <1>2, <2>4, <2>5, <3>2
      <3>5. Gathers(sources, OfKind("source"))' /\ Gathers(backtraces, OfKind("backtrace"))'
        BY <1>1, <1>6, <3>1, <3>2 DEF Gathers
      <3>6. Sorted'
        BY <1>1, <1>3, <1>6, <3>1, <3>2, <3>5 DEF Sorted
      <3> QED BY <2>2, <2>3, <3>4, <3>6 DEF IInv
    <2> QED BY <1>8, <2>6, <2>7, <2>8, <2>9 DEF ParseField
  <1> QED BY <1>7, <1>8

(* After the loop the collections hold fields of all the declaration.       *)
LEMMA AfterTheLoop ==
  ASSUME TypeOK, Sorted, next = Len(fields) + 1
  PROVE  /\ Past = Declared
         /\ OfKind("source") = Opt(sources.one) \union sources.more
         /\ OfKind("backtrace") = Opt(backtraces.one) \union backtraces.more
         /\ Source # 0 => OfKind("source") = {Source}
         /\ Backtrace # 0 => OfKind("backtrace") = {Backtrace}
         /\ Source \in 0 .. MaxFields /\ Backtrace \in 0 .. MaxFields
  <1>1. Past = Declared
    BY DEF Past, Declared, TypeOK
  <1>2. Gathers(sources, OfKind("source")) /\ Gathers(backtraces, OfKind("backtrace"))
    BY DEF Sorted
  <1>3. sources \in AtMostOneType /\ backtraces \in AtMostOneType
    BY DEF TypeOK
  <1>4. Source \in 0 .. MaxFields /\ Backtrace \in 0 .. MaxFields
    BY <1>3, FinishInRange DEF Source, Backtrace
  <1>5. Source # 0 => OfKind("source") = {Source}
    BY <1>2, FinishYieldsOne DEF Source
  <1>6. Backtrace # 0 => OfKind("backtrace") = {Backtrace}
    BY <1>2, FinishYieldsOne DEF Backtrace
  <1> QED BY <1>1, <1>2, <1>4, <1>5, <1>6 DEF Gathers

(* None of the checks has anything to say of an acceptable container.       *)
LEMMA AcceptablePasses ==
  ASSUME TypeOK, Sorted, next = Len(fields) + 1, Acceptable
  PROVE  /\ sources.more = {} /\ backtraces.more = {}
         /\ ~DelegateConflict /\ ~GenericConflict
         /\ selector \in WithoutContext => Source # 0 /\ user = {}
         /\ selector = "whatever" =>
              \E m \in user : user = {m} /\ fields[m].name = "message"
  <1> DEFINE Of(k) == {i \in Declared : FieldKind(fields[i]) = k}
  <1>1. /\ \A i \in Declared : FieldErrors(fields[i]) = {}
        /\ \A i, j \in Declared : IsSource(fields[i]) /\ IsSource(fields[j]) => i = j
        /\ \A i, j \in Declared : IsBacktrace(fields[i]) /\ IsBacktrace(fields[j]) => i = j
        /\ \A i \in Declared : IsSource(fields[i]) /\ IsGeneric(fields[i])
                                 => selector \in WithoutContext
        /\ selector \in WithoutContext => /\ \E i \in Declared : IsSource(fields[i])
                                          /\ Of("user") = {}
        /\ selector = "whatever" => \E i \in Of("user") : /\ Of("user") = {i}
                                                          /\ fields[i].name = "message"
    BY DEF Acceptable
  <1>2. Past = Declared
    BY AfterTheLoop
  <1>3. \A k : OfKind(k) = Of(k)
    BY <1>1, <1>2 DEF OfKind
  <1>4. \A i \in Of("source") : IsSource(fields[i])
    BY Kinds
  <1>5. \A i \in Of("backtrace") : IsBacktrace(fields[i])
    BY Kinds
  <1>6. Of("source") = Opt(sources.one) \union sources.more
        /\ Of("backtrace") = Opt(backtraces.one) \union backtraces.more
    BY <1>3, AfterTheLoop
  <1>7. /\ sources.one \notin sources.more /\ (sources.one = 0 => sources.more = {})
        /\ backtraces.one \notin backtraces.more /\ (backtraces.one = 0 => backtraces.more = {})
    BY DEF Sorted, Gathers
  <1>8. sources.more = {}
    <2> SUFFICES ASSUME NEW j \in sources.more PROVE FALSE
      OBVIOUS
    <2>1. sources.one \in Of("source") /\ j \in Of("source") /\ sources.one # j
      BY <1>6, <1>7 DEF Opt
    <2> QED BY <1>1, <1>4, <2>1
  <1>9. backtraces.more = {}
    <2> SUFFICES ASSUME NEW j \in backtraces.more PROVE FALSE
      OBVIOUS
    <2>1. backtraces.one \in Of("backtrace") /\ j \in Of("backtrace") /\ backtraces.one # j
      BY <1>6, <1>7 DEF Opt
    <2> QED BY <1>1, <1>5, <2>1
  <1>10. Source # 0 => Source \in Of("source")
    BY <1>3, AfterTheLoop
  <1>11. Backtrace # 0 => Backtrace \in Of("backtrace")
    BY <1>3, AfterTheLoop
  <1>12. ~DelegateConflict
    <2> SUFFICES ASSUME DelegateConflict PROVE FALSE
      OBVIOUS
    <2>1. Source \in Of("source") /\ Backtrace \in Of("backtrace")
          /\ IsBacktrace(fields[Source])
      BY <1>10, <1>11 DEF DelegateConflict, BacktraceDelegate
    <2>2. Source = Backtrace
      BY <1>1, <1>5, <2>1
    <2> QED BY <2>1, <2>2
  <1>13. ~GenericConflict
    BY <1>1, <1>4, <1>10 DEF GenericConflict
  <1>14. user = Of("user")
    BY <1>3 DEF Sorted
  <1>15. (\E i \in Declared : IsSource(fields[i])) => Source # 0
    <2> SUFFICES ASSUME NEW i \in Declared, IsSource(fields[i]) PROVE Source # 0
      OBVIOUS
    <2>1. i \in Of("source")
      BY Kinds
    <2>2. i # 0 /\ sources.one = i
      BY <1>6, <1>8, <2>1 DEF Opt, Declared
    <2> QED BY <1>8, <2>2 DEF Source, FinishDefault
  <1> QED BY <1>1, <1>8, <1>9, <1>12, <1>13, <1>14, <1>15

(* A container of which no check has anything to say is acceptable.         *)
LEMMA PassingIsAcceptable ==
  ASSUME TypeOK, Sorted, next = Len(fields) + 1,
         \A i \in Declared : FieldErrors(fields[i]) = {},
         sources.more = {}, backtraces.more = {}, ~DelegateConflict, ~GenericConflict,
         selector \in WithoutContext => Source # 0 /\ user = {},
         selector = "whatever" => \E m \in user : user = {m} /\ fields[m].name = "message"
  PROVE  Acceptable
  <1> DEFINE Of(k) == {i \in Declared : FieldKind(fields[i]) = k}
  <1>1. \A k : OfKind(k) = Of(k)
    BY AfterTheLoop DEF OfKind
  <1>2. Of("source") = Opt(Source) /\ Of("backtrace") = Opt(Backtrace)
    BY <1>1, FinishYieldsAll DEF Sorted, Source, Backtrace
  <1>3. user = Of("user")
    BY <1>1 DEF Sorted
  <1>4. \A i \in Declared : IsSource(fields[i]) => i = Source /\ Source # 0
    <2> TAKE i \in Declared
    <2>1. IsSource(fields[i]) => i \in Of("source")
      BY Kinds
    <2> QED BY <1>2, <2>1 DEF Opt
  <1>5. \A i \in Declared : IsBacktrace(fields[i]) =>
          \/ i = Backtrace /\ Backtrace # 0
          \/ i = Source /\ Source # 0 /\ BacktraceDelegate(fields[Source])
    <2> SUFFICES ASSUME NEW i \in Declared, IsBacktrace(fields[i])
                 PROVE  \/ i = Backtrace /\ Backtrace # 0
                        \/ i = Source /\ Source # 0 /\ BacktraceDelegate(fields[Source])
      OBVIOUS
    <2>1. i \in Of("source") \/ i \in Of("backtrace")
      BY Kinds
    <2>2. CASE i \in Of("source")
      BY <1>2, <2>2, Kinds DEF Opt, BacktraceDelegate
    <2>3. CASE i \in Of("backtrace")
      BY <1>2, <2>3 DEF Opt
    <2> QED BY <2>1, <2>2, <2>3
  <1>6. \A i, j \in Declared : IsBacktrace(fields[i]) /\ IsBacktrace(fields[j]) => i = j
    BY <1>5 DEF DelegateConflict
  <1>7. \A i \in Declared : IsSource(fields[i]) /\ IsGeneric(fields[i])
                              => selector \in WithoutContext
    BY <1>4 DEF GenericConflict
  <1>8. selector \in WithoutContext => \E i \in Declared : IsSource(fields[i])
    <2> SUFFICES ASSUME Source # 0 PROVE \E i \in Declared : IsSource(fields[i])
      OBVIOUS
    <2>1. Source \in Of("source")
      BY <1>2 DEF Opt
    <2> QED BY <2>1, Kinds
  <1> QED BY <1>3, <1>4, <1>6, <1>7, <1>8 DEF Acceptable

(* Diagnostics of known texts on known fields keep `errors` in its type.    *)
LEMMA AtInType ==
  ASSUME NEW S \in SUBSET (0 .. MaxFields), NEW t \in Texts
  PROVE  At(S, t) \subseteq [at : 0 .. MaxFields, text : Texts]
  BY DEF At

LEMMA AtEmpty == ASSUME NEW S, NEW t PROVE At(S, t) = {} <=> S = {}
  BY DEF At

LEMMA FinishFieldsKeeps == IInv /\ FinishFields => IInv'
  <1> SUFFICES ASSUME IInv, FinishFields PROVE IInv'
    OBVIOUS
  <1>1. TypeOK /\ Sorted /\ NoErrorSoFar /\ Outcome
    BY DEF IInv
  <1>2. next = Len(fields) + 1
    <2>1. fields \in Seq(Field) /\ next \in 1 .. Len(fields) + 1
      BY <1>1 DEF TypeOK
    <2>2. Len(fields) \in Nat
      BY <2>1
    <2>3. next > Len(fields)
      BY DEF FinishFields
    <2> QED BY <2>1, <2>2, <2>3
  <1>3. /\ errors' = errors \union At(sources.more, "multiple source fields")
                            \union At(backtraces.more, "multiple backtrace fields")
        /\ stage' = "conflicts" /\ stage = "fields"
        /\ UNCHANGED <<fields, selector, next, sources, backtraces, implicit, user, container>>
    BY DEF FinishFields, input
  <1>4. Past' = Past /\ \A k : OfKind(k)' = OfKind(k)
    BY <1>3 DEF Past, OfKind
  <1>5. errors' = {} => errors = {} /\ sources.more = {} /\ backtraces.more = {}
    <2>1. errors' = {} => /\ errors = {}
                          /\ At(sources.more, "multiple source fields") = {}
                          /\ At(backtraces.more, "multiple backtrace fields") = {}
      BY <1>3
    <2> QED BY <2>1, AtEmpty
  <1>6. TypeOK'
    <2>1. sources.more \in SUBSET (0 .. MaxFields) /\ backtraces.more \in SUBSET (0 .. MaxFields)
      BY <1>1, MaxFieldsAssumption DEF TypeOK, AtMostOneType, Position
    <2>2. "multiple source fields" \in Texts /\ "multiple backtrace fields" \in Texts
      BY DEF Texts
    <2>3. errors' \subseteq [at : 0 .. MaxFields, text : Texts]
      BY <1>1, <1>3, <2>1, <2>2, AtInType DEF TypeOK
    <2> QED BY <1>1, <1>3, <2>3 DEF TypeOK
  <1>7. Sorted'
    BY <1>1, <1>2, <1>3, <1>4 DEF Sorted, Gathers
  <1>8. NoErrorSoFar'
    BY <1>1, <1>3, <1>4, <1>5 DEF NoErrorSoFar
  <1>9. errors' # {} => ~Acceptable
    <2> SUFFICES ASSUME Acceptable PROVE errors' = {}
      OBVIOUS
    <2>1. sources.more = {} /\ backtraces.more = {}
      BY <1>1, <1>2, AcceptablePasses
    <2> QED BY <1>1, <1>3, <2>1, AtEmpty DEF Outcome
  <1>10. Acceptable' = Acceptable
    BY <1>3, ZenonT(30) DEF Acceptable, Declared
  <1> QED BY <1>3, <1>6, <1>7, <1>8, <1>9, <1>10 DEF IInv, BuiltFrom, Outcome

LEMMA CheckConflictsKeeps == IInv /\ CheckConflicts => IInv'
  <1> SUFFICES ASSUME IInv, CheckConflicts PROVE IInv'
    OBVIOUS
  <1> DEFINE D == At({i \in {Source, Backtrace} : DelegateConflict},
                     "backtrace field and backtrace delegate")
             G == At({i \in {Source} : GenericConflict},
                     "generic source with a context selector")
  <1>1. TypeOK /\ Sorted /\ NoErrorSoFar /\ Outcome
    BY DEF IInv
  <1>2. next = Len(fields) + 1
    BY <1>1 DEF CheckConflicts, Sorted
  <1>3. /\ errors' = errors \union D \union G
        /\ stage' = "select" /\ stage = "conflicts"
        /\ UNCHANGED <<fields, selector, next, sources, backtraces, implicit, user, container>>
    BY DEF CheckConflicts, input
  <1>4. Past' = Past /\ \A k : OfKind(k)' = OfKind(k)
    BY <1>3 DEF Past, OfKind
  <1>5. (D = {} <=> ~DelegateConflict) /\ (G = {} <=> ~GenericConflict)
    <2>1. {i \in {Source, Backtrace} : DelegateConflict} = {} <=> ~DelegateConflict
      OBVIOUS
    <2>2. {i \in {Source} : GenericConflict} = {} <=> ~GenericConflict
      OBVIOUS
    <2> QED BY <2>1, <2>2, AtEmpty
  <1>6. TypeOK'
    <2>1. Source \in 0 .. MaxFields /\ Backtrace \in 0 .. MaxFields
      BY <1>1, <1>2, AfterTheLoop
    <2>2. D \subseteq [at : 0 .. MaxFields, text : Texts]
      BY <2>1, AtInType DEF Texts
    <2>3. G \subseteq [at : 0 .. MaxFields, text : Texts]
      BY <2>1, AtInType DEF Texts
    <2>4. errors' \subseteq [at : 0 .. MaxFields, text : Texts]
      BY <1>1, <1>3, <2>2, <2>3 DEF TypeOK
    <2> QED BY <1>1, <1>3, <2>4 DEF TypeOK
  <1>7. Sorted'
    BY <1>1, <1>2, <1>3, <1>4 DEF Sorted, Gathers
  <1>8. DelegateConflict' = DelegateConflict /\ GenericConflict' = GenericConflict
    BY <1>3 DEF DelegateConflict, GenericConflict, Source, Backtrace
  <1>9. NoErrorSoFar'
    BY <1>1, <1>3, <1>4, <1>5, <1>8 DEF NoErrorSoFar
  <1>10. errors' # {} => ~Acceptable
    <2> SUFFICES ASSUME Acceptable PROVE errors' = {}
      OBVIOUS
    <2>1. ~DelegateConflict /\ ~GenericConflict
      BY <1>1, <1>2, AcceptablePasses
    <2> QED BY <1>1, <1>3, <1>5, <2>1 DEF Outcome
  <1>11. Acceptable' = Acceptable
    BY <1>3, ZenonT(30) DEF Acceptable, Declared
  <1> QED BY <1>3, <1>6, <1>7, <1>9, <1>10, <1>11 DEF IInv, BuiltFrom, Outcome

(* What the three ways to select have in common: they change nothing that   *)
(* the earlier stages have collected, they may report, and they either      *)
(* build the container or give up with at least one diagnostic.             *)
Selected(reported, kind, users, message) ==
  /\ errors' = errors \union reported
  /\ UNCHANGED <<fields, selector, next, sources, backtraces, implicit, user>>
  /\ \/ /\ stage' = "finish"
        /\ container' = Container(kind, Source, Backtrace, implicit, users, message)
     \/ /\ reported # {}
        /\ stage' = "rejected"
        /\ container' = container

LEMMA SelectedKeeps ==
  ASSUME IInv, stage = "select",
         NEW reported \in SUBSET [at : 0 .. MaxFields, text : Texts],
         NEW kind \in {"Context", "Whatever", "NoContext"},
         NEW users \in SUBSET Position, NEW message \in 0 .. MaxFields,
         Selected(reported, kind, users, message),
         reported # {} => ~Acceptable,
         stage' = "finish" => BuiltFrom'
  PROVE  IInv'
  <1>1. TypeOK /\ Sorted /\ NoErrorSoFar /\ Outcome
    BY DEF IInv
  <1>2. next = Len(fields) + 1
    BY <1>1 DEF Sorted
  <1>3. /\ errors' = errors \union reported
        /\ UNCHANGED <<fields, selector, next, sources, backtraces, implicit, user>>
        /\ stage' \in {"finish", "rejected"}
        /\ stage' = "rejected" => reported # {}
    BY DEF Selected
  <1>4. Past' = Past /\ \A k : OfKind(k)' = OfKind(k)
    BY <1>3 DEF Past, OfKind
  <1>5. TypeOK'
    <2>1. Source \in 0 .. MaxFields /\ Backtrace \in 0 .. MaxFields
      BY <1>1, <1>2, AfterTheLoop
    <2>2. container' \in [kind : {"none", "Context", "Whatever", "NoContext"},
                          source : 0 .. MaxFields, backtrace : 0 .. MaxFields,
                          implicit : SUBSET Position, user : SUBSET Position,
                          message : 0 .. MaxFields, transparent : BOOLEAN]
      <3>1. CASE container' = container
        BY <1>1, <3>1 DEF TypeOK
      <3>2. CASE container' = Container(kind, Source, Backtrace, implicit, users, message)
        <4>1. implicit \in SUBSET Position /\ (selector = "transparent") \in BOOLEAN
          BY <1>1 DEF TypeOK
        <4> QED BY <2>1, <3>2, <4>1 DEF Container
      <3> QED BY <3>1, <3>2 DEF Selected
    <2>3. errors' \subseteq [at : 0 .. MaxFields, text : Texts]
      BY <1>1, <1>3 DEF TypeOK
    <2> QED BY <1>1, <1>3, <2>2, <2>3 DEF TypeOK
  <1>6. Sorted'
    BY <1>1, <1>2, <1>3, <1>4 DEF Sorted, Gathers
  <1>7. DelegateConflict' = DelegateConflict /\ GenericConflict' = GenericConflict
    BY <1>3 DEF DelegateConflict, GenericConflict, Source, Backtrace
  <1>8. NoErrorSoFar'
    BY <1>1, <1>3, <1>4, <1>7 DEF NoErrorSoFar
  <1>9. Acceptable' = Acceptable
    BY <1>3 DEF Acceptable, Declared
  <1>10. Outcome'
    BY <1>1, <1>3, <1>9 DEF Outcome
  <1>11. BuiltFrom'
    BY <1>3 DEF BuiltFrom
  <1> QED BY <1>5, <1>6, <1>8, <1>10, <1>11 DEF IInv

LEMMA SelectContextKeeps == IInv /\ SelectContext => IInv'
  <1> SUFFICES ASSUME IInv, SelectContext PROVE IInv'
    OBVIOUS
  <1>1. stage = "select" /\ selector = "context"
    BY DEF SelectContext
  <1>2. Selected({}, "Context", user, 0)
    BY DEF SelectContext, Build, Selected, input
  <1>3. BuiltFrom'
    BY <1>1, <1>2 DEF Selected, BuiltFrom, Container, Source, Backtrace
  <1>4. user \in SUBSET Position /\ 0 \in 0 .. MaxFields
    BY MaxFieldsAssumption DEF IInv, TypeOK
  <1> QED BY <1>1, <1>2, <1>3, <1>4, SelectedKeeps

LEMMA SelectWithoutContextKeeps == IInv /\ SelectWithoutContext => IInv'
  <1> SUFFICES ASSUME IInv, SelectWithoutContext PROVE IInv'
    OBVIOUS
  <1> DEFINE U == At(user, "must not have context fields")
             S == At({0}, "must have a source field")
  <1>1. stage = "select" /\ selector \in WithoutContext
    BY DEF SelectWithoutContext
  <1>2. TypeOK /\ Sorted /\ next = Len(fields) + 1
    BY <1>1 DEF IInv, Sorted
  <1>3. 0 \in 0 .. MaxFields /\ {} \in SUBSET Position /\ user \in SUBSET (0 .. MaxFields)
    BY <1>2, MaxFieldsAssumption DEF TypeOK, Position
  <1>4. U \subseteq [at : 0 .. MaxFields, text : Texts]
    BY <1>3, AtInType DEF Texts
  <1>5. S \subseteq [at : 0 .. MaxFields, text : Texts]
    BY <1>3, AtInType DEF Texts
  <1>6. (U = {} <=> user = {}) /\ S # {}
    BY AtEmpty
  <1>7. Acceptable => Source # 0 /\ user = {}
    BY <1>1, <1>2, AcceptablePasses
  <1>8. CASE Source # 0
    <2>1. Selected(U, "NoContext", {}, 0) /\ stage' = "finish"
      BY <1>8 DEF SelectWithoutContext, Build, Selected, input
    <2>2. BuiltFrom'
      <3>1. errors' = {} => user = {}
        BY <1>6, <2>1 DEF Selected
      <3> HIDE DEF U
      <3> QED BY <1>1, <1>8, <2>1, <3>1 DEF Selected, BuiltFrom, Container, Source, Backtrace
    <2> HIDE DEF U
    <2> QED BY <1>1, <1>3, <1>4, <1>6, <1>7, <2>1, <2>2, SelectedKeeps
  <1>9. CASE Source = 0
    <2>1. AssumeFailed(U \union S)
      BY <1>9 DEF SelectWithoutContext
    <2>2. Selected(U \union S, "NoContext", {}, 0) /\ stage' = "rejected"
      BY <1>6, <2>1 DEF AssumeFailed, Selected, input
    <2> HIDE DEF U, S
    <2> QED BY <1>1, <1>3, <1>4, <1>5, <1>7, <1>9, <2>2, SelectedKeeps
  <1> QED BY <1>8, <1>9

LEMMA SelectWhateverKeeps == IInv /\ SelectWhatever => IInv'
  <1> SUFFICES ASSUME IInv, SelectWhatever PROVE IInv'
    OBVIOUS
  <1> DEFINE U == At(user \ Messages, "must not have context fields")
  <1>1. stage = "select" /\ selector = "whatever"
    BY DEF SelectWhatever
  <1>2. TypeOK /\ Sorted /\ next = Len(fields) + 1
    BY <1>1 DEF IInv, Sorted
  <1>3. /\ 0 \in 0 .. MaxFields /\ {} \in SUBSET Position
        /\ user \in SUBSET (0 .. MaxFields) /\ Messages \subseteq user
    BY <1>2, MaxFieldsAssumption DEF TypeOK, Position, Messages
  <1>4. U \subseteq [at : 0 .. MaxFields, text : Texts]
    <2>1. user \ Messages \in SUBSET (0 .. MaxFields)
      BY <1>3
    <2> QED BY <2>1, AtInType DEF Texts
  <1>5. MessageErrors \subseteq [at : 0 .. MaxFields, text : Texts]
    <2>1. {0} \in SUBSET (0 .. MaxFields)
          /\ {i \in Messages : \E j \in Messages : j < i} \in SUBSET (0 .. MaxFields)
      BY <1>3
    <2> QED BY <2>1, AtInType DEF Texts, MessageErrors
  <1>6. U = {} <=> user \subseteq Messages
    <2>1. user \ Messages = {} <=> user \subseteq Messages
      OBVIOUS
    <2> QED BY <2>1, AtEmpty
  <1>7. MessageErrors = {} <=> \E m \in Messages : Messages = {m}
    <2>1. CASE Messages = {}
      BY <2>1, AtEmpty DEF MessageErrors
    <2>2. CASE Messages # {}
      <3>1. MessageErrors = {} <=> \A i, j \in Messages : ~(j < i)
        <4>1. {i \in Messages : \E j \in Messages : j < i} = {}
                <=> \A i, j \in Messages : ~(j < i)
          OBVIOUS
        <4> QED BY <2>2, <4>1, AtEmpty DEF MessageErrors
      <3>2. \A i, j \in Messages : i < j \/ j < i \/ i = j
        BY <1>3
      <3>3. (\A i, j \in Messages : ~(j < i)) => \E m \in Messages : Messages = {m}
        BY <2>2, <3>2
      <3>4. ASSUME NEW m \in Messages, Messages = {m}
            PROVE  \A i, j \in Messages : ~(j < i)
        BY <1>3, <3>4
      <3> QED BY <3>1, <3>3, <3>4
    <2> QED BY <2>1, <2>2
  <1>8. Acceptable => U = {} /\ MessageErrors = {}
    <2> SUFFICES ASSUME Acceptable PROVE U = {} /\ MessageErrors = {}
      OBVIOUS
    <2>1. PICK m \in user : user = {m} /\ fields[m].name = "message"
      BY <1>1, <1>2, AcceptablePasses
    <2>2. Messages = {m}
      BY <2>1 DEF Messages
    <2> HIDE DEF U
    <2> QED BY <1>6, <1>7, <2>1, <2>2
  <1>9. CASE MessageErrors = {}
    <2>1. PICK m \in Messages : Build("Whatever", {}, m)
      BY <1>9 DEF SelectWhatever
    <2>2. Messages = {m} /\ m \in user /\ fields[m].name = "message" /\ m \in 0 .. MaxFields
      BY <1>3, <1>7, <1>9 DEF Messages
    <2>3. errors' = errors \union U
      BY <1>9 DEF SelectWhatever
    <2> HIDE DEF U
    <2>4. Selected(U, "Whatever", {}, m) /\ stage' = "finish"
      BY <2>1, <2>3 DEF Build, Selected, input
    <2>5. errors' = {} => user = {m}
      BY <1>3, <1>6, <2>2, <2>3
    <2>6. BuiltFrom'
      BY <1>1, <2>2, <2>4, <2>5 DEF Selected, BuiltFrom, Container, Source, Backtrace
    <2> QED BY <1>1, <1>3, <1>4, <1>8, <2>2, <2>4, <2>6, SelectedKeeps
  <1>10. CASE MessageErrors # {}
    <2>1. AssumeFailed(U \union MessageErrors)
      BY <1>10 DEF SelectWhatever
    <2> HIDE DEF U
    <2>2. Selected(U \union MessageErrors, "Whatever", {}, 0) /\ stage' = "rejected"
      BY <1>10, <2>1 DEF AssumeFailed, Selected, input
    <2> QED BY <1>1, <1>3, <1>4, <1>5, <1>8, <1>10, <2>2, SelectedKeeps
  <1> QED BY <1>9, <1>10

LEMMA FinishKeeps == IInv /\ Finish => IInv'
  <1> SUFFICES ASSUME IInv, Finish PROVE IInv'
    OBVIOUS
  <1>1. /\ stage = "finish"
        /\ stage' = IF errors = {} THEN "expand" ELSE "rejected"
        /\ UNCHANGED <<fields, selector, next, sources, backtraces, implicit, user, errors,
                       container>>
    BY DEF Finish, input
  <1>2. Past' = Past /\ \A k : OfKind(k)' = OfKind(k)
    BY <1>1 DEF Past, OfKind
  <1>3. /\ DelegateConflict' = DelegateConflict /\ GenericConflict' = GenericConflict
        /\ Source' = Source /\ Backtrace' = Backtrace /\ Acceptable' = Acceptable
    BY <1>1 DEF DelegateConflict, GenericConflict, Source, Backtrace, Acceptable, Declared
  <1>4. TypeOK'
    BY <1>1 DEF IInv, TypeOK
  <1>5. Sorted'
    BY <1>1, <1>2 DEF IInv, Sorted, Gathers
  <1>6. NoErrorSoFar' /\ Outcome'
    BY <1>1, <1>2, <1>3 DEF IInv, NoErrorSoFar, Outcome
  <1>7. BuiltFrom'
    BY <1>1, <1>3 DEF IInv, BuiltFrom
  <1> QED BY <1>4, <1>5, <1>6, <1>7 DEF IInv

(* The assertions that the expansion makes have been checked before.        *)
LEMMA ExpandKeeps == IInv /\ Expand => IInv'
  <1> SUFFICES ASSUME IInv, Expand PROVE IInv'
    OBVIOUS
  <1>1. /\ stage = "expand"
        /\ stage' = IF ExpansionPanics(container) THEN "panic" ELSE "expanded"
        /\ UNCHANGED <<fields, selector, next, sources, backtraces, implicit, user, errors,
                       container>>
    BY DEF Expand, input
  <1>2. errors = {} /\ ~GenericConflict
    BY <1>1 DEF IInv, Outcome, NoErrorSoFar
  <1>3. ~ExpansionPanics(container)
    BY <1>1, <1>2 DEF IInv, BuiltFrom, ExpansionPanics, GenericConflict, WithoutContext
  <1>4. Past' = Past /\ \A k : OfKind(k)' = OfKind(k)
    BY <1>1 DEF Past, OfKind
  <1>5. /\ DelegateConflict' = DelegateConflict /\ GenericConflict' = GenericConflict
        /\ Source' = Source /\ Backtrace' = Backtrace /\ Acceptable' = Acceptable
    BY <1>1 DEF DelegateConflict, GenericConflict, Source, Backtrace, Acceptable, Declared
  <1>6. TypeOK'
    BY <1>1, <1>3 DEF IInv, TypeOK
  <1>7. Sorted'
    BY <1>1, <1>3, <1>4 DEF IInv, Sorted, Gathers
  <1>8. NoErrorSoFar' /\ Outcome'
    BY <1>1, <1>3, <1>4, <1>5 DEF IInv, NoErrorSoFar, Outcome
  <1>9. BuiltFrom'
    BY <1>1, <1>3, <1>5 DEF IInv, BuiltFrom
  <1> QED BY <1>6, <1>7, <1>8, <1>9 DEF IInv

LEMMA StutterKeeps == IInv /\ UNCHANGED vars => IInv'
  <1> SUFFICES ASSUME IInv, UNCHANGED vars PROVE IInv'
    OBVIOUS
  <1>1. UNCHANGED <<fields, selector, next, sources, backtraces, implicit, user, errors, stage,
                    container>>
    BY DEF vars, input
  <1>2. Past' = Past /\ \A k : OfKind(k)' = OfKind(k)
    BY <1>1 DEF Past, OfKind
  <1>3. /\ DelegateConflict' = DelegateConflict /\ GenericConflict' = GenericConflict
        /\ Source' = Source /\ Backtrace' = Backtrace /\ Acceptable' = Acceptable
    BY <1>1 DEF DelegateConflict, GenericConflict, Source, Backtrace, Acceptable, Declared
  <1>4. TypeOK' /\ Sorted'
    BY <1>1, <1>2 DEF IInv, TypeOK, Sorted, Gathers
  <1>5. NoErrorSoFar' /\ Outcome' /\ BuiltFrom'
    BY <1>1, <1>2, <1>3 DEF IInv, NoErrorSoFar, Outcome, BuiltFrom
  <1> QED BY <1>4, <1>5 DEF IInv

LEMMA StepKeeps == IInv /\ [Next]_vars => IInv'
  BY ParseFieldKeeps, FinishFieldsKeeps, CheckConflictsKeeps, SelectContextKeeps,
     SelectWithoutContextKeeps, SelectWhateverKeeps, FinishKeeps, ExpandKeeps, StutterKeeps
  DEF Next

(* The invariant above holds in every state the macro reaches.              *)
THEOREM Inductive == Spec => []IInv
  BY InitIInv, StepKeeps, PTL DEF Spec

(* Every variable keeps its type, for any number of fields.                 *)
THEOREM TypeCorrect == Spec => []TypeOK
  BY Inductive, PTL DEF IInv

(* No assertion, `unwrap` or `unreachable!` of the macro fails, however     *)
(* many fields there are and whatever their attributes say.                 *)
THEOREM NoPanic == Spec => []NeverPanics
  <1>1. IInv => NeverPanics
    BY DEF IInv, Outcome, NeverPanics
  <1> QED BY <1>1, Inductive, PTL

-----------------------------------------------------------------------------
(* What an expanded container is.                                           *)

(* The fields that are pairwise disjoint parts of the declaration.          *)
Parts(c) == /\ Declared = Opt(c.source) \union Opt(c.backtrace) \union c.implicit
                            \union c.user \union Opt(c.message)
            /\ Opt(c.source) \intersect (Opt(c.backtrace) \union c.implicit \union c.user
                                           \union Opt(c.message)) = {}
            /\ (Opt(c.backtrace) \union c.implicit)
                 \intersect (c.user \union Opt(c.message)) = {}

LEMMA ExpandedPasses ==
  ASSUME IInv, stage = "expanded"
  PROVE  /\ TypeOK /\ Sorted /\ next = Len(fields) + 1
         /\ \A i \in Declared : FieldErrors(fields[i]) = {}
         /\ sources.more = {} /\ backtraces.more = {}
         /\ ~DelegateConflict /\ ~GenericConflict
         /\ container.source = Source /\ container.backtrace = Backtrace
         /\ container.implicit = implicit
         /\ \/ /\ selector = "context" /\ container.kind = "Context"
               /\ container.user = user /\ container.message = 0
            \/ /\ selector \in WithoutContext /\ container.kind = "NoContext"
               /\ container.user = {} /\ container.message = 0
               /\ Source # 0 /\ user = {}
            \/ /\ selector = "whatever" /\ container.kind = "Whatever"
               /\ container.user = {} /\ user = {container.message}
               /\ fields[container.message].name = "message"
               /\ container.message # 0
  <1>1. TypeOK /\ Sorted /\ next = Len(fields) + 1 /\ errors = {}
    BY DEF IInv, Sorted, Outcome
  <1>2. Past = Declared
    BY <1>1, AfterTheLoop
  <1>3. 0 \notin user
    BY <1>1, MaxFieldsAssumption DEF TypeOK, Position
  <1> QED BY <1>1, <1>2, <1>3 DEF IInv, NoErrorSoFar, BuiltFrom

LEMMA ExpandedParts ==
  ASSUME IInv, stage = "expanded" PROVE Parts(container)
  <1> DEFINE Of(k) == {i \in Declared : FieldKind(fields[i]) = k}
  <1>1. \A k : OfKind(k) = Of(k)
    BY ExpandedPasses, AfterTheLoop DEF OfKind
  <1>2. Of("source") = Opt(Source) /\ Of("backtrace") = Opt(Backtrace)
    BY <1>1, ExpandedPasses, FinishYieldsAll DEF Sorted, Source, Backtrace
  <1>3. implicit = Of("implicit") /\ user = Of("user")
    BY <1>1, ExpandedPasses DEF Sorted
  <1>4. Declared = Of("source") \union Of("backtrace") \union Of("implicit") \union Of("user")
    BY Kinds
  <1>5. user = container.user \union Opt(container.message)
    BY ExpandedPasses DEF Opt
  <1>6. Declared = Opt(Source) \union Opt(Backtrace) \union implicit \union user
    BY <1>2, <1>3, <1>4
  <1>7. /\ Of("source") \intersect (Of("backtrace") \union Of("implicit") \union Of("user")) = {}
        /\ (Of("backtrace") \union Of("implicit")) \intersect Of("user") = {}
    OBVIOUS
  <1>8. /\ Opt(Source) \intersect (Opt(Backtrace) \union implicit \union user) = {}
        /\ (Opt(Backtrace) \union implicit) \intersect user = {}
    BY <1>2, <1>3, <1>7
  <1>9. container.source = Source /\ container.backtrace = Backtrace
        /\ container.implicit = implicit
    BY ExpandedPasses
  <1> QED BY <1>5, <1>6, <1>8, <1>9 DEF Parts

-----------------------------------------------------------------------------
(* A container is expanded if it is acceptable as a whole, and rejected     *)
(* otherwise: going on after an error neither swallows a mistake nor makes  *)
(* one up.                                                                  *)
THEOREM OnlyForCause == Spec => []RejectedForCause
  <1>1. IInv => RejectedForCause
    <2> SUFFICES ASSUME IInv, Answered PROVE (stage = "expanded") = Acceptable
      BY DEF RejectedForCause
    <2>1. CASE stage = "expanded"
      <3>1. selector = "whatever" => \E m \in user : user = {m} /\ fields[m].name = "message"
        BY <2>1, ExpandedPasses DEF WithoutContext
      <3>2. selector \in WithoutContext => Source # 0 /\ user = {}
        BY <2>1, ExpandedPasses DEF WithoutContext
      <3>3. Acceptable
        BY <2>1, <3>1, <3>2, ExpandedPasses, PassingIsAcceptable
      <3> QED BY <2>1, <3>3
    <2>2. CASE stage = "rejected"
      <3>1. ~Acceptable
        BY <2>2 DEF IInv, Outcome
      <3> QED BY <2>2, <3>1 DEF Acceptable
    <2> QED BY <2>1, <2>2 DEF IInv, Outcome, Answered
  <1> QED BY <1>1, Inductive, PTL

(* The patterns name exactly the declared fields.                           *)
THEOREM AllMatched == Spec => []EveryFieldMatched
  <1>1. IInv => EveryFieldMatched
    BY ExpandedParts DEF EveryFieldMatched, Parts, FieldNames
  <1> QED BY <1>1, Inductive, PTL

(* Every group of a literal names other fields than the groups before it.   *)
OnceIn(l) == \A i \in Declared :
               \E g \in 1 .. Len(l) : /\ i \in l[g].fields
                                     /\ \A h \in 1 .. Len(l) : i \in l[h].fields => h = g

MovedLast(l) == \A g, h \in 1 .. Len(l) :
                  /\ l[g].value = "error" /\ l[g].fields # {}
                  /\ l[h].value = "generate_with_source(&error)"
                  => h < g

LEMMA TwoGroups ==
  ASSUME NEW A, NEW B, NEW va, NEW vb, Declared \subseteq A \union B, A \intersect B = {},
         va # "error", vb # "generate_with_source(&error)"
  PROVE  OnceIn(<<Group(A, va), Group(B, vb)>>) /\ MovedLast(<<Group(A, va), Group(B, vb)>>)
  <1> DEFINE l == <<Group(A, va), Group(B, vb)>>
  <1>1. Len(l) = 2 /\ 1 .. Len(l) = {1, 2} /\ l[1].fields = A /\ l[2].fields = B
        /\ l[1].value = va /\ l[2].value = vb
    BY DEF Group
  <1> HIDE DEF l
  <1>2. OnceIn(l)
    BY <1>1 DEF OnceIn
  <1>3. MovedLast(l)
    BY <1>1 DEF MovedLast
  <1> QED BY <1>2, <1>3 DEF l

LEMMA ThreeGroups ==
  ASSUME NEW A, NEW B, NEW C, NEW va, NEW vb, NEW vc,
         Declared \subseteq A \union B \union C,
         A \intersect B = {}, A \intersect C = {}, B \intersect C = {},
         va # "error", vb # "generate_with_source(&error)",
         vc \notin {"error", "generate_with_source(&error)"}
  PROVE  /\ OnceIn(<<Group(A, va), Group(B, vb), Group(C, vc)>>)
         /\ MovedLast(<<Group(A, va), Group(B, vb), Group(C, vc)>>)
  <1> DEFINE l == <<Group(A, va), Group(B, vb), Group(C, vc)>>
  <1>1. Len(l) = 3 /\ 1 .. Len(l) = {1, 2, 3}
        /\ l[1].fields = A /\ l[2].fields = B /\ l[3].fields = C
        /\ l[1].value = va /\ l[2].value = vb /\ l[3].value = vc
    BY DEF Group
  <1> HIDE DEF l
  <1>2. OnceIn(l)
    BY <1>1 DEF OnceIn
  <1>3. MovedLast(l)
    BY <1>1 DEF MovedLast
  <1> QED BY <1>2, <1>3 DEF l

(* Every constructor initialises every declared field, and none twice, and  *)
(* moves the error only after the implicit data has been generated from it. *)
THEOREM LiteralsCompile == Spec => []LiteralsAreWhole
  <1>1. IInv => LiteralsAreWhole
    <2> SUFFICES ASSUME IInv, stage = "expanded", NEW l \in Constructors(container)
                 PROVE  OnceIn(l) /\ MovedLast(l)
      BY DEF LiteralsAreWhole, OnceIn, MovedLast
    <2> DEFINE c == container
               I == c.implicit \union Opt(c.backtrace)
    <2>1. Parts(c)
      BY ExpandedParts
    <2>2. CASE c.kind = "Context"
      <3>1. c.message = 0
        BY <2>2, ExpandedPasses
      <3>4. Constructors(c) = {IntoError(c)} \union {k \in {Leaf(c)} : c.source = 0}
        BY <2>2 DEF Constructors
      <3>2. CASE c.source = 0
        <4>1. Declared \subseteq I \union c.user /\ I \intersect c.user = {}
          BY <2>1, <3>1, <3>2 DEF Parts, Opt
        <4>2. l = <<Group(I, "generate()"), Group(c.user, "selector")>>
          BY <3>2, <3>4 DEF IntoError, Leaf, Implicitly
        <4> QED BY <4>1, <4>2, TwoGroups
      <3>3. CASE c.source # 0
        <4>1. /\ Declared \subseteq I \union {c.source} \union c.user
              /\ I \intersect {c.source} = {} /\ I \intersect c.user = {}
              /\ {c.source} \intersect c.user = {}
          BY <2>1, <3>1, <3>3 DEF Parts, Opt
        <4>2. l = <<Group(I, "generate_with_source(&error)"), Group({c.source}, "error"),
                    Group(c.user, "selector")>>
          BY <3>3, <3>4 DEF IntoError, Implicitly
        <4> QED BY <4>1, <4>2, ThreeGroups
      <3> QED BY <3>2, <3>3
    <2>3. CASE c.kind = "NoContext"
      <3>1. c.message = 0 /\ c.user = {} /\ c.source # 0
        BY <2>3, ExpandedPasses
      <3>2. /\ Declared \subseteq I \union {c.source} /\ I \intersect {c.source} = {}
        BY <2>1, <3>1 DEF Parts, Opt
      <3>3. l = <<Group(I, "generate_with_source(&error)"), Group({c.source}, "error")>>
        BY <2>3 DEF Constructors, FromSource, Implicitly
      <3> QED BY <3>2, <3>3, TwoGroups
    <2>4. CASE c.kind = "Whatever"
      <3>1. c.message # 0 /\ c.user = {}
        BY <2>4, ExpandedPasses
      <3>2. /\ Declared \subseteq I \union Opt(c.source) \union {c.message}
            /\ I \intersect Opt(c.source) = {} /\ I \intersect {c.message} = {}
            /\ Opt(c.source) \intersect {c.message} = {}
        BY <2>1, <3>1 DEF Parts, Opt
      <3>3. \/ l = <<Group(I, "generate()"), Group(Opt(c.source), "None"),
                     Group({c.message}, "message")>>
            \/ l = <<Group(I, "generate_with_source(&error)"), Group(Opt(c.source), "error"),
                     Group({c.message}, "message")>>
        BY <2>4 DEF Constructors, WithoutSource, WithSource, Implicitly
      <3> QED BY <3>2, <3>3, ThreeGroups
    <2> QED BY <2>2, <2>3, <2>4, ExpandedPasses
  <1> QED BY <1>1, Inductive, PTL

(* The fields that claim to be the source, the backtrace or provided are    *)
(* the ones that the generated methods read.                                *)
THEOREM ClaimsKept == Spec => []ClaimsHonoured
  <1>1. IInv => ClaimsHonoured
    <2> SUFFICES ASSUME IInv, stage = "expanded", NEW i \in Declared
                 PROVE  /\ IsSource(fields[i]) => SourceArm(container).field = i
                        /\ IsBacktrace(fields[i]) => BacktraceArm(container).field = i
                        /\ IsProvided(fields[i]) =>
                             \E p \in ProvidedFields(container) : p.field = i
      BY DEF ClaimsHonoured
    <2> DEFINE c == container
    <2>1. OfKind("source") = Opt(c.source) /\ OfKind("backtrace") = Opt(c.backtrace)
      BY ExpandedPasses, FinishYieldsAll DEF Sorted, Source, Backtrace
    <2>2. i \in Past /\ FieldErrors(fields[i]) = {}
      BY ExpandedPasses, AfterTheLoop
    <2>3. IsSource(fields[i]) => i = c.source /\ c.source # 0
      <3>1. IsSource(fields[i]) => i \in OfKind("source")
        BY <2>2, Kinds DEF OfKind
      <3> QED BY <2>1, <3>1 DEF Opt
    <2>4. ASSUME IsBacktrace(fields[i]), ~IsSource(fields[i])
          PROVE  i = c.backtrace /\ c.backtrace # 0
      <3>1. i \in OfKind("backtrace")
        BY <2>2, <2>4, Kinds DEF OfKind
      <3> QED BY <2>1, <3>1 DEF Opt
    <2>5. ASSUME IsBacktrace(fields[i]) PROVE BacktraceArm(c).field = i
      <3>1. CASE IsSource(fields[i])
        BY <2>3, <2>5, <3>1 DEF BacktraceArm, BacktraceDelegate
      <3>2. CASE i = c.backtrace /\ c.backtrace # 0
        <4>1. ~(c.source # 0 /\ BacktraceDelegate(fields[c.source]))
          BY <3>2, ExpandedPasses DEF DelegateConflict
        <4> QED BY <3>2, <4>1 DEF BacktraceArm
      <3> QED BY <2>4, <2>5, <3>1, <3>2
    <2>6. ASSUME IsProvided(fields[i]) PROVE \E p \in ProvidedFields(c) : p.field = i
      <3>1. \/ i \in c.user \union c.implicit \union Opt(c.message)
            \/ i \in Opt(c.source) \/ i \in Opt(c.backtrace)
        BY ExpandedParts DEF Parts
      <3>2. CASE i \in c.user \union c.implicit \union Opt(c.message)
        <4>1. [field |-> i, type |-> "declared"] \in ProvidedFields(c)
          BY <2>6, <3>2 DEF ProvidedFields
        <4> QED BY <4>1
      <3>3. CASE i \in Opt(c.source)
        <4> DEFINE t == IF fields[i].from = "transform" THEN "transformed from" ELSE "declared"
        <4>1. [field |-> i, type |-> t] \in ProvidedFields(c)
          BY <2>6, <3>3 DEF ProvidedFields
        <4> QED BY <4>1
      <3>4. CASE i \in Opt(c.backtrace)
        <4>1. [field |-> i, type |-> "Backtrace"] \in ProvidedFields(c)
          BY <2>6, <3>4 DEF ProvidedFields
        <4> QED BY <4>1
      <3> QED BY <3>1, <3>2, <3>3, <3>4
    <2> QED BY <2>3, <2>5, <2>6 DEF SourceArm
  <1> QED BY <1>1, Inductive, PTL

-----------------------------------------------------------------------------
(* What has been reported, stage by stage.                                  *)

(* The positions at which something has been reported.                      *)
Places(E) == {e.at : e \in E} \ {0}

Later(S) == {i \in S : \E j \in S : j < i}

(* What each stage has to report.                                           *)
Wrong == {i \in Past : FieldErrors(fields[i]) # {}}

Surplus == sources.more \union backtraces.more

Clashing == {i \in {Source, Backtrace} : DelegateConflict}
              \union {i \in {Source} : GenericConflict}

Misplaced == {i \in user : selector \in WithoutContext}
               \union {i \in user \ Messages : selector = "whatever"}
               \union {i \in Later(Messages) : selector = "whatever"}

(* The surplus ones are those that come after another of their kind, and    *)
(* every stage that is behind has named its culprits.                       *)
NInv == /\ sources.more = Later(OfKind("source"))
        /\ backtraces.more = Later(OfKind("backtrace"))
        /\ Places(errors) =
             Wrong
               \union {i \in Surplus : stage # "fields"}
               \union {i \in Clashing : stage \notin {"fields", "conflicts"}}
               \union {i \in Misplaced : stage \notin {"fields", "conflicts", "select"}}

(* Positions of what is reported together, and of the field itself.         *)
LEMMA PlacesUnion == ASSUME NEW E, NEW F PROVE Places(E \union F) = Places(E) \union Places(F)
  BY DEF Places

LEMMA PlacesAt == ASSUME NEW S, NEW t PROVE Places(At(S, t)) = S \ {0}
  <1>1. {e.at : e \in At(S, t)} = S
    <2>1. \A i \in S : [at |-> i, text |-> t] \in At(S, t) /\ [at |-> i, text |-> t].at = i
      BY DEF At
    <2>2. \A e \in At(S, t) : e.at \in S
      BY DEF At
    <2> QED BY <2>1, <2>2
  <1> QED BY <1>1 DEF Places

LEMMA PlacesOfField ==
  ASSUME NEW i \in Position, NEW T, T # {}
  PROVE  Places({[at |-> i, text |-> t] : t \in T}) = {i}
  <1>1. \A e \in {[at |-> i, text |-> t] : t \in T} : e.at = i
    OBVIOUS
  <1>2. \E e \in {[at |-> i, text |-> t] : t \in T} : e.at = i
    <2>1. PICK t \in T : TRUE
      OBVIOUS
    <2>2. [at |-> i, text |-> t].at = i
      OBVIOUS
    <2> QED BY <2>1, <2>2
  <1>3. {e.at : e \in {[at |-> i, text |-> t] : t \in T}} = {i}
    BY <1>1, <1>2
  <1>4. i # 0
    BY MaxFieldsAssumption DEF Position
  <1> QED BY <1>3, <1>4 DEF Places

LEMMA PlacesAdd ==
  ASSUME NEW E, NEW S, NEW t, 0 \notin S PROVE Places(E \union At(S, t)) = Places(E) \union S
  <1>1. Places(E \union At(S, t)) = Places(E) \union Places(At(S, t))
    BY PlacesUnion
  <1>2. Places(At(S, t)) = S \ {0}
    BY PlacesAt
  <1>3. S \ {0} = S
    OBVIOUS
  <1> QED BY <1>1, <1>2, <1>3

(* What is pushed last comes after something, unless it is the first.       *)
LEMMA PushLater ==
  ASSUME NEW a \in AtMostOneType, NEW S \in SUBSET Position, NEW i \in Position,
         Gathers(a, S), a.more = Later(S), \A j \in S : j < i
  PROVE  Push(a, i).more = Later(S \union {i})
  <1>1. \A j \in S : j \in Nat
    BY MaxFieldsAssumption DEF Position
  <1>2. i \in Nat
    BY MaxFieldsAssumption DEF Position
  <1>3. CASE a.one = 0
    <2>1. S = {} /\ a.more = {}
      BY <1>3 DEF Gathers, Opt
    <2>2. Push(a, i) = [one |-> i, more |-> {}]
      BY <1>3, <2>1 DEF Push, AtMostOneType
    <2>3. Later(S \union {i}) = {}
      BY <1>2, <2>1 DEF Later
    <2> QED BY <2>2, <2>3
  <1>4. CASE a.one # 0
    <2>1. Push(a, i) = [one |-> a.one, more |-> a.more \union {i}]
      BY <1>4 DEF Push, AtMostOneType
    <2>2. a.one \in S
      BY <1>4 DEF Gathers, Opt
    <2>3. i \in Later(S \union {i})
      BY <2>2 DEF Later
    <2>4. \A j \in S : j \in Later(S \union {i}) <=> j \in Later(S)
      BY <1>1, <1>2 DEF Later
    <2>5. Later(S \union {i}) \subseteq S \union {i} /\ Later(S) \subseteq S
      BY DEF Later
    <2> QED BY <2>1, <2>3, <2>4, <2>5
  <1> QED BY <1>3, <1>4

LEMMA InitNInv == Init => NInv
  <1> SUFFICES ASSUME Init PROVE NInv
    OBVIOUS
  <1>1. Past = {}
    BY DEF Init, Past
  <1>2. \A k : Later(OfKind(k)) = {}
    BY <1>1 DEF OfKind, Later
  <1>3. errors = {} /\ stage = "fields" /\ sources.more = {} /\ backtraces.more = {}
    BY DEF Init, Empty
  <1>4. Places({}) = {} /\ Wrong = {}
    BY <1>1 DEF Places, Wrong
  <1> QED BY <1>2, <1>3, <1>4 DEF NInv

(* Each field is reported, or goes where its kind belongs.                  *)
LEMMA ParseFieldNames == IInv /\ NInv /\ ParseField => NInv'
  <1> SUFFICES ASSUME IInv, NInv, ParseField PROVE NInv'
    OBVIOUS
  <1>1. TypeOK /\ ParseNext
    BY DEF IInv, ParseField, RejectField, PushSource, PushBacktrace, PushImplicit, PushUser
  <1>2. \A k : OfKind(k)' = IF Parsed(k) THEN OfKind(k) \union {next} ELSE OfKind(k)
    BY <1>1, OfKindGrows
  <1>3. next \in Position
    BY <1>1, OfKindGrows
  <1>4. stage = "fields" /\ stage' = "fields" /\ fields' = fields
    BY <1>1 DEF ParseNext, input
  <1>5. Past' = Past \union {next} /\ next \notin Past /\ \A j \in Past : j < next
    BY <1>1 DEF ParseNext, Past, TypeOK
  <1>6. Gathers(sources, OfKind("source")) /\ Gathers(backtraces, OfKind("backtrace"))
    BY DEF IInv, Sorted
  <1>7. \A k : OfKind(k) \in SUBSET Position /\ \A j \in OfKind(k) : j < next
    <2>1. Past \subseteq Position
      BY <1>1, MaxFieldsAssumption DEF TypeOK, Past, Position
    <2> QED BY <1>5, <2>1 DEF OfKind
  <1>8. sources \in AtMostOneType /\ backtraces \in AtMostOneType
    BY <1>1 DEF TypeOK
  <1>9. /\ sources.more = Later(OfKind("source"))
        /\ backtraces.more = Later(OfKind("backtrace"))
        /\ Places(errors) = Wrong
    BY <1>4 DEF NInv
  <1>10. Wrong' = IF FieldErrors(fields[next]) # {} THEN Wrong \union {next} ELSE Wrong
    BY <1>4, <1>5 DEF Wrong
  <1>11. ASSUME sources'.more = Later(OfKind("source")'),
                backtraces'.more = Later(OfKind("backtrace")'), Places(errors') = Wrong'
         PROVE  NInv'
    BY <1>4, <1>11 DEF NInv
  <1>12. ASSUME ~Parsed("source"), sources' = sources
         PROVE  sources'.more = Later(OfKind("source")')
    BY <1>2, <1>9, <1>12
  <1>13. ASSUME ~Parsed("backtrace"), backtraces' = backtraces
         PROVE  backtraces'.more = Later(OfKind("backtrace")')
    BY <1>2, <1>9, <1>13
  <1>14. ASSUME FieldErrors(fields[next]) = {}, errors' = errors
         PROVE  Places(errors') = Wrong'
    BY <1>9, <1>10, <1>14
  <1>15. CASE RejectField
    <2>1. ~Parsed("source") /\ ~Parsed("backtrace") /\ UNCHANGED <<sources, backtraces>>
      BY <1>15 DEF RejectField, Parsed
    <2>2. /\ errors' = errors \union {[at |-> next, text |-> t] : t \in FieldErrors(fields[next])}
          /\ FieldErrors(fields[next]) # {}
      BY <1>15 DEF RejectField
    <2>3. Places(errors') = Places(errors) \union {next}
      <3> DEFINE R == {[at |-> next, text |-> t] : t \in FieldErrors(fields[next])}
      <3>1. Places(R) = {next}
        BY <1>3, <2>2, PlacesOfField
      <3>2. Places(errors \union R) = Places(errors) \union Places(R)
        BY PlacesUnion
      <3> QED BY <2>2, <3>1, <3>2
    <2> QED BY <1>9, <1>10, <1>11, <1>12, <1>13, <2>1, <2>2, <2>3
  <1>16. CASE PushSource
    <2>1. Parsed("source") /\ ~Parsed("backtrace") /\ FieldErrors(fields[next]) = {}
      BY <1>16 DEF PushSource, Parsed
    <2>2. sources' = Push(sources, next) /\ UNCHANGED <<backtraces, errors>>
      BY <1>16 DEF PushSource
    <2>3. sources'.more = Later(OfKind("source")')
      BY <1>2, <1>3, <1>6, <1>7, <1>8, <1>9, <2>1, <2>2, PushLater
    <2> QED BY <1>11, <1>13, <1>14, <2>1, <2>2, <2>3
  <1>17. CASE PushBacktrace
    <2>1. Parsed("backtrace") /\ ~Parsed("source") /\ FieldErrors(fields[next]) = {}
      BY <1>17 DEF PushBacktrace, Parsed
    <2>2. backtraces' = Push(backtraces, next) /\ UNCHANGED <<sources, errors>>
      BY <1>17 DEF PushBacktrace
    <2>3. backtraces'.more = Later(OfKind("backtrace")')
      BY <1>2, <1>3, <1>6, <1>7, <1>8, <1>9, <2>1, <2>2, PushLater
    <2> QED BY <1>11, <1>12, <1>14, <2>1, <2>2, <2>3
  <1>18. CASE PushImplicit \/ PushUser
    <2>1. ~Parsed("backtrace") /\ ~Parsed("source") /\ FieldErrors(fields[next]) = {}
          /\ UNCHANGED <<sources, backtraces, errors>>
      BY <1>18 DEF PushImplicit, PushUser, Parsed
    <2> QED BY <1>11, <1>12, <1>13, <1>14, <2>1
  <1> QED BY <1>15, <1>16, <1>17, <1>18 DEF ParseField

(* The stages after the loop leave what it has collected alone.             *)
LEMMA LaterStages ==
  ASSUME IInv, NInv, UNCHANGED <<fields, selector, next, sources, backtraces, user>>
  PROVE  /\ sources'.more = Later(OfKind("source")')
         /\ backtraces'.more = Later(OfKind("backtrace")')
         /\ Wrong' = Wrong /\ Surplus' = Surplus
         /\ Clashing' = Clashing /\ Misplaced' = Misplaced
  <1>1. Past' = Past /\ \A k : OfKind(k)' = OfKind(k)
    BY DEF Past, OfKind
  <1>2. Source' = Source /\ Backtrace' = Backtrace
    BY DEF Source, Backtrace
  <1>3. DelegateConflict' = DelegateConflict /\ GenericConflict' = GenericConflict
    BY <1>2 DEF DelegateConflict, GenericConflict
  <1>4. Messages' = Messages
    BY DEF Messages
  <1>5. sources'.more = Later(OfKind("source")') /\ backtraces'.more = Later(OfKind("backtrace")')
    BY <1>1 DEF NInv
  <1>6. Wrong' = Wrong /\ Surplus' = Surplus
    BY <1>1 DEF Wrong, Surplus
  <1>7. Clashing' = Clashing
    BY <1>2, <1>3 DEF Clashing
  <1>8. Misplaced' = Misplaced
    BY <1>4 DEF Misplaced
  <1> QED BY <1>5, <1>6, <1>7, <1>8

LEMMA FinishFieldsNames == IInv /\ NInv /\ FinishFields => NInv'
  <1> SUFFICES ASSUME IInv, NInv, FinishFields PROVE NInv'
    OBVIOUS
  <1>1. /\ errors' = errors \union At(sources.more, "multiple source fields")
                            \union At(backtraces.more, "multiple backtrace fields")
        /\ stage' = "conflicts" /\ stage = "fields"
        /\ UNCHANGED <<fields, selector, next, sources, backtraces, user>>
    BY DEF FinishFields, input
  <1>2. Places(errors) = Wrong
    BY <1>1 DEF NInv
  <1> DEFINE E == errors \union At(sources.more, "multiple source fields")
  <1>3. 0 \notin sources.more /\ 0 \notin backtraces.more
    BY MaxFieldsAssumption DEF IInv, TypeOK, AtMostOneType, Position
  <1>4. Places(E) = Places(errors) \union sources.more
    BY <1>3, PlacesAdd
  <1>5. Places(E \union At(backtraces.more, "multiple backtrace fields"))
          = Places(E) \union backtraces.more
    <2> HIDE DEF E
    <2> QED BY <1>3, PlacesAdd
  <1>6. Places(errors') = Wrong \union Surplus
    BY <1>1, <1>2, <1>4, <1>5 DEF Surplus
  <1> QED BY <1>1, <1>6, LaterStages DEF NInv

LEMMA CheckConflictsNames == IInv /\ NInv /\ CheckConflicts => NInv'
  <1> SUFFICES ASSUME IInv, NInv, CheckConflicts PROVE NInv'
    OBVIOUS
  <1> DEFINE D == {i \in {Source, Backtrace} : DelegateConflict}
             G == {i \in {Source} : GenericConflict}
  <1>1. /\ errors' = errors \union At(D, "backtrace field and backtrace delegate")
                            \union At(G, "generic source with a context selector")
        /\ stage' = "select" /\ stage = "conflicts"
        /\ UNCHANGED <<fields, selector, next, sources, backtraces, user>>
    BY DEF CheckConflicts, input
  <1>2. Places(errors) = Wrong \union Surplus
    BY <1>1 DEF NInv
  <1>3. 0 \notin D /\ 0 \notin G
    BY DEF DelegateConflict, GenericConflict
  <1>4. Places(errors') = Wrong \union Surplus \union D \union G
    <2> HIDE DEF D, G
    <2> DEFINE E == errors \union At(D, "backtrace field and backtrace delegate")
    <2>1. Places(E) = Places(errors) \union D
      BY <1>3, PlacesAdd
    <2>2. Places(E \union At(G, "generic source with a context selector"))
            = Places(E) \union G
      <3> HIDE DEF E
      <3> QED BY <1>3, PlacesAdd
    <2> QED BY <1>1, <1>2, <2>1, <2>2
  <1>5. Clashing = D \union G
    BY DEF Clashing
  <1>6. Places(errors') = Wrong \union Surplus \union Clashing
    <2> HIDE DEF D, G
    <2> QED BY <1>4, <1>5
  <1> QED BY <1>1, <1>6, LaterStages DEF NInv

(* What a way to select reports is all that is left to report.              *)
LEMMA SelectNames ==
  ASSUME IInv, NInv, stage = "select", NEW reported,
         errors' = errors \union reported, stage' \in {"finish", "rejected"},
         UNCHANGED <<fields, selector, next, sources, backtraces, user>>,
         Places(reported) = Misplaced
  PROVE  NInv'
  <1>1. Places(errors) = Wrong \union Surplus \union Clashing
    BY DEF NInv
  <1>2. Places(errors') = Wrong \union Surplus \union Clashing \union Misplaced
    BY <1>1, PlacesUnion
  <1> QED BY <1>2, LaterStages DEF NInv

LEMMA SelectContextNames == IInv /\ NInv /\ SelectContext => NInv'
  <1> SUFFICES ASSUME IInv, NInv, SelectContext PROVE NInv'
    OBVIOUS
  <1>1. /\ stage = "select" /\ selector = "context" /\ stage' = "finish"
        /\ errors' = errors \union {}
        /\ UNCHANGED <<fields, selector, next, sources, backtraces, user>>
    BY DEF SelectContext, Build, input
  <1>2. Misplaced = {} /\ Places({}) = {}
    BY <1>1 DEF Misplaced, WithoutContext, Places
  <1> QED BY <1>1, <1>2, SelectNames

LEMMA SelectWithoutContextNames == IInv /\ NInv /\ SelectWithoutContext => NInv'
  <1> SUFFICES ASSUME IInv, NInv, SelectWithoutContext PROVE NInv'
    OBVIOUS
  <1> DEFINE U == At(user, "must not have context fields")
             S == At({0}, "must have a source field")
  <1>1. /\ stage = "select" /\ selector \in WithoutContext
        /\ UNCHANGED <<fields, selector, next, sources, backtraces, user>>
    BY DEF SelectWithoutContext, Build, AssumeFailed, input
  <1>2. user \subseteq Position
    BY DEF IInv, TypeOK
  <1>3. Misplaced = user
    BY <1>1 DEF Misplaced, WithoutContext
  <1>4. Places(U) = user /\ Places(S) = {}
    <2>1. Places(U) = user \ {0}
      BY PlacesAt
    <2>2. Places(S) = {0} \ {0}
      BY PlacesAt
    <2>3. 0 \notin user
      BY <1>2, MaxFieldsAssumption DEF Position
    <2> QED BY <2>1, <2>2, <2>3
  <1>5. CASE Source # 0
    <2>1. errors' = errors \union U /\ stage' = "finish"
      BY <1>5 DEF SelectWithoutContext, Build
    <2> HIDE DEF U
    <2> QED BY <1>1, <1>3, <1>4, <2>1, SelectNames
  <1>6. CASE Source = 0
    <2>1. errors' = errors \union (U \union S) /\ stage' \in {"panic", "rejected"}
      BY <1>6 DEF SelectWithoutContext, AssumeFailed
    <2>2. stage' # "panic"
      BY SelectWithoutContextKeeps DEF IInv, Outcome
    <2>3. Places(U \union S) = user
      <3>1. Places(U \union S) = Places(U) \union Places(S)
        BY PlacesUnion
      <3> QED BY <1>4, <3>1
    <2> HIDE DEF U, S
    <2> QED BY <1>1, <1>3, <2>1, <2>2, <2>3, SelectNames
  <1> QED BY <1>5, <1>6

LEMMA SelectWhateverNames == IInv /\ NInv /\ SelectWhatever => NInv'
  <1> SUFFICES ASSUME IInv, NInv, SelectWhatever PROVE NInv'
    OBVIOUS
  <1> DEFINE U == At(user \ Messages, "must not have context fields")
  <1>1. /\ stage = "select" /\ selector = "whatever"
        /\ UNCHANGED <<fields, selector, next, sources, backtraces, user>>
    BY DEF SelectWhatever, Build, AssumeFailed, input
  <1>2. 0 \notin user /\ Messages \subseteq user
    BY MaxFieldsAssumption DEF IInv, TypeOK, Position, Messages
  <1>3. Misplaced = (user \ Messages) \union Later(Messages)
    BY <1>1 DEF Misplaced, WithoutContext
  <1>4. Places(U) = user \ Messages
    BY <1>2, PlacesAt, ZenonT(30)
  <1>5. Places(MessageErrors) = Later(Messages)
    <2>1. CASE Messages = {}
      <3>1. Places(At({0}, "exactly one message field")) = {} /\ Later(Messages) = {}
        BY <2>1, PlacesAt DEF Later
      <3> QED BY <2>1, <3>1 DEF MessageErrors
    <2>2. CASE Messages # {}
      <3>1. MessageErrors = At(Later(Messages), "exactly one message field")
        BY <2>2 DEF MessageErrors, Later
      <3>2. 0 \notin Later(Messages)
        BY <1>2 DEF Later
      <3>3. Places(At(Later(Messages), "exactly one message field")) = Later(Messages) \ {0}
        BY PlacesAt
      <3> QED BY <3>1, <3>2, <3>3
    <2> QED BY <2>1, <2>2
  <1>6. errors' = errors \union (U \union MessageErrors)
    BY DEF SelectWhatever, AssumeFailed
  <1>7. stage' \in {"finish", "panic", "rejected"}
    BY DEF SelectWhatever, Build, AssumeFailed
  <1>8. stage' # "panic"
    BY SelectWhateverKeeps DEF IInv, Outcome
  <1>9. Places(U \union MessageErrors) = Misplaced
    <2>1. Places(U \union MessageErrors) = Places(U) \union Places(MessageErrors)
      BY PlacesUnion
    <2> QED BY <1>3, <1>4, <1>5, <2>1
  <1> HIDE DEF U
  <1> QED BY <1>1, <1>6, <1>7, <1>8, <1>9, SelectNames

LEMMA RestNames == IInv /\ NInv /\ (Finish \/ Expand \/ UNCHANGED vars) => NInv'
  <1> SUFFICES ASSUME IInv, NInv, Finish \/ Expand \/ UNCHANGED vars PROVE NInv'
    OBVIOUS
  <1>1. /\ \/ stage' = stage
           \/ /\ stage \in {"finish", "expand"}
              /\ stage' \in {"expand", "expanded", "rejected", "panic"}
        /\ errors' = errors
        /\ UNCHANGED <<fields, selector, next, sources, backtraces, user>>
    BY DEF Finish, Expand, vars, input
  <1>2. CASE stage' = stage
    BY <1>1, <1>2, LaterStages DEF NInv
  <1>3. CASE stage' # stage
    <2>1. Places(errors') = Wrong \union Surplus \union Clashing \union Misplaced
      BY <1>1, <1>3 DEF NInv
    <2> QED BY <1>1, <1>3, <2>1, LaterStages DEF NInv
  <1> QED BY <1>2, <1>3

LEMMA StepNames == IInv /\ NInv /\ [Next]_vars => NInv'
  BY ParseFieldNames, FinishFieldsNames, CheckConflictsNames, SelectContextNames,
     SelectWithoutContextNames, SelectWhateverNames, RestNames
  DEF Next

(* Each stage has named the culprits of its own by the time it is over.     *)
THEOREM AllNamedSoFar == Spec => []NInv
  BY Inductive, InitNInv, StepNames, PTL DEF Spec

-----------------------------------------------------------------------------
(* A field that is the only one of its kind is what the AtMostOne yields.   *)
LEMMA YieldsSingle ==
  ASSUME NEW a, NEW S, Gathers(a, S)
  PROVE  Opt(FinishDefault(a)) = IF a.more = {} THEN S ELSE {}
  BY DEF Gathers, FinishDefault, Opt

(* A rejected container has been told of every field that somebody has to   *)
(* look at, and of no other, whichever checks an early return has skipped.  *)
THEOREM AllCulpritsNamed == Spec => []EveryCulpritNamed
  <1>1. ASSUME IInv, NInv, stage = "rejected"
        PROVE  {e.at : e \in errors} \ {0} = Culprits
    <2> DEFINE S == Opt(Source)
               B == Opt(Backtrace)
               M == {i \in OfKind("user") : fields[i].name = "message"}
    <2>1. next = Len(fields) + 1 /\ TypeOK /\ Sorted
      BY <1>1 DEF IInv, Sorted
    <2>2. Past = Declared
      BY <2>1, AfterTheLoop
    <2>3. /\ sources.more = Later(OfKind("source"))
          /\ backtraces.more = Later(OfKind("backtrace"))
          /\ Places(errors) = Wrong \union Surplus \union Clashing \union Misplaced
      BY <1>1 DEF NInv
    <2>4. /\ S = IF Later(OfKind("source")) = {} THEN OfKind("source") ELSE {}
          /\ B = IF Later(OfKind("backtrace")) = {} THEN OfKind("backtrace") ELSE {}
      BY <2>1, <2>3, YieldsSingle DEF Sorted, Source, Backtrace
    <2>5. Messages = M /\ user = OfKind("user")
      BY <2>1 DEF Sorted, Messages
    <2>6. Culprits =
            Wrong \union Later(OfKind("source")) \union Later(OfKind("backtrace"))
              \union {i \in S : BacktraceDelegate(fields[i]) /\ B # {}}
              \union {i \in B : \E j \in S : BacktraceDelegate(fields[j])}
              \union {i \in S : IsGeneric(fields[i]) /\ selector \notin WithoutContext}
              \union {i \in OfKind("user") : selector \in WithoutContext}
              \union {i \in OfKind("user") \ M : selector = "whatever"}
              \union {i \in Later(M) : selector = "whatever"}
      <3> HIDE DEF S, B
      <3> QED BY <2>2, <2>4 DEF Culprits, OfKind, Later, Wrong
    <2>7. Clashing = {i \in S : BacktraceDelegate(fields[i]) /\ B # {}}
                       \union {i \in B : \E j \in S : BacktraceDelegate(fields[j])}
                       \union {i \in S : IsGeneric(fields[i]) /\ selector \notin WithoutContext}
      BY DEF Clashing, DelegateConflict, GenericConflict, Opt
    <2>8. Misplaced = {i \in OfKind("user") : selector \in WithoutContext}
                        \union {i \in OfKind("user") \ M : selector = "whatever"}
                        \union {i \in Later(M) : selector = "whatever"}
      BY <2>5 DEF Misplaced
    <2>9. Surplus = Later(OfKind("source")) \union Later(OfKind("backtrace"))
      BY <2>3 DEF Surplus
    <2> HIDE DEF S, B, M
    <2> QED BY <2>3, <2>6, <2>7, <2>8, <2>9 DEF Places
  <1>2. IInv /\ NInv => EveryCulpritNamed
    BY <1>1 DEF EveryCulpritNamed
  <1> QED BY <1>2, Inductive, AllNamedSoFar, PTL

-----------------------------------------------------------------------------
(* An opt-out that a field may carry changes what the field is, or whether  *)
(* the generated code provides it.                                          *)
LEMMA OptOutMeans ==
  ASSUME NEW f \in Field, FieldErrors(f) = {}
  PROVE  /\ f.backtrace = "off" => Meaning(f) # Meaning([f EXCEPT !.backtrace = "absent"])
         /\ f.source = "off" => Meaning(f) # Meaning([f EXCEPT !.source = "absent"])
         /\ f.provide = "off" => Meaning(f) # Meaning([f EXCEPT !.provide = "absent"])
  <1>1. AttributeErrors(f) = {} /\ OptOutErrors(f) = {}
    BY DEF FieldErrors
  <1>2. ~(f.source = "off" /\ f.from # "absent")
    BY <1>1 DEF AttributeErrors
  <1>3. /\ f.backtrace = "off" => f.name = "backtrace"
        /\ f.source = "off" => f.name = "source"
        /\ f.provide = "off" => f.name = "backtrace"
    BY <1>1 DEF OptOutErrors
  <1>4. ASSUME f.backtrace = "off"
        PROVE  Meaning(f) # Meaning([f EXCEPT !.backtrace = "absent"])
    <2> DEFINE h == [f EXCEPT !.backtrace = "absent"]
    <2>1. /\ h.backtrace = "absent" /\ h.name = "backtrace" /\ h.source = f.source
          /\ h.from = f.from
      BY <1>3, <1>4 DEF Field
    <2> HIDE DEF h
    <2>2. ~IsBacktrace(f) /\ IsBacktrace(h)
      BY <1>4, <2>1 DEF IsBacktrace
    <2>3. IsSource(f) <=> IsSource(h)
      BY <1>3, <1>4, <2>1 DEF IsSource
    <2>4. CASE IsSource(f)
      <3>1. ~BacktraceDelegate(f) /\ BacktraceDelegate(h)
        BY <2>2, <2>3, <2>4 DEF BacktraceDelegate
      <3> QED BY <3>1 DEF Meaning, h
    <2>5. CASE ~IsSource(f)
      <3>1. FieldKind(f) # "backtrace" /\ FieldKind(h) = "backtrace"
        BY <2>2, <2>3, <2>5 DEF FieldKind
      <3> QED BY <3>1 DEF Meaning, h
    <2> QED BY <2>4, <2>5
  <1>5. ASSUME f.source = "off"
        PROVE  Meaning(f) # Meaning([f EXCEPT !.source = "absent"])
    <2> DEFINE h == [f EXCEPT !.source = "absent"]
    <2>1. h.source = "absent" /\ h.name = "source"
      BY <1>3, <1>5 DEF Field
    <2> HIDE DEF h
    <2>2. ~IsSource(f) /\ IsSource(h)
      BY <1>2, <1>5, <2>1 DEF IsSource
    <2>3. FieldKind(f) # "source" /\ FieldKind(h) = "source"
      BY <2>2, Kinds
    <2> QED BY <2>3 DEF Meaning, h
  <1>6. ASSUME f.provide = "off"
        PROVE  Meaning(f) # Meaning([f EXCEPT !.provide = "absent"])
    <2> DEFINE h == [f EXCEPT !.provide = "absent"]
    <2>1. h.provide = "absent" /\ h.name = "backtrace"
      BY <1>3, <1>6 DEF Field
    <2> HIDE DEF h
    <2>2. ~IsProvided(f) /\ IsProvided(h)
      BY <1>6, <2>1 DEF IsProvided
    <2> QED BY <2>2 DEF Meaning, h
  <1> QED BY <1>4, <1>5, <1>6

(* In an accepted container no opt-out is "redundant but misleading".       *)
THEOREM OptOutsCount == Spec => []OptOutsMatter
  <1>1. ASSUME IInv, stage = "expanded", NEW i \in Declared
        PROVE  fields[i] \in Field /\ FieldErrors(fields[i]) = {}
    <2>1. fields \in Seq(Field) /\ FieldErrors(fields[i]) = {}
      BY <1>1, ExpandedPasses DEF TypeOK
    <2> QED BY <2>1 DEF Declared
  <1>2. ASSUME IInv PROVE OptOutsMatter
    <2> SUFFICES ASSUME stage = "expanded", NEW i \in Declared, NEW f, f = fields[i]
                 PROVE  /\ f.backtrace = "off" =>
                             Meaning(f) # Meaning([f EXCEPT !.backtrace = "absent"])
                        /\ f.source = "off" =>
                             Meaning(f) # Meaning([f EXCEPT !.source = "absent"])
                        /\ f.provide = "off" =>
                             Meaning(f) # Meaning([f EXCEPT !.provide = "absent"])
      BY ZenonT(30) DEF OptOutsMatter
    <2>1. f \in Field /\ FieldErrors(f) = {}
      BY <1>1, <1>2
    <2> QED BY <2>1, OptOutMeans
  <1> QED BY <1>2, Inductive, PTL
=============================================================================
