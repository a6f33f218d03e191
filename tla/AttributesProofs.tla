-------------------------- MODULE AttributesProofs --------------------------
(***************************************************************************)
(* The safety properties of Attributes, for any number of attributes of    *)
(* any kind in any place.                                                  *)
(***************************************************************************)
EXTENDS Attributes, SequenceTheorems, TLAPS

LEMMA GivenType ==
  ASSUME TypeOK
  PROVE  /\ Len(attrs) \in Nat /\ Len(attrs) <= MaxAttributes
         /\ Given \subseteq Position /\ MaxAttributes \in Nat
         /\ \A i \in Given : attrs[i] \in Attribute
<1>1. Len(attrs) \in Nat /\ MaxAttributes \in Nat
  BY LenProperties, MaxAttributesAssumption DEF TypeOK
<1>2. \A i \in Given : attrs[i] \in Attribute
  BY ElementOfSeq, LenProperties DEF TypeOK, Given
<1>3. QED BY <1>1, <1>2 DEF TypeOK, Given, Position

(* What is taken is an attribute of the item, and one of those that are     *)
(* handled in this way.                                                     *)
LEMMA Taken ==
  ASSUME TypeOK, NEW kinds, Take(kinds)
  PROVE  /\ next \in Given /\ next \in Position /\ attrs[next].kind \in kinds
         /\ next' \in 1 .. Len(attrs') + 1 /\ next' = next + 1
         /\ UNCHANGED <<location, attrs, stage, kept, selector>>
BY GivenType DEF Take, TypeOK, Given, Position, item

LEMMA PushType ==
  ASSUME NEW a \in [one : 0 .. MaxAttributes, more : SUBSET Position], NEW i \in Position
  PROVE  Push(a, i) \in [one : 0 .. MaxAttributes, more : SUBSET Position]
<1>1. i \in 0 .. MaxAttributes
  BY MaxAttributesAssumption DEF Position
<1>2. CASE a.one = 0
  BY <1>1, <1>2 DEF Push
<1>3. CASE a.one # 0
  BY <1>3 DEF Push
<1>4. QED BY <1>2, <1>3

LEMMA PushDocType ==
  ASSUME NEW d \in [lines : Seq(Position), ended : BOOLEAN], NEW i \in Position
  PROVE  PushDoc(d, i) \in [lines : Seq(Position), ended : BOOLEAN]
<1>1. Append(d.lines, i) \in Seq(Position)
  OBVIOUS
<1>2. QED BY <1>1 DEF PushDoc

LEMMA AtType ==
  ASSUME NEW S \in SUBSET Position, NEW text \in Texts
  PROVE  At(S, text) \in SUBSET [at : Position, text : Texts]
BY DEF At

LEMMA WhereType ==
  ASSUME TypeOK, NEW K \in SUBSET Kinds, \A k \in K : Has(k)
  PROVE  Where(K) \in SUBSET Position
<1>1. \A k \in K : kept[k] \in 0 .. MaxAttributes /\ kept[k] # 0
  BY DEF TypeOK, Has
<1>2. \A k \in K : kept[k] \in Position
  BY <1>1, MaxAttributesAssumption DEF Position
<1>3. QED BY <1>2 DEF Where

LEMMA KindsOfPlaces ==
  /\ AtMostOnce(location) \subseteq Kinds
  /\ {"Implicit", "SourceFlag", "SourceFrom", "Transparent", "Display"} \subseteq Kinds
BY DEF AtMostOnce, Kinds, Flags, Values

LEMMA InitType == Init => TypeOK
<1> SUFFICES ASSUME Init PROVE TypeOK
  OBVIOUS
<1>1. /\ location \in Location /\ attrs \in Seq(Attribute) /\ Len(attrs) <= MaxAttributes
  BY ItemsAssumption DEF Init
<1>2. 1 \in 1 .. Len(attrs) + 1
  BY <1>1, LenProperties
<1>3. Empty \in [one : 0 .. MaxAttributes, more : SUBSET Position]
  BY MaxAttributesAssumption DEF Empty
<1>4. NoDocs \in [lines : Seq(Position), ended : BOOLEAN]
  BY DEF NoDocs
<1>5. kept \in [Kinds -> 0 .. MaxAttributes] /\ errors \subseteq [at : Position, text : Texts]
  BY MaxAttributesAssumption DEF Init
<1>6. QED BY <1>1, <1>2, <1>3, <1>4, <1>5 DEF Init, TypeOK, Selectors

LEMMA NextType == ASSUME TypeOK, [Next]_vars PROVE TypeOK'
<1> USE DEF TypeOK
<1>1. CASE TakeMalformed
  <2>1. At({next}, "syntax") \in SUBSET [at : Position, text : Texts]
    BY <1>1, Taken, AtType DEF TakeMalformed, Texts
  <2>2. QED BY <1>1, <2>1, Taken DEF TakeMalformed
<1>2. CASE TakeMisplaced
  <2>1. At({next}, "only valid on") \in SUBSET [at : Position, text : Texts]
    BY <1>2, Taken, AtType DEF TakeMisplaced, Texts
  <2>2. QED BY <1>2, <2>1, Taken DEF TakeMisplaced
<1>3. CASE TakeOnce
  <2>1. attrs[next].kind \in Kinds /\ next \in Position
    BY <1>3, Taken, KindsOfPlaces DEF TakeOnce
  <2>2. once' \in [Kinds -> [one : 0 .. MaxAttributes, more : SUBSET Position]]
    BY <1>3, <2>1, PushType DEF TakeOnce
  <2>3. QED BY <1>3, <2>2, Taken DEF TakeOnce
<1>4. CASE TakeProvide
  BY <1>4, Taken DEF TakeProvide
<1>5. CASE TakeDocComment
  <2>1. docs' \in [lines : Seq(Position), ended : BOOLEAN]
    BY <1>5, Taken, PushDocType DEF TakeDocComment
  <2>2. QED BY <1>5, <2>1, Taken DEF TakeDocComment
<1>6. CASE FinishOnce
  <2>1. UNION {once[k].more : k \in Kinds} \in SUBSET Position
    OBVIOUS
  <2>2. At(UNION {once[k].more : k \in Kinds}, "multiple") \in SUBSET [at : Position, text : Texts]
    BY <2>1, AtType DEF Texts
  <2>3. \A k \in Kinds : FinishDefault(once[k]) \in 0 .. MaxAttributes
    BY MaxAttributesAssumption DEF FinishDefault
  <2>4. kept' \in [Kinds -> 0 .. MaxAttributes]
    BY <1>6, <2>3 DEF FinishOnce
  <2>5. QED BY <1>6, <2>2, <2>4 DEF FinishOnce, item
<1>7. CASE CheckContainer
  <2>1. /\ Where({k \in {"Transparent"} : IsDisabled(k)}) \in SUBSET Position
        /\ Where({k \in {"Transparent", "Display"} :
                    IsEnabled("Transparent") /\ Has("Display")}) \in SUBSET Position
        /\ Where(Conflicting) \in SUBSET Position
    BY WhereType, KindsOfPlaces DEF IsDisabled, IsEnabled, Conflicting, Deciding, Kinds, Flags, Values
  <2>2. errors' \in SUBSET [at : Position, text : Texts]
    BY <1>7, <2>1, AtType DEF CheckContainer, Texts
  <2>3. selector' \in Selectors
    BY <1>7 DEF CheckContainer, SelectorKind, Selectors
  <2>4. QED BY <1>7, <2>2, <2>3 DEF CheckContainer, item
<1>8. CASE CheckField
  <2>1. /\ Where({k \in {"Implicit"} : IsDisabled(k)}) \in SUBSET Position
        /\ Where({k \in {"SourceFlag", "SourceFrom"} :
                    IsDisabled("SourceFlag") /\ Has("SourceFrom")}) \in SUBSET Position
    BY WhereType, KindsOfPlaces DEF IsDisabled
  <2>2. errors' \in SUBSET [at : Position, text : Texts]
    BY <1>8, <2>1, AtType DEF CheckField, Texts
  <2>3. QED BY <1>8, <2>2 DEF CheckField, item
<1>9. CASE CheckNothing
  BY <1>9 DEF CheckNothing, item
<1>10. CASE Finish
  BY <1>10 DEF Finish, item
<1>11. CASE UNCHANGED vars
  BY <1>11 DEF vars, item
<1>12. QED BY <1>1, <1>2, <1>3, <1>4, <1>5, <1>6, <1>7, <1>8, <1>9, <1>10, <1>11 DEF Next

(* The variables of Attributes keep their types, for any attributes in any  *)
(* place.                                                                   *)
THEOREM TypeCorrect == Spec => []TypeOK
BY InitType, NextType, PTL DEF Spec

-----------------------------------------------------------------------------
(* What has been kept, collected and refused, said of the attributes seen.  *)

Seen == 1 .. (next - 1)
SeenOf(k) == {i \in Seen : attrs[i].kind = k}
Countable(k) == IF k \in AtMostOnce(location) THEN SeenOf(k) ELSE {}

(* An AtMostOne holds the first of the attributes of its kind and, apart    *)
(* from it, the others.                                                     *)
Holds(a, S) ==
  /\ S = {} => a = Empty
  /\ S # {} => a.one \in S /\ a.more = S \ {a.one} /\ \A i \in S : a.one <= i

Collected == \A k \in Kinds : Holds(once[k], Countable(k))

Provided == provides = {i \in Seen : attrs[i].kind \in Repeatable(location)}

Summary == {i \in SeenOf("DocComment") :
              \A j \in SeenOf("DocComment") : j <= i => attrs[j].value # "blank"}
Lines(d) == {d.lines[n] : n \in DOMAIN d.lines}
Documented ==
  IsContainer => /\ Lines(docs) = Summary
                 /\ docs.ended <=> \E i \in SeenOf("DocComment") : attrs[i].value = "blank"

Strayed == {i \in Seen : attrs[i].kind \in Misplaced(location)}
Early == At(SeenOf("malformed"), "syntax") \union At(Strayed, "only valid on")
Surplus == UNION {once[k].more : k \in Kinds}

(* What the checks find, by the place of the item.                          *)
Found ==
  IF IsContainer
  THEN At(Where({k \in {"Transparent"} : IsDisabled(k)}), "transparent(false) has no effect")
         \union At(Where({k \in {"Transparent", "Display"} :
                            IsEnabled("Transparent") /\ Has("Display")}),
                   "transparent and display")
         \union At(Where(Conflicting), "may not be provided together")
  ELSE IF location = "OnField"
  THEN At(Where({k \in {"Implicit"} : IsDisabled(k)}), "implicit(false) has no effect")
         \union At(Where({k \in {"SourceFlag", "SourceFrom"} :
                            IsDisabled("SourceFlag") /\ Has("SourceFrom")}),
                   "source(false) and source(from)")
  ELSE {}

Diagnosed ==
  /\ stage = "attributes" => errors = Early
  /\ stage # "attributes" => /\ next = Len(attrs) + 1
                             /\ \A k \in Kinds : kept[k] = FinishDefault(once[k])
  /\ stage = "checks" => errors = Early \union At(Surplus, "multiple")
  /\ stage \in {"finish", "accepted", "rejected"} =>
       /\ errors = Early \union At(Surplus, "multiple") \union Found
       /\ IsContainer => selector = SelectorKind
  /\ stage = "accepted" => errors = {}
  /\ stage = "rejected" => errors # {}

IInv == TypeOK /\ Collected /\ Provided /\ Documented /\ Diagnosed

-----------------------------------------------------------------------------
LEMMA SeenNext ==
  ASSUME TypeOK, NEW kinds, Take(kinds)
  PROVE  /\ Seen' = Seen \union {next} /\ next \notin Seen
         /\ \A i \in Seen : i <= next /\ i # next
         /\ \A k : SeenOf(k)' = IF k = attrs[next].kind THEN SeenOf(k) \union {next} ELSE SeenOf(k)
<1>1. next \in Nat \ {0} /\ next' = next + 1 /\ attrs' = attrs
  BY Taken DEF Position
<1>2. Seen' = Seen \union {next} /\ next \notin Seen /\ \A i \in Seen : i <= next /\ i # next
  BY <1>1 DEF Seen
<1>3. QED BY <1>1, <1>2 DEF SeenOf

(* What a step takes is of one kind, which no other handler collects.       *)
LEMMA SetsApart ==
  /\ "malformed" \notin Kinds /\ "DocComment" \notin Kinds
  /\ AtMostOnce(location) \subseteq Kinds /\ Repeatable(location) \subseteq Kinds
  /\ Misplaced(location) \subseteq Kinds
  /\ AtMostOnce(location) \intersect Repeatable(location) = {}
  /\ Kinds = AtMostOnce(location) \union Repeatable(location) \union Misplaced(location)
  /\ \A k \in Misplaced(location) : k \notin AtMostOnce(location) \union Repeatable(location)
BY DEF AtMostOnce, Repeatable, Misplaced, Kinds, Flags, Values

LEMMA PushHolds ==
  ASSUME NEW a \in [one : 0 .. MaxAttributes, more : SUBSET Position], NEW S \in SUBSET Position,
         NEW n \in Position, n \notin S, \A i \in S : i <= n, Holds(a, S)
  PROVE  Holds(Push(a, n), S \union {n})
<1>1. 0 \notin S /\ n # 0 /\ n \in Nat
  BY DEF Position
<1>2. CASE S = {}
  <2>1. a = Empty
    BY <1>2 DEF Holds
  <2>2. Push(a, n).one = n /\ Push(a, n).more = {}
    BY <2>1 DEF Push, Empty
  <2>3. QED BY <1>1, <1>2, <2>2 DEF Holds
<1>3. CASE S # {}
  <2>1. a.one \in S /\ a.one # 0 /\ a.more = S \ {a.one} /\ \A i \in S : a.one <= i
    BY <1>1, <1>3 DEF Holds
  <2>2. Push(a, n).one = a.one /\ Push(a, n).more = a.more \union {n}
    BY <2>1 DEF Push
  <2>3. a.one <= n
    BY <2>1
  <2>4. QED BY <2>1, <2>2, <2>3 DEF Holds
<1>4. QED BY <1>2, <1>3

LEMMA AtUnion ==
  ASSUME NEW S, NEW T, NEW text
  PROVE  At(S \union T, text) = At(S, text) \union At(T, text)
BY DEF At

LEMMA InitIInv == Init => IInv
<1> SUFFICES ASSUME Init PROVE IInv
  OBVIOUS
<1>1. Seen = {} /\ \A k : SeenOf(k) = {}
  BY DEF Init, Seen, SeenOf
<1>2. Collected
  BY <1>1 DEF Init, Collected, Holds, Countable
<1>3. Provided
  BY <1>1 DEF Init, Provided
<1>4. Documented
  BY <1>1 DEF Init, Documented, Summary, Lines, NoDocs
<1>5. Diagnosed
  <2>1. Strayed = {}
    BY <1>1 DEF Strayed
  <2>2. At({}, "syntax") = {} /\ At({}, "only valid on") = {}
    BY DEF At
  <2>3. QED BY <1>1, <2>1, <2>2 DEF Init, Diagnosed, Early
<1>6. QED BY <1>2, <1>3, <1>4, <1>5, InitType DEF IInv

(* The steps that take an attribute, for the parts they do not write.       *)
LEMMA OthersCollected ==
  ASSUME TypeOK, Collected, NEW kinds, Take(kinds), UNCHANGED once,
         attrs[next].kind \notin AtMostOnce(location)
  PROVE  Collected'
<1>1. \A k \in Kinds : Countable(k)' = Countable(k)
  BY SeenNext, Taken DEF Countable
<1>2. QED BY <1>1 DEF Collected, Holds

LEMMA OthersProvided ==
  ASSUME TypeOK, Provided, NEW kinds, Take(kinds), UNCHANGED provides,
         attrs[next].kind \notin Repeatable(location)
  PROVE  Provided'
BY SeenNext, Taken DEF Provided

LEMMA OthersDocumented ==
  ASSUME TypeOK, Documented, NEW kinds, Take(kinds), UNCHANGED docs,
         attrs[next].kind # "DocComment" \/ ~IsContainer
  PROVE  Documented'
<1>1. UNCHANGED <<location, attrs>>
  BY Taken
<1>2. CASE ~IsContainer
  BY <1>1, <1>2 DEF Documented, IsContainer
<1>3. CASE attrs[next].kind # "DocComment"
  <2>1. SeenOf("DocComment")' = SeenOf("DocComment")
    BY <1>3, SeenNext
  <2>2. QED BY <1>1, <2>1, ZenonT(30) DEF Documented, IsContainer, Summary, Lines
<1>4. QED BY <1>2, <1>3

LEMMA OthersDiagnosed ==
  ASSUME TypeOK, Diagnosed, NEW kinds, Take(kinds), UNCHANGED errors,
         attrs[next].kind \notin {"malformed"} \union Misplaced(location)
  PROVE  Diagnosed'
<1>1. stage = "attributes" /\ stage' = stage
  BY DEF Take
<1>2. Early' = Early
  <2>1. SeenOf("malformed")' = SeenOf("malformed") /\ Strayed' = Strayed
    BY SeenNext, Taken DEF Strayed
  <2>2. QED BY <2>1 DEF Early
<1>3. QED BY <1>1, <1>2 DEF Diagnosed

LEMMA PushDocHolds ==
  ASSUME TypeOK, Documented, TakeDocComment
  PROVE  Documented'
<1>1. /\ next \in Position /\ attrs[next].kind = "DocComment" /\ UNCHANGED <<location, attrs>>
      /\ SeenOf("DocComment")' = SeenOf("DocComment") \union {next}
      /\ \A i \in SeenOf("DocComment") : i <= next /\ i # next
  BY Taken, SeenNext DEF TakeDocComment, SeenOf
<1>2. CASE ~IsContainer
  BY <1>1, <1>2, OthersDocumented DEF TakeDocComment
<1>3. CASE IsContainer
  <2>1. docs' = PushDoc(docs, next)
    BY <1>3 DEF TakeDocComment
  <2>2. /\ Lines(docs) = Summary
        /\ docs.ended <=> \E i \in SeenOf("DocComment") : attrs[i].value = "blank"
    BY <1>3 DEF Documented
  <2>3. docs \in [lines : Seq(Position), ended : BOOLEAN]
    BY DEF TypeOK
  <2>4. \A i \in SeenOf("DocComment") \union {next} : i \in Nat
    BY <1>1 DEF SeenOf, Seen, Position
  <2>5. CASE docs.ended
    <3>1. docs' = docs
      BY <2>1, <2>5 DEF PushDoc
    <3>2. Summary' = Summary
      BY <1>1, <2>2, <2>4, <2>5 DEF Summary
    <3>3. QED BY <1>1, <2>2, <2>5, <3>1, <3>2 DEF Documented
  <2>6. CASE ~docs.ended /\ attrs[next].value = "blank"
    <3>1. docs'.lines = docs.lines /\ docs'.ended
      BY <2>1, <2>3, <2>6 DEF PushDoc
    <3>2. Summary' = Summary
      BY <1>1, <2>2, <2>4, <2>6 DEF Summary
    <3>3. Lines(docs') = Lines(docs)
      BY <3>1 DEF Lines
    <3>4. QED BY <1>1, <2>2, <2>6, <3>1, <3>2, <3>3 DEF Documented
  <2>7. CASE ~docs.ended /\ attrs[next].value # "blank"
    <3>1. docs'.lines = Append(docs.lines, next) /\ ~docs'.ended
      BY <2>1, <2>3, <2>7 DEF PushDoc
    <3>2. Summary' = Summary \union {next}
      BY <1>1, <2>2, <2>4, <2>7 DEF Summary
    <3>3. Lines(docs') = Lines(docs) \union {next}
      BY <1>1, <2>3, <3>1, AppendProperties, LenProperties DEF Lines
    <3>4. QED BY <1>1, <2>2, <2>7, <3>1, <3>2, <3>3 DEF Documented
  <2>8. QED BY <2>5, <2>6, <2>7
<1>4. QED BY <1>2, <1>3

(* The steps after the attributes have been looked at.                      *)
LEMMA LaterIInv ==
  ASSUME IInv, FinishOnce \/ CheckContainer \/ CheckField \/ CheckNothing \/ Finish
  PROVE  Collected' /\ Provided' /\ Documented' /\ UNCHANGED <<Early, Surplus>>
<1>1. UNCHANGED <<item, next, once, provides, docs>>
  BY DEF FinishOnce, CheckContainer, CheckField, CheckNothing, Finish
<1>2. UNCHANGED <<location, attrs, Early, Surplus>> /\ \A k : SeenOf(k)' = SeenOf(k) /\ Countable(k)' = Countable(k)
  BY <1>1 DEF item, Early, Strayed, Surplus, SeenOf, Seen, Countable
<1>3. Collected'
  BY <1>1, <1>2 DEF IInv, Collected, Holds
<1>4. Provided'
  BY <1>1, <1>2 DEF IInv, Provided, Seen
<1>5. Documented'
  <2>1. Summary' = Summary
    BY <1>1, <1>2 DEF Summary
  <2>2. Lines(docs)' = Lines(docs) /\ IsContainer' = IsContainer
    BY <1>1, <1>2 DEF Lines, IsContainer
  <2>3. QED BY <1>1, <1>2, <2>1, <2>2 DEF IInv, Documented
<1>6. QED BY <1>2, <1>3, <1>4, <1>5

LEMMA ChecksDiagnosed ==
  ASSUME IInv, CheckContainer \/ CheckField \/ CheckNothing
  PROVE  Diagnosed'
<1>1. /\ stage = "checks" /\ stage' = "finish" /\ UNCHANGED <<location, attrs, next, once, kept>>
      /\ errors = Early \union At(Surplus, "multiple")
      /\ next = Len(attrs) + 1 /\ \A k \in Kinds : kept[k] = FinishDefault(once[k])
  BY DEF CheckContainer, CheckField, CheckNothing, item, IInv, Diagnosed
<1>2. Early' = Early /\ Surplus' = Surplus
  BY LaterIInv
<1>3. UNCHANGED <<Found, SelectorKind, IsContainer>>
  BY <1>1 DEF Found, SelectorKind, IsContainer, Where, Conflicting, Deciding, IsDisabled,
              IsEnabled, Has
<1>4. errors' = errors \union Found
  BY DEF CheckContainer, CheckField, CheckNothing, Found, IsContainer
<1>5. IsContainer => selector' = SelectorKind
  BY DEF CheckContainer, CheckField, CheckNothing, IsContainer
<1>6. QED BY <1>1, <1>2, <1>3, <1>4, <1>5 DEF Diagnosed

LEMMA NextIInv == ASSUME IInv, [Next]_vars PROVE IInv'
<1> USE DEF IInv
<1>1. TypeOK'
  BY NextType
<1>2. CASE TakeMalformed
  <2>1. Take({"malformed"}) /\ UNCHANGED <<once, provides, docs>>
    BY <1>2 DEF TakeMalformed
  <2>2. attrs[next].kind = "malformed"
    BY <2>1, Taken
  <2>3. Collected' /\ Provided' /\ Documented'
    BY <2>1, <2>2, SetsApart, OthersCollected, OthersProvided, OthersDocumented
  <2>4. Early' = Early \union At({next}, "syntax")
    <3>1. SeenOf("malformed")' = SeenOf("malformed") \union {next}
      BY <2>1, <2>2, SeenNext
    <3>2. Strayed' = Strayed
      BY <2>1, <2>2, SeenNext, SetsApart, Taken DEF Strayed
    <3>3. At(SeenOf("malformed") \union {next}, "syntax")
            = At(SeenOf("malformed"), "syntax") \union At({next}, "syntax")
      BY AtUnion
    <3>4. QED BY <3>1, <3>2, <3>3 DEF Early
  <2>5. stage = "attributes" /\ stage' = stage /\ errors' = errors \union At({next}, "syntax")
    BY <1>2 DEF TakeMalformed, Take
  <2>6. Diagnosed'
    BY <2>4, <2>5 DEF Diagnosed
  <2>7. QED BY <1>1, <2>3, <2>6
<1>3. CASE TakeMisplaced
  <2>1. Take(Misplaced(location)) /\ UNCHANGED <<once, provides, docs>>
    BY <1>3 DEF TakeMisplaced
  <2>2. attrs[next].kind \in Misplaced(location) /\ attrs[next].kind \in Kinds
    BY <2>1, Taken, SetsApart
  <2>3. attrs[next].kind \notin AtMostOnce(location) /\ attrs[next].kind \notin Repeatable(location)
    BY <2>2 DEF Misplaced
  <2>4. Collected' /\ Provided' /\ Documented'
    BY <2>1, <2>2, <2>3, SetsApart, OthersCollected, OthersProvided, OthersDocumented
  <2>5. Early' = Early \union At({next}, "only valid on")
    <3>1. Strayed' = Strayed \union {next}
      <4>1. UNCHANGED <<location, attrs>> /\ Seen' = Seen \union {next}
        BY <2>1, SeenNext, Taken
      <4>2. Misplaced(location)' = Misplaced(location)
        BY <4>1
      <4>3. QED BY <2>2, <4>1, <4>2 DEF Strayed
    <3>2. SeenOf("malformed")' = SeenOf("malformed")
      BY <2>1, <2>2, SeenNext, SetsApart
    <3>3. At(Strayed \union {next}, "only valid on")
            = At(Strayed, "only valid on") \union At({next}, "only valid on")
      BY DEF At
    <3>4. QED BY <3>1, <3>2, <3>3 DEF Early
  <2>6. stage = "attributes" /\ stage' = stage /\ errors' = errors \union At({next}, "only valid on")
    BY <1>3 DEF TakeMisplaced, Take
  <2>7. Diagnosed'
    BY <2>5, <2>6 DEF Diagnosed
  <2>8. QED BY <1>1, <2>4, <2>7
<1>4. CASE TakeOnce
  <2>1. Take(AtMostOnce(location)) /\ UNCHANGED <<provides, docs, errors>>
    BY <1>4 DEF TakeOnce
  <2> DEFINE kind == attrs[next].kind
  <2>2. kind \in AtMostOnce(location) /\ kind \in Kinds /\ next \in Position
    BY <2>1, Taken, SetsApart
  <2>3. kind \notin Misplaced(location) /\ kind \notin Repeatable(location)
    BY <2>2, SetsApart DEF Misplaced
  <2>4. Provided' /\ Documented' /\ Diagnosed'
    BY <2>1, <2>2, <2>3, SetsApart, OthersProvided, OthersDocumented, OthersDiagnosed
  <2>5. Collected'
    <3> SUFFICES ASSUME NEW k \in Kinds PROVE Holds(once'[k], Countable(k)')
      BY DEF Collected, Holds
    <3>1. once[k] \in [one : 0 .. MaxAttributes, more : SUBSET Position] /\ Holds(once[k], Countable(k))
      BY DEF TypeOK, Collected
    <3>2. CASE k = kind
      <4>1. once'[k] = Push(once[k], next)
        BY <1>4, <2>2, <3>2 DEF TakeOnce, TypeOK
      <4>2. Countable(k)' = Countable(k) \union {next} /\ Countable(k) = SeenOf(k)
        BY <2>1, <2>2, <3>2, SeenNext, Taken DEF Countable
      <4>3. /\ Countable(k) \in SUBSET Position /\ next \notin Countable(k)
            /\ \A i \in Countable(k) : i <= next
        BY <2>1, <2>2, <4>2, SeenNext, GivenType DEF SeenOf, Seen, Take, Position
      <4>4. QED BY <2>2, <3>1, <4>1, <4>2, <4>3, PushHolds
    <3>3. CASE k # kind
      <4>1. once'[k] = once[k]
        BY <1>4, <3>3 DEF TakeOnce, TypeOK
      <4>2. Countable(k)' = Countable(k)
        BY <2>1, <3>3, SeenNext, Taken DEF Countable
      <4>3. QED BY <3>1, <4>1, <4>2
    <3>4. QED BY <3>2, <3>3
  <2>6. QED BY <1>1, <2>4, <2>5
<1>5. CASE TakeProvide
  <2>1. Take(Repeatable(location)) /\ UNCHANGED <<once, docs, errors>>
    BY <1>5 DEF TakeProvide
  <2>2. attrs[next].kind \in Repeatable(location)
    BY <2>1, Taken
  <2>3. attrs[next].kind \notin Misplaced(location) /\ attrs[next].kind \notin AtMostOnce(location)
    BY <2>2, SetsApart DEF Misplaced
  <2>4. Collected' /\ Documented' /\ Diagnosed'
    BY <2>1, <2>2, <2>3, SetsApart, OthersCollected, OthersDocumented, OthersDiagnosed
  <2>5. Provided'
    BY <1>5, <2>1, <2>2, SeenNext, Taken DEF TakeProvide, Provided
  <2>6. QED BY <1>1, <2>4, <2>5
<1>6. CASE TakeDocComment
  <2>1. Take({"DocComment"}) /\ UNCHANGED <<once, provides, errors>>
    BY <1>6 DEF TakeDocComment
  <2>2. attrs[next].kind = "DocComment"
    BY <2>1, Taken
  <2>3. Collected' /\ Provided' /\ Diagnosed'
    BY <2>1, <2>2, SetsApart, OthersCollected, OthersProvided, OthersDiagnosed
  <2>4. QED BY <1>1, <1>6, <2>3, PushDocHolds
<1>7. CASE FinishOnce
  <2>1. Collected' /\ Provided' /\ Documented' /\ UNCHANGED <<Early, Surplus>>
    BY <1>7, LaterIInv
  <2>2. Diagnosed'
    <3>1. /\ stage = "attributes" /\ stage' = "checks" /\ next' = Len(attrs') + 1
          /\ errors' = errors \union At(Surplus, "multiple")
      BY <1>7, GivenType DEF FinishOnce, item, TypeOK, Surplus
    <3>2. \A k \in Kinds : kept'[k] = FinishDefault(once'[k])
      BY <1>7 DEF FinishOnce
    <3>3. QED BY <2>1, <3>1, <3>2 DEF Diagnosed
  <2>3. QED BY <1>1, <2>1, <2>2
<1>8. CASE CheckContainer \/ CheckField \/ CheckNothing
  BY <1>1, <1>8, LaterIInv, ChecksDiagnosed
<1>9. CASE Finish
  <2>1. Collected' /\ Provided' /\ Documented' /\ UNCHANGED <<Early, Surplus>>
    BY <1>9, LaterIInv
  <2>2. UNCHANGED <<Found, SelectorKind, IsContainer>>
    BY <1>9 DEF Finish, item, Found, SelectorKind, IsContainer, Where, Conflicting, Deciding,
                IsDisabled, IsEnabled, Has
  <2>3. Diagnosed'
    BY <1>9, <2>1, <2>2 DEF Finish, item, Diagnosed
  <2>4. QED BY <1>1, <2>1, <2>3
<1>10. CASE UNCHANGED vars
  <2> USE <1>10 DEF vars, item
  <2>1. Collected' /\ Provided'
    <3>1. \A k : SeenOf(k)' = SeenOf(k) /\ Countable(k)' = Countable(k)
      BY DEF SeenOf, Seen, Countable
    <3>2. Collected'
      BY <3>1 DEF Collected, Holds
    <3>3. Provided'
      BY DEF Provided, Seen
    <3>4. QED BY <3>2, <3>3
  <2>2. Documented'
    BY DEF Documented, Summary, Lines, IsContainer, SeenOf, Seen
  <2>3. UNCHANGED <<Early, Surplus>>
    BY DEF Early, Strayed, Surplus, SeenOf, Seen
  <2>4. UNCHANGED <<Found, SelectorKind, IsContainer>>
    BY DEF Found, SelectorKind, IsContainer, Where, Conflicting, Deciding, IsDisabled, IsEnabled, Has
  <2>5. Diagnosed'
    BY <2>3, <2>4 DEF Diagnosed
  <2>6. QED BY <1>1, <2>1, <2>2, <2>5
<1>11. QED BY <1>2, <1>3, <1>4, <1>5, <1>6, <1>7, <1>8, <1>9, <1>10 DEF Next

LEMMA Inductive == Spec => []IInv
BY InitIInv, NextIInv, PTL DEF Spec

LEMMA AtText ==
  ASSUME NEW S, NEW text, NEW e, e.text # text PROVE e \notin At(S, text)
BY DEF At

(* An attribute is never refused with a message that says it is valid where *)
(* it is: for any number of attributes.                                     *)
THEOREM MessagesAreRight == Spec => []MessagesHold
<1>1. ASSUME IInv PROVE MessagesHold
  <2>1. SUFFICES ASSUME NEW e \in errors, e.text = "only valid on"
                 PROVE  location \notin ValidOn(attrs[e.at].kind)
    BY DEF MessagesHold
  <2>2. e \in At(Strayed, "only valid on")
    <3>1. errors \subseteq Early \union At(Surplus, "multiple") \union Found
      BY <1>1 DEF IInv, TypeOK, Diagnosed
    <3>2. e \notin At(SeenOf("malformed"), "syntax") /\ e \notin At(Surplus, "multiple")
      <4>1. e.text # "syntax" /\ e.text # "multiple"
        BY <2>1
      <4>2. QED BY <4>1, AtText
    <3>3. e \notin Found
      <4>1. /\ e.text # "transparent(false) has no effect" /\ e.text # "transparent and display"
            /\ e.text # "may not be provided together" /\ e.text # "implicit(false) has no effect"
            /\ e.text # "source(false) and source(from)"
        BY <2>1
      <4>2. \A S : /\ e \notin At(S, "transparent(false) has no effect")
                   /\ e \notin At(S, "transparent and display")
                   /\ e \notin At(S, "may not be provided together")
                   /\ e \notin At(S, "implicit(false) has no effect")
                   /\ e \notin At(S, "source(false) and source(from)")
        BY <4>1, AtText
      <4>3. QED BY <4>2 DEF Found
    <3>4. QED BY <3>1, <3>2, <3>3 DEF Early
  <2>3. attrs[e.at].kind \in Misplaced(location)
    <3>1. PICK i \in Strayed : e = [at |-> i, text |-> "only valid on"]
      BY <2>2 DEF At
    <3>2. QED BY <3>1 DEF Strayed
  <2>4. \A k \in Misplaced(location) : location \notin ValidOn(k)
    BY <1>1, ZenonT(30)
       DEF IInv, TypeOK, Location, Misplaced, AtMostOnce, Repeatable, ValidOn, Kinds, Flags, Values
  <2>5. QED BY <2>3, <2>4
<1>2. QED BY Inductive, <1>1, PTL

-----------------------------------------------------------------------------
(* What has been kept, once all the attributes have been looked at.         *)

LEMMA AllSeen ==
  ASSUME IInv, stage # "attributes"
  PROVE  Seen = Given /\ \A k : SeenOf(k) = OfKind(k)
<1>1. next - 1 = Len(attrs)
  BY GivenType DEF IInv, Diagnosed
<1>2. QED BY <1>1 DEF Seen, SeenOf, Given, OfKind

LEMMA KeptIs ==
  ASSUME IInv, stage # "attributes", NEW k \in Kinds
  PROVE  IF k \in AtMostOnce(location)
         THEN /\ once[k].more = Repeats(k)
              /\ Single(k) = IF Has(k) THEN {kept[k]} ELSE {}
              /\ Has(k) => OfKind(k) = {kept[k]}
         ELSE ~Has(k) /\ once[k].more = {}
<1>1. Holds(once[k], Countable(k)) /\ kept[k] = FinishDefault(once[k])
  BY DEF IInv, Collected, Diagnosed
<1>2. CASE k \notin AtMostOnce(location)
  BY <1>1, <1>2 DEF Countable, Holds, Empty, FinishDefault, Has
<1>3. CASE k \in AtMostOnce(location)
  <2>1. Countable(k) = OfKind(k) /\ \A i \in OfKind(k) : i \in Nat \ {0}
    BY <1>3, AllSeen, GivenType DEF Countable, OfKind, Given, IInv
  <2>2. CASE OfKind(k) = {}
    <3>1. once[k].more = {} /\ kept[k] = 0
      BY <1>1, <2>1, <2>2 DEF Holds, Empty, FinishDefault
    <3>2. QED BY <1>3, <2>2, <3>1 DEF Has, Repeats, Single
  <2>3. CASE OfKind(k) # {}
    <3>1. /\ once[k].one \in OfKind(k) /\ once[k].more = OfKind(k) \ {once[k].one}
          /\ \A i \in OfKind(k) : once[k].one <= i
      BY <1>1, <2>1, <2>3 DEF Holds
    <3>2. once[k].more = Repeats(k)
      BY <2>1, <3>1 DEF Repeats
    <3>3. CASE once[k].more = {}
      <4>1. kept[k] = once[k].one /\ OfKind(k) = {once[k].one}
        BY <1>1, <3>1, <3>3 DEF FinishDefault
      <4>2. QED BY <1>3, <2>1, <3>1, <3>2, <3>3, <4>1 DEF Has, Single
    <3>4. CASE once[k].more # {}
      BY <1>1, <1>3, <3>2, <3>4 DEF FinishDefault, Has, Single
    <3>5. QED BY <3>3, <3>4
  <2>4. QED BY <2>2, <2>3
<1>4. QED BY <1>2, <1>3

LEMMA SurplusIs ==
  ASSUME IInv, stage # "attributes"
  PROVE  Surplus = UNION {Repeats(k) : k \in AtMostOnce(location)}
BY KeptIs, SetsApart DEF Surplus

(* A flag that has been kept is on or off.                                  *)
LEMMA FlagIs ==
  ASSUME IInv, stage # "attributes", NEW k \in Flags \intersect AtMostOnce(location)
  PROVE  /\ IsEnabled(k) <=> Has(k) /\ kept[k] \in On(k)
         /\ IsDisabled(k) <=> Has(k) /\ kept[k] \in Off(k)
         /\ OfKind(k) = On(k) \union Off(k) /\ On(k) \intersect Off(k) = {}
<1>1. k \in Kinds
  BY DEF Kinds
<1>2. Has(k) => OfKind(k) = {kept[k]}
  BY <1>1, KeptIs
<1>3. \A i \in OfKind(k) : attrs[i].value \in {"true", "false"}
  BY GivenType DEF IInv, OfKind, Attribute, Flags, Values
<1>4. QED BY <1>2, <1>3 DEF IsEnabled, IsDisabled, On, Off

(* Kinds that have been kept are at different places.                       *)
LEMMA KeptApart ==
  ASSUME IInv, stage # "attributes", NEW j \in AtMostOnce(location), NEW k \in AtMostOnce(location),
         Has(j), Has(k), kept[j] = kept[k]
  PROVE  j = k
<1>1. kept[j] \in OfKind(j) /\ kept[k] \in OfKind(k)
  BY KeptIs, SetsApart
<1>2. QED BY <1>1 DEF OfKind

-----------------------------------------------------------------------------
(* Where the diagnostics point.                                             *)

Positions(E) == {e.at : e \in E}
LEMMA PositionsAt ==
  ASSUME NEW S, NEW text PROVE Positions(At(S, text)) = S
<1>1. \A e \in At(S, text) : e.at \in S
  BY DEF At
<1>2. \A i \in S : \E e \in At(S, text) : e.at = i
  <2>1. \A i \in S : [at |-> i, text |-> text] \in At(S, text)
    BY DEF At
  <2>2. \A i \in S : [at |-> i, text |-> text].at = i
    OBVIOUS
  <2>3. QED BY <2>1, <2>2
<1>3. QED BY <1>1, <1>2 DEF Positions
LEMMA PositionsUnion ==
  ASSUME NEW D, NEW E PROVE Positions(D \union E) = Positions(D) \union Positions(E)
BY DEF Positions
LEMMA PositionsNone == Positions({}) = {}
BY DEF Positions

ContainerKinds == {"ContextFlag", "ContextName", "ContextSuffix", "Display", "Transparent", "Whatever"}

LEMMA FoundInContainer ==
  ASSUME IInv, stage # "attributes", IsContainer
  PROVE  Positions(Found) = ContainerConflicts
<1> DEFINE off == Where({k \in {"Transparent"} : IsDisabled(k)})
           both == Where({k \in {"Transparent", "Display"} :
                           IsEnabled("Transparent") /\ Has("Display")})
<1>1. ContainerKinds \subseteq AtMostOnce(location) /\ ContainerKinds \subseteq Kinds
  BY DEF IsContainer, AtMostOnce, Kinds, Flags, Values, ContainerKinds
<1>2. \A k \in ContainerKinds : Single(k) = IF Has(k) THEN {kept[k]} ELSE {}
  BY <1>1, KeptIs
<1>3. /\ IsEnabled("Transparent") <=> Has("Transparent") /\ kept["Transparent"] \in On("Transparent")
      /\ IsDisabled("Transparent") <=> Has("Transparent") /\ kept["Transparent"] \in Off("Transparent")
  BY <1>1, FlagIs DEF Flags, ContainerKinds
<1>4. TransparentOn = IF IsEnabled("Transparent") THEN {kept["Transparent"]} ELSE {}
  BY <1>2, <1>3 DEF TransparentOn, ContainerKinds
<1>5. off = {i \in Single("Transparent") : i \in Off("Transparent")}
  BY <1>2, <1>3 DEF Where, ContainerKinds
<1>6. both = {i \in TransparentOn : Single("Display") # {}}
               \union {i \in Single("Display") : TransparentOn # {}}
  BY <1>2, <1>4 DEF Where, ContainerKinds
<1>7. Where(Conflicting) = {i \in Says : \E j \in Says : i # j}
  <2>1. Deciding \subseteq ContainerKinds /\ \A k \in Deciding : Has(k)
    BY DEF Deciding, ContainerKinds, IsEnabled
  <2>2. Says = {kept[k] : k \in Deciding}
    <3> DEFINE K == {"ContextFlag", "ContextName", "ContextSuffix", "Whatever"}
    <3>1. \A k \in K : Single(k) = IF Has(k) THEN {kept[k]} ELSE {}
      BY <1>2 DEF ContainerKinds
    <3>2. UNION {Single(k) : k \in K} = {kept[k] : k \in {j \in K : Has(j)}}
      BY <3>1
    <3>3. Says = (UNION {Single(k) : k \in K}) \union TransparentOn
      BY DEF Says
    <3>4. Deciding = {j \in K : Has(j)} \union {j \in {"Transparent"} : IsEnabled(j)}
      BY DEF Deciding
    <3> DEFINE flags == {kept[k] : k \in {j \in K : Has(j)}}
               deciding == {kept[k] : k \in Deciding}
    <3>5. deciding = flags \union TransparentOn
      <4> HIDE DEF K
      <4>1. \A i : i \in deciding <=> i \in flags \/ i \in TransparentOn
        BY <1>4, <3>4
      <4>2. QED BY <4>1
    <3>6. Says = flags \union TransparentOn
      BY <3>2, <3>3
    <3> HIDE DEF flags, deciding
    <3>7. Says = deciding
      BY <3>5, <3>6
    <3>8. QED BY <3>7 DEF deciding
  <2>3. \A j, k \in Deciding : kept[j] = kept[k] => j = k
    BY <1>1, <2>1, KeptApart
  <2>4. QED BY <2>2, <2>3 DEF Where, Conflicting
<1>8. Found = At(off, "transparent(false) has no effect") \union At(both, "transparent and display")
                \union At(Where(Conflicting), "may not be provided together")
  BY DEF Found
<1> HIDE DEF off, both
<1>9. Positions(Found) = off \union both \union Where(Conflicting)
  <2>1. /\ Positions(At(off, "transparent(false) has no effect")) = off
        /\ Positions(At(both, "transparent and display")) = both
        /\ Positions(At(Where(Conflicting), "may not be provided together")) = Where(Conflicting)
    BY PositionsAt
  <2> DEFINE A == At(off, "transparent(false) has no effect")
             B == At(both, "transparent and display")
             C == At(Where(Conflicting), "may not be provided together")
  <2>2. Found = (A \union B) \union C
    BY <1>8
  <2>3. Positions(A) = off /\ Positions(B) = both /\ Positions(C) = Where(Conflicting)
    BY <2>1
  <2> HIDE DEF A, B, C
  <2>4. Positions(A \union B) = Positions(A) \union Positions(B)
    BY PositionsUnion
  <2>5. Positions((A \union B) \union C) = Positions(A \union B) \union Positions(C)
    BY PositionsUnion
  <2>6. QED BY <2>2, <2>3, <2>4, <2>5
<1>10. QED BY <1>5, <1>6, <1>7, <1>9 DEF ContainerConflicts

LEMMA FoundInField ==
  ASSUME IInv, stage # "attributes", location = "OnField"
  PROVE  Positions(Found) = FieldConflicts
<1> DEFINE K == {"Implicit", "SourceFlag", "SourceFrom"}
           implicit == Where({k \in {"Implicit"} : IsDisabled(k)})
           both == Where({k \in {"SourceFlag", "SourceFrom"} :
                           IsDisabled("SourceFlag") /\ Has("SourceFrom")})
<1>1. K \subseteq AtMostOnce(location) /\ K \subseteq Kinds
  BY DEF AtMostOnce, Kinds, Flags, Values
<1>2. \A k \in K : Single(k) = IF Has(k) THEN {kept[k]} ELSE {}
  BY <1>1, KeptIs
<1>3. /\ IsDisabled("Implicit") <=> Has("Implicit") /\ kept["Implicit"] \in Off("Implicit")
      /\ IsDisabled("SourceFlag") <=> Has("SourceFlag") /\ kept["SourceFlag"] \in Off("SourceFlag")
  BY <1>1, FlagIs DEF Flags
<1>4. implicit = {i \in Single("Implicit") : i \in Off("Implicit")}
  BY <1>2, <1>3 DEF Where
<1>5. both = {i \in SourceOff : Single("SourceFrom") # {}}
               \union {i \in Single("SourceFrom") : SourceOff # {}}
  BY <1>2, <1>3 DEF Where, SourceOff
<1>6. Found = At(implicit, "implicit(false) has no effect") \union At(both, "source(false) and source(from)")
  BY DEF Found, IsContainer
<1> HIDE DEF implicit, both
<1>7. Positions(Found) = implicit \union both
  <2>1. /\ Positions(At(implicit, "implicit(false) has no effect")) = implicit
        /\ Positions(At(both, "source(false) and source(from)")) = both
    BY PositionsAt
  <2> DEFINE A == At(implicit, "implicit(false) has no effect")
             B == At(both, "source(false) and source(from)")
  <2>2. Found = A \union B /\ Positions(A) = implicit /\ Positions(B) = both
    BY <1>6, <2>1
  <2> HIDE DEF A, B
  <2>3. Positions(A \union B) = Positions(A) \union Positions(B)
    BY PositionsUnion
  <2>4. QED BY <2>2, <2>3
<1>8. QED BY <1>4, <1>5, <1>7 DEF FieldConflicts

LEMMA Named == ASSUME IInv, Answered PROVE Positions(errors) = Culprits
<1>1. stage # "attributes" /\ errors = Early \union At(Surplus, "multiple") \union Found
  BY DEF Answered, IInv, Diagnosed
<1>2. Positions(errors) = OfKind("malformed") \union Strayed \union Surplus \union Positions(Found)
  <2>1. SeenOf("malformed") = OfKind("malformed")
    BY <1>1, AllSeen
  <2> DEFINE A == At(SeenOf("malformed"), "syntax")
             B == At(Strayed, "only valid on")
             C == At(Surplus, "multiple")
  <2>2. Positions(A) = OfKind("malformed") /\ Positions(B) = Strayed /\ Positions(C) = Surplus
    BY <2>1, PositionsAt
  <2>3. errors = A \union B \union C \union Found
    BY <1>1 DEF Early
  <2> HIDE DEF A, B, C
  <2>4. Positions(((A \union B) \union C) \union Found)
          = Positions((A \union B) \union C) \union Positions(Found)
    BY PositionsUnion
  <2>5. Positions((A \union B) \union C) = Positions(A \union B) \union Positions(C)
    BY PositionsUnion
  <2>6. Positions(A \union B) = Positions(A) \union Positions(B)
    BY PositionsUnion
  <2>7. QED BY <2>2, <2>3, <2>4, <2>5, <2>6
<1>3. Strayed = UNION {OfKind(k) : k \in Misplaced(location)}
  BY <1>1, AllSeen DEF Strayed, OfKind
<1> DEFINE checked == IF IsContainer THEN ContainerConflicts
                      ELSE IF location = "OnField" THEN FieldConflicts ELSE {}
<1>4. Positions(Found) = checked
  <2>1. CASE IsContainer
    BY <1>1, <2>1, FoundInContainer
  <2>2. CASE location = "OnField" /\ ~IsContainer
    BY <1>1, <2>2, FoundInField
  <2>3. CASE location # "OnField" /\ ~IsContainer
    BY <2>3, PositionsNone DEF Found
  <2>4. QED BY <2>1, <2>2, <2>3
<1>5. Surplus = UNION {Repeats(k) : k \in AtMostOnce(location)}
  BY <1>1, SurplusIs
<1>6. Culprits = OfKind("malformed")
                   \union (UNION {OfKind(k) : k \in Misplaced(location)})
                   \union (UNION {Repeats(k) : k \in AtMostOnce(location)})
                   \union checked
  BY DEF Culprits
<1> DEFINE misplaced == UNION {OfKind(k) : k \in Misplaced(location)}
           repeats == UNION {Repeats(k) : k \in AtMostOnce(location)}
<1>7. Strayed = misplaced /\ Surplus = repeats
  BY <1>3, <1>5
<1>8. Culprits = OfKind("malformed") \union misplaced \union repeats \union checked
  BY <1>6
<1> HIDE DEF checked, misplaced, repeats
<1>9. QED BY <1>2, <1>4, <1>7, <1>8

(* One run of the macro points at every attribute that somebody has to look *)
(* at and at no other, for any number of attributes.                        *)
THEOREM AllCulpritsNamed == Spec => []EveryCulpritNamed
<1>1. ASSUME IInv PROVE EveryCulpritNamed
  BY <1>1, Named DEF EveryCulpritNamed, Answered, Positions
<1>2. QED BY Inductive, <1>1, PTL

-----------------------------------------------------------------------------
(* Nothing to point at is the same as nothing wrong.                        *)

LEMMA AtMostOneOfAKind ==
  ASSUME TypeOK, NEW k, Repeats(k) = {}
  PROVE  Single(k) = OfKind(k) /\ \A i, j \in OfKind(k) : i = j
<1>1. \A i \in OfKind(k) : i \in Nat
  BY GivenType DEF OfKind, Given
<1>2. \A i, j \in OfKind(k) : ~(j < i)
  BY DEF Repeats
<1>3. QED BY <1>1, <1>2 DEF Single

LEMMA OneIsNoRepeat ==
  ASSUME TypeOK, NEW k, \A i, j \in OfKind(k) : i = j
  PROVE  Repeats(k) = {}
<1>1. \A i \in OfKind(k) : i \in Nat
  BY GivenType DEF OfKind, Given
<1>2. QED BY <1>1 DEF Repeats

(* When no kind is repeated, the conflicts are as Acceptable has them.      *)
Unrepeated == \A k \in AtMostOnce(location) : Repeats(k) = {}

LEMMA ContainerAcceptable ==
  ASSUME TypeOK, IsContainer, Unrepeated
  PROVE  ContainerConflicts = {} <=>
           /\ Off("Transparent") = {}
           /\ On("Transparent") = {} \/ OfKind("Display") = {}
           /\ \A i, j \in SaysSelector : i = j
<1>1. ContainerKinds \subseteq AtMostOnce(location)
  BY DEF IsContainer, AtMostOnce, ContainerKinds
<1>2. \A k \in ContainerKinds : Single(k) = OfKind(k)
  BY <1>1, AtMostOneOfAKind DEF Unrepeated
<1>3. /\ Single("Transparent") \intersect Off("Transparent") = Off("Transparent")
      /\ TransparentOn = On("Transparent")
  BY <1>2 DEF Off, On, TransparentOn, ContainerKinds
<1>4. Single("Display") = OfKind("Display")
  BY <1>2 DEF ContainerKinds
<1>5. Says = SaysSelector
  <2>1. UNION {Single(k) : k \in {"ContextFlag", "ContextName", "ContextSuffix", "Whatever"}}
          = UNION {OfKind(k) : k \in {"ContextFlag", "ContextName", "ContextSuffix", "Whatever"}}
    BY <1>2 DEF ContainerKinds
  <2>2. UNION {OfKind(k) : k \in {"ContextFlag", "ContextName", "ContextSuffix", "Whatever"}}
          = OfKind("ContextFlag") \union OfKind("ContextName")
              \union OfKind("ContextSuffix") \union OfKind("Whatever")
    <3>1. \A A, B, C, D : UNION {A, B, C, D} = ((A \union B) \union C) \union D
      OBVIOUS
    <3>2. {OfKind(k) : k \in {"ContextFlag", "ContextName", "ContextSuffix", "Whatever"}}
            = {OfKind("ContextFlag"), OfKind("ContextName"), OfKind("ContextSuffix"),
               OfKind("Whatever")}
      OBVIOUS
    <3>3. QED BY <3>1, <3>2
  <2>3. QED BY <1>3, <2>1, <2>2 DEF Says, SaysSelector
<1>6. QED BY <1>3, <1>4, <1>5 DEF ContainerConflicts

LEMMA FieldAcceptable ==
  ASSUME TypeOK, location = "OnField", Unrepeated
  PROVE  FieldConflicts = {} <=>
           /\ Off("Implicit") = {}
           /\ Off("SourceFlag") = {} \/ OfKind("SourceFrom") = {}
<1>1. {"Implicit", "SourceFlag", "SourceFrom"} \subseteq AtMostOnce(location)
  BY DEF AtMostOnce
<1>2. /\ Single("Implicit") = OfKind("Implicit")
      /\ Single("SourceFlag") = OfKind("SourceFlag")
      /\ Single("SourceFrom") = OfKind("SourceFrom")
  BY <1>1, AtMostOneOfAKind DEF Unrepeated
<1>3. /\ Single("Implicit") \intersect Off("Implicit") = Off("Implicit")
      /\ SourceOff = Off("SourceFlag")
  BY <1>2 DEF Off, SourceOff
<1>4. QED BY <1>2, <1>3 DEF FieldConflicts

LEMMA AcceptableIs == ASSUME TypeOK PROVE Acceptable <=> Culprits = {}
<1> DEFINE misplaced == UNION {OfKind(k) : k \in Misplaced(location)}
           repeats == UNION {Repeats(k) : k \in AtMostOnce(location)}
           checked == IF IsContainer THEN ContainerConflicts
                      ELSE IF location = "OnField" THEN FieldConflicts ELSE {}
           container == /\ Off("Transparent") = {}
                        /\ On("Transparent") = {} \/ OfKind("Display") = {}
                        /\ \A i, j \in SaysSelector : i = j
           field == /\ Off("Implicit") = {}
                    /\ Off("SourceFlag") = {} \/ OfKind("SourceFrom") = {}
           checks == (IsContainer => container) /\ (location = "OnField" => field)
<1>1. misplaced = {} <=> \A i \in Given : attrs[i].kind \notin Misplaced(location)
  BY DEF OfKind
<1>2. repeats = {} <=> Unrepeated
  BY DEF Unrepeated
<1>3. Unrepeated <=> \A i, j \in Given : attrs[i].kind = attrs[j].kind
                                           /\ attrs[i].kind \in AtMostOnce(location) => i = j
  <2>1. Unrepeated <=> \A k \in AtMostOnce(location) : \A i, j \in OfKind(k) : i = j
    BY AtMostOneOfAKind, OneIsNoRepeat DEF Unrepeated
  <2>2. QED BY <2>1 DEF OfKind
<1>4. ASSUME Unrepeated PROVE checked = {} <=> checks
  <2>1. IsContainer => location # "OnField"
    BY DEF IsContainer
  <2>2. IsContainer => (ContainerConflicts = {} <=> container)
    BY <1>4, ContainerAcceptable
  <2>3. location = "OnField" => (FieldConflicts = {} <=> field)
    BY <1>4, FieldAcceptable
  <2> HIDE DEF container, field
  <2>4. QED BY <2>1, <2>2, <2>3
<1>5. Culprits = OfKind("malformed") \union misplaced \union repeats \union checked
  BY DEF Culprits
<1>6. Acceptable <=> /\ OfKind("malformed") = {}
                     /\ \A i \in Given : attrs[i].kind \notin Misplaced(location)
                     /\ \A i, j \in Given : attrs[i].kind = attrs[j].kind
                                              /\ attrs[i].kind \in AtMostOnce(location) => i = j
                     /\ checks
  BY DEF Acceptable
<1> HIDE DEF misplaced, repeats, checked, container, field, checks
<1>7. QED BY <1>1, <1>2, <1>3, <1>4, <1>5, <1>6

(* An item is rejected if and only if there is something wrong with its     *)
(* attributes, whatever surplus values may hide from the later checks.      *)
THEOREM RejectionsAreRight == Spec => []RejectedForCause
<1>1. ASSUME IInv, Answered PROVE (stage = "accepted") = Acceptable
  <2>1. stage = "accepted" <=> errors = {}
    BY <1>1 DEF Answered, IInv, Diagnosed
  <2>2. errors = {} <=> Positions(errors) = {}
    BY DEF Positions
  <2>3. Positions(errors) = {} <=> Acceptable
    BY <1>1, Named, AcceptableIs DEF IInv
  <2>4. QED BY <2>1, <2>2, <2>3 DEF Acceptable
<1>2. ASSUME IInv PROVE RejectedForCause
  BY <1>1, <1>2 DEF RejectedForCause
<1>3. QED BY Inductive, <1>2, PTL

-----------------------------------------------------------------------------
(* What an accepted item has.                                               *)

LEMMA Accepted ==
  ASSUME IInv, stage = "accepted"
  PROVE  /\ Culprits = {} /\ Acceptable /\ Unrepeated
         /\ \A k \in AtMostOnce(location) :
              IF Has(k) THEN OfKind(k) = {kept[k]} ELSE OfKind(k) = {}
<1>1. Culprits = {}
  BY Named DEF Answered, IInv, Diagnosed, Positions
<1>2. Acceptable
  BY <1>1, AcceptableIs DEF IInv
<1>3. Unrepeated
  BY <1>1 DEF Culprits, Unrepeated
<1>4. ASSUME NEW k \in AtMostOnce(location)
      PROVE  IF Has(k) THEN OfKind(k) = {kept[k]} ELSE OfKind(k) = {}
  <2>1. Single(k) = OfKind(k)
    BY <1>3, AtMostOneOfAKind DEF Unrepeated, IInv
  <2>2. Single(k) = IF Has(k) THEN {kept[k]} ELSE {}
    BY KeptIs, SetsApart
  <2>3. QED BY <2>1, <2>2
<1>5. QED BY <1>1, <1>2, <1>3, <1>4

(* No attribute of an accepted item vanishes, for any number of attributes. *)
THEOREM NothingIsLost == Spec => []NothingVanishes
<1> DEFINE doc == OfKind("DocComment")
           summary == {i \in doc : \A j \in doc : j <= i => attrs[j].value # "blank"}
<1>1. ASSUME IInv, stage = "accepted", NEW i \in Given \ doc
      PROVE  (attrs[i].kind \in Kinds /\ kept[attrs[i].kind] = i) \/ i \in provides
  <2> DEFINE kind == attrs[i].kind
  <2>1. i \in OfKind(kind)
    BY <1>1 DEF OfKind
  <2>2. Acceptable /\ \A k \in AtMostOnce(location) :
                        IF Has(k) THEN OfKind(k) = {kept[k]} ELSE OfKind(k) = {}
    BY <1>1, Accepted
  <2>3. kind # "malformed" /\ kind # "DocComment" /\ kind \notin Misplaced(location)
    BY <1>1, <2>2 DEF Acceptable, OfKind
  <2>4. kind \in Kinds
    BY <1>1, <2>3, GivenType DEF IInv, Attribute, Kinds
  <2>5. CASE kind \in AtMostOnce(location)
    BY <2>1, <2>2, <2>4, <2>5
  <2>6. CASE kind \in Repeatable(location)
    <3>1. i \in Seen
      BY <1>1, AllSeen
    <3>2. QED BY <1>1, <2>6, <3>1 DEF IInv, Provided
  <2>7. QED BY <2>3, <2>4, <2>5, <2>6, SetsApart
<1>2. ASSUME IInv, stage = "accepted", IsContainer
      PROVE  {docs.lines[n] : n \in DOMAIN docs.lines} = summary
  <2>1. SeenOf("DocComment") = doc
    BY <1>2, AllSeen
  <2>2. QED BY <1>2, <2>1 DEF IInv, Documented, Lines, Summary
<1>3. ASSUME IInv PROVE NothingVanishes
  BY <1>1, <1>2, <1>3 DEF NothingVanishes
<1>4. QED BY Inductive, <1>3, PTL

(* The context selector is the one the attributes ask for.                  *)
THEOREM SelectorIsRight == Spec => []SelectorAsWritten
<1>1. ASSUME IInv, stage = "accepted", IsContainer
      PROVE  /\ selector = "context" <=> SaysSelector \subseteq On("ContextFlag")
             /\ selector = "context(false)" <=> Off("ContextFlag") # {}
             /\ selector = "context(name)" <=> OfKind("ContextName") # {}
             /\ selector = "context(suffix)" <=> OfKind("ContextSuffix") # {}
             /\ selector = "transparent" <=> On("Transparent") # {}
             /\ selector = "whatever" <=> OfKind("Whatever") # {}
  <2> DEFINE K == {"ContextFlag", "ContextName", "ContextSuffix", "Whatever"}
  <2>1. /\ ContainerKinds \subseteq AtMostOnce(location)
        /\ "Transparent" \in Flags \intersect AtMostOnce(location)
        /\ "ContextFlag" \in Flags \intersect AtMostOnce(location)
    BY <1>1 DEF IsContainer, AtMostOnce, ContainerKinds, Flags
  <2>2. Acceptable /\ \A k \in ContainerKinds : IF Has(k) THEN OfKind(k) = {kept[k]} ELSE OfKind(k) = {}
    BY <1>1, <2>1, Accepted
  <2>3. /\ IsEnabled("Transparent") <=> On("Transparent") # {}
        /\ IsDisabled("ContextFlag") <=> Off("ContextFlag") # {}
        /\ On("ContextFlag") # {} <=> Has("ContextFlag") /\ ~IsDisabled("ContextFlag")
        /\ OfKind("ContextFlag") = On("ContextFlag") \union Off("ContextFlag")
        /\ On("ContextFlag") \intersect Off("ContextFlag") = {}
    <3>1. /\ IsEnabled("Transparent") <=> Has("Transparent") /\ kept["Transparent"] \in On("Transparent")
          /\ IsDisabled("ContextFlag") <=> Has("ContextFlag") /\ kept["ContextFlag"] \in Off("ContextFlag")
          /\ OfKind("ContextFlag") = On("ContextFlag") \union Off("ContextFlag")
          /\ On("ContextFlag") \intersect Off("ContextFlag") = {}
          /\ On("Transparent") \subseteq OfKind("Transparent")
      BY <1>1, <2>1, FlagIs DEF On
    <3>2. /\ IF Has("Transparent") THEN OfKind("Transparent") = {kept["Transparent"]}
             ELSE OfKind("Transparent") = {}
          /\ IF Has("ContextFlag") THEN OfKind("ContextFlag") = {kept["ContextFlag"]}
             ELSE OfKind("ContextFlag") = {}
      BY <2>2 DEF ContainerKinds
    <3>3. QED BY <3>1, <3>2
  <2>4. \A k \in K : Has(k) <=> OfKind(k) # {}
    BY <2>2 DEF ContainerKinds
  <2>5. \A i, j \in SaysSelector : i = j
    BY <1>1, <2>2 DEF Acceptable
  <2>6. \A j, k \in Deciding : j = k
    <3>1. \A k \in Deciding : kept[k] \in SaysSelector
      <4>1. \A k \in K : Has(k) => kept[k] \in OfKind(k)
        BY <2>2 DEF ContainerKinds
      <4>2. IsEnabled("Transparent") => kept["Transparent"] \in On("Transparent")
        BY <1>1, <2>1, FlagIs
      <4>3. QED BY <4>1, <4>2 DEF Deciding, SaysSelector
    <3>2. \A k \in Deciding : Has(k) /\ k \in AtMostOnce(location)
      BY <2>1 DEF Deciding, ContainerKinds, IsEnabled
    <3>3. QED BY <1>1, <2>5, <3>1, <3>2, KeptApart
  <2>7. selector = SelectorKind
    BY <1>1 DEF IInv, Diagnosed
  <2>8. /\ "ContextFlag" \in Deciding <=> OfKind("ContextFlag") # {}
        /\ "ContextName" \in Deciding <=> OfKind("ContextName") # {}
        /\ "ContextSuffix" \in Deciding <=> OfKind("ContextSuffix") # {}
        /\ "Whatever" \in Deciding <=> OfKind("Whatever") # {}
        /\ "Transparent" \in Deciding <=> On("Transparent") # {}
    BY <2>3, <2>4 DEF Deciding
  <2>9. Deciding = {} \/ \E k \in K \union {"Transparent"} : Deciding = {k}
    BY <2>6 DEF Deciding
  <2>10. SaysSelector \subseteq On("ContextFlag")
           <=> Deciding = {} \/ (Deciding = {"ContextFlag"} /\ ~IsDisabled("ContextFlag"))
    <3>1. CASE Deciding = {}
      BY <2>3, <2>8, <3>1 DEF SaysSelector
    <3>2. CASE \E k \in {"ContextName", "ContextSuffix", "Whatever", "Transparent"} : Deciding = {k}
      <4>1. OfKind("ContextFlag") = {} /\ On("ContextFlag") = {}
        BY <2>3, <2>8, <3>2
      <4>2. SaysSelector # {}
        BY <2>8, <3>2 DEF SaysSelector
      <4>3. QED BY <3>2, <4>1, <4>2
    <3>3. CASE Deciding = {"ContextFlag"}
      <4>1. SaysSelector = OfKind("ContextFlag")
        BY <2>8, <3>3 DEF SaysSelector
      <4>2. QED BY <2>3, <2>8, <3>3, <4>1
    <3>4. QED BY <2>9, <3>1, <3>2, <3>3
  <2>11. QED BY <2>3, <2>7, <2>8, <2>9, <2>10 DEF SelectorKind
<1>2. ASSUME IInv PROVE SelectorAsWritten
  BY <1>1, <1>2 DEF SelectorAsWritten
<1>3. QED BY Inductive, <1>2, PTL
=============================================================================
