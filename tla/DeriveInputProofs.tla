-------------------------- MODULE DeriveInputProofs --------------------------
(***************************************************************************)
(* The properties of DeriveInput, for any items of any size.  What is read *)
(* out of a format string is taken as it is, until the last section, which *)
(* shows that it is what format_args! looks for, for strings of any length.*)
(***************************************************************************)
EXTENDS DeriveInput, SequenceTheorems, WellFoundedInduction, TLAPS

Less == {p \in Nat \X Nat : p[1] < p[2]}

LEMMA LessWellFounded == IsWellFoundedOn(Less, Nat)
<1>1. OpToRel(<, Nat) = Less
  BY DEF OpToRel, Less
<1>. QED
  BY <1>1, NatLessThanWellFounded

LEMMA Smallest ==
  ASSUME NEW S \in SUBSET Nat, S # {}
  PROVE  \E n \in S : \A m \in S : n <= m
<1>1. PICK n \in S : \A m \in S : <<m, n>> \notin Less
  BY LessWellFounded, WFMin
<1>2. \A m \in S : ~(m < n)
  BY <1>1 DEF Less
<1>. QED
  BY <1>2

LEMMA UpTo ==
  ASSUME NEW N \in Nat, NEW S,
         \A n \in 0 .. N : (\A m \in 0 .. N : m < n => m \in S) => n \in S
  PROVE  0 .. N \subseteq S
<1>1. SUFFICES ASSUME (0 .. N) \ S # {} PROVE FALSE
  OBVIOUS
<1>2. (0 .. N) \ S \in SUBSET Nat
  OBVIOUS
<1>3. PICK n \in (0 .. N) \ S : \A m \in (0 .. N) \ S : n <= m
  BY <1>1, <1>2, Smallest
<1>4. \A m \in 0 .. N : m < n => m \in S
  BY <1>3
<1>. QED
  BY <1>3, <1>4

-----------------------------------------------------------------------------
(* Names.                                                                   *)

Words == {"Error", "Foo", "Snafu", "Ctx", "Given"}

(* The word after which there is nothing but `Error`.                       *)
Ends(name, n, k) == /\ k \in 0 .. n
                    /\ k > 0 => name[k] # "Error"
                    /\ \A j \in (k + 1) .. n : name[j] = "Error"

LEMMA EndExists ==
  ASSUME NEW name \in Name, NEW n \in 0 .. Len(name)
  PROVE  \E k \in 0 .. n : Ends(name, n, k)
<1>. DEFINE S == {k \in 0 .. n : \A j \in (k + 1) .. n : name[j] = "Error"}
<1>1. n \in Nat /\ n \in S
  BY DEF Name
<1>2. S \in SUBSET Nat
  BY <1>1
<1>3. PICK k \in S : \A m \in S : k <= m
  <2>. HIDE DEF S
  <2>. QED
    BY <1>1, <1>2, Smallest
<1>4. ASSUME k > 0, name[k] = "Error" PROVE FALSE
  <2>1. k - 1 \in 0 .. n
    BY <1>1, <1>4
  <2>2. ASSUME NEW j \in ((k - 1) + 1) .. n PROVE name[j] = "Error"
    <3>1. j = k \/ j \in (k + 1) .. n
      BY <1>1
    <3>. QED
      BY <1>3, <1>4, <3>1
  <2>3. k - 1 \in S
    BY <2>1, <2>2
  <2>. QED
    BY <1>1, <1>3, <2>3
<1>. QED
  BY <1>1, <1>3, <1>4 DEF Ends

LEMMA EndUnique ==
  ASSUME NEW name, NEW n \in Nat, NEW k, NEW l, Ends(name, n, k), Ends(name, n, l)
  PROVE  k = l
<1>1. k \in 0 .. n /\ l \in 0 .. n
  BY DEF Ends
<1>2. ASSUME k < l PROVE FALSE
  <2>1. l \in (k + 1) .. n /\ l > 0
    BY <1>1, <1>2
  <2>. QED
    BY <2>1 DEF Ends
<1>3. ASSUME l < k PROVE FALSE
  <2>1. k \in (l + 1) .. n /\ k > 0
    BY <1>1, <1>3
  <2>. QED
    BY <2>1 DEF Ends
<1>. QED
  BY <1>1, <1>2, <1>3

(* Every `Error` at the end of a name is removed, and nothing else.         *)
LEMMA StripIs ==
  ASSUME NEW name \in Name
  PROVE  \E k \in 0 .. Len(name) : Ends(name, Len(name), k) /\ StripError(name) = SubSeq(name, 1, k)
<1>. DEFINE N == Len(name)
            End(n) == CHOOSE k \in 0 .. n : Ends(name, n, k)
            Next1(s, n) == IF n = 0 THEN << >>
                           ELSE IF name[n] = "Error" THEN s[n - 1] ELSE SubSeq(name, 1, n)
            Is(s) == s = [n \in 0 .. N |-> Next1(s, n)]
            to == CHOOSE s : Is(s)
            f == [n \in 0 .. N |-> SubSeq(name, 1, End(n))]
<1>1. N \in Nat
  BY DEF Name
<1>2. ASSUME NEW n \in 0 .. N PROVE End(n) \in 0 .. n /\ Ends(name, n, End(n))
  <2>1. \E k \in 0 .. n : Ends(name, n, k)
    BY EndExists
  <2>. HIDE DEF N
  <2>. QED
    BY <2>1
<1>3. StripError(name) = to[N]
  BY DEF StripError
<1>. HIDE DEF N
<1>4. End(0) = 0
  BY <1>1, <1>2
<1>5. ASSUME NEW n \in 1 .. N
      PROVE  End(n) = IF name[n] = "Error" THEN End(n - 1) ELSE n
  <2>1. n \in Nat /\ n \in 0 .. N /\ n - 1 \in 0 .. N
    BY <1>1
  <2>2. Ends(name, n, End(n)) /\ Ends(name, n - 1, End(n - 1)) /\ End(n - 1) \in 0 .. (n - 1)
    BY <1>2, <2>1
  <2>. HIDE DEF End
  <2>3. CASE name[n] = "Error"
    <3>1. \A j \in (End(n - 1) + 1) .. n : j \in (End(n - 1) + 1) .. (n - 1) \/ j = n
      BY <2>1
    <3>2. Ends(name, n, End(n - 1))
      BY <2>1, <2>2, <2>3, <3>1 DEF Ends
    <3>. QED
      BY <2>1, <2>2, <2>3, <3>2, EndUnique
  <2>4. CASE name[n] # "Error"
    <3>1. Ends(name, n, n)
      BY <2>1, <2>4 DEF Ends
    <3>. QED
      BY <2>1, <2>2, <2>4, <3>1, EndUnique
  <2>. QED
    BY <2>3, <2>4
<1>. HIDE DEF End
<1>6. SubSeq(name, 1, 0) = << >>
  BY DEF Name
<1>7. \A n \in 0 .. N : n = 0 \/ (n \in 1 .. N /\ n - 1 \in 0 .. N /\ n # 0)
  BY <1>1
<1>8. Is(f)
  <2>1. ASSUME NEW n \in 0 .. N PROVE SubSeq(name, 1, End(n)) = Next1(f, n)
    <3>1. CASE n = 0
      BY <1>4, <1>6, <3>1
    <3>2. CASE n \in 1 .. N /\ n - 1 \in 0 .. N /\ n # 0
      BY <1>5, <3>2
    <3>. QED
      BY <1>7, <3>1, <3>2
  <2>. HIDE DEF Next1
  <2>. QED
    BY <2>1
<1>9. Is(to)
  <2>. HIDE DEF Is
  <2>. QED
    BY <1>8
<1>. HIDE DEF to
<1>10. to[0] = << >> /\ \A n \in 1 .. N : to[n] = IF name[n] = "Error" THEN to[n - 1]
                                                  ELSE SubSeq(name, 1, n)
  <2>1. \A n \in 0 .. N : to[n] = Next1(to, n)
    <3>. HIDE DEF Next1
    <3>. QED
      BY <1>9
  <2>2. 0 \in 0 .. N /\ \A n \in 1 .. N : n \in 0 .. N /\ n # 0
    BY <1>1
  <2>. QED
    BY <2>1, <2>2
<1>11. 0 .. N \subseteq {n \in 0 .. N : to[n] = SubSeq(name, 1, End(n))}
  <2>. DEFINE S == {n \in 0 .. N : to[n] = SubSeq(name, 1, End(n))}
  <2>1. ASSUME NEW n \in 0 .. N, \A m \in 0 .. N : m < n => m \in S
        PROVE  n \in S
    <3>1. CASE n = 0
      BY <1>4, <1>6, <1>10, <3>1
    <3>2. CASE n # 0
      <4>1. n \in 1 .. N /\ n - 1 \in 0 .. N /\ n - 1 < n
        BY <1>1, <3>2
      <4>2. to[n - 1] = SubSeq(name, 1, End(n - 1))
        BY <2>1, <4>1
      <4>. QED
        BY <1>5, <1>10, <4>1, <4>2
    <3>. QED
      BY <3>1, <3>2
  <2>2. \A n \in 0 .. N : (\A m \in 0 .. N : m < n => m \in S) => n \in S
    BY <2>1
  <2>. HIDE DEF S
  <2>3. 0 .. N \subseteq S
    BY <1>1, <2>2, UpTo
  <2>. QED
    BY <2>3 DEF S
<1>12. N \in 0 .. N /\ to[N] = SubSeq(name, 1, End(N))
  BY <1>1, <1>11
<1>. QED
  BY <1>2, <1>3, <1>12 DEF N

-----------------------------------------------------------------------------
(* Types.                                                                   *)

LEMMA ItemIs ==
  ASSUME item \in Items
  PROVE  /\ item.parts \in Seq(Part) /\ Len(item.parts) <= MaxParts
         /\ item.unnamed \in Seq({"ok", "bad"}) /\ Len(item.unnamed) <= MaxParts
         /\ item.shape \in {"enum", "struct", "tuple struct", "union"}
         /\ item.suffix \in Suffixes /\ item.visibility \in Visibility
         /\ item.module \in BOOLEAN
         /\ item.shape = "struct" => Len(item.parts) = 1
         /\ item.shape \in {"tuple struct", "union"} => item.parts = << >>
         /\ MaxParts \in Nat
BY ItemsAssumption, MaxPartsAssumption DEF Item

LEMMA SizesAre ==
  ASSUME item \in Items
  PROVE  /\ MaxParts \in Nat
         /\ Len(item.parts) \in Nat /\ Len(item.parts) <= MaxParts
         /\ Len(item.unnamed) \in Nat /\ Len(item.unnamed) <= MaxParts
<1>1. /\ item.parts \in Seq(Part) /\ Len(item.parts) <= MaxParts
      /\ item.unnamed \in Seq({"ok", "bad"}) /\ Len(item.unnamed) <= MaxParts
  BY ItemIs, Zenon
<1>. QED
  BY <1>1, MaxPartsAssumption

LEMMA SuffixIs ==
  ASSUME item \in Items, NEW p \in Part
  PROVE  LET suffix == IF p.suffix = "default" THEN item.suffix ELSE p.suffix
         IN  ResolveSuffix(p.suffix, item.suffix) =
               IF suffix = "none" THEN << >> ELSE <<IF suffix = "Ctx" THEN "Ctx" ELSE "Snafu">>
<1>1. p.suffix \in {"default", "none", "Ctx"} /\ item.suffix \in {"default", "none", "Ctx"}
  BY ItemIs DEF Part, Suffixes
<1>. QED
  BY <1>1 DEF ResolveSuffix

LEMMA NameTyped == ASSUME item \in Items, NEW p \in Part PROVE SelectorName(p) \in Name
<1>. DEFINE suffix == ResolveSuffix(p.suffix, item.suffix)
<1>1. <<"Given">> \in Name /\ suffix \in Name
  <2>1. \A w \in Words : <<w>> \in Seq(Words)
    OBVIOUS
  <2>2. << >> \in Seq(Words)
    OBVIOUS
  <2>3. "Given" \in Words /\ "Ctx" \in Words /\ "Snafu" \in Words
    BY DEF Words
  <2>. QED
    BY <2>1, <2>2, <2>3, SuffixIs DEF Name, Words
<1>2. StripError(p.name) \in Name
  <2>1. p.name \in Name
    BY DEF Part
  <2>2. PICK k \in 0 .. Len(p.name) : StripError(p.name) = SubSeq(p.name, 1, k)
    BY <2>1, StripIs
  <2>. QED
    BY <2>1, <2>2 DEF Name
<1>3. StripError(p.name) \o suffix \in Name
  <2>. HIDE DEF suffix
  <2>. QED
    BY <1>1, <1>2 DEF Name
<1>. QED
  BY <1>1, <1>3 DEF SelectorName

LEMMA ReachTyped == ASSUME item \in Items, NEW p \in Part PROVE SelectorReach(p) \in Reach
<1>1. p.visibility \in Visibility /\ item.visibility \in Visibility
  BY ItemIs DEF Part
<1>2. \A v \in Visibility : ReachOf(v, 1) \in 1 .. 5 /\ ReachOf(v, 2) \in 1 .. 5
  BY DEF Visibility, ReachOf
<1>3. SelectorVisibility(p) \in Visibility
  BY <1>1 DEF SelectorVisibility, Visibility
<1>4. ModuleVisibility(p) \in Visibility
  BY <1>1 DEF ModuleVisibility
<1>. QED
  BY <1>2, <1>3, <1>4 DEF SelectorReach, Reach, ContextModule, ErrorModule

LEMMA CodeTyped == ASSUME item \in Items, NEW p \in Part PROVE Generated(p) \in Code
<1>1. HasSelector(p) \in BOOLEAN
  BY DEF HasSelector
<1>2. (IF HasSelector(p) THEN SelectorName(p) ELSE << >>) \in Name
  <2>1. << >> \in Name
    BY DEF Name
  <2>. QED
    BY <2>1, NameTyped
<1>3. Format(p) \in {"delegate", "display", "doc", "name"}
  BY DEF Format
<1>4. Passed(p) \in SUBSET FieldName
  <2>1. p.fieldNames \in SUBSET FieldName
    BY DEF Part
  <2>2. \A n \in Passed(p) : n \in p.fieldNames
    BY <1>3 DEF Passed
  <2>. QED
    BY <2>1, <2>2
<1>. QED
  BY <1>1, <1>2, <1>3, <1>4, ReachTyped, Zenon DEF Generated, Code

-----------------------------------------------------------------------------
(* What is wrong with an item.                                              *)

(* The diagnosis e is due.                                                  *)
Due(e) ==
  \/ e.at \in Parts /\ e.text \in PartErrors(item.parts[e.at])
  \/ /\ e.at = 0 /\ e.text = "attribute"
     /\ item.shape \in {"enum", "tuple struct"} /\ item.attrs = "bad"
  \/ e.at = 0 /\ e.text = "union" /\ item.shape = "union"
  \/ item.shape = "tuple struct" /\ e \in UnnamedErrors

Diagnosis == [at : 0 .. MaxParts, text : Texts]
Mistakes == {e \in Diagnosis : Due(e)}

LEMMA DiagnosisIs == \A e \in Diagnosis : e = [at |-> e.at, text |-> e.text]
BY DEF Diagnosis

LEMMA AtIs ==
  \A positions, text, e :
    e \in At(positions, text) <=> \E i \in positions : e = [at |-> i, text |-> text]
BY DEF At

LEMMA AtItem ==
  \A t \in Texts : \A e \in At({0}, t) :
    e = [at |-> 0, text |-> t] /\ e.at = 0 /\ e.text = t /\ e \in Diagnosis
<1>. SUFFICES ASSUME NEW t \in Texts, NEW e \in At({0}, t)
              PROVE  e = [at |-> 0, text |-> t] /\ e.at = 0 /\ e.text = t /\ e \in Diagnosis
  OBVIOUS
<1>1. e = [at |-> 0, text |-> t]
  BY DEF At
<1>. QED
  BY <1>1, MaxPartsAssumption DEF Diagnosis

LEMMA DiagnosedIs ==
  \A i, texts, e : e \in Diagnosed(i, texts) <=> \E t \in texts : e = [at |-> i, text |-> t]
BY DEF Diagnosed, At

LEMMA PartErrorsTyped == \A p : PartErrors(p) \subseteq {"attribute", "unnamed fields", "field"}
BY DEF PartErrors, HeaderErrors

LEMMA AtTyped ==
  ASSUME NEW positions \in SUBSET (0 .. MaxParts), NEW t \in Texts
  PROVE  At(positions, t) \subseteq Diagnosis
BY DEF At, Diagnosis

LEMMA UnnamedAre ==
  /\ Len(item.unnamed) = 0 => UnnamedErrors = At({0}, "exactly one field")
  /\ Len(item.unnamed) = 1 =>
       UnnamedErrors = At({i \in {1} : item.unnamed[1] = "bad"}, "attribute")
  /\ Len(item.unnamed) # 0 /\ Len(item.unnamed) # 1 =>
       UnnamedErrors = At(2 .. Len(item.unnamed), "exactly one field")
<1>1. CASE Len(item.unnamed) = 0
  BY <1>1 DEF UnnamedErrors
<1>2. CASE Len(item.unnamed) = 1
  BY <1>2 DEF UnnamedErrors
<1>3. CASE Len(item.unnamed) # 0 /\ Len(item.unnamed) # 1
  BY <1>3, Zenon DEF UnnamedErrors
<1>. QED
  BY <1>1, <1>2, <1>3

LEMMA UnnamedTyped == ASSUME item \in Items PROVE UnnamedErrors \subseteq Diagnosis
<1>1. Len(item.unnamed) \in Nat /\ Len(item.unnamed) <= MaxParts /\ MaxParts \in Nat
  BY SizesAre
<1>2. "exactly one field" \in Texts /\ "attribute" \in Texts
  BY DEF Texts
<1>3. CASE Len(item.unnamed) = 0
  <2>1. {0} \in SUBSET (0 .. MaxParts)
    BY <1>1
  <2>. QED
    BY <1>2, <1>3, <2>1, AtTyped, UnnamedAre
<1>4. CASE Len(item.unnamed) = 1
  <2>1. {i \in {1} : item.unnamed[1] = "bad"} \in SUBSET (0 .. MaxParts)
    BY <1>1, <1>4
  <2>. QED
    BY <1>2, <1>4, <2>1, AtTyped, UnnamedAre
<1>5. CASE Len(item.unnamed) # 0 /\ Len(item.unnamed) # 1
  <2>1. 2 .. Len(item.unnamed) \in SUBSET (0 .. MaxParts)
    BY <1>1
  <2>. QED
    BY <1>2, <1>5, <2>1, AtTyped, UnnamedAre
<1>. QED
  BY <1>3, <1>4, <1>5

LEMMA PartsAre ==
  ASSUME item \in Items
  PROVE  /\ item.shape \in {"enum", "struct"} => Parts = 1 .. Len(item.parts)
         /\ item.shape \in {"tuple struct", "union"} => Parts = {}
         /\ \A i \in Parts : i \in 1 .. MaxParts /\ item.parts[i] \in Part
<1>1. item.parts \in Seq(Part) /\ Len(item.parts) <= MaxParts /\ MaxParts \in Nat
  BY ItemIs, MaxPartsAssumption, Zenon
<1>2. DOMAIN item.parts = 1 .. Len(item.parts) /\ Len(item.parts) \in Nat
      /\ \A i \in DOMAIN item.parts : item.parts[i] \in Part
  BY <1>1
<1>3. item.shape \in {"enum", "struct"} => Parts = 1 .. Len(item.parts)
  BY <1>2 DEF Parts
<1>4. item.shape \in {"tuple struct", "union"} => Parts = {}
  BY DEF Parts
<1>5. \A i \in Parts : i \in DOMAIN item.parts
  BY DEF Parts
<1>6. \A i \in DOMAIN item.parts : i \in 1 .. MaxParts
  BY <1>1, <1>2
<1>. QED
  BY <1>2, <1>3, <1>4, <1>5, <1>6, Zenon

LEMMA NotZero == ASSUME item \in Items PROVE 0 \notin Parts /\ 0 \notin DOMAIN item.unnamed
<1>1. item.unnamed \in Seq({"ok", "bad"})
  BY ItemIs, Zenon
<1>2. DOMAIN item.unnamed = 1 .. Len(item.unnamed)
  BY <1>1
<1>3. \A i \in Parts : i \in 1 .. MaxParts
  BY PartsAre
<1>. QED
  BY <1>2, <1>3, MaxPartsAssumption

LEMMA ShapesAre ==
  ASSUME item \in Items PROVE item.shape \in {"enum", "struct", "tuple struct", "union"}
BY ItemIs, Zenon

(* What is wrong with a part is found when it is parsed.                    *)
LEMMA OfPart ==
  ASSUME item \in Items, NEW i \in Parts
  PROVE  \A e : e \in Diagnosed(i, PartErrors(item.parts[i])) <=> e \in Mistakes /\ e.at = i
<1>1. i \in 1 .. MaxParts /\ MaxParts \in Nat
  BY PartsAre, MaxPartsAssumption
<1>2. \A t \in PartErrors(item.parts[i]) : t \in Texts
  BY PartErrorsTyped DEF Texts
<1>3. item.shape \in {"enum", "struct"}
  BY DEF Parts
<1>4. ASSUME NEW e \in Diagnosed(i, PartErrors(item.parts[i]))
      PROVE  e \in Mistakes /\ e.at = i
  <2>1. PICK t \in PartErrors(item.parts[i]) : e = [at |-> i, text |-> t]
    BY DiagnosedIs
  <2>2. e \in Diagnosis /\ e.at = i /\ e.text = t
    BY <1>1, <1>2, <2>1 DEF Diagnosis
  <2>. QED
    BY <2>1, <2>2 DEF Mistakes, Due
<1>5. ASSUME NEW e \in Mistakes, e.at = i
      PROVE  e \in Diagnosed(i, PartErrors(item.parts[i]))
  <2>1. e = [at |-> i, text |-> e.text]
    BY <1>5, DiagnosisIs DEF Mistakes
  <2>2. i # 0
    BY <1>1
  <2>3. e.text \in PartErrors(item.parts[i])
    BY <1>3, <1>5, <2>2 DEF Mistakes, Due
  <2>. QED
    BY <2>1, <2>3, DiagnosedIs
<1>. QED
  BY <1>4, <1>5

(* The item's own attributes.                                               *)
LEMMA OfItem ==
  ASSUME item \in Items, item.shape = "enum"
  PROVE  \A e : e \in {d \in At({0}, "attribute") : item.attrs = "bad"}
                  <=> e \in Mistakes /\ e.at = 0
<1>1. \A i \in Parts : i # 0
  BY PartsAre, MaxPartsAssumption
<1>2. MaxParts \in Nat
  BY MaxPartsAssumption
<1>3. ASSUME NEW e \in At({0}, "attribute"), item.attrs = "bad"
      PROVE  e \in Mistakes /\ e.at = 0
  <2>1. "attribute" \in Texts
    BY DEF Texts
  <2>2. e \in Diagnosis /\ e.at = 0 /\ e.text = "attribute"
    BY <2>1, AtItem
  <2>. QED
    BY <1>3, <2>2 DEF Mistakes, Due
<1>4. ASSUME NEW e \in Mistakes, e.at = 0
      PROVE  e \in At({0}, "attribute") /\ item.attrs = "bad"
  <2>1. e = [at |-> 0, text |-> e.text]
    BY <1>4, DiagnosisIs DEF Mistakes
  <2>2. e.text = "attribute" /\ item.attrs = "bad"
    BY <1>1, <1>4 DEF Mistakes, Due
  <2>. QED
    BY <2>1, <2>2, AtIs
<1>. QED
  BY <1>3, <1>4

LEMMA OfTuple ==
  ASSUME item \in Items, item.shape = "tuple struct"
  PROVE  \A e : e \in UnnamedErrors \union {d \in At({0}, "attribute") : item.attrs = "bad"}
                  <=> e \in Mistakes
<1>1. Parts = {} /\ MaxParts \in Nat
  BY PartsAre, MaxPartsAssumption
<1>2. ASSUME NEW e \in UnnamedErrors PROVE e \in Mistakes
  BY UnnamedTyped DEF Mistakes, Due
<1>3. ASSUME NEW e \in At({0}, "attribute"), item.attrs = "bad"
      PROVE  e \in Mistakes
  <2>1. "attribute" \in Texts
    BY DEF Texts
  <2>2. e \in Diagnosis /\ e.at = 0 /\ e.text = "attribute"
    BY <2>1, AtItem
  <2>. QED
    BY <1>3, <2>2 DEF Mistakes, Due
<1>4. ASSUME NEW e \in Mistakes
      PROVE  e \in UnnamedErrors \/ (e \in At({0}, "attribute") /\ item.attrs = "bad")
  <2>1. e = [at |-> e.at, text |-> e.text]
    BY DiagnosisIs DEF Mistakes
  <2>2. CASE e.at = 0 /\ e.text = "attribute" /\ item.attrs = "bad"
    BY <2>1, <2>2, AtIs
  <2>3. CASE e \in UnnamedErrors
    BY <2>3
  <2>. QED
    BY <1>1, <2>2, <2>3 DEF Mistakes, Due
<1>. QED
  BY <1>2, <1>3, <1>4

LEMMA OfUnion ==
  ASSUME item \in Items, item.shape = "union"
  PROVE  \A e : e \in At({0}, "union") <=> e \in Mistakes
<1>1. Parts = {} /\ MaxParts \in Nat
  BY PartsAre, MaxPartsAssumption
<1>2. ASSUME NEW e \in At({0}, "union") PROVE e \in Mistakes
  <2>1. "union" \in Texts
    BY DEF Texts
  <2>2. e \in Diagnosis /\ e.at = 0 /\ e.text = "union"
    BY <2>1, AtItem
  <2>. QED
    BY <2>2 DEF Mistakes, Due
<1>3. ASSUME NEW e \in Mistakes PROVE e \in At({0}, "union")
  <2>1. e = [at |-> e.at, text |-> e.text]
    BY DiagnosisIs DEF Mistakes
  <2>2. e.at = 0 /\ e.text = "union"
    BY <1>1 DEF Mistakes, Due
  <2>. QED
    BY <2>1, <2>2, AtIs
<1>. QED
  BY <1>2, <1>3

-----------------------------------------------------------------------------
(* The invariant.                                                           *)

(* What the macro panics over.                                              *)
Cause ==
  \E i \in Parts : LET p == item.parts[i] IN
    \/ \E text \in {p.doc, p.display.text} :
         \E n \in extract_field_names(text) : ~IsIdent(n)
    \/ /\ p.selector = "context" /\ \A j \in DOMAIN p.name : p.name[j] = "Error"
       /\ p.suffix = "none" \/ (p.suffix = "default" /\ item.suffix = "none")

Parsing ==
  stage = "parsing" =>
    /\ next \in 1 .. Len(item.parts) + 1
    /\ errors = {e \in Mistakes : item.shape = "enum" /\ 0 < e.at /\ e.at < next}

Parsed ==
  /\ stage = "rejected" => errors = Mistakes /\ Mistakes # {}
  /\ stage \in {"parsed", "expanded"} => Mistakes = {}
  /\ stage = "panicked" => Cause

Expanded ==
  stage = "expanded" =>
    /\ code = [i \in DOMAIN item.parts |-> Generated(item.parts[i])]
    /\ \A i \in DOMAIN item.parts :
         HasSelector(item.parts[i]) => SelectorName(item.parts[i]) # << >>

IInv == TypeOK /\ Parsing /\ Parsed /\ Expanded

LEMMA InitHolds == Init => IInv
<1>. SUFFICES ASSUME Init PROVE IInv
  OBVIOUS
<1>1. item \in Items /\ next = 1 /\ errors = {} /\ stage = "parsing" /\ code = << >>
  BY DEF Init
<1>2. MaxParts \in Nat /\ Len(item.parts) \in Nat
  BY <1>1, SizesAre
<1>3. \A e \in Mistakes : ~(0 < e.at /\ e.at < 1)
  BY <1>2 DEF Mistakes, Diagnosis
<1>4. TypeOK
  BY <1>1, <1>2 DEF TypeOK
<1>5. Parsing
  BY <1>1, <1>2, <1>3 DEF Parsing
<1>. QED
  BY <1>1, <1>4, <1>5 DEF IInv, Parsed, Expanded

(* What the item does not change with it.                                   *)
LEMMA ItemKept ==
  ASSUME item' = item
  PROVE  /\ Mistakes' = Mistakes
         /\ Cause' <=> Cause
         /\ Parts' = Parts
         /\ \A p : Generated(p)' = Generated(p) /\ SelectorName(p)' = SelectorName(p)
<1>1. Parts' = Parts
  BY DEF Parts
<1>2. UnnamedErrors' = UnnamedErrors
  BY DEF UnnamedErrors
<1>3. \A e : Due(e)' <=> Due(e)
  BY <1>1, <1>2 DEF Due
<1>4. Mistakes' = Mistakes
  BY <1>3 DEF Mistakes
<1>5. Cause' <=> Cause
  BY <1>1 DEF Cause
<1>6. \A p : SelectorName(p)' = SelectorName(p)
  BY DEF SelectorName
<1>7. \A p : SelectorReach(p)' = SelectorReach(p)
  BY DEF SelectorReach, SelectorVisibility, ModuleVisibility
<1>8. \A p : Generated(p)' = Generated(p)
  BY <1>6, <1>7 DEF Generated
<1>. QED
  BY <1>1, <1>4, <1>5, <1>6, <1>8

LEMMA PanicHolds == ASSUME IInv, Panic, Cause PROVE IInv'
<1>1. stage' = "panicked" /\ errors' = {} /\ item' = item /\ next' = next /\ code' = code
  BY DEF Panic
<1>2. Cause'
  BY <1>1, ItemKept
<1>3. TypeOK'
  BY <1>1 DEF IInv, TypeOK
<1>. QED
  BY <1>1, <1>2, <1>3 DEF IInv, Parsing, Parsed, Expanded

LEMMA FinishHolds ==
  ASSUME IInv, NEW found, Finish(found), \A e : e \in found <=> e \in Mistakes
  PROVE  IInv'
<1>1. /\ errors' = found /\ item' = item /\ next' = next /\ code' = code
      /\ stage' = IF found = {} THEN "parsed" ELSE "rejected"
  BY DEF Finish
<1>2. found = Mistakes
  OBVIOUS
<1>3. Mistakes' = Mistakes
  BY <1>1, ItemKept
<1>4. TypeOK'
  <2>1. errors' \subseteq [at : 0 .. MaxParts, text : Texts]
    BY <1>1, <1>2 DEF Mistakes, Diagnosis
  <2>. QED
    BY <1>1, <2>1 DEF IInv, TypeOK
<1>5. Parsed'
  BY <1>1, <1>2, <1>3 DEF Parsed
<1>. QED
  BY <1>1, <1>4, <1>5 DEF IInv, Parsing, Expanded

LEMMA PartCause ==
  ASSUME NEW i \in Parts, PartPanics(item.parts[i]) PROVE Cause
BY DEF PartPanics, Panics, Cause

LEMMA ParseVariantHolds == ASSUME IInv, ParseVariant PROVE IInv'
<1>. DEFINE p == item.parts[next]
<1>1. stage = "parsing" /\ item.shape = "enum" /\ next <= Len(item.parts) /\ item \in Items
      /\ next \in 1 .. MaxParts + 1
  BY DEF ParseVariant, IInv, TypeOK
<1>2. /\ Len(item.parts) \in Nat /\ Len(item.parts) <= MaxParts /\ MaxParts \in Nat
      /\ next \in 1 .. Len(item.parts)
  BY <1>1, SizesAre
<1>3. next \in Parts
  BY <1>1, <1>2, PartsAre
<1>4. CASE PartPanics(p) /\ Panic
  BY <1>3, <1>4, PartCause, PanicHolds
<1>5. CASE /\ errors' = errors \union Diagnosed(next, PartErrors(p))
           /\ next' = next + 1
           /\ UNCHANGED <<item, stage, code>>
  <2>1. Mistakes' = Mistakes
    BY <1>5, ItemKept
  <2>2. \A e : e \in Diagnosed(next, PartErrors(p)) <=> e \in Mistakes /\ e.at = next
    BY <1>1, <1>3, OfPart
  <2>3. errors = {e \in Mistakes : 0 < e.at /\ e.at < next}
    BY <1>1 DEF IInv, Parsing
  <2>. HIDE DEF p
  <2>4. \A e : e \in errors' <=> e \in errors \/ (e \in Mistakes /\ e.at = next)
    BY <1>5, <2>2
  <2>5. \A e \in Mistakes : (0 < e.at /\ e.at < next + 1)
                            <=> (0 < e.at /\ e.at < next) \/ e.at = next
    BY <1>2 DEF Mistakes, Diagnosis
  <2>6. errors' = {e \in Mistakes : 0 < e.at /\ e.at < next + 1}
    BY <2>3, <2>4, <2>5
  <2>7. next' \in 1 .. Len(item.parts) + 1 /\ next' \in 1 .. MaxParts + 1
    BY <1>2, <1>5
  <2>8. Parsing'
    BY <1>1, <1>5, <2>1, <2>6, <2>7 DEF Parsing
  <2>9. TypeOK'
    <3>1. errors' \subseteq [at : 0 .. MaxParts, text : Texts]
      BY <2>6 DEF Mistakes, Diagnosis
    <3>. QED
      BY <1>5, <2>7, <3>1 DEF IInv, TypeOK
  <2>. QED
    BY <1>1, <1>5, <2>8, <2>9 DEF IInv, Parsed, Expanded
<1>. QED
  BY <1>4, <1>5 DEF ParseVariant

LEMMA FinishEnumHolds == ASSUME IInv, FinishEnum PROVE IInv'
<1>. DEFINE own == {e \in At({0}, "attribute") : item.attrs = "bad"}
<1>1. stage = "parsing" /\ item.shape = "enum" /\ next > Len(item.parts) /\ item \in Items
      /\ Finish(errors \union own)
  BY DEF FinishEnum, IInv, TypeOK
<1>2. /\ Len(item.parts) \in Nat /\ next = Len(item.parts) + 1
  <2>1. Len(item.parts) \in Nat /\ next \in 1 .. Len(item.parts) + 1
    BY <1>1, SizesAre DEF IInv, Parsing
  <2>. QED
    BY <1>1, <2>1
<1>3. errors = {e \in Mistakes : 0 < e.at /\ e.at < next}
  BY <1>1 DEF IInv, Parsing
<1>4. \A e : e \in own <=> e \in Mistakes /\ e.at = 0
  BY <1>1, OfItem
<1>5. \A e \in Mistakes : e.at = 0 \/ (0 < e.at /\ e.at < next)
  <2>1. \A i \in Parts : 0 < i /\ i < next
    BY <1>1, <1>2, PartsAre
  <2>. QED
    BY <1>1, <2>1 DEF Mistakes, Due
<1>. HIDE DEF own
<1>6. \A e : e \in errors \union own <=> e \in Mistakes
  BY <1>3, <1>4, <1>5
<1>. QED
  BY <1>1, <1>6, FinishHolds

LEMMA ParseNamedStructHolds == ASSUME IInv, ParseNamedStruct PROVE IInv'
<1>1. stage = "parsing" /\ item.shape = "struct" /\ item \in Items
  BY DEF ParseNamedStruct, IInv, TypeOK
<1>2. Parts = {1}
  <2>1. Len(item.parts) = 1
    BY <1>1, ItemsAssumption
  <2>. QED
    BY <1>1, <2>1, PartsAre
<1>3. CASE PartPanics(item.parts[1]) /\ Panic
  BY <1>2, <1>3, PartCause, PanicHolds
<1>4. CASE Finish(Diagnosed(1, PartErrors(item.parts[1])))
  <2>1. \A e : e \in Diagnosed(1, PartErrors(item.parts[1])) <=> e \in Mistakes /\ e.at = 1
    BY <1>1, <1>2, OfPart
  <2>2. \A e \in Mistakes : e.at = 1
    BY <1>1, <1>2 DEF Mistakes, Due
  <2>3. \A e : e \in Diagnosed(1, PartErrors(item.parts[1])) <=> e \in Mistakes
    BY <2>1, <2>2
  <2>. QED
    BY <1>4, <2>3, FinishHolds
<1>. QED
  BY <1>3, <1>4 DEF ParseNamedStruct

LEMMA ParseTupleStructHolds == ASSUME IInv, ParseTupleStruct PROVE IInv'
<1>1. /\ item.shape = "tuple struct" /\ item \in Items
      /\ Finish(UnnamedErrors \union {e \in At({0}, "attribute") : item.attrs = "bad"})
  BY DEF ParseTupleStruct, IInv, TypeOK
<1>. QED
  BY <1>1, OfTuple, FinishHolds

LEMMA RejectUnionHolds == ASSUME IInv, RejectUnion PROVE IInv'
<1>1. item.shape = "union" /\ item \in Items /\ Finish(At({0}, "union"))
  BY DEF RejectUnion, IInv, TypeOK
<1>. QED
  BY <1>1, OfUnion, FinishHolds

(* A selector is nameless only if nothing but a suffix could name it.       *)
LEMMA NamelessCause ==
  ASSUME item \in Items, NEW i \in DOMAIN item.parts,
         HasSelector(item.parts[i]), SelectorName(item.parts[i]) = << >>
  PROVE  Cause
<1>. DEFINE p == item.parts[i]
            suffix == IF p.suffix = "default" THEN item.suffix ELSE p.suffix
<1>1. item.parts \in Seq(Part)
  BY ItemIs, Zenon
<1>2. p \in Part /\ Len(item.parts) # 0
  BY <1>1
<1>3. i \in Parts
  <2>1. item.shape \notin {"tuple struct", "union"}
    <3>1. item.shape \in {"tuple struct", "union"} => item.parts = << >>
      BY ItemsAssumption
    <3>2. Len(<< >>) = 0
      OBVIOUS
    <3>. QED
      BY <1>2, <3>1, <3>2, Zenon
  <2>. QED
    BY <2>1, ShapesAre DEF Parts
<1>. HIDE DEF p
<1>4. p.selector # "name"
  <2>1. <<"Given">> # << >>
    OBVIOUS
  <2>. QED
    BY <2>1 DEF SelectorName, p
<1>5. p.selector = "context"
  BY <1>4 DEF HasSelector, p
<1>6. p.name \in Name
  BY <1>2 DEF Part
<1>7. PICK k \in 0 .. Len(p.name) : /\ Ends(p.name, Len(p.name), k)
                                    /\ StripError(p.name) = SubSeq(p.name, 1, k)
  BY <1>6, StripIs
<1>8. SubSeq(p.name, 1, k) \o ResolveSuffix(p.suffix, item.suffix) = << >>
  BY <1>4, <1>7 DEF SelectorName, p
<1>9. ResolveSuffix(p.suffix, item.suffix) =
        IF suffix = "none" THEN << >> ELSE <<IF suffix = "Ctx" THEN "Ctx" ELSE "Snafu">>
  BY <1>2, SuffixIs
<1>. HIDE DEF suffix
<1>10. SubSeq(p.name, 1, k) \in Seq(Words) /\ Len(SubSeq(p.name, 1, k)) = k /\ k \in Nat
  BY <1>6 DEF Name, Words
<1>11. suffix = "none" /\ k = 0
  <2>1. CASE suffix = "none"
    <3>1. SubSeq(p.name, 1, k) = << >>
      BY <1>8, <1>9, <1>10, <2>1
    <3>. QED
      BY <1>10, <2>1, <3>1
  <2>2. CASE suffix # "none"
    <3>1. ASSUME NEW s \in Seq(Words), NEW w \in Words PROVE s \o <<w>> # << >>
      OBVIOUS
    <3>2. "Ctx" \in Words /\ "Snafu" \in Words
      BY DEF Words
    <3>. QED
      BY <1>8, <1>9, <1>10, <2>2, <3>1, <3>2
  <2>. QED
    BY <2>1, <2>2
<1>12. \A j \in DOMAIN p.name : p.name[j] = "Error"
  <2>1. DOMAIN p.name = 1 .. Len(p.name)
    BY <1>6 DEF Name
  <2>. QED
    BY <1>7, <1>11, <2>1 DEF Ends
<1>. QED
  BY <1>3, <1>5, <1>11, <1>12 DEF Cause, p, suffix
(* What is generated is there for every part.                               *)
LEMMA GeneratedIs ==
  ASSUME item \in Items
  PROVE  [i \in DOMAIN item.parts |-> Generated(item.parts[i])] \in Seq(Code)
<1>1. item.parts \in Seq(Part)
  BY ItemIs, Zenon
<1>2. \A i \in DOMAIN item.parts : Generated(item.parts[i]) \in Code
  BY <1>1, CodeTyped
<1>3. DOMAIN item.parts = 1 .. Len(item.parts) /\ Len(item.parts) \in Nat
  BY <1>1
<1>. QED
  BY <1>2, <1>3

LEMMA ExpandHolds == ASSUME IInv, Expand PROVE IInv'
<1>1. stage = "parsed" /\ item \in Items
  BY DEF Expand, IInv, TypeOK
<1>2. CASE /\ \E i \in DOMAIN item.parts : HasSelector(item.parts[i])
                                           /\ SelectorName(item.parts[i]) = << >>
           /\ Panic
  BY <1>1, <1>2, NamelessCause, PanicHolds
<1>3. CASE /\ \A i \in DOMAIN item.parts : HasSelector(item.parts[i])
                                           => SelectorName(item.parts[i]) # << >>
           /\ stage' = "expanded"
           /\ code' = [i \in DOMAIN item.parts |-> Generated(item.parts[i])]
           /\ UNCHANGED <<item, next, errors>>
  <2>1. /\ Mistakes' = Mistakes
        /\ \A p : Generated(p)' = Generated(p) /\ SelectorName(p)' = SelectorName(p)
    BY <1>3, ItemKept
  <2>2. code' \in Seq(Code)
    BY <1>1, <1>3, GeneratedIs
  <2>3. TypeOK'
    BY <1>3, <2>2 DEF IInv, TypeOK
  <2>4. Mistakes = {}
    BY <1>1 DEF IInv, Parsed
  <2>5. Parsed'
    BY <1>3, <2>1, <2>4 DEF Parsed
  <2>6. Expanded'
    <3>1. \A p : HasSelector(p)' <=> HasSelector(p)
      BY DEF HasSelector
    <3>. QED
      BY <1>3, <2>1, <3>1 DEF Expanded
  <2>. QED
    BY <1>3, <2>3, <2>5, <2>6 DEF IInv, Parsing
<1>. QED
  BY <1>2, <1>3 DEF Expand

LEMMA StutterHolds == ASSUME IInv, UNCHANGED vars PROVE IInv'
<1>1. /\ item' = item /\ next' = next /\ errors' = errors /\ stage' = stage
      /\ code' = code
  BY DEF vars
<1>2. TypeOK'
  BY <1>1 DEF IInv, TypeOK
<1>3. Parsing'
  BY <1>1, ItemKept DEF IInv, Parsing
<1>4. Parsed'
  BY <1>1, ItemKept DEF IInv, Parsed
<1>5. Expanded'
  <2>1. \A p : HasSelector(p)' <=> HasSelector(p)
    BY DEF HasSelector
  <2>. QED
    BY <1>1, <2>1, ItemKept DEF IInv, Expanded
<1>. QED
  BY <1>2, <1>3, <1>4, <1>5 DEF IInv

LEMMA StepHolds == IInv /\ [Next]_vars => IInv'
<1>. SUFFICES ASSUME IInv, [Next]_vars PROVE IInv'
  OBVIOUS
<1>1. CASE ParseVariant
  BY <1>1, ParseVariantHolds
<1>2. CASE FinishEnum
  BY <1>2, FinishEnumHolds
<1>3. CASE ParseNamedStruct
  BY <1>3, ParseNamedStructHolds
<1>4. CASE ParseTupleStruct
  BY <1>4, ParseTupleStructHolds
<1>5. CASE RejectUnion
  BY <1>5, RejectUnionHolds
<1>6. CASE Expand
  BY <1>6, ExpandHolds
<1>7. CASE Done
  BY <1>7, StutterHolds DEF Done
<1>8. CASE UNCHANGED vars
  BY <1>8, StutterHolds
<1>. QED
  BY <1>1, <1>2, <1>3, <1>4, <1>5, <1>6, <1>7, <1>8, Zenon DEF Next

(* What has been reported is always what is wrong with the parts seen so    *)
(* far, in the end all that is wrong with the item; and what is generated   *)
(* is generated from the item alone (enum_impl.rs:79-115, lib.rs:107-121).  *)
THEOREM Inductive == Spec => []IInv
<1>. QED
  BY InitHolds, StepHolds, PTL DEF Spec

(* Positions, diagnostics and names stay what the code takes them for.      *)
THEOREM Typed == Spec => []TypeOK
<1>1. IInv => TypeOK
  BY DEF IInv
<1>. QED
  BY <1>1, Inductive, PTL

-----------------------------------------------------------------------------
(* The properties.                                                          *)

(* Something is wrong with a part if the parser finds something.            *)
LEMMA WrongPartIs ==
  ASSUME NEW p \in Part
  PROVE  /\ WrongPart(p) <=> PartErrors(p) # {}
         /\ p.attrs = "bad" <=> "attribute" \in PartErrors(p)
         /\ p.shape = "unnamed" <=> "unnamed fields" \in PartErrors(p)
         /\ "field" \in PartErrors(p) => PartErrors(p) = {"field"}
<1>1. /\ "attribute" \in HeaderErrors(p) <=> p.attrs = "bad"
      /\ "unnamed fields" \in HeaderErrors(p) <=> p.shape = "unnamed"
      /\ "field" \notin HeaderErrors(p)
      /\ HeaderErrors(p) # {} <=> p.attrs = "bad" \/ p.shape = "unnamed"
  BY DEF HeaderErrors
<1>2. CASE HeaderErrors(p) # {}
  BY <1>1, <1>2 DEF PartErrors, WrongPart
<1>3. CASE HeaderErrors(p) = {}
  BY <1>1, <1>3 DEF PartErrors, WrongPart
<1>. QED
  BY <1>2, <1>3

LEMMA Single ==
  ASSUME NEW S, NEW s \in Seq(S), NEW t \in S
  PROVE  s = <<t>> <=> Len(s) = 1 /\ s[1] = t
<1>1. <<t>> \in Seq(S) /\ Len(<<t>>) = 1 /\ <<t>>[1] = t
  OBVIOUS
<1>2. ASSUME Len(s) = 1, s[1] = t PROVE s = <<t>>
  <2>1. \A i \in 1 .. 1 : i = 1
    OBVIOUS
  <2>. QED
    BY <1>1, <1>2, <2>1, SeqEqual
<1>. QED
  BY <1>1, <1>2

(* The unnamed fields that are complained about, if it is not the lack of   *)
(* any.                                                                     *)
LEMMA WrongUnnamed ==
  ASSUME item \in Items
  PROVE  /\ UnnamedErrors = {} <=> item.unnamed = <<"ok">>
         /\ \A e \in UnnamedErrors : e.at # 0 =>
              e.at \in DOMAIN item.unnamed /\ (e.at > 1 \/ item.unnamed = <<"bad">>)
         /\ \A i \in DOMAIN item.unnamed :
              (i > 1 \/ item.unnamed = <<"bad">>) => \E e \in UnnamedErrors : e.at = i
<1>. DEFINE u == item.unnamed
<1>1. u \in Seq({"ok", "bad"})
  BY ItemIs, Zenon
<1>2. /\ Len(u) \in Nat /\ DOMAIN u = 1 .. Len(u)
      /\ \A i \in DOMAIN u : u[i] \in {"ok", "bad"}
  BY <1>1
<1>3. /\ Len(u) = 0 => UnnamedErrors = At({0}, "exactly one field")
      /\ Len(u) = 1 => UnnamedErrors = At({i \in {1} : u[1] = "bad"}, "attribute")
      /\ Len(u) # 0 /\ Len(u) # 1 => UnnamedErrors = At(2 .. Len(u), "exactly one field")
  BY UnnamedAre
<1>4. /\ u = <<"ok">> <=> Len(u) = 1 /\ u[1] = "ok"
      /\ u = <<"bad">> <=> Len(u) = 1 /\ u[1] = "bad"
  <2>. HIDE DEF u
  <2>1. \A t \in {"ok", "bad"} : u = <<t>> <=> Len(u) = 1 /\ u[1] = t
    <3>. DEFINE S == {"ok", "bad"}
    <3>1. u \in Seq(S)
      BY <1>1
    <3>. HIDE DEF S
    <3>2. ASSUME NEW t \in S PROVE u = <<t>> <=> Len(u) = 1 /\ u[1] = t
      BY <3>1, Single
    <3>. QED
      BY <3>2 DEF S
  <2>2. "ok" \in {"ok", "bad"} /\ "bad" \in {"ok", "bad"}
    OBVIOUS
  <2>. QED
    BY <2>1, <2>2
<1>. HIDE DEF u
<1>. DEFINE Claim == /\ UnnamedErrors = {} <=> u = <<"ok">>
                     /\ \A e \in UnnamedErrors : e.at # 0 =>
                          e.at \in DOMAIN u /\ (e.at > 1 \/ u = <<"bad">>)
                     /\ \A i \in DOMAIN u :
                          (i > 1 \/ u = <<"bad">>) => \E e \in UnnamedErrors : e.at = i
<1>5. ASSUME Len(u) = 0 PROVE Claim
  <2>1. DOMAIN u = {}
    BY <1>2, <1>5
  <2>2. UnnamedErrors = {[at |-> 0, text |-> "exactly one field"]}
    BY <1>3, <1>5 DEF At
  <2>3. UnnamedErrors # {} /\ \A e \in UnnamedErrors : e.at = 0
    <3>1. [at |-> 0, text |-> "exactly one field"].at = 0
      OBVIOUS
    <3>. QED
      BY <2>2, <3>1, Zenon
  <2>. QED
    BY <1>4, <1>5, <2>1, <2>3
<1>6. ASSUME Len(u) = 1 PROVE Claim
  <2>1. DOMAIN u = {1} /\ u[1] \in {"ok", "bad"}
    BY <1>2, <1>6
  <2>2. CASE u[1] = "bad"
    <3>1. UnnamedErrors = {[at |-> 1, text |-> "attribute"]}
      BY <1>3, <1>6, <2>2 DEF At
    <3>2. u = <<"bad">> /\ u # <<"ok">>
      BY <1>4, <1>6, <2>2
    <3>3. UnnamedErrors # {} /\ (\A e \in UnnamedErrors : e.at = 1)
          /\ \E e \in UnnamedErrors : e.at = 1
      BY <3>1
    <3>. QED
      BY <2>1, <3>2, <3>3
  <2>3. CASE u[1] = "ok"
    <3>1. UnnamedErrors = {}
      BY <1>3, <1>6, <2>3 DEF At
    <3>2. u # <<"bad">> /\ u = <<"ok">>
      BY <1>4, <1>6, <2>3
    <3>. QED
      BY <2>1, <3>1, <3>2
  <2>. QED
    BY <2>1, <2>2, <2>3
<1>7. ASSUME Len(u) # 0, Len(u) # 1 PROVE Claim
  <2>1. UnnamedErrors = {[at |-> i, text |-> "exactly one field"] : i \in 2 .. Len(u)}
    BY <1>3, <1>7 DEF At
  <2>2. 2 \in 2 .. Len(u) /\ \A i \in 2 .. Len(u) : i \in DOMAIN u /\ i > 1
    BY <1>2, <1>7
  <2>3. \A i \in DOMAIN u : i > 1 => i \in 2 .. Len(u)
    BY <1>2
  <2>4. u # <<"ok">> /\ u # <<"bad">>
    BY <1>4, <1>7
  <2>5. UnnamedErrors # {}
    BY <2>1, <2>2
  <2>6. ASSUME NEW e \in UnnamedErrors PROVE e.at \in DOMAIN u /\ e.at > 1
    <3>1. PICK i \in 2 .. Len(u) : e = [at |-> i, text |-> "exactly one field"]
      BY <2>1, Zenon
    <3>2. e.at = i
      BY <3>1
    <3>. QED
      BY <2>2, <3>2
  <2>7. ASSUME NEW i \in DOMAIN u, i > 1 PROVE \E e \in UnnamedErrors : e.at = i
    <3>1. i \in 2 .. Len(u)
      BY <2>3, <2>7
    <3>2. [at |-> i, text |-> "exactly one field"] \in UnnamedErrors
      BY <2>1, <3>1
    <3>. QED
      BY <3>2
  <2>. QED
    BY <2>4, <2>5, <2>6, <2>7
<1>. QED
  BY <1>5, <1>6, <1>7 DEF u

(* There is a mistake to report if something is wrong.                      *)
LEMMA WrongIs == ASSUME item \in Items PROVE WrongItem <=> Mistakes # {}
<1>1. MaxParts \in Nat
  BY MaxPartsAssumption
<1>2. ASSUME WrongItem PROVE \E e : e \in Mistakes
  <2>1. CASE item.shape = "union"
    <3>1. [at |-> 0, text |-> "union"] \in At({0}, "union")
      BY DEF At
    <3>. QED
      BY <2>1, <3>1, OfUnion
  <2>2. CASE item.shape = "enum" /\ item.attrs = "bad"
    <3>1. [at |-> 0, text |-> "attribute"] \in At({0}, "attribute")
      BY DEF At
    <3>. QED
      BY <2>2, <3>1, OfItem
  <2>3. CASE item.shape = "tuple struct" /\ item.attrs = "bad"
    <3>1. [at |-> 0, text |-> "attribute"] \in At({0}, "attribute")
      BY DEF At
    <3>. QED
      BY <2>3, <3>1, OfTuple
  <2>4. CASE item.shape = "tuple struct" /\ item.unnamed # <<"ok">>
    <3>1. PICK e : e \in UnnamedErrors
      BY <2>4, WrongUnnamed
    <3>. QED
      BY <2>4, <3>1, OfTuple
  <2>5. CASE \E i \in Parts : WrongPart(item.parts[i])
    <3>1. PICK i \in Parts : WrongPart(item.parts[i])
      BY <2>5
    <3>2. item.parts[i] \in Part
      BY PartsAre
    <3>3. PICK t : t \in PartErrors(item.parts[i])
      BY <3>1, <3>2, WrongPartIs
    <3>4. [at |-> i, text |-> t] \in Diagnosed(i, PartErrors(item.parts[i]))
      BY <3>3, DiagnosedIs
    <3>. QED
      BY <3>4, OfPart
  <2>. QED
    BY <1>2, <2>1, <2>2, <2>3, <2>4, <2>5 DEF WrongItem
<1>3. ASSUME NEW e \in Mistakes PROVE WrongItem
  <2>1. CASE e.at \in Parts /\ e.text \in PartErrors(item.parts[e.at])
    <3>1. item.parts[e.at] \in Part
      BY <2>1, PartsAre
    <3>. QED
      BY <2>1, <3>1, WrongPartIs DEF WrongItem
  <2>2. CASE item.shape \in {"enum", "tuple struct"} /\ item.attrs = "bad"
    BY <2>2 DEF WrongItem
  <2>3. CASE item.shape = "union"
    BY <2>3 DEF WrongItem
  <2>4. CASE item.shape = "tuple struct" /\ e \in UnnamedErrors
    BY <2>4, WrongUnnamed DEF WrongItem
  <2>. QED
    BY <2>1, <2>2, <2>3, <2>4 DEF Mistakes, Due
<1>. QED
  BY <1>2, <1>3

(* An item is expanded if it has no mistake, rejected only if it has one,   *)
(* and the macro panics only over an argument that is no identifier or a    *)
(* selector that nothing names (enum_impl.rs:79-115, lib.rs:107-121).       *)
THEOREM RejectedOrExpanded == Spec => []RejectedForCause
<1>1. ASSUME IInv PROVE RejectedForCause
  <2>1. item \in Items /\ Parsed
    BY <1>1 DEF IInv, TypeOK
  <2>. QED
    BY <2>1, WrongIs DEF RejectedForCause, Parsed, Cause
<1>. QED
  BY <1>1, Inductive, PTL
(* The texts found for a part.                                              *)
LEMMA TextsAre ==
  ASSUME item \in Items, NEW i \in Parts
  PROVE  {e.text : e \in {d \in Mistakes : d.at = i}} = PartErrors(item.parts[i])
<1>1. \A e : e \in {d \in Mistakes : d.at = i}
             <=> \E t \in PartErrors(item.parts[i]) : e = [at |-> i, text |-> t]
  BY OfPart, DiagnosedIs
<1>2. \A t : [at |-> i, text |-> t].text = t
  OBVIOUS
<1>. DEFINE texts == {e.text : e \in {d \in Mistakes : d.at = i}}
<1>3. ASSUME NEW t \in texts PROVE t \in PartErrors(item.parts[i])
  <2>1. PICK e \in {d \in Mistakes : d.at = i} : t = e.text
    BY Zenon
  <2>2. PICK u \in PartErrors(item.parts[i]) : e = [at |-> i, text |-> u]
    BY <1>1, <2>1
  <2>. QED
    BY <1>2, <2>1, <2>2
<1>4. ASSUME NEW t \in PartErrors(item.parts[i]) PROVE t \in texts
  <2>1. [at |-> i, text |-> t] \in {d \in Mistakes : d.at = i}
    BY <1>1, Zenon
  <2>. QED
    BY <1>2, <2>1, Zenon
<1>. HIDE DEF texts
<1>5. texts = PartErrors(item.parts[i])
  BY <1>3, <1>4
<1>. QED
  BY <1>5 DEF texts

(* One compilation tells the user about every part that is wrong and about  *)
(* the item's own attributes (enum_impl.rs:79-115, parse.rs:1196-1288).     *)
THEOREM TellsOfEveryPart == Spec => []EveryPartHeard
<1>1. ASSUME IInv, stage = "rejected" PROVE EveryPartHeard
  <2>1. item \in Items /\ errors = Mistakes
    BY <1>1 DEF IInv, TypeOK, Parsed
  <2>. DEFINE surplus == IF item.shape = "tuple struct"
                         THEN {i \in DOMAIN item.unnamed : i > 1 \/ (item.unnamed = <<"bad">>)}
                         ELSE {}
              due == {i \in Parts : WrongPart(item.parts[i])} \union surplus
              heard == {e.at : e \in errors} \ {0}
  <2>2. ASSUME NEW i \in heard PROVE i \in due
    <3>1. PICK e \in Mistakes : e.at = i /\ i # 0
      BY <2>1
    <3>2. CASE e.at \in Parts /\ e.text \in PartErrors(item.parts[e.at])
      <4>1. item.parts[e.at] \in Part
        BY <2>1, <3>2, PartsAre
      <4>. QED
        BY <3>1, <3>2, <4>1, WrongPartIs
    <3>3. CASE item.shape = "tuple struct" /\ e \in UnnamedErrors
      BY <2>1, <3>1, <3>3, WrongUnnamed
    <3>. QED
      BY <3>1, <3>2, <3>3 DEF Mistakes, Due
  <2>3. ASSUME NEW i \in due PROVE i \in heard
    <3>1. CASE i \in Parts /\ WrongPart(item.parts[i])
      <4>1. item.parts[i] \in Part /\ i \in 1 .. MaxParts
        BY <2>1, <3>1, PartsAre
      <4>2. i # 0
        BY <2>1, <3>1, NotZero, Zenon
      <4>3. PICK t : t \in PartErrors(item.parts[i])
        BY <3>1, <4>1, WrongPartIs
      <4>4. [at |-> i, text |-> t] \in Diagnosed(i, PartErrors(item.parts[i]))
        BY <4>3, DiagnosedIs
      <4>5. \E e \in Mistakes : e.at = i
        BY <2>1, <3>1, <4>4, OfPart
      <4>. QED
        BY <2>1, <4>2, <4>5
    <3>2. CASE i \in surplus
      <4>1. item.shape = "tuple struct" /\ i \in DOMAIN item.unnamed
            /\ (i > 1 \/ item.unnamed = <<"bad">>)
        BY <3>2
      <4>2. PICK e \in UnnamedErrors : e.at = i
        BY <2>1, <4>1, WrongUnnamed
      <4>3. e \in Mistakes
        BY <2>1, <4>1, OfTuple
      <4>4. i # 0
        BY <2>1, <4>1, NotZero, Zenon
      <4>. QED
        BY <2>1, <4>2, <4>3, <4>4
    <3>. QED
      BY <3>1, <3>2
  <2>4. heard = due
    <3>. HIDE DEF heard, due
    <3>. QED
      BY <2>2, <2>3
  <2>5. item.shape \in {"enum", "tuple struct"} /\ item.attrs = "bad" =>
          \E e \in errors : e = [at |-> 0, text |-> "attribute"]
    <3>1. [at |-> 0, text |-> "attribute"] \in At({0}, "attribute")
      BY DEF At
    <3>. QED
      BY <2>1, <3>1, OfItem, OfTuple
  <2>6. ASSUME NEW i \in Parts
        PROVE  LET texts == {e.text : e \in {d \in errors : d.at = i}} IN
                 /\ item.parts[i].attrs = "bad" <=> "attribute" \in texts
                 /\ item.parts[i].shape = "unnamed" <=> "unnamed fields" \in texts
                 /\ "field" \in texts => texts = {"field"}
    <3>. DEFINE texts == {e.text : e \in {d \in errors : d.at = i}}
    <3>1. texts = PartErrors(item.parts[i])
      BY <2>1, TextsAre
    <3>2. item.parts[i] \in Part
      BY <2>1, PartsAre
    <3>. HIDE DEF texts
    <3>3. /\ item.parts[i].attrs = "bad" <=> "attribute" \in texts
          /\ item.parts[i].shape = "unnamed" <=> "unnamed fields" \in texts
          /\ "field" \in texts => texts = {"field"}
      BY <3>1, <3>2, WrongPartIs
    <3>. QED
      BY <3>3 DEF texts
  <2>. HIDE DEF heard, due, surplus
  <2>7. heard = {i \in Parts : WrongPart(item.parts[i])} \union surplus
    BY <2>4 DEF due
  <2>. QED
    BY <2>5, <2>6, <2>7, Zenon DEF EveryPartHeard, heard, surplus
<1>2. IInv => EveryPartHeard
  BY <1>1 DEF EveryPartHeard
<1>. QED
  BY <1>2, Inductive, PTL

(* A selector has the name that was given, or that of the variant without   *)
(* any `Error` at its end, and a suffix (Snafu.md:120-159).                 *)
THEOREM NamesSelectors == Spec => []NamesAsDocumented
<1>1. ASSUME IInv, stage = "expanded", NEW i \in Parts
      PROVE  LET p == item.parts[i] IN
               /\ code[i].named <=> p.selector \in {"context", "name"}
               /\ code[i].named => code[i].name # << >>
               /\ p.selector = "name" => code[i].name = <<"Given">>
               /\ p.selector = "context" =>
                    \E n \in 0 .. Len(p.name) :
                      LET base == SubSeq(p.name, 1, n)
                          suffix == IF p.suffix = "default" THEN item.suffix ELSE p.suffix
                      IN  /\ n > 0 => base[n] # "Error"
                          /\ \A j \in n + 1 .. Len(p.name) : p.name[j] = "Error"
                          /\ code[i].name = IF suffix = "none" THEN base
                                            ELSE Append(base, IF suffix = "Ctx" THEN "Ctx"
                                                              ELSE "Snafu")
  <2>. DEFINE p == item.parts[i]
              suffix == IF p.suffix = "default" THEN item.suffix ELSE p.suffix
              added == IF suffix = "Ctx" THEN "Ctx" ELSE "Snafu"
  <2>1. item \in Items /\ Expanded
    BY <1>1 DEF IInv, TypeOK
  <2>2. i \in DOMAIN item.parts /\ p \in Part
    BY <2>1, PartsAre DEF Parts
  <2>3. /\ code[i] = Generated(p)
        /\ HasSelector(p) => SelectorName(p) # << >>
    BY <1>1, <2>1, <2>2 DEF Expanded
  <2>. HIDE DEF p
  <2>4. /\ code[i].named = HasSelector(p)
        /\ code[i].name = IF HasSelector(p) THEN SelectorName(p) ELSE << >>
    BY <2>3 DEF Generated
  <2>5. HasSelector(p) <=> p.selector \in {"context", "name"}
    BY DEF HasSelector
  <2>6. p.selector = "name" => code[i].name = <<"Given">>
    BY <2>4, <2>5 DEF SelectorName
  <2>7. ASSUME p.selector = "context"
        PROVE  \E n \in 0 .. Len(p.name) :
                 /\ n > 0 => SubSeq(p.name, 1, n)[n] # "Error"
                 /\ \A j \in n + 1 .. Len(p.name) : p.name[j] = "Error"
                 /\ code[i].name = IF suffix = "none" THEN SubSeq(p.name, 1, n)
                                   ELSE Append(SubSeq(p.name, 1, n), added)
    <3>1. p.name \in Name
      BY <2>2 DEF Part
    <3>2. PICK n \in 0 .. Len(p.name) : /\ Ends(p.name, Len(p.name), n)
                                        /\ StripError(p.name) = SubSeq(p.name, 1, n)
      BY <3>1, StripIs
    <3>. DEFINE base == SubSeq(p.name, 1, n)
    <3>3. base \in Seq(Words) /\ Len(base) = n /\ n \in Nat
          /\ \A j \in 1 .. n : base[j] = p.name[j]
      BY <3>1 DEF Name, Words
    <3>4. n > 0 => base[n] # "Error"
      <4>1. n > 0 => n \in 1 .. n
        BY <3>3
      <4>. QED
        BY <3>2, <3>3, <4>1 DEF Ends
    <3>5. \A j \in n + 1 .. Len(p.name) : p.name[j] = "Error"
      BY <3>2 DEF Ends
    <3>6. code[i].name = base \o ResolveSuffix(p.suffix, item.suffix)
      BY <2>4, <2>5, <2>7, <3>2 DEF SelectorName
    <3>7. ResolveSuffix(p.suffix, item.suffix) = IF suffix = "none" THEN << >> ELSE <<added>>
      BY <2>1, <2>2, SuffixIs
    <3>. HIDE DEF base, suffix, added
    <3>8. ASSUME NEW w PROVE base \o << >> = base /\ base \o <<w>> = Append(base, w)
      BY <3>3
    <3>9. code[i].name = IF suffix = "none" THEN base ELSE Append(base, added)
      BY <3>6, <3>7, <3>8
    <3>. QED
      BY <3>4, <3>5, <3>9 DEF base
  <2>. QED
    BY <2>3, <2>4, <2>5, <2>6, <2>7, Zenon DEF p
<1>2. IInv => NamesAsDocumented
  BY <1>1 DEF NamesAsDocumented
<1>. QED
  BY <1>2, Inductive, PTL

(* How far a selector reaches.                                              *)
LEMMA ReachIs ==
  ASSUME item \in Items, item.shape \in {"enum", "struct"}, NEW p \in Part
  PROVE  LET own == p.visibility
             shared == IF item.shape = "enum" THEN item.visibility ELSE own
             written == IF own = "unset" THEN shared ELSE own
         IN  /\ written = "unset" => SelectorReach(p) = ErrorModule
             /\ written = shared /\ written \in {"pub(crate)", "pub"} =>
                  SelectorReach(p) = IF written = "pub" THEN 5 ELSE 4
             /\ item.module /\ shared \in {"unset", "private"} =>
                  SelectorReach(p) <= ErrorModule
             /\ SelectorReach(p) < ErrorModule => item.module /\ written = "private"
<1>. DEFINE own == p.visibility
            shared == IF item.shape = "enum" THEN item.visibility ELSE own
            written == IF own = "unset" THEN shared ELSE own
            selector == IF written # "unset" THEN written
                        ELSE IF item.module THEN "pub(super)" ELSE "unset"
            Smaller(m, n) == IF m < n THEN m ELSE n
<1>1. own \in Visibility /\ item.visibility \in Visibility
  BY ItemIs DEF Part
<1>2. item.shape = "struct" => item.visibility = "unset"
  BY ItemsAssumption
<1>3. SelectorVisibility(p) = selector
  BY <1>2 DEF SelectorVisibility
<1>4. ModuleVisibility(p) = shared
  BY DEF ModuleVisibility
<1>5. SelectorReach(p) = IF item.module THEN Smaller(ReachOf(selector, 1), ReachOf(shared, 2))
                         ELSE ReachOf(selector, 2)
  BY <1>3, <1>4 DEF SelectorReach, ContextModule, ErrorModule
<1>6. \A m \in Nat : /\ ReachOf("unset", m) = m /\ ReachOf("private", m) = m
                     /\ ReachOf("pub(super)", m) = m + 1
                     /\ ReachOf("pub(crate)", m) = 4 /\ ReachOf("pub", m) = 5
  BY DEF ReachOf
<1>7. shared \in Visibility /\ written \in Visibility
  BY <1>1
<1>8. written = shared \/ written # "unset"
  OBVIOUS
<1>. HIDE DEF own, shared, written
<1>9. /\ written = "unset" => SelectorReach(p) = 2
      /\ written = shared /\ written = "pub" => SelectorReach(p) = 5
      /\ written = shared /\ written = "pub(crate)" => SelectorReach(p) = 4
  BY <1>5, <1>6, <1>8
<1>10. item.module /\ shared \in {"unset", "private"} => SelectorReach(p) <= 2
  BY <1>5, <1>6, <1>7 DEF Visibility
<1>11. SelectorReach(p) < 2 => item.module /\ written = "private"
  BY <1>5, <1>6, <1>7 DEF Visibility
<1>. QED
  BY <1>9, <1>10, <1>11 DEF ErrorModule, own, shared, written

(* Left alone, a selector is for the module of its error and no other; a    *)
(* visibility given to the whole error means the same with a context module *)
(* as without one; and one on a variant never takes its selector out of a   *)
(* module that is private (Snafu.md:294-314, 403-407).                      *)
THEOREM ReachesAsMeant == Spec => []ReachesAsWritten
<1>1. ASSUME IInv, stage = "expanded", NEW i \in {j \in Parts : code[j].named}
      PROVE  LET own == item.parts[i].visibility
                 shared == IF item.shape = "enum" THEN item.visibility ELSE own
                 written == IF own = "unset" THEN shared ELSE own
             IN  /\ written = "unset" => code[i].reach = ErrorModule
                 /\ written = shared /\ written \in {"pub(crate)", "pub"} =>
                      code[i].reach = IF written = "pub" THEN 5 ELSE 4
                 /\ item.module /\ shared \in {"unset", "private"} =>
                      code[i].reach <= ErrorModule
                 /\ code[i].reach < ErrorModule => item.module /\ written = "private"
  <2>1. item \in Items /\ Expanded
    BY <1>1 DEF IInv, TypeOK
  <2>2. i \in Parts /\ i \in DOMAIN item.parts /\ item.shape \in {"enum", "struct"}
    BY DEF Parts
  <2>3. item.parts[i] \in Part
    BY <2>1, <2>2, PartsAre
  <2>4. code[i].reach = SelectorReach(item.parts[i])
    <3>1. code[i] = Generated(item.parts[i])
      BY <1>1, <2>1, <2>2 DEF Expanded
    <3>2. \A p : Generated(p).reach = SelectorReach(p)
      BY DEF Generated
    <3>. QED
      BY <3>1, <3>2
  <2>. QED
    BY <2>1, <2>2, <2>3, <2>4, ReachIs, Zenon
<1>2. IInv => ReachesAsWritten
  BY <1>1 DEF ReachesAsWritten
<1>. QED
  BY <1>2, Inductive, PTL

-----------------------------------------------------------------------------
(* Format strings: what is read out of one.                                 *)

Text == Seq(Character)

LEMMA FindIs ==
  ASSUME NEW s \in Text, NEW c, NEW i \in Nat \ {0}
  PROVE  \/ Find(s, c, i) = 0 /\ \A j \in i .. Len(s) : s[j] # c
         \/ /\ Find(s, c, i) \in i .. Len(s) /\ s[Find(s, c, i)] = c
            /\ \A j \in i .. Find(s, c, i) - 1 : s[j] # c
<1>. DEFINE at == {j \in i .. Len(s) : s[j] = c}
<1>1. Len(s) \in Nat
  BY DEF Text
<1>2. Find(s, c, i) = IF at = {} THEN 0 ELSE Min(at)
  BY DEF Find
<1>3. CASE at = {}
  BY <1>2, <1>3
<1>4. CASE at # {}
  <2>1. at \in SUBSET Nat
    BY <1>1
  <2>2. PICK n \in at : \A m \in at : n <= m
    <3>. HIDE DEF at
    <3>. QED
      BY <1>4, <2>1, Smallest
  <2>3. Min(at) \in at /\ \A m \in at : Min(at) <= m
    <3>. HIDE DEF at
    <3>. QED
      BY <2>2 DEF Min
  <2>4. PICK f : f = Find(s, c, i)
    OBVIOUS
  <2>5. f \in at /\ \A m \in at : f <= m
    <3>. HIDE DEF at
    <3>. QED
      BY <1>2, <1>4, <2>3, <2>4
  <2>6. ASSUME NEW j \in i .. f - 1 PROVE s[j] # c
    <3>1. j \notin at
      BY <1>1, <2>5
    <3>. QED
      BY <1>1, <2>5, <3>1
  <2>. QED
    BY <2>4, <2>5, <2>6
<1>. QED
  BY <1>3, <1>4

(* How a row of the same characters goes on.                                *)
RowStart(s, i) == {j \in 1 .. i : \A k \in j .. i : s[k] = s[i]}

LEMMA RowStarts ==
  ASSUME NEW s \in Text, NEW i \in 1 .. Len(s)
  PROVE  /\ RowStart(s, i) \in SUBSET Nat /\ Min(RowStart(s, i)) \in RowStart(s, i)
         /\ \A m \in RowStart(s, i) : Min(RowStart(s, i)) <= m
         /\ Run(s, i) = i - Min(RowStart(s, i)) + 1 /\ Run(s, i) \in Nat
<1>1. Len(s) \in Nat
  BY DEF Text
<1>2. i \in RowStart(s, i) /\ RowStart(s, i) \in SUBSET Nat
  BY <1>1 DEF RowStart
<1>3. PICK n \in RowStart(s, i) : \A m \in RowStart(s, i) : n <= m
  BY <1>2, Smallest
<1>4. Min(RowStart(s, i)) \in RowStart(s, i)
      /\ \A m \in RowStart(s, i) : Min(RowStart(s, i)) <= m
  BY <1>3 DEF Min
<1>5. Run(s, i) = i - Min(RowStart(s, i)) + 1
  BY DEF Run, RowStart
<1>6. Min(RowStart(s, i)) \in 1 .. i
  BY <1>4 DEF RowStart
<1>. QED
  BY <1>1, <1>2, <1>4, <1>5, <1>6

LEMMA RowBegins ==
  ASSUME NEW s \in Text, NEW i \in 1 .. Len(s), i > 1 => s[i - 1] # s[i]
  PROVE  Run(s, i) = 1
<1>1. Len(s) \in Nat
  BY DEF Text
<1>2. ASSUME NEW m \in RowStart(s, i) PROVE m = i
  <2>1. m \in 1 .. i /\ \A k \in m .. i : s[k] = s[i]
    BY DEF RowStart
  <2>2. m < i => i - 1 \in m .. i
    BY <1>1, <2>1
  <2>. QED
    BY <1>1, <2>1, <2>2
<1>3. Min(RowStart(s, i)) = i
  BY <1>2, RowStarts
<1>. QED
  BY <1>1, <1>3, RowStarts

LEMMA RowGoesOn ==
  ASSUME NEW s \in Text, NEW i \in 2 .. Len(s), s[i - 1] = s[i]
  PROVE  Run(s, i) = Run(s, i - 1) + 1
<1>1. Len(s) \in Nat /\ i \in 1 .. Len(s) /\ i - 1 \in 1 .. Len(s)
  BY DEF Text
<1>2. PICK a, b : a = Min(RowStart(s, i)) /\ b = Min(RowStart(s, i - 1))
  OBVIOUS
<1>3. /\ a \in RowStart(s, i) /\ (\A m \in RowStart(s, i) : a <= m)
      /\ Run(s, i) = i - a + 1
  BY <1>1, <1>2, RowStarts
<1>4. /\ b \in RowStart(s, i - 1) /\ (\A m \in RowStart(s, i - 1) : b <= m)
      /\ Run(s, i - 1) = (i - 1) - b + 1
  BY <1>1, <1>2, RowStarts
<1>5. a \in 1 .. i /\ (\A k \in a .. i : s[k] = s[i]) /\ b \in 1 .. i - 1
      /\ (\A k \in b .. i - 1 : s[k] = s[i - 1])
  BY <1>3, <1>4 DEF RowStart
<1>6. b \in RowStart(s, i)
  <2>1. \A k \in b .. i : k \in b .. i - 1 \/ k = i
    BY <1>1, <1>5
  <2>. QED
    BY <1>1, <1>5, <2>1 DEF RowStart
<1>7. a <= b /\ a \in RowStart(s, i - 1)
  <2>1. a <= b
    BY <1>3, <1>6
  <2>2. a \in 1 .. i - 1 /\ \A k \in a .. i - 1 : k \in a .. i
    BY <1>1, <1>5, <2>1
  <2>. QED
    BY <1>5, <2>1, <2>2 DEF RowStart
<1>8. a = b
  BY <1>4, <1>5, <1>7
<1>. QED
  BY <1>1, <1>3, <1>4, <1>5, <1>8

(* The braces by name: the provers take no string that has one in it.       *)
Brace == "{"
Closing == "}"

LEMMA OpensAre ==
  ASSUME NEW s, NEW p
  PROVE  p \in Opens(s) <=> /\ p \in DOMAIN s /\ s[p] = Brace
                            /\ p < Len(s) => s[p + 1] # Brace
                            /\ Run(s, p) % 2 = 1
BY Zenon DEF Opens, Brace

LEMMA CloseIs == ASSUME NEW s, NEW o PROVE Close(s, o) = Find(s, Closing, o + 1)
BY Zenon DEF Close, Closing

(* One look for a name, from i on, given what is found further on.          *)
Look(s, f, i) ==
  LET open == Find(s, Brace, i)
      close == Find(s, Closing, open + 1)
      name == BeforeColon(SubSeq(s, open + 1, close - 1))
  IN  IF open = 0 THEN {}
      ELSE IF open < Len(s) /\ s[open + 1] = Brace THEN f[open + 2]
      ELSE IF close = 0 THEN {}
      ELSE {n \in {name} : n # << >>} \union f[open + 1]

(* A look needs nothing but what is found further on.                       *)
LEMMA LookIsAhead ==
  ASSUME NEW s \in Text, NEW i \in 1 .. Len(s) + 1, NEW f, NEW g,
         \A j \in (i + 1) .. Len(s) + 1 : f[j] = g[j]
  PROVE  Look(s, f, i) = Look(s, g, i)
<1>1. Len(s) \in Nat /\ i \in Nat \ {0}
  BY DEF Text
<1>2. PICK open : open = Find(s, Brace, i)
  OBVIOUS
<1>3. open = 0 \/ open \in i .. Len(s)
  BY <1>1, <1>2, FindIs
<1>4. open # 0 => f[open + 1] = g[open + 1]
  <2>1. open # 0 => open + 1 \in (i + 1) .. Len(s) + 1
    BY <1>1, <1>3
  <2>. QED
    BY <2>1
<1>5. open # 0 /\ open < Len(s) => f[open + 2] = g[open + 2]
  <2>1. open # 0 /\ open < Len(s) => open + 2 \in (i + 1) .. Len(s) + 1
    BY <1>1, <1>3
  <2>. QED
    BY <2>1
<1>. QED
  BY <1>2, <1>4, <1>5, Zenon DEF Look

(* The recursion of `extract_field_names` is well founded.                  *)
LEMMA LooksExist ==
  ASSUME NEW s \in Text
  PROVE  \E f : f = [i \in 1 .. Len(s) + 1 |-> Look(s, f, i)]
<1>. DEFINE N == Len(s)
            Ahead(n) == (N + 1 - n) .. N + 1
            Is(f, n) == f = [i \in Ahead(n) |-> Look(s, f, i)]
            S == {n \in 0 .. N : \E f : Is(f, n)}
<1>1. N \in Nat
  BY DEF Text
<1>. HIDE DEF N
<1>2. ASSUME NEW n \in 0 .. N, n > 0 => \E f : Is(f, n - 1) PROVE \E f : Is(f, n)
  <2>1. PICK i : i = N + 1 - n
    OBVIOUS
  <2>2. i \in 1 .. N + 1
    BY <1>1, <2>1
  <2>3. PICK g : n > 0 => Is(g, n - 1)
    BY <1>2
  <2>. DEFINE f == [j \in Ahead(n) |-> IF j = i THEN Look(s, g, i) ELSE g[j]]
  <2>4. Ahead(n) = i .. N + 1 /\ (n > 0 => Ahead(n - 1) = (i + 1) .. N + 1)
        /\ (n = 0 => i = N + 1)
    BY <1>1, <2>1
  <2>5. ASSUME NEW j \in (i + 1) .. N + 1 PROVE f[j] = g[j]
    BY <2>2, <2>4, <1>1
  <2>6. ASSUME NEW j \in Ahead(n) PROVE f[j] = Look(s, f, j)
    <3>1. j = i \/ (j \in (i + 1) .. N + 1 /\ n > 0)
      BY <1>1, <2>2, <2>4
    <3>2. j \in 1 .. Len(s) + 1 /\ \A k \in (j + 1) .. N + 1 : k \in (i + 1) .. N + 1
      BY <1>1, <2>2, <2>4 DEF N
    <3>3. \A k \in (j + 1) .. Len(s) + 1 : f[k] = g[k]
      <4>. HIDE DEF f
      <4>. QED
        BY <2>5, <3>2 DEF N
    <3>4. Look(s, f, j) = Look(s, g, j)
      <4>. HIDE DEF f
      <4>. QED
        BY <3>2, <3>3, LookIsAhead
    <3>5. CASE j = i
      <4>1. f[j] = Look(s, g, j)
        BY <3>5
      <4>. QED
        BY <3>4, <4>1
    <3>6. CASE j \in (i + 1) .. N + 1 /\ n > 0
      <4>1. g[j] = Look(s, g, j)
        <5>1. g = [k \in Ahead(n - 1) |-> Look(s, g, k)] /\ j \in Ahead(n - 1)
          BY <2>3, <2>4, <3>6
        <5>. QED
          BY <5>1
      <4>. QED
        BY <2>5, <3>4, <3>6, <4>1
    <3>. QED
      BY <3>1, <3>5, <3>6
  <2>7. f = [j \in Ahead(n) |-> f[j]]
    OBVIOUS
  <2>8. Is(f, n)
    <3>. HIDE DEF f
    <3>. QED
      BY <2>6, <2>7
  <2>. QED
    BY <2>8
<1>. HIDE DEF Is
<1>3. ASSUME NEW n \in 0 .. N, \A m \in 0 .. N : m < n => m \in S PROVE n \in S
  <2>1. n > 0 => n - 1 \in 0 .. N /\ n - 1 < n
    BY <1>1
  <2>2. n > 0 => \E f : Is(f, n - 1)
    BY <1>3, <2>1
  <2>. QED
    BY <1>2, <2>2
<1>4. 0 .. N \subseteq S
  <2>. HIDE DEF S
  <2>. QED
    BY <1>1, <1>3, UpTo
<1>5. \E f : Is(f, N)
  BY <1>1, <1>4
<1>6. Ahead(N) = 1 .. Len(s) + 1
  BY <1>1 DEF N
<1>. QED
  BY <1>5, <1>6 DEF Is

LEMMA NamesAre ==
  ASSUME NEW s \in Text
  PROVE  \E f : /\ extract_field_names(s) = f[1]
                /\ \A i \in 1 .. Len(s) + 1 : f[i] = Look(s, f, i)
<1>. DEFINE f == CHOOSE g : g = [i \in 1 .. Len(s) + 1 |-> Look(s, g, i)]
<1>1. extract_field_names(s) = f[1]
  BY Zenon DEF extract_field_names, Look, Brace, Closing
<1>2. f = [i \in 1 .. Len(s) + 1 |-> Look(s, f, i)]
  BY LooksExist
<1>. HIDE DEF f
<1>3. \A i \in 1 .. Len(s) + 1 : f[i] = Look(s, f, i)
  BY <1>2
<1>. QED
  BY <1>1, <1>3

(* No brace of an escape is still to come: the search starts over here.     *)
Afresh(s, i) == i \in 2 .. Len(s) /\ s[i] = Brace /\ s[i - 1] = Brace => Run(s, i - 1) % 2 = 0

OpensFrom(s, i) == {o \in Opens(s) : i <= o}
ArgumentsFrom(s, i) == {Argument(s, o) : o \in OpensFrom(s, i)} \ {<< >>}

LEMMA Halves ==
  ASSUME NEW n \in Nat
  PROVE  (n + 1) % 2 = 1 <=> n % 2 = 0
OBVIOUS

(* A brace found afresh is the first of an escape, or opens an argument.    *)
LEMMA OpenIs ==
  ASSUME NEW s \in Text, NEW i \in 1 .. Len(s) + 1, Afresh(s, i),
         NEW o, o = Find(s, Brace, i), o # 0
  PROVE  /\ o \in 1 .. Len(s) /\ i <= o
         /\ o < Len(s) /\ s[o + 1] = Brace => /\ Afresh(s, o + 2)
                                            /\ OpensFrom(s, i) = OpensFrom(s, o + 2)
         /\ ~(o < Len(s) /\ s[o + 1] = Brace) => /\ Afresh(s, o + 1)
                                               /\ o \in Opens(s)
                                               /\ OpensFrom(s, i) = OpensFrom(s, o + 1) \union {o}
<1>1. Len(s) \in Nat /\ i \in Nat \ {0}
  BY DEF Text
<1>2. o \in i .. Len(s) /\ s[o] = Brace /\ \A j \in i .. o - 1 : s[j] # Brace
  BY <1>1, FindIs
<1>3. o \in 1 .. Len(s) /\ i <= o /\ o \in Nat
  BY <1>1, <1>2
<1>4. Run(s, o) % 2 = 1
  <2>1. CASE o > 1 /\ s[o - 1] = Brace
    <3>1. o = i
      <4>1. o > i => o - 1 \in i .. o - 1
        BY <1>1, <1>3
      <4>. QED
        BY <1>1, <1>2, <1>3, <2>1, <4>1
    <3>2. Run(s, o - 1) % 2 = 0
      BY <1>2, <1>3, <2>1, <3>1 DEF Afresh
    <3>3. o \in 2 .. Len(s) /\ s[o - 1] = s[o] /\ o - 1 \in 1 .. Len(s)
      BY <1>1, <1>2, <1>3, <2>1
    <3>4. Run(s, o) = Run(s, o - 1) + 1 /\ Run(s, o - 1) \in Nat
      BY <3>3, RowGoesOn, RowStarts
    <3>. QED
      BY <3>2, <3>4, Halves
  <2>2. CASE o > 1 => s[o - 1] # Brace
    <3>1. Run(s, o) = 1
      BY <1>2, <1>3, <2>2, RowBegins
    <3>. QED
      BY <3>1
  <2>. QED
    BY <2>1, <2>2
<1>5. \A p \in OpensFrom(s, i) : p \in 1 .. Len(s) /\ o <= p /\ s[p] = Brace
  <2>. SUFFICES ASSUME NEW p \in OpensFrom(s, i)
                PROVE  p \in 1 .. Len(s) /\ o <= p /\ s[p] = Brace
    OBVIOUS
  <2>1. p \in 1 .. Len(s) /\ i <= p /\ s[p] = Brace
    BY OpensAre DEF OpensFrom, Text
  <2>2. p < o => p \in i .. o - 1
    BY <1>1, <1>3, <2>1
  <2>. QED
    BY <1>1, <1>2, <1>3, <2>1, <2>2
<1>6. ASSUME o < Len(s), s[o + 1] = Brace
      PROVE  Afresh(s, o + 2) /\ OpensFrom(s, i) = OpensFrom(s, o + 2)
  <2>1. o + 1 \in 2 .. Len(s) /\ s[(o + 1) - 1] = s[o + 1] /\ (o + 1) - 1 = o
    BY <1>1, <1>2, <1>3, <1>6
  <2>2. Run(s, o + 1) = Run(s, o) + 1 /\ Run(s, o) \in Nat
    BY <1>3, <2>1, RowGoesOn, RowStarts
  <2>3. Run(s, o + 1) % 2 = 0
    BY <1>4, <2>2
  <2>4. Afresh(s, o + 2)
    <3>1. (o + 2) - 1 = o + 1
      BY <1>3
    <3>. QED
      BY <2>3, <3>1 DEF Afresh
  <2>5. o \notin Opens(s) /\ o + 1 \notin Opens(s)
    BY <1>6, <2>3, OpensAre
  <2>6. \A p \in OpensFrom(s, i) : o + 2 <= p
    <3>. SUFFICES ASSUME NEW p \in OpensFrom(s, i) PROVE o + 2 <= p
      OBVIOUS
    <3>1. p \in Opens(s) /\ p \in Nat /\ o <= p
      BY <1>1, <1>5 DEF OpensFrom
    <3>2. p # o /\ p # o + 1
      BY <2>5, <3>1
    <3>. QED
      BY <1>3, <3>1, <3>2
  <2>7. \A p \in OpensFrom(s, o + 2) : i <= p
    <3>1. \A p \in Opens(s) : p \in Nat
      BY <1>1, OpensAre DEF Text
    <3>. QED
      BY <1>1, <1>3, <3>1 DEF OpensFrom
  <2>. QED
    BY <2>4, <2>6, <2>7 DEF OpensFrom
<1>7. ASSUME ~(o < Len(s) /\ s[o + 1] = Brace)
      PROVE  /\ Afresh(s, o + 1) /\ o \in Opens(s)
             /\ OpensFrom(s, i) = OpensFrom(s, o + 1) \union {o}
  <2>1. Afresh(s, o + 1)
    <3>1. o + 1 \in 2 .. Len(s) => o < Len(s)
      BY <1>1, <1>3
    <3>. QED
      BY <1>7, <3>1 DEF Afresh
  <2>2. o \in Opens(s)
    BY <1>2, <1>3, <1>4, <1>7, OpensAre DEF Text
  <2>3. \A p \in Opens(s) : p \in Nat
    BY <1>1, OpensAre DEF Text
  <2>4. \A p \in OpensFrom(s, i) : p = o \/ o + 1 <= p
    BY <1>3, <1>5, <2>3 DEF OpensFrom
  <2>5. \A p \in OpensFrom(s, o + 1) : i <= p
    BY <1>1, <1>3, <2>3 DEF OpensFrom
  <2>. QED
    BY <1>3, <2>1, <2>2, <2>4, <2>5 DEF OpensFrom
<1>. QED
  BY <1>3, <1>6, <1>7

(* What is read out of a string whose arguments are all closed is what      *)
(* stands between the braces, up to a colon.                                *)
LEMMA NamesAreArguments ==
  ASSUME NEW s \in Text, \A o \in Opens(s) : Close(s, o) # 0
  PROVE  extract_field_names(s) = {Argument(s, o) : o \in Opens(s)} \ {<< >>}
<1>. DEFINE N == Len(s)
            Good(f, n) == Afresh(s, N + 1 - n) => f[N + 1 - n] = ArgumentsFrom(s, N + 1 - n)
<1>1. N \in Nat
  BY DEF Text
<1>2. PICK f : /\ extract_field_names(s) = f[1]
               /\ \A i \in 1 .. N + 1 : f[i] = Look(s, f, i)
  BY NamesAre
<1>. DEFINE S == {n \in 0 .. N : Good(f, n)}
<1>3. ASSUME NEW i \in 1 .. N + 1, Afresh(s, i),
             \A j \in (i + 1) .. N + 1 : Afresh(s, j) => f[j] = ArgumentsFrom(s, j)
      PROVE  f[i] = ArgumentsFrom(s, i)
  <2>1. PICK o : o = Find(s, Brace, i)
    OBVIOUS
  <2>2. f[i] = Look(s, f, i)
    BY <1>2
  <2>3. CASE o = 0
    <3>1. \A j \in i .. Len(s) : s[j] # Brace
      <4>1. i \in Nat \ {0} /\ \A f1 \in i .. Len(s) : f1 # 0
        BY <1>1
      <4>. HIDE DEF N
      <4>. QED
        BY <2>1, <2>3, <4>1, FindIs
    <3>2. OpensFrom(s, i) = {}
      BY <1>1, <3>1, OpensAre DEF OpensFrom, Text
    <3>3. Look(s, f, i) = {}
      BY <2>1, <2>3 DEF Look
    <3>. QED
      BY <2>2, <3>2, <3>3 DEF ArgumentsFrom
  <2>4. CASE o # 0
    <3>1. /\ o \in 1 .. Len(s) /\ i <= o
          /\ o < Len(s) /\ s[o + 1] = Brace => /\ Afresh(s, o + 2)
                                             /\ OpensFrom(s, i) = OpensFrom(s, o + 2)
          /\ ~(o < Len(s) /\ s[o + 1] = Brace) =>
               /\ Afresh(s, o + 1) /\ o \in Opens(s)
               /\ OpensFrom(s, i) = OpensFrom(s, o + 1) \union {o}
      BY <1>3, <2>1, <2>4, OpenIs
    <3>2. CASE o < Len(s) /\ s[o + 1] = Brace
      <4>1. f[i] = f[o + 2]
        BY <2>1, <2>2, <2>4, <3>2 DEF Look
      <4>2. o + 2 \in (i + 1) .. N + 1
        BY <1>1, <3>1, <3>2
      <4>3. f[o + 2] = ArgumentsFrom(s, o + 2)
        BY <1>3, <3>1, <3>2, <4>2
      <4>. QED
        BY <3>1, <3>2, <4>1, <4>3 DEF ArgumentsFrom
    <3>3. CASE ~(o < Len(s) /\ s[o + 1] = Brace)
      <4>1. Close(s, o) # 0 /\ Close(s, o) = Find(s, Closing, o + 1)
        BY <3>1, <3>3, CloseIs
      <4>2. Argument(s, o) = BeforeColon(SubSeq(s, o + 1, Find(s, Closing, o + 1) - 1))
        BY CloseIs DEF Argument
      <4>3. Look(s, f, i) = {n \in {Argument(s, o)} : n # << >>} \union f[o + 1]
        BY <2>1, <2>4, <3>3, <4>1, <4>2, Zenon DEF Look
      <4>4. o + 1 \in (i + 1) .. N + 1
        BY <1>1, <3>1
      <4>5. f[o + 1] = ArgumentsFrom(s, o + 1)
        BY <1>3, <3>1, <3>3, <4>4
      <4>6. ArgumentsFrom(s, i) = {n \in {Argument(s, o)} : n # << >>}
                                    \union ArgumentsFrom(s, o + 1)
        BY <3>1, <3>3 DEF ArgumentsFrom
      <4>. QED
        BY <2>2, <4>3, <4>5, <4>6
    <3>. QED
      BY <3>2, <3>3
  <2>. QED
    BY <2>3, <2>4
<1>4. ASSUME NEW n \in 0 .. N, \A m \in 0 .. N : m < n => m \in S PROVE n \in S
  <2>1. PICK i : i = N + 1 - n
    OBVIOUS
  <2>2. i \in 1 .. N + 1
    BY <1>1, <2>1
  <2>3. ASSUME NEW j \in (i + 1) .. N + 1 PROVE Afresh(s, j) => f[j] = ArgumentsFrom(s, j)
    <3>1. PICK m : m = N + 1 - j
      OBVIOUS
    <3>2. m \in 0 .. N /\ m < n /\ N + 1 - m = j
      BY <1>1, <2>1, <2>3, <3>1
    <3>3. Good(f, m)
      BY <1>4, <3>2
    <3>. QED
      BY <3>2, <3>3
  <2>4. Afresh(s, i) => f[i] = ArgumentsFrom(s, i)
    <3>. HIDE DEF N
    <3>. QED
      BY <1>3, <2>2, <2>3
  <2>. QED
    BY <2>1, <2>4
<1>5. 0 .. N \subseteq S
  <2>. HIDE DEF S, N
  <2>. QED
    BY <1>1, <1>4, UpTo
<1>6. Good(f, N)
  BY <1>1, <1>5
<1>7. N + 1 - N = 1 /\ Afresh(s, 1)
  BY <1>1 DEF Afresh
<1>8. f[1] = ArgumentsFrom(s, 1)
  <2>. HIDE DEF N
  <2>. QED
    BY <1>6, <1>7
<1>9. OpensFrom(s, 1) = Opens(s)
  BY <1>1, OpensAre DEF OpensFrom, Text
<1>. QED
  BY <1>2, <1>8, <1>9 DEF ArgumentsFrom

LEMMA PartOfText == ASSUME NEW s \in Text, NEW i \in Nat \ {0}, NEW j \in Int, j <= Len(s)
                    PROVE  SubSeq(s, i, j) \in Text
<1>1. Len(s) \in Nat
  BY DEF Text
<1>2. \A k \in i .. j : s[k] \in Character
  BY <1>1 DEF Text
<1>. QED
  BY <1>1, <1>2 DEF Text

LEMMA ArgumentIsText ==
  ASSUME NEW s \in Text, NEW o \in Opens(s), Close(s, o) # 0 PROVE Argument(s, o) \in Text
<1>1. o \in 1 .. Len(s) /\ Len(s) \in Nat
  BY OpensAre DEF Text
<1>2. Close(s, o) \in o + 1 .. Len(s)
  BY <1>1, CloseIs, FindIs
<1>3. PICK t : t = SubSeq(s, o + 1, Close(s, o) - 1)
  OBVIOUS
<1>4. t \in Text
  BY <1>1, <1>2, <1>3, PartOfText
<1>5. BeforeColon(t) \in Text
  <2>1. PICK c : c = Find(t, ":", 1)
    OBVIOUS
  <2>2. BeforeColon(t) = IF c = 0 THEN t ELSE SubSeq(t, 1, c - 1)
    BY <2>1 DEF BeforeColon
  <2>3. c = 0 \/ c \in 1 .. Len(t)
    BY <1>4, <2>1, FindIs
  <2>4. Len(t) \in Nat
    BY <1>4 DEF Text
  <2>5. c # 0 => SubSeq(t, 1, c - 1) \in Text
    BY <1>4, <2>3, <2>4, PartOfText
  <2>. QED
    BY <1>4, <2>2, <2>5
<1>. QED
  BY <1>3, <1>5 DEF Argument

(* If the macro does not panic over a format string, it finds the names by  *)
(* which the string takes arguments, and no others.                         *)
LEMMA NamesAreTaken ==
  ASSUME NEW s \in Text, IsFormat(s), ~Panics(s)
  PROVE  extract_field_names(s) = NamedArguments(s)
<1>. DEFINE A == {Argument(s, o) : o \in Opens(s)}
<1>1. \A o \in Opens(s) : Close(s, o) # 0
  BY Zenon DEF IsFormat
<1>2. extract_field_names(s) = A \ {<< >>}
  BY <1>1, NamesAreArguments
<1>3. ASSUME NEW a \in A PROVE a \in Text
  BY <1>1, <1>3, ArgumentIsText
<1>. HIDE DEF A
<1>4. ASSUME NEW a \in A, a # << >> PROVE a[1] \in Identifiers /\ a = <<a[1]>>
  <2>1. IsIdent(a)
    BY <1>2, <1>4 DEF Panics
  <2>2. a \in Text
    BY <1>3, <1>4
  <2>. QED
    BY <2>1, <2>2 DEF IsIdent, Text
<1>5. NamedArguments(s) = {<<a[1]>> : a \in {b \in A : b # << >> /\ b[1] \in Identifiers}}
  BY DEF NamedArguments, A
<1>6. \A a \in A : a # << >> => a \in NamedArguments(s)
  <2>. SUFFICES ASSUME NEW a \in A, a # << >> PROVE a \in NamedArguments(s)
    OBVIOUS
  <2>1. a[1] \in Identifiers /\ a = <<a[1]>>
    BY <1>4
  <2>. QED
    BY <1>5, <2>1, Zenon
<1>7. ASSUME NEW n \in NamedArguments(s) PROVE n \in A /\ n # << >>
  <2>1. PICK a \in A : a # << >> /\ n = <<a[1]>>
    BY <1>5
  <2>2. n = a
    BY <1>4, <2>1
  <2>. QED
    BY <2>1, <2>2
<1>. QED
  BY <1>2, <1>6, <1>7

-----------------------------------------------------------------------------
(* The parts that have been parsed have not made the macro panic.           *)
Calm ==
  /\ stage = "parsing" => \A i \in Parts : i < next => ~PartPanics(item.parts[i])
  /\ stage \in {"parsed", "expanded"} => \A i \in Parts : ~PartPanics(item.parts[i])

LEMMA InitCalm == Init => Calm
<1>. SUFFICES ASSUME Init PROVE Calm
  OBVIOUS
<1>1. stage = "parsing" /\ next = 1 /\ item \in Items
  BY DEF Init
<1>2. ASSUME NEW i \in Parts, i < 1 PROVE FALSE
  <2>1. i \in 1 .. MaxParts /\ MaxParts \in Nat
    BY <1>1, PartsAre, MaxPartsAssumption
  <2>. QED
    BY <1>2, <2>1
<1>. QED
  BY <1>1, <1>2 DEF Calm

LEMMA StepCalm == IInv /\ Calm /\ [Next]_vars => Calm'
<1>. SUFFICES ASSUME IInv, Calm, [Next]_vars PROVE Calm'
  OBVIOUS
<1>1. item \in Items /\ next \in Nat
  BY MaxPartsAssumption DEF IInv, TypeOK
<1>2. /\ Len(item.parts) \in Nat
      /\ item.shape \in {"enum", "struct"} => Parts = 1 .. Len(item.parts)
      /\ item.shape \in {"tuple struct", "union"} => Parts = {}
      /\ item.shape = "struct" => Len(item.parts) = 1
  BY <1>1, SizesAre, PartsAre, ItemIs
<1>3. ASSUME item' = item
      PROVE  Parts' = Parts /\ \A i : PartPanics(item.parts[i])' = PartPanics(item.parts[i])
  BY <1>3 DEF Parts, PartPanics, HeaderErrors
<1>4. ASSUME stage' \in {"rejected", "panicked"} PROVE Calm'
  BY <1>4 DEF Calm
<1>5. ASSUME item' = item, stage' # "parsing", \A i \in Parts : ~PartPanics(item.parts[i])
      PROVE  Calm'
  BY <1>3, <1>5 DEF Calm
<1>6. ASSUME NEW found, Finish(found), \A i \in Parts : ~PartPanics(item.parts[i]) PROVE Calm'
  <2>1. item' = item /\ stage' \in {"parsed", "rejected"}
    BY <1>6 DEF Finish
  <2>. QED
    BY <1>5, <1>6, <2>1
<1>7. CASE ParseVariant
  <2>1. stage = "parsing" /\ item.shape = "enum"
    BY <1>7 DEF ParseVariant
  <2>2. CASE Panic
    BY <1>4, <2>2 DEF Panic
  <2>3. CASE /\ ~PartPanics(item.parts[next])
             /\ next' = next + 1 /\ UNCHANGED <<item, stage, code>>
    <3>1. \A i \in Parts : i < next + 1 => i < next \/ i = next
      BY <1>1, <1>2, <2>1
    <3>2. \A i \in Parts : i < next + 1 => ~PartPanics(item.parts[i])
      BY <2>1, <2>3, <3>1 DEF Calm
    <3>. QED
      BY <1>3, <2>1, <2>3, <3>2 DEF Calm
  <2>. QED
    BY <1>7, <2>2, <2>3 DEF ParseVariant
<1>8. CASE FinishEnum
  <2>1. stage = "parsing" /\ item.shape = "enum" /\ next > Len(item.parts)
    BY <1>8 DEF FinishEnum
  <2>2. \A i \in Parts : i < next
    BY <1>1, <1>2, <2>1
  <2>3. \A i \in Parts : ~PartPanics(item.parts[i])
    BY <2>1, <2>2 DEF Calm
  <2>. QED
    BY <1>6, <1>8, <2>3 DEF FinishEnum
<1>9. CASE ParseNamedStruct
  <2>1. stage = "parsing" /\ item.shape = "struct"
    BY <1>9 DEF ParseNamedStruct
  <2>2. CASE Panic
    BY <1>4, <2>2 DEF Panic
  <2>3. CASE ~PartPanics(item.parts[1]) /\ Finish(Diagnosed(1, PartErrors(item.parts[1])))
    <3>1. Parts = 1 .. 1
      BY <1>2, <2>1
    <3>2. \A i \in Parts : i = 1
      BY <3>1
    <3>3. \A i \in Parts : ~PartPanics(item.parts[i])
      BY <2>3, <3>2, Zenon
    <3>4. PICK found : found = Diagnosed(1, PartErrors(item.parts[1]))
      OBVIOUS
    <3>. QED
      BY <1>6, <2>3, <3>3, <3>4
  <2>. QED
    BY <1>9, <2>2, <2>3 DEF ParseNamedStruct
<1>10. CASE ParseTupleStruct
  <2>1. item.shape = "tuple struct"
    BY <1>10 DEF ParseTupleStruct
  <2>2. Parts = {}
    BY <1>2, <2>1
  <2>. QED
    BY <1>6, <1>10, <2>2 DEF ParseTupleStruct
<1>11. CASE RejectUnion
  <2>1. item.shape = "union"
    BY <1>11 DEF RejectUnion
  <2>2. Parts = {}
    BY <1>2, <2>1
  <2>. QED
    BY <1>6, <1>11, <2>2 DEF RejectUnion
<1>12. CASE Expand
  <2>1. stage = "parsed"
    BY <1>12 DEF Expand
  <2>2. CASE Panic
    BY <1>4, <2>2 DEF Panic
  <2>3. CASE stage' = "expanded" /\ item' = item
    BY <1>5, <2>1, <2>3 DEF Calm
  <2>. QED
    BY <1>12, <2>2, <2>3 DEF Expand
<1>13. CASE UNCHANGED vars
  <2>1. UNCHANGED <<item, next, stage>>
    BY <1>13 DEF vars
  <2>. QED
    BY <1>3, <2>1 DEF Calm
<1>. QED
  BY <1>7, <1>8, <1>9, <1>10, <1>11, <1>12, <1>13 DEF Next, Done

THEOREM NoPanicBefore == Spec => []Calm
<1>. QED
  BY InitCalm, StepCalm, Inductive, PTL DEF Spec

(* The arguments that are passed with a format string are the fields that   *)
(* it names, whatever string it is (parse.rs:663-724, shared.rs:722-754).   *)
THEOREM PassesWhatIsNamed == Spec => []ArgumentsMatch
<1>1. ASSUME IInv, Calm, stage = "expanded", NEW i \in Parts, NEW p, p = item.parts[i]
      PROVE  /\ code[i].format = "display" /\ IsFormat(p.display.text) =>
                  code[i].passed = (NamedArguments(p.display.text) \intersect p.fieldNames)
                                     \ p.display.assigned
             /\ code[i].format = "doc" /\ IsFormat(p.doc) =>
                  code[i].passed = NamedArguments(p.doc) \intersect p.fieldNames
             /\ code[i].format \in {"name", "delegate"} => code[i].passed = {}
  <2>1. item \in Items /\ Expanded /\ Mistakes = {}
    BY <1>1 DEF IInv, TypeOK, Parsed
  <2>2. i \in DOMAIN item.parts /\ p \in Part
    BY <1>1, <2>1, PartsAre DEF Parts
  <2>3. code[i] = Generated(p)
    BY <1>1, <2>1, <2>2 DEF Expanded
  <2>4. code[i].format = Format(p) /\ code[i].passed = Passed(p)
    BY <2>3 DEF Generated
  <2>5. p.doc \in Text /\ p.display.text \in Text
    BY <2>2 DEF Part, Text
  <2>6. ~WrongPart(p)
    BY <1>1, <2>1, WrongIs DEF WrongItem
  <2>7. HeaderErrors(p) = {} /\ p.fields = "ok"
    BY <2>6 DEF WrongPart, HeaderErrors
  <2>8. ~Panics(p.doc) /\ (p.display.given => ~Panics(p.display.text))
    BY <1>1, <2>7 DEF Calm, PartPanics
  <2>9. CASE Format(p) = "display"
    <3>1. p.display.given
      BY <2>9 DEF Format
    <3>2. Passed(p) = (extract_field_names(p.display.text) \intersect p.fieldNames)
                        \ p.display.assigned
      BY <2>9 DEF Passed
    <3>3. IsFormat(p.display.text) =>
            extract_field_names(p.display.text) = NamedArguments(p.display.text)
      BY <2>5, <2>8, <3>1, NamesAreTaken
    <3>. QED
      BY <2>4, <2>9, <3>2, <3>3
  <2>10. CASE Format(p) = "doc"
    <3>1. Passed(p) = extract_field_names(p.doc) \intersect p.fieldNames
      BY <2>10 DEF Passed
    <3>2. IsFormat(p.doc) => extract_field_names(p.doc) = NamedArguments(p.doc)
      BY <2>5, <2>8, NamesAreTaken
    <3>. QED
      BY <2>4, <2>10, <3>1, <3>2
  <2>11. CASE Format(p) \in {"name", "delegate"}
    BY <2>4, <2>11 DEF Passed
  <2>12. Format(p) \in {"display", "doc", "name", "delegate"}
    BY DEF Format
  <2>. QED
    BY <2>9, <2>10, <2>11, <2>12
<1>2. IInv /\ Calm => ArgumentsMatch
  BY <1>1, Zenon DEF ArgumentsMatch
<1>. QED
  BY <1>2, Inductive, NoPanicBefore, PTL
=============================================================================
