-------------------------- MODULE ErrorChainProofs --------------------------
(***************************************************************************)
(* The properties of ErrorChain, for chains of any length, of errors of    *)
(* any types.  Walks and texts are recursive functions: the first part     *)
(* shows that they exist, and what they are, by a least element of a set   *)
(* of numbers instead of an induction.                                     *)
(***************************************************************************)
EXTENDS ErrorChain, SequenceTheorems, WellFoundedInduction, TLAPS

Less == {p \in Nat \X Nat : p[1] < p[2]}

LEMMA LessWellFounded == IsWellFoundedOn(Less, Nat)
<1>1. OpToRel(<, Nat) = Less
  BY DEF OpToRel, Less
<1>. QED
  BY <1>1, NatLessThanWellFounded

LEMMA Smallest ==
  ASSUME NEW S \in SUBSET Nat, S # {}
  PROVE  \E n \in S : \A m \in S : n <= m
<1>1. PICK n \in S : \A m \in S : <<m, n>> \notin Less
  BY LessWellFounded, WFMin
<1>2. \A m \in S : ~(m < n)
  BY <1>1 DEF Less
<1>. QED
  BY <1>2

LEMMA UpTo ==
  ASSUME NEW N \in Nat, NEW S,
         \A n \in 0 .. N : (\A m \in 0 .. N : m < n => m \in S) => n \in S
  PROVE  0 .. N \subseteq S
<1>1. SUFFICES ASSUME (0 .. N) \ S # {} PROVE FALSE
  OBVIOUS
<1>2. (0 .. N) \ S \in SUBSET Nat
  OBVIOUS
<1>3. PICK n \in (0 .. N) \ S : \A m \in (0 .. N) \ S : n <= m
  BY <1>1, <1>2, Smallest
<1>4. \A m \in 0 .. N : m < n => m \in S
  BY <1>3
<1>. QED
  BY <1>3, <1>4

(* A function that is defined at every number by what it is at a smaller    *)
(* one exists.                                                              *)
Definition(N, X, x0, prev, step) ==
  /\ N \in Nat /\ x0 \in X
  /\ prev \in [1 .. N -> Nat] /\ \A i \in 1 .. N : prev[i] < i
  /\ step \in [1 .. N -> [X -> X]]

Defined(f, N, X, x0, prev, step) ==
  /\ f \in [0 .. N -> X]
  /\ f[0] = x0
  /\ \A i \in 1 .. N : f[i] = step[i][f[prev[i]]]

LEMMA Recursion ==
  ASSUME NEW N, NEW X, NEW x0, NEW prev, NEW step, Definition(N, X, x0, prev, step)
  PROVE  \E f : Defined(f, N, X, x0, prev, step)
<1>. USE DEF Definition
<1>. DEFINE Good(n, f) == /\ f[0] = x0
                          /\ \A i \in 1 .. n : f[i] = step[i][f[prev[i]]]
            S == {n \in 0 .. N : \E f \in [0 .. n -> X] : Good(n, f)}
<1>1. ASSUME NEW n \in 0 .. N, \A m \in 0 .. N : m < n => m \in S
      PROVE  n \in S
  <2>1. CASE n = 0
    <3>1. [i \in 0 .. 0 |-> x0] \in [0 .. 0 -> X] /\ Good(0, [i \in 0 .. 0 |-> x0])
      OBVIOUS
    <3>. QED
      BY <2>1, <3>1
  <2>2. CASE n > 0
    <3>1. n - 1 \in 0 .. N /\ n - 1 < n
      BY <2>2
    <3>2. PICK f \in [0 .. n - 1 -> X] : Good(n - 1, f)
      BY <1>1, <3>1
    <3>. DEFINE g == [i \in 0 .. n |-> IF i = n THEN step[n][f[prev[n]]] ELSE f[i]]
    <3>3. prev[n] \in 0 .. n - 1 /\ step[n] \in [X -> X]
      BY <2>2
    <3>4. g \in [0 .. n -> X]
      BY <3>2, <3>3
    <3>5. g[0] = x0
      BY <2>2, <3>2
    <3>6. ASSUME NEW i \in 1 .. n PROVE g[i] = step[i][g[prev[i]]]
      <4>1. prev[i] \in 0 .. n /\ prev[i] # n
        OBVIOUS
      <4>2. g[prev[i]] = f[prev[i]]
        BY <4>1
      <4>3. CASE i = n
        BY <4>2, <4>3
      <4>4. CASE i # n
        <5>1. i \in 1 .. n - 1 /\ g[i] = f[i]
          BY <4>4
        <5>. QED
          BY <3>2, <4>2, <5>1
      <4>. QED
        BY <4>3, <4>4
    <3>. HIDE DEF g
    <3>7. Good(n, g)
      BY <3>5, <3>6
    <3>8. \E h \in [0 .. n -> X] : Good(n, h)
      BY <3>4, <3>7
    <3>. HIDE DEF Good
    <3>. QED
      BY <3>8
  <2>. QED
    BY <2>1, <2>2
<1>. HIDE DEF S
<1>2. \A n \in 0 .. N : (\A m \in 0 .. N : m < n => m \in S) => n \in S
  BY <1>1
<1>3. 0 .. N \subseteq S
  BY <1>2, UpTo
<1>4. N \in S
  BY <1>3
<1>. QED
  BY <1>4 DEF S, Defined

-----------------------------------------------------------------------------
(* What the recursive functions of ErrorChain are.                          *)

LEMMA SourceIs ==
  chain \in Seq(Shape) =>
    /\ Source \in [0 .. Outermost -> Nat]
    /\ \A i \in 1 .. Outermost : Source[i] < i
    /\ \A i \in 0 .. Outermost :
         Source[i] = IF i <= 1 THEN 0 ELSE IF IsTransparent(i) THEN Source[i - 1] ELSE i - 1
<1>. SUFFICES ASSUME chain \in Seq(Shape)
              PROVE  /\ Source \in [0 .. Outermost -> Nat]
                     /\ \A i \in 1 .. Outermost : Source[i] < i
                     /\ \A i \in 0 .. Outermost :
                          Source[i] = IF i <= 1 THEN 0
                                      ELSE IF IsTransparent(i) THEN Source[i - 1] ELSE i - 1
  OBVIOUS
<1>. DEFINE N == Outermost
            prev == [i \in 1 .. N |-> i - 1]
            step == [i \in 1 .. N |-> [v \in Nat |-> IF i <= 1 THEN 0
                                                     ELSE IF IsTransparent(i) THEN v ELSE i - 1]]
            Is(s) == s = [i \in 0 .. N |-> IF i <= 1 THEN 0
                                           ELSE IF IsTransparent(i) THEN s[i - 1] ELSE i - 1]
<1>1. N \in Nat
  BY DEF Outermost
<1>2. prev \in [1 .. N -> Nat] /\ \A i \in 1 .. N : prev[i] < i
  BY <1>1
<1>3. step \in [1 .. N -> [Nat -> Nat]]
  BY <1>1
<1>. HIDE DEF N
<1>4. PICK f \in [0 .. N -> Nat] :
        f[0] = 0 /\ \A i \in 1 .. N : f[i] = step[i][f[prev[i]]]
  <2>. HIDE DEF prev, step
  <2>1. Definition(N, Nat, 0, prev, step)
    BY <1>1, <1>2, <1>3 DEF Definition
  <2>. QED
    BY <2>1, Recursion DEF Defined
<1>5. \A i \in 1 .. N : f[i - 1] \in Nat
  BY <1>1, <1>4
<1>6. \A i \in 1 .. N : f[i] = IF i <= 1 THEN 0
                               ELSE IF IsTransparent(i) THEN f[i - 1] ELSE i - 1
  BY <1>4, <1>5
<1>7. Is(f)
  BY <1>1, <1>4, <1>6
<1>8. Is(Source)
  <2>1. Source = CHOOSE s : Is(s)
    BY DEF Source, N
  <2>. HIDE DEF Is
  <2>. QED
    BY <1>7, <2>1
<1>9. \A i \in 0 .. N : Source[i] = IF i <= 1 THEN 0
                                    ELSE IF IsTransparent(i) THEN Source[i - 1] ELSE i - 1
  BY <1>8
<1>10. DOMAIN Source = 0 .. N /\ Source = [i \in 0 .. N |-> Source[i]]
  BY <1>8
<1>11. \A i \in 0 .. N : Source[i] \in Nat /\ (i > 0 => Source[i] < i)
  <2>. DEFINE S == {i \in 0 .. N : Source[i] \in Nat /\ (i > 0 => Source[i] < i)}
  <2>1. ASSUME NEW n \in 0 .. N, \A m \in 0 .. N : m < n => m \in S
        PROVE  n \in S
    <3>1. CASE n <= 1
      BY <1>9, <3>1
    <3>2. CASE ~(n <= 1)
      <4>1. n - 1 \in 0 .. N /\ n - 1 < n /\ n - 1 \in Nat
        BY <3>2, <1>1
      <4>2. Source[n - 1] \in Nat /\ Source[n - 1] < n - 1
        BY <2>1, <3>2, <4>1
      <4>. QED
        BY <1>9, <3>2, <4>1, <4>2
    <3>. QED
      BY <3>1, <3>2
  <2>2. \A n \in 0 .. N : (\A m \in 0 .. N : m < n => m \in S) => n \in S
    BY <2>1
  <2>3. 0 .. N \subseteq S
    <3>. HIDE DEF S
    <3>. QED
      BY <1>1, <2>2, UpTo
  <2>. QED
    BY <2>3
<1>12. Source \in [0 .. N -> Nat]
  BY <1>10, <1>11
<1>13. \A i \in 1 .. N : Source[i] < i
  BY <1>1, <1>11
<1>. QED
  BY <1>9, <1>12, <1>13 DEF N

LEMMA TextIs ==
  chain \in Seq(Shape) =>
    /\ Text \in [0 .. Outermost -> Seq(Token)]
    /\ Text[0] = << >>
    /\ \A i \in 1 .. Outermost :
         Text[i] = chain[i].before \o (IF chain[i].shows THEN Text[i - 1] ELSE << >>)
                     \o chain[i].after
<1>. SUFFICES ASSUME chain \in Seq(Shape)
              PROVE  /\ Text \in [0 .. Outermost -> Seq(Token)]
                     /\ Text[0] = << >>
                     /\ \A i \in 1 .. Outermost :
                          Text[i] = chain[i].before
                                      \o (IF chain[i].shows THEN Text[i - 1] ELSE << >>)
                                      \o chain[i].after
  OBVIOUS
<1>. DEFINE N == Outermost
            X == Seq(Token)
            prev == [i \in 1 .. N |-> i - 1]
            Of(i, v) == chain[i].before \o (IF chain[i].shows THEN v ELSE << >>)
                          \o chain[i].after
            step == [i \in 1 .. N |-> [v \in X |-> Of(i, v)]]
            Is(s) == s = [i \in 0 .. N |-> IF i = 0 THEN << >> ELSE Of(i, s[i - 1])]
<1>1. N \in Nat
  BY DEF Outermost
<1>2. prev \in [1 .. N -> Nat] /\ \A i \in 1 .. N : prev[i] < i
  BY <1>1
<1>3. ASSUME NEW i \in 1 .. N, NEW v \in X PROVE Of(i, v) \in X
  <2>1. chain[i] \in Type
    BY <1>1, ShapeAssumption DEF Outermost
  <2>2. chain[i].before \in Seq(Token) /\ chain[i].after \in Seq(Token)
    BY <2>1 DEF Type
  <2>3. (IF chain[i].shows THEN v ELSE << >>) \in Seq(Token)
    OBVIOUS
  <2>. QED
    BY <2>2, <2>3
<1>. HIDE DEF N, Of, X
<1>4. step \in [1 .. N -> [X -> X]]
  BY <1>3
<1>5. << >> \in X
  BY DEF X
<1>6. PICK f : Defined(f, N, X, << >>, prev, step)
  <2>. HIDE DEF prev, step
  <2>1. Definition(N, X, << >>, prev, step)
    BY <1>1, <1>2, <1>4, <1>5 DEF Definition
  <2>. QED
    BY <2>1, Recursion
<1>7. \A i \in 1 .. N : f[i - 1] \in X
  BY <1>1, <1>6 DEF Defined
<1>8. \A i \in 1 .. N : f[i] = Of(i, f[i - 1])
  BY <1>6, <1>7 DEF Defined
<1>9. Is(f)
  BY <1>1, <1>6, <1>8 DEF Defined
<1>10. Is(Text)
  <2>1. Text = CHOOSE s : Is(s)
    BY DEF Text, N, Of
  <2>. HIDE DEF Is
  <2>. QED
    BY <1>9, <2>1
<1>11. Text = [i \in 0 .. N |-> Text[i]] /\ Text[0] = << >>
       /\ \A i \in 1 .. N : Text[i] = Of(i, Text[i - 1])
  BY <1>1, <1>10
<1>12. \A i \in 0 .. N : Text[i] \in X
  <2>. DEFINE S == {i \in 0 .. N : Text[i] \in X}
  <2>1. ASSUME NEW n \in 0 .. N, \A m \in 0 .. N : m < n => m \in S
        PROVE  n \in S
    <3>1. CASE n = 0
      BY <1>5, <1>11, <3>1
    <3>2. CASE n # 0
      <4>1. n \in 1 .. N /\ n - 1 \in 0 .. N /\ n - 1 < n
        BY <3>2, <1>1
      <4>2. Text[n - 1] \in X
        BY <2>1, <4>1
      <4>. QED
        BY <1>3, <1>11, <4>1, <4>2
    <3>. QED
      BY <3>1, <3>2
  <2>2. \A n \in 0 .. N : (\A m \in 0 .. N : m < n => m \in S) => n \in S
    BY <2>1
  <2>3. 0 .. N \subseteq S
    <3>. HIDE DEF S
    <3>. QED
      BY <1>1, <2>2, UpTo
  <2>. QED
    BY <2>3
<1>. QED
  BY <1>11, <1>12 DEF N, Of, X

LEMMA ChainStep ==
  chain \in Seq(Shape) =>
    /\ Chain(0) = {}
    /\ \A i \in 1 .. Outermost : Chain(i) = {i} \union Chain(Source[i])
<1>. SUFFICES ASSUME chain \in Seq(Shape)
              PROVE  /\ Chain(0) = {}
                     /\ \A i \in 1 .. Outermost : Chain(i) = {i} \union Chain(Source[i])
  OBVIOUS
<1>. DEFINE N == Outermost
            prev == [i \in 1 .. N |-> Source[i]]
            step == [i \in 1 .. N |-> [v \in SUBSET Nat |-> {i} \union v]]
            Is(s) == s = [j \in 0 .. N |-> IF j = 0 THEN {} ELSE {j} \union s[Source[j]]]
            visited == CHOOSE s : Is(s)
<1>1. N \in Nat
  BY DEF Outermost
<1>2. \A i \in 1 .. N : Source[i] \in 0 .. N /\ Source[i] < i
  BY <1>1, SourceIs
<1>3. prev \in [1 .. N -> Nat] /\ \A i \in 1 .. N : prev[i] < i
  BY <1>1, <1>2
<1>. HIDE DEF N
<1>4. step \in [1 .. N -> [SUBSET Nat -> SUBSET Nat]]
  <2>1. \A i \in 1 .. N : \A v \in SUBSET Nat : {i} \union v \in SUBSET Nat
    BY <1>1
  <2>. QED
    BY <2>1
<1>5. PICK f : Defined(f, N, SUBSET Nat, {}, prev, step)
  <2>. HIDE DEF prev, step
  <2>1. {} \in SUBSET Nat
    OBVIOUS
  <2>2. Definition(N, SUBSET Nat, {}, prev, step)
    BY <1>1, <1>3, <1>4, <2>1 DEF Definition
  <2>. QED
    BY <2>2, Recursion
<1>6. \A i \in 1 .. N : f[i] = {i} \union f[Source[i]]
  BY <1>1, <1>2, <1>5 DEF Defined
<1>7. Is(f)
  BY <1>1, <1>5, <1>6 DEF Defined
<1>8. Is(visited)
  <2>. HIDE DEF Is
  <2>. QED
    BY <1>7
<1>9. \A i : Chain(i) = visited[i]
  BY DEF Chain, N
<1>. HIDE DEF visited
<1>10. visited[0] = {} /\ \A i \in 1 .. N : visited[i] = {i} \union visited[Source[i]]
  BY <1>1, <1>8
<1>. QED
  BY <1>9, <1>10 DEF N

(* An error is met by the walk that starts at i if nothing hides it.        *)
LEMMA ChainIs ==
  chain \in Seq(Shape) =>
    /\ Chain(0) = {}
    /\ \A i \in 1 .. Outermost :
         Chain(i) = {j \in 1 .. i : j < i => ~IsTransparent(j + 1)}
<1>. SUFFICES ASSUME chain \in Seq(Shape)
              PROVE  \A i \in 1 .. Outermost :
                       Chain(i) = {j \in 1 .. i : j < i => ~IsTransparent(j + 1)}
  BY ChainStep
<1>. DEFINE N == Outermost
            Met(i) == {j \in 1 .. i : j < i => ~IsTransparent(j + 1)}
            S == {i \in 0 .. N : i > 0 => Chain(i) = Met(i)
                                          /\ Chain(Source[i]) = Met(i) \ {i}}
<1>1. N \in Nat
  BY DEF Outermost
<1>2. /\ Chain(0) = {}
      /\ \A i \in 1 .. N : Chain(i) = {i} \union Chain(Source[i])
  BY ChainStep
<1>3. /\ \A i \in 0 .. N : Source[i] = IF i <= 1 THEN 0
                                       ELSE IF IsTransparent(i) THEN Source[i - 1] ELSE i - 1
      /\ \A i \in 1 .. N : Source[i] \in Nat /\ Source[i] < i
  BY <1>1, SourceIs
<1>4. ASSUME NEW n \in 0 .. N, \A m \in 0 .. N : m < n => m \in S
      PROVE  n \in S
  <2>. SUFFICES ASSUME n > 0
                PROVE  Chain(n) = Met(n) /\ Chain(Source[n]) = Met(n) \ {n}
    OBVIOUS
  <2>1. n \in 1 .. N
    OBVIOUS
  <2>2. Chain(Source[n]) = Met(n) \ {n}
    <3>1. CASE n = 1
      <4>1. Chain(Source[n]) = {}
        BY <1>2, <1>3, <2>1, <3>1
      <4>2. \A j \in Met(n) : j = n
        BY <3>1
      <4>. HIDE DEF Met
      <4>3. Met(n) \ {n} = {}
        BY <4>2
      <4>. QED
        BY <4>1, <4>3
    <3>2. CASE n > 1
      <4>0. n - 1 > 0 /\ n - 1 \in 1 .. N /\ n - 1 \in 0 .. N /\ n - 1 < n
        BY <1>1, <3>2
      <4>1. n - 1 \in S /\ n - 1 > 0 /\ n - 1 \in 1 .. N
        <5>. HIDE DEF S
        <5>. QED
          BY <1>4, <4>0
      <4>2. Chain(n - 1) = Met(n - 1) /\ Chain(Source[n - 1]) = Met(n - 1) \ {n - 1}
        BY <4>1
      <4>3. CASE IsTransparent(n)
        <5>1. Chain(Source[n]) = Met(n - 1) \ {n - 1}
          BY <1>3, <2>1, <3>2, <4>2, <4>3
        <5>2. \A j : j \in Met(n - 1) \ {n - 1} <=> j \in Met(n) \ {n}
          <6>1. ASSUME NEW j \in 1 .. n - 1, j < n - 1
                PROVE  (j < n - 1 => ~IsTransparent(j + 1)) <=> (j < n => ~IsTransparent(j + 1))
            BY <6>1
          <6>2. n - 1 \notin Met(n)
            BY <4>3, <4>1, <3>2
          <6>. QED
            BY <6>1, <6>2, <2>1, <3>2
        <5>. QED
          BY <5>1, <5>2
      <4>4. CASE ~IsTransparent(n)
        <5>1. Chain(Source[n]) = Met(n - 1)
          BY <1>3, <2>1, <3>2, <4>2, <4>4
        <5>2. \A j : j \in Met(n - 1) <=> j \in Met(n) \ {n}
          <6>1. \A j \in 1 .. n - 1 : j < n - 1 \/ j = n - 1
            BY <2>1
          <6>2. ~IsTransparent((n - 1) + 1)
            BY <4>4
          <6>3. ASSUME NEW j \in 1 .. n - 1
                PROVE  (j < n - 1 => ~IsTransparent(j + 1)) <=> (j < n => ~IsTransparent(j + 1))
            BY <6>1, <6>2, <2>1
          <6>. QED
            BY <6>3, <2>1, <3>2
        <5>. QED
          BY <5>1, <5>2
      <4>. QED
        BY <4>3, <4>4
    <3>. QED
      BY <2>1, <3>1, <3>2
  <2>3. n \in Met(n)
    BY <2>1
  <2>. HIDE DEF Met
  <2>4. Chain(n) = {n} \union (Met(n) \ {n})
    BY <1>2, <2>1, <2>2
  <2>. QED
    BY <2>2, <2>3, <2>4
<1>5. \A n \in 0 .. N : (\A m \in 0 .. N : m < n => m \in S) => n \in S
  BY <1>4
<1>6. 0 .. N \subseteq S
  <2>. HIDE DEF S
  <2>. QED
    BY <1>1, <1>5, UpTo
<1>7. \A i \in 1 .. N : i \in S
  BY <1>1, <1>6
<1>. QED
  BY <1>7

LEMMA CompatIs ==
  chain \in Seq(Shape) =>
    \A i \in 1 .. Outermost :
      CompatBacktrace[i] = IF Delegates(i) THEN CompatBacktrace[i - 1]
                           ELSE IF i \in captured THEN i ELSE 0
<1>. SUFFICES ASSUME chain \in Seq(Shape)
              PROVE  \A i \in 1 .. Outermost :
                       CompatBacktrace[i] = IF Delegates(i) THEN CompatBacktrace[i - 1]
                                            ELSE IF i \in captured THEN i ELSE 0
  OBVIOUS
<1>. DEFINE N == Outermost
            prev == [i \in 1 .. N |-> i - 1]
            Of(i, v) == IF Delegates(i) THEN v ELSE IF i \in captured THEN i ELSE 0
            step == [i \in 1 .. N |-> [v \in Nat |-> Of(i, v)]]
            Is(s) == s = [i \in 0 .. N |-> IF i = 0 THEN 0 ELSE Of(i, s[i - 1])]
<1>1. N \in Nat
  BY DEF Outermost
<1>2. prev \in [1 .. N -> Nat] /\ \A i \in 1 .. N : prev[i] < i
  BY <1>1
<1>3. \A i \in 1 .. N : \A v \in Nat : Of(i, v) \in Nat
  BY <1>1
<1>. HIDE DEF N, Of
<1>4. step \in [1 .. N -> [Nat -> Nat]]
  BY <1>3
<1>5. PICK f : Defined(f, N, Nat, 0, prev, step)
  <2>. HIDE DEF prev, step
  <2>1. Definition(N, Nat, 0, prev, step)
    BY <1>1, <1>2, <1>4 DEF Definition
  <2>. QED
    BY <2>1, Recursion
<1>6. \A i \in 1 .. N : f[i - 1] \in Nat
  BY <1>1, <1>5 DEF Defined
<1>7. \A i \in 1 .. N : f[i] = Of(i, f[i - 1])
  BY <1>5, <1>6 DEF Defined
<1>8. Is(f)
  BY <1>1, <1>5, <1>7 DEF Defined
<1>9. Is(CompatBacktrace)
  <2>1. CompatBacktrace = CHOOSE s : Is(s)
    BY DEF CompatBacktrace, N, Of
  <2>. HIDE DEF Is
  <2>. QED
    BY <1>8, <2>1
<1>10. \A i \in 1 .. N : CompatBacktrace[i] = Of(i, CompatBacktrace[i - 1])
  BY <1>1, <1>9
<1>. QED
  BY <1>10 DEF N, Of

LEMMA LastIs ==
  ASSUME NEW S \in SUBSET Nat, S # {}
  PROVE  Last(S) \in S /\ \A j \in S : Last(S) <= j
<1>1. \E i \in S : \A j \in S : i <= j
  BY Smallest
<1>. QED
  BY <1>1 DEF Last

(* Cutting off copies of t leaves a beginning of s, and what is lost is t's. *)
LEMMA TrimIs ==
  ASSUME NEW s \in Seq(Token), NEW t \in Seq(Token)
  PROVE  /\ TrimEndMatches(s, t) \in Seq(Token)
         /\ \A w \in Words(s) : w \in Words(TrimEndMatches(s, t)) \/ w \in Words(t)
<1>1. CASE t = << >>
  BY <1>1 DEF TrimEndMatches
<1>2. CASE t # << >>
  <2>. DEFINE Trimmed(n) == /\ (Len(s) - n) % Len(t) = 0
                            /\ \A j \in (n + 1) .. Len(s) :
                                 s[j] = t[((j - n - 1) % Len(t)) + 1]
              short == CHOOSE n \in 0 .. Len(s) :
                         Trimmed(n) /\ \A m \in 0 .. (n - 1) : ~Trimmed(m)
  <2>1. Len(s) \in Nat /\ Len(t) \in Nat /\ Len(t) > 0
    BY <1>2
  <2>2. Trimmed(Len(s))
    <3>1. Len(s) - Len(s) = 0 /\ 0 % Len(t) = 0
      BY <2>1
    <3>. QED
      BY <2>1, <3>1
  <2>3. short \in 0 .. Len(s) /\ Trimmed(short)
    <3>. DEFINE S == {n \in 0 .. Len(s) : Trimmed(n)}
    <3>. HIDE DEF Trimmed
    <3>1. S \in SUBSET Nat /\ S # {}
      BY <2>1, <2>2
    <3>2. PICK n \in S : \A m \in S : n <= m
      <4>. HIDE DEF S
      <4>. QED
        BY <3>1, Smallest
    <3>3. \A m \in 0 .. (n - 1) : ~Trimmed(m)
      BY <3>2, <2>1
    <3>4. \E k \in 0 .. Len(s) : Trimmed(k) /\ \A m \in 0 .. (k - 1) : ~Trimmed(m)
      BY <3>2, <3>3
    <3>. QED
      BY <3>4
  <2>4. TrimEndMatches(s, t) = SubSeq(s, 1, short)
    BY <1>2 DEF TrimEndMatches
  <2>5. \A j \in (short + 1) .. Len(s) : \E k \in DOMAIN t : s[j] = t[k]
    <3>1. ASSUME NEW j \in (short + 1) .. Len(s)
          PROVE  \E k \in DOMAIN t : s[j] = t[k]
      <4>1. s[j] = t[((j - short - 1) % Len(t)) + 1]
        BY <2>3, <3>1
      <4>. HIDE DEF short, Trimmed
      <4>2. j - short - 1 \in Nat
        BY <2>1, <2>3
      <4>3. (j - short - 1) % Len(t) \in 0 .. Len(t) - 1
        BY <2>1, <4>2
      <4>4. ((j - short - 1) % Len(t)) + 1 \in DOMAIN t
        BY <2>1, <4>3
      <4>. QED
        BY <4>1, <4>4
    <3>. QED
      BY <3>1
  <2>. HIDE DEF short, Trimmed
  <2>6. /\ SubSeq(s, 1, short) \in Seq(Token)
        /\ Len(SubSeq(s, 1, short)) = short
        /\ \A j \in 1 .. short : SubSeq(s, 1, short)[j] = s[j]
    BY <2>1, <2>3
  <2>7. ASSUME NEW w \in Words(s), w \notin Words(t)
        PROVE  w \in Words(SubSeq(s, 1, short))
    <3>1. PICK j \in 1 .. Len(s) : s[j] = w
      BY DEF Words
    <3>2. w \in Word
      BY DEF Words
    <3>3. \A k \in DOMAIN t : t[k] # w
      BY <2>7, <3>2 DEF Words
    <3>4. j \in 1 .. short
      BY <2>1, <2>3, <2>5, <3>1, <3>3
    <3>5. j \in DOMAIN SubSeq(s, 1, short) /\ SubSeq(s, 1, short)[j] = w
      BY <2>3, <2>6, <3>1, <3>4
    <3>. QED
      BY <3>2, <3>5 DEF Words
  <2>. QED
    BY <2>4, <2>6, <2>7
<1>. QED
  BY <1>1, <1>2

LEMMA CleanedIs ==
  ASSUME NEW text \in Seq(Token), NEW source \in Seq(Token)
  PROVE  /\ CleanedText(text, source) \in Seq(Token)
         /\ \A w \in Words(text) : w \in Words(CleanedText(text, source)) \/ w \in Words(source)
<1>1. <<" ">> \in Seq(Token) /\ <<":">> \in Seq(Token)
  <2>1. " " \in Token /\ ":" \in Token
    BY DEF Token
  <2>2. \A c \in Token : <<c>> \in Seq(Token)
    OBVIOUS
  <2>. QED
    BY <2>1, <2>2
<1>2. Words(<<" ">>) = {} /\ Words(<<":">>) = {}
  <2>1. " " \notin Word /\ ":" \notin Word
    BY DEF Word
  <2>2. \A c : \A n \in DOMAIN <<c>> : <<c>>[n] = c
    OBVIOUS
  <2>3. \A c : c \notin Word => \A w : w \notin Words(<<c>>)
    BY <2>2 DEF Words
  <2>. QED
    BY <2>1, <2>3
<1>. DEFINE first == TrimEndMatches(text, source)
            second == TrimEndMatches(first, <<" ">>)
<1>3. /\ first \in Seq(Token)
      /\ \A w \in Words(text) : w \in Words(first) \/ w \in Words(source)
  BY TrimIs
<1>. HIDE DEF first
<1>4. /\ second \in Seq(Token)
      /\ \A w \in Words(first) : w \in Words(second)
  BY <1>1, <1>2, <1>3, TrimIs
<1>. HIDE DEF second
<1>5. /\ TrimEndMatches(second, <<":">>) \in Seq(Token)
      /\ \A w \in Words(second) : w \in Words(TrimEndMatches(second, <<":">>))
  BY <1>1, <1>2, <1>4, TrimIs
<1>6. CleanedText(text, source) = TrimEndMatches(second, <<":">>)
  BY DEF CleanedText, first, second
<1>. QED
  BY <1>3, <1>4, <1>5, <1>6

-----------------------------------------------------------------------------
(* The error on its way.                                                    *)

Chained == chain \in Seq(Shape)

Walks ==
  /\ Chain(0) = {}
  /\ \A i \in 1 .. Outermost : Chain(i) = {j \in 1 .. i : j < i => ~IsTransparent(j + 1)}

LEMMA WalksAre == Chained => Walks
BY ChainIs DEF Chained, Walks

(* Only a SNAFU error has others answer for it.                             *)
Answerable ==
  /\ chain # << >> => ~IsTransparent(1) /\ ~Delegates(1)
  /\ \A i \in 2 .. Outermost : Delegates(i) => chain[i - 1].kind # "foreign"

(* An error has a backtrace if it had to take one when it was made.         *)
AsCaptured ==
  \A i \in 1 .. Outermost :
    i \in captured <=>
      Captures(chain[i]) /\ (chain[i].backtrace = "optional" => Backtraces(i - 1) = {})

(* An error that wraps another changes nothing for those inside it.         *)
LEMMA Grown ==
  ASSUME Chained, NEW t \in Shape, chain' = Append(chain, t)
  PROVE  /\ Chained'
         /\ Outermost' = Outermost + 1
         /\ \A i \in 0 .. Outermost : Chain(i)' = Chain(i)
<1>1. Chained' /\ Outermost' = Outermost + 1 /\ Outermost \in Nat
  BY DEF Chained, Outermost
<1>2. Walks
  BY WalksAre
<1>3. Chained' => Walks'
  BY WalksAre, PTL
<1>4. \A i \in 1 .. Outermost : chain'[i] = chain[i]
  BY DEF Chained, Outermost
<1>5. \A i \in 1 .. Outermost : IsTransparent(i)' <=> IsTransparent(i)
  BY <1>4 DEF IsTransparent
<1>6. ASSUME NEW i \in 1 .. Outermost PROVE Chain(i)' = Chain(i)
  <2>1. Chain(i)' = {j \in 1 .. i : j < i => ~IsTransparent(j + 1)'}
    BY <1>1, <1>3 DEF Walks
  <2>2. Chain(i) = {j \in 1 .. i : j < i => ~IsTransparent(j + 1)}
    BY <1>2 DEF Walks
  <2>3. \A j \in 1 .. i : j < i => j + 1 \in 1 .. Outermost
    BY <1>1
  <2>. QED
    BY <1>5, <2>1, <2>2, <2>3
<1>7. Chain(0)' = {} /\ Chain(0) = {}
  BY <1>1, <1>2, <1>3 DEF Walks
<1>8. \A i \in 0 .. Outermost : i = 0 \/ i \in 1 .. Outermost
  BY <1>1
<1>. QED
  BY <1>1, <1>6, <1>7, <1>8

(* What the walks find is there.                                            *)
LEMMA WalksWithin ==
  ASSUME Chained
  PROVE  \A i \in 0 .. Outermost : Chain(i) \subseteq 1 .. i
<1>1. Walks /\ Outermost \in Nat
  BY WalksAre DEF Chained, Outermost
<1>2. \A i \in 0 .. Outermost : i = 0 \/ i \in 1 .. Outermost
  BY <1>1
<1>. QED
  BY <1>1, <1>2 DEF Walks

(* The next error of the walk.                                              *)
LEMMA Onward ==
  ASSUME Chained, NEW i \in Chain(Outermost)
  PROVE  /\ i \in 1 .. Outermost
         /\ Source[i] = 0 \/ Source[i] \in Chain(Outermost)
         /\ Source[i] \in 0 .. Outermost /\ Source[i] < i
         /\ Chain(Outermost) \ Chain(Source[i]) = (Chain(Outermost) \ Chain(i)) \union {i}
         /\ i \in Chain(i)
<1>1. Walks /\ Outermost \in Nat /\ Outermost \in 0 .. Outermost
  BY WalksAre DEF Chained, Outermost
<1>2. i \in 1 .. Outermost /\ Outermost \in 1 .. Outermost
  BY <1>1, WalksWithin
<1>3. Source[i] \in 0 .. Outermost /\ Source[i] < i
  BY <1>1, <1>2, SourceIs DEF Chained
<1>4. Chain(i) = {i} \union Chain(Source[i])
  BY <1>2, ChainStep DEF Chained
<1>5. i \notin Chain(Source[i])
  BY <1>2, <1>3, WalksWithin
<1>6. \A j \in Chain(i) : j \in Chain(Outermost)
  <2>1. ASSUME NEW j \in Chain(i), j # i PROVE j \in Chain(Outermost)
    <3>1. j \in 1 .. i /\ (j < i => ~IsTransparent(j + 1))
      BY <1>1, <1>2 DEF Walks
    <3>2. j < i
      BY <1>2, <2>1, <3>1
    <3>3. j \in 1 .. Outermost /\ ~IsTransparent(j + 1)
      BY <1>2, <3>1, <3>2
    <3>. QED
      BY <1>1, <1>2, <3>3 DEF Walks
  <2>. QED
    BY <2>1
<1>7. Source[i] = 0 \/ Source[i] \in Chain(Source[i])
  <2>1. CASE Source[i] # 0
    <3>1. Source[i] \in 1 .. Outermost
      BY <1>1, <1>3, <2>1
    <3>. QED
      BY <3>1, ChainStep DEF Chained
  <2>. QED
    BY <2>1
<1>8. Source[i] = 0 \/ Source[i] \in Chain(Outermost)
  BY <1>4, <1>6, <1>7
<1>. QED
  BY <1>2, <1>3, <1>4, <1>5, <1>6, <1>8

LEMMA CleanedHere ==
  ASSUME Chained, NEW i \in 1 .. Outermost
  PROVE  /\ Cleaned(i) \in Seq(Token) /\ Text[i] \in Seq(Token)
         /\ \A w \in Words(Text[i]) : w \in Words(Cleaned(i)) \/ w \in Words(Text[Source[i]])
<1>1. Outermost \in Nat /\ Source[i] \in 0 .. Outermost
  BY SourceIs DEF Chained, Outermost
<1>2. Text[i] \in Seq(Token) /\ Text[Source[i]] \in Seq(Token)
  BY <1>1, TextIs DEF Chained
<1>. QED
  BY <1>2, CleanedIs DEF Cleaned

-----------------------------------------------------------------------------
(* The invariants.  Typing, and what is known of the error, come first.     *)

Base == TypeOK /\ Answerable /\ AsCaptured

LEMMA BaseInit == Init => Base
<1>. SUFFICES ASSUME Init PROVE Base
  OBVIOUS
<1>1. /\ chain = << >> /\ captured = {} /\ at = 0 /\ messages = << >>
      /\ report = [heading |-> "none", note |-> "none", backtrace |-> 0]
  BY Zenon DEF Init, Nothing
<1>2. chain \in Seq(Shape) /\ Len(chain) = 0 /\ Outermost = 0
  BY <1>1 DEF Outermost
<1>3. report \in [heading : {"none", "this error", "these errors"},
                  note : {"none", "lines marked", "removed"},
                  backtrace : 0 .. MaxDepth]
  BY <1>1, MaxDepthAssumption
<1>4. messages \in Seq([of : Position, text : Seq(Token), marked : BOOLEAN])
  BY <1>1
<1>5. Len(chain) <= MaxDepth /\ at \in 0 .. Len(chain) /\ captured \subseteq 1 .. Len(chain)
  BY <1>1, <1>2, MaxDepthAssumption
<1>6. /\ provider \in BOOLEAN /\ enabled \in BOOLEAN /\ cleaning \in BOOLEAN
      /\ stage \in {"on its way", "walk", "reported"}
      /\ cleaned \in BOOLEAN /\ removed \in BOOLEAN
  BY Zenon DEF Init
<1>7. TypeOK
  BY <1>2, <1>3, <1>4, <1>5, <1>6, Zenon DEF TypeOK
<1>. QED
  BY <1>1, <1>2, <1>7 DEF Base, Answerable, AsCaptured

(* The types of what the steps on the way leave alone.                      *)
LEMMA AlongType ==
  ASSUME TypeOK, UNCHANGED <<config, stage, walk, report>>,
         chain' \in Seq(Shape), Len(chain') <= MaxDepth,
         captured' \subseteq 1 .. Len(chain'), Len(chain) <= Len(chain')
  PROVE  TypeOK'
<1>1. at \in 0 .. Len(chain) /\ at' = at /\ chain \in Seq(Shape)
  BY Zenon DEF TypeOK, walk
<1>2. at' \in 0 .. Len(chain')
  BY <1>1
<1>. QED
  BY <1>2, Zenon DEF TypeOK, config, walk

LEMMA AriseBase == ASSUME Base, NEW t \in Shape, Arise(t) PROVE Base'
<1>1. /\ chain = << >> /\ chain' = << t >> /\ captured' = {i \in {1} : Captures(t)}
      /\ UNCHANGED <<config, stage, walk, report>>
      /\ t.kind \in {"foreign", "error", "whatever"} /\ ~t.delegates
      /\ MaxDepth > 0
  BY Zenon DEF Arise
<1>2. chain' = Append(chain, t) /\ Chained /\ Outermost = 0
  BY <1>1 DEF Chained, Outermost
<1>3. Chained' /\ Outermost' = 1 /\ Chain(0)' = Chain(0) /\ Chain(0) = {}
  BY <1>2, Grown, ChainStep DEF Chained
<1>4. chain' \in Seq(Shape) /\ Len(chain') = 1 /\ Len(chain') <= MaxDepth /\ chain'[1] = t
  BY <1>1, MaxDepthAssumption
<1>5. TypeOK'
  <2>1. captured' \subseteq 1 .. Len(chain') /\ Len(chain) <= Len(chain')
    BY <1>1, <1>4
  <2>. QED
    BY <1>1, <1>4, <2>1, AlongType DEF Base
<1>6. Answerable'
  <2>1. \A i \in 2 .. Outermost' : FALSE
    BY <1>3
  <2>2. ~IsTransparent(1)' /\ ~Delegates(1)'
    BY <1>1, <1>4 DEF IsTransparent, Delegates
  <2>. QED
    BY <2>1, <2>2 DEF Answerable
<1>7. AsCaptured'
  <2>1. Backtraces(0)' = {}
    BY <1>3 DEF Backtraces
  <2>2. 1 \in captured' <=> Captures(t)'
    BY <1>1 DEF Captures, config
  <2>3. \A i \in 1 .. Outermost' : i = 1
    BY <1>3
  <2>. QED
    BY <1>4, <2>1, <2>2, <2>3 DEF AsCaptured
<1>. QED
  BY <1>5, <1>6, <1>7 DEF Base

LEMMA WrapBase == ASSUME Base, NEW t \in Shape, Wrap(t) PROVE Base'
<1>. DEFINE n == Outermost
<1>0. /\ Len(chain) \in 1 .. (MaxDepth - 1)
      /\ t.kind = "opaque" \/ t.delegates => chain[Outermost].kind # "foreign"
      /\ chain' = Append(chain, t)
      /\ captured' = captured \union {i \in {Len(chain) + 1} : CapturesWithSource(t)}
      /\ UNCHANGED <<config, stage, walk, report>>
      /\ chain \in Seq(Shape) /\ captured \subseteq 1 .. Len(chain) /\ TypeOK
  BY Zenon DEF Wrap, Base, TypeOK
<1>1. /\ Chained /\ n \in Nat /\ n > 0 /\ n + 1 <= MaxDepth
      /\ chain' = Append(chain, t) /\ Len(chain) = n
  BY <1>0, MaxDepthAssumption DEF Chained, Outermost
<1>2. /\ Chained' /\ Outermost' = n + 1
      /\ \A i \in 0 .. n : Chain(i)' = Chain(i)
  BY <1>1, Grown
<1>3. /\ chain' \in Seq(Shape) /\ Len(chain') = n + 1
      /\ \A i \in 1 .. n : chain'[i] = chain[i]
      /\ chain'[n + 1] = t
  BY <1>1 DEF Chained
<1>4. /\ captured' = captured \union {i \in {n + 1} : CapturesWithSource(t)}
      /\ captured \subseteq 1 .. n
  BY <1>0, <1>1
<1>. HIDE DEF n
<1>5. TypeOK'
  <2>1. \A i \in captured' : i \in 1 .. (n + 1)
    BY <1>1, <1>4
  <2>2. Len(chain') <= MaxDepth /\ Len(chain) <= Len(chain')
    BY <1>1, <1>3
  <2>3. captured' \subseteq 1 .. Len(chain')
    BY <1>3, <2>1
  <2>. QED
    BY <1>0, <1>3, <2>2, <2>3, AlongType
<1>6. Answerable'
  <2>1. chain' # << >> /\ chain # << >>
    BY <1>1, <1>3
  <2>2. (~IsTransparent(1) /\ ~Delegates(1))'
    BY <1>1, <1>3, <2>1 DEF Base, Answerable, IsTransparent, Delegates
  <2>3. ASSUME NEW i \in 2 .. Outermost', Delegates(i)'
        PROVE  chain'[i - 1].kind # "foreign"
    <3>1. CASE i = n + 1
      <4>1. t.kind = "opaque" \/ t.delegates
        BY <1>3, <2>3, <3>1 DEF Delegates
      <4>2. i - 1 = n /\ n \in 1 .. n
        BY <1>1, <3>1
      <4>3. chain[n].kind # "foreign"
        BY <1>0, <4>1 DEF n
      <4>. QED
        BY <1>3, <4>2, <4>3
    <3>2. CASE i # n + 1
      <4>1. i \in 2 .. n /\ i \in 1 .. n /\ i - 1 \in 1 .. n
        BY <1>1, <1>2, <3>2
      <4>2. Delegates(i)
        BY <1>3, <2>3, <4>1 DEF Delegates
      <4>3. chain[i - 1].kind # "foreign"
        BY <4>1, <4>2 DEF Base, Answerable, n
      <4>. QED
        BY <1>3, <4>1, <4>3
    <3>. QED
      BY <3>1, <3>2
  <2>. QED
    BY <2>2, <2>3 DEF Answerable
<1>7. AsCaptured'
  <2>1. ASSUME NEW i \in 0 .. n PROVE Backtraces(i)' = Backtraces(i)
    <3>1. \A j \in Chain(i) : j \in 1 .. n
      BY <1>1, WalksWithin DEF n
    <3>2. \A j \in 1 .. n : j \in captured' <=> j \in captured
      BY <1>1, <1>4
    <3>3. provider' = provider
      BY <1>0 DEF config
    <3>. QED
      BY <1>2, <1>3, <3>1, <3>2, <3>3 DEF Backtraces, Provides
  <2>2. \A u : Captures(u)' <=> Captures(u)
    BY <1>0 DEF Captures, config
  <2>3. ASSUME NEW i \in 1 .. Outermost'
        PROVE  i \in captured' <=>
                 /\ Captures(chain'[i])
                 /\ chain'[i].backtrace = "optional" => Backtraces(i - 1)' = {}
    <3>1. CASE i = n + 1
      <4>1. i - 1 = n /\ n \in 0 .. n /\ i \notin captured /\ n = Outermost
        BY <1>1, <1>4, <3>1 DEF n
      <4>2. i \in captured' <=> CapturesWithSource(t)
        BY <1>4, <3>1, <4>1
      <4>3. Backtraces(i - 1)' = Backtraces(Outermost)
        BY <2>1, <4>1
      <4>. QED
        BY <1>3, <3>1, <4>2, <4>3 DEF CapturesWithSource
    <3>2. CASE i # n + 1
      <4>1. i \in 1 .. n /\ i - 1 \in 0 .. n /\ i \in 1 .. Outermost
        BY <1>1, <1>2, <3>2 DEF n
      <4>2. i \in captured' <=> i \in captured
        BY <1>4, <3>2
      <4>. QED
        BY <1>3, <2>1, <4>1, <4>2 DEF Base, AsCaptured
    <3>. QED
      BY <3>1, <3>2
  <2>. QED
    BY <2>2, <2>3 DEF AsCaptured
<1>. QED
  BY <1>5, <1>6, <1>7 DEF Base

(* The steps of the report leave the error alone.                           *)
LEMMA ErrorKept ==
  ASSUME UNCHANGED <<config, error>>
  PROVE  /\ (Answerable /\ AsCaptured => Answerable' /\ AsCaptured')
         /\ Outermost' = Outermost /\ Source' = Source /\ Text' = Text
         /\ \A i : Chain(i)' = Chain(i)
         /\ \A i : Backtraces(i)' = Backtraces(i)
<1>1. chain' = chain /\ captured' = captured /\ provider' = provider /\ enabled' = enabled
  BY DEF config, error
<1>2. Outermost' = Outermost
  BY <1>1 DEF Outermost
<1>3. Source' = Source
  BY <1>1 DEF Source, IsTransparent, Outermost
<1>4. Text' = Text
  BY <1>1, ZenonT(30) DEF Text, Outermost
<1>5. ASSUME NEW i PROVE Chain(i)' = Chain(i)
  BY <1>2, <1>3, Zenon DEF Chain
<1>6. ASSUME NEW i PROVE Backtraces(i)' = Backtraces(i)
  BY <1>1, <1>5 DEF Backtraces, Provides
<1>7. Answerable => Answerable'
  BY <1>1, <1>2 DEF Answerable, IsTransparent, Delegates
<1>8. AsCaptured => AsCaptured'
  BY <1>1, <1>2, <1>6 DEF AsCaptured, Captures
<1>. QED
  BY <1>2, <1>3, <1>4, <1>5, <1>6, <1>7, <1>8

-----------------------------------------------------------------------------
(* The report.                                                              *)

(* The errors that the walk is past                                         *)
Visited == IF stage = "on its way" THEN {} ELSE Chain(Outermost) \ Chain(at)

Shown == {messages[n].of : n \in DOMAIN messages}

Marked == {n \in DOMAIN messages : messages[n].marked}

(* What is written above the causes before the last of them is.             *)
Announced == IF cleaning \/ messages = << >> THEN "none" ELSE Heading(Plurality)

Announcement == IF cleaning /\ messages # << >> THEN Heading(Len(messages) - 1) ELSE Announced

Begun ==
  /\ stage = "on its way" => at = 0 /\ messages = << >>
  /\ stage # "on its way" => chain # << >> /\ (at = 0 \/ at \in Chain(Outermost))
  /\ stage # "reported" => report.heading = Announced
  /\ stage = "reported" =>
       /\ at = 0
       /\ report = [heading |-> Announcement, note |-> Note,
                    backtrace |-> Last(Backtraces(Outermost))]

(* The lines are of the errors that the walk is past and that have anything *)
(* left to say, from the outside in.                                        *)
Listed ==
  /\ \A n \in DOMAIN messages : messages[n].of > at
  /\ \A n, m \in DOMAIN messages : n < m => messages[n].of > messages[m].of
  /\ \A i \in Visited : i \in Shown <=> (cleaning => Cleaned(i) # << >>)

(* Each line is marked as it should be, and what has been said of the lines *)
(* so far is so.                                                            *)
Noted ==
  /\ \A n \in DOMAIN messages :
       /\ messages[n].of \in Visited
       /\ messages[n].marked <=> messages[n].text # Text[messages[n].of]
  /\ cleaned <=> Marked # {}
  /\ removed <=> Shown # Visited

(* What the errors say that the walk is past is there, or is yet to come.   *)
Kept ==
  \A i \in Visited : \A w \in Words(Text[i]) :
    \/ \E n \in DOMAIN messages : messages[n].of = i /\ w \in Words(messages[n].text)
    \/ w \in Words(Text[Source[i]])

IInv == Base /\ Begun /\ Noted /\ Kept /\ Listed

(* A step of the walk that writes a line, or with text = << >> none.        *)
WalkStep(text, mark) ==
  /\ stage = "walk" /\ at # 0
  /\ text \in Seq(Token) /\ mark \in BOOLEAN /\ (mark <=> text # Text[at])
  /\ \A w \in Words(Text[at]) : w \in Words(text) \/ w \in Words(Text[Source[at]])
  /\ cleaning => text = Cleaned(at)
  /\ \/ /\ cleaning /\ text = << >>
        /\ messages' = messages /\ cleaned' = cleaned /\ removed' = TRUE
     \/ /\ cleaning => text # << >>
        /\ messages' = Append(messages, Message(at, text, mark))
        /\ cleaned' = (cleaned \/ mark) /\ removed' = removed
  /\ at' = Source[at]
  /\ report' = [report EXCEPT !.heading = Announced']
  /\ UNCHANGED <<config, error, stage>>

LEMMA OfNat ==
  ASSUME messages \in Seq([of : Position, text : Seq(Token), marked : BOOLEAN])
  PROVE  \A n \in DOMAIN messages : messages[n].of \in Nat
<1>1. Position \subseteq Nat
  BY MaxDepthAssumption DEF Position
<1>. DEFINE Line == [of : Position, text : Seq(Token), marked : BOOLEAN]
<1>2. messages \in Seq(Line)
  OBVIOUS
<1>3. \A n \in DOMAIN messages : messages[n] \in Line
  <2>. HIDE DEF Line
  <2>. QED
    BY <1>2
<1>. QED
  BY <1>1, <1>3

LEMMA SameHeading ==
  ASSUME TypeOK, NEW h, report.heading = h
  PROVE  report = [report EXCEPT !.heading = h]
<1>1. report \in [heading : {"none", "this error", "these errors"},
                  note : {"none", "lines marked", "removed"}, backtrace : 0 .. MaxDepth]
  BY Zenon DEF TypeOK
<1>. QED
  BY <1>1

LEMMA AnnouncedKept ==
  ASSUME UNCHANGED <<config, error>>, messages = << >> <=> messages' = << >>
  PROVE  Announced' = Announced
<1>1. Plurality' = Plurality
  BY ErrorKept DEF Plurality
<1>2. cleaning' = cleaning
  BY DEF config
<1>. QED
  BY <1>1, <1>2 DEF Announced, Heading

LEMMA CleanIsWalkStep ==
  ASSUME Base, Begun, CleanNext
  PROVE  \E text, mark : WalkStep(text, mark)
<1>1. /\ stage = "walk" /\ cleaning /\ at # 0 /\ at' = Source[at]
      /\ UNCHANGED <<config, error, stage, report>>
      /\ chain \in Seq(Shape) /\ at \in 0 .. Len(chain)
  BY Zenon DEF CleanNext, Base, TypeOK
<1>2. Chained /\ at \in 1 .. Outermost
  BY <1>1 DEF Chained, Outermost
<1>. DEFINE text == Cleaned(at)
            mark == text # Text[at]
<1>3. /\ text \in Seq(Token)
      /\ \A w \in Words(Text[at]) : w \in Words(text) \/ w \in Words(Text[Source[at]])
  BY <1>2, CleanedHere
<1>4. mark \in BOOLEAN
  BY Zenon
<1>5. \/ /\ text = << >>
         /\ messages' = messages /\ cleaned' = cleaned /\ removed' = TRUE
      \/ /\ text # << >>
         /\ messages' = Append(messages, Message(at, text, mark))
         /\ cleaned' = (cleaned \/ mark) /\ removed' = removed
  BY Zenon DEF CleanNext
<1>6. report' = [report EXCEPT !.heading = Announced']
  <2>1. report.heading = Announced
    BY <1>1 DEF Begun
  <2>2. Announced = "none" /\ Announced' = "none"
    BY <1>1 DEF Announced, config
  <2>. QED
    BY <1>1, <2>1, <2>2, SameHeading DEF Base
<1>. HIDE DEF mark
<1>7. WalkStep(text, mark)
  BY <1>1, <1>3, <1>4, <1>5, <1>6, Zenon DEF WalkStep, mark
<1>. QED
  BY <1>7

LEMMA RawIsWalkStep ==
  ASSUME Base, Begun, RawHead \/ RawNext
  PROVE  \E text, mark : WalkStep(text, mark)
<1>1. /\ stage = "walk" /\ ~cleaning /\ at # 0 /\ at' = Source[at]
      /\ UNCHANGED <<config, error, stage, cleaned, removed>>
      /\ chain \in Seq(Shape) /\ at \in 0 .. Len(chain) /\ cleaned \in BOOLEAN
      /\ messages \in Seq([of : Position, text : Seq(Token), marked : BOOLEAN])
      /\ Len(chain) <= MaxDepth
  BY Zenon DEF RawHead, RawNext, Base, TypeOK
<1>2. Chained /\ at \in 1 .. Outermost
  BY <1>1 DEF Chained, Outermost
<1>3. Text[at] \in Seq(Token)
  BY <1>2, CleanedHere
<1>4. cleaned' = (cleaned \/ FALSE) /\ removed' = removed
  BY <1>1, Zenon
<1>. DEFINE msg == Message(at, Text[at], FALSE)
<1>5. msg \in [of : Position, text : Seq(Token), marked : BOOLEAN]
  BY <1>1, <1>2, <1>3, MaxDepthAssumption DEF Message, Position, Outermost
<1>. HIDE DEF msg
<1>6. messages' = Append(messages, msg) /\ messages' # << >>
  <2>1. CASE RawHead
    <3>1. messages = << >> /\ messages' = <<msg>>
      BY <2>1 DEF RawHead, msg
    <3>. QED
      BY <1>5, <3>1
  <2>2. CASE RawNext
    <3>1. messages' = Append(messages, msg)
      BY <2>2 DEF RawNext, msg
    <3>. QED
      BY <1>1, <1>5, <3>1
  <2>. QED
    BY <2>1, <2>2
<1>7. report' = [report EXCEPT !.heading = Announced']
  <2>1. CASE RawHead
    <3>1. report' = [report EXCEPT !.heading = Heading(Plurality)]
      BY <2>1 DEF RawHead
    <3>2. Plurality' = Plurality
      BY <1>1, ErrorKept DEF Plurality
    <3>3. Announced' = Heading(Plurality)
      BY <1>1, <1>6, <3>2 DEF Announced, Heading, config
    <3>. QED
      BY <3>1, <3>3
  <2>2. CASE RawNext
    <3>1. report' = report /\ messages # << >>
      BY <2>2 DEF RawNext
    <3>2. Announced' = Announced
      BY <1>1, <1>6, <3>1, AnnouncedKept
    <3>3. report.heading = Announced
      BY <1>1 DEF Begun
    <3>. QED
      BY <3>1, <3>2, <3>3, SameHeading DEF Base
  <2>. QED
    BY <2>1, <2>2
<1>8. WalkStep(Text[at], FALSE)
  BY <1>1, <1>3, <1>4, <1>6, <1>7, Zenon DEF WalkStep, msg
<1>. QED
  BY <1>8

LEMMA WalkStepKeeps ==
  ASSUME IInv, NEW text, NEW mark, WalkStep(text, mark)
  PROVE  IInv'
<1>1. /\ stage = "walk" /\ at # 0 /\ stage' = stage /\ config' = config /\ chain' = chain
      /\ captured' = captured /\ report' = [report EXCEPT !.heading = Announced']
      /\ text \in Seq(Token) /\ mark \in BOOLEAN /\ (mark <=> text # Text[at])
      /\ at' = Source[at] /\ cleaning' = cleaning /\ (cleaning => text = Cleaned(at))
      /\ UNCHANGED <<config, error>>
      /\ chain \in Seq(Shape) /\ Len(chain) <= MaxDepth
      /\ messages \in Seq([of : Position, text : Seq(Token), marked : BOOLEAN])
  BY Zenon DEF WalkStep, IInv, Base, TypeOK, error, config
<1>2. Chained /\ chain # << >> /\ at \in Chain(Outermost)
  BY <1>1, Zenon DEF IInv, Begun, Chained
<1>3. /\ at \in 1 .. Outermost
      /\ Source[at] = 0 \/ Source[at] \in Chain(Outermost)
      /\ Source[at] \in 0 .. Outermost
      /\ Chain(Outermost) \ Chain(Source[at]) = (Chain(Outermost) \ Chain(at)) \union {at}
      /\ at \in Chain(at)
  BY <1>2, Onward
<1>4. Outermost' = Outermost /\ Source' = Source /\ Text' = Text
      /\ Chain(Outermost)' = Chain(Outermost)
      /\ Answerable' /\ AsCaptured'
  BY <1>1, ErrorKept, Zenon DEF IInv, Base
<1>5. Chain(at)' = Chain(Source[at])
  <2>1. \A i : Chain(i)' = Chain(i)
    BY <1>1, ErrorKept, Zenon
  <2>. QED
    BY <1>1, <2>1, Zenon
<1>6. /\ \A i \in Visited' : i \in Visited \/ i = at
      /\ \A i \in Visited : i \in Visited'
      /\ at \in Visited' /\ at \notin Visited
  <2>1. Visited = Chain(Outermost) \ Chain(at)
    BY <1>1 DEF Visited
  <2>2. Visited' = Chain(Outermost) \ Chain(Source[at])
    BY <1>1, <1>4, <1>5 DEF Visited
  <2>. QED
    BY <1>3, <2>1, <2>2
<1>7. Message(at, text, mark) \in [of : Position, text : Seq(Token), marked : BOOLEAN]
  <2>1. at \in Position
    BY <1>1, <1>3, MaxDepthAssumption DEF Position, Outermost
  <2>. QED
    BY <1>1, <2>1 DEF Message
<1>14. \A i : (cleaning => Cleaned(i) # << >>)' <=> (cleaning => Cleaned(i) # << >>)
  BY <1>1, <1>4 DEF Cleaned
<1>15. /\ at \in Nat /\ Source[at] \in Nat /\ Source[at] < at
       /\ \A n \in DOMAIN messages : messages[n].of \in Nat /\ messages[n].of > at
  <2>1. Source[at] \in Nat /\ Source[at] < at /\ at \in Nat
    BY <1>2, <1>3, Onward
  <2>2. \A n \in DOMAIN messages : messages[n].of \in Nat
    BY <1>1, OfNat
  <2>. QED
    BY <2>1, <2>2 DEF IInv, Listed
<1>8. ASSUME cleaning, text = << >>, messages' = messages, cleaned' = cleaned, removed' = TRUE
      PROVE  /\ messages' \in Seq([of : Position, text : Seq(Token), marked : BOOLEAN])
             /\ cleaned' \in BOOLEAN /\ removed' \in BOOLEAN
             /\ Noted' /\ Kept' /\ Listed'
  <2>1. messages' \in Seq([of : Position, text : Seq(Token), marked : BOOLEAN])
        /\ cleaned' \in BOOLEAN /\ removed' \in BOOLEAN
    BY <1>1, <1>8, Zenon DEF IInv, Base, TypeOK
  <2>2. Noted'
    <3>1. Marked' = Marked /\ Shown' = Shown
      BY <1>8 DEF Marked, Shown
    <3>2. \A i \in Shown : i \in Visited
      BY DEF IInv, Noted, Shown
    <3>3. Shown' # Visited'
      BY <1>6, <3>1, <3>2
    <3>. QED
      BY <1>4, <1>6, <1>8, <3>1, <3>3 DEF IInv, Noted
  <2>3. Kept'
    <3>1. Words(<< >>) = {}
      BY DEF Words
    <3>2. \A w \in Words(Text[at]) : w \in Words(Text[Source[at]])
      BY <1>8, <3>1 DEF WalkStep
    <3>. QED
      BY <1>4, <1>6, <1>8, <3>2 DEF IInv, Kept
  <2>4. Listed'
    <3>1. \A n \in DOMAIN messages' : messages'[n].of > at'
      BY <1>1, <1>8, <1>15
    <3>2. \A n, m \in DOMAIN messages' : n < m => messages'[n].of > messages'[m].of
      BY <1>8 DEF IInv, Listed
    <3>3. Shown' = Shown /\ at \notin Shown
      <4>1. \A i \in Shown : i # at
        BY <1>15 DEF Shown
      <4>. QED
        BY <1>8, <4>1 DEF Shown
    <3>4. ~(cleaning => Cleaned(at) # << >>)
      BY <1>1, <1>8
    <3>5. ASSUME NEW i \in Visited' PROVE i \in Shown' <=> (cleaning => Cleaned(i) # << >>)'
      <4>1. CASE i = at
        BY <1>14, <3>3, <3>4, <4>1
      <4>2. CASE i \in Visited
        <5>1. i \in Shown <=> (cleaning => Cleaned(i) # << >>)
          BY <4>2 DEF IInv, Listed
        <5>. QED
          BY <1>14, <3>3, <5>1
      <4>. QED
        BY <1>6, <4>1, <4>2
    <3>. QED
      BY <3>1, <3>2, <3>5 DEF Listed
  <2>. QED
    BY <2>1, <2>2, <2>3, <2>4
<1>9. ASSUME cleaning => text # << >>, messages' = Append(messages, Message(at, text, mark)),
             cleaned' = (cleaned \/ mark), removed' = removed
      PROVE  /\ messages' \in Seq([of : Position, text : Seq(Token), marked : BOOLEAN])
             /\ cleaned' \in BOOLEAN /\ removed' \in BOOLEAN
             /\ Noted' /\ Kept' /\ Listed'
  <2>1. messages' \in Seq([of : Position, text : Seq(Token), marked : BOOLEAN])
    BY <1>1, <1>7, <1>9
  <2>2. cleaned' \in BOOLEAN /\ removed' \in BOOLEAN
    BY <1>1, <1>9, Zenon DEF IInv, Base, TypeOK
  <2>. DEFINE last == Len(messages) + 1
              msg == Message(at, text, mark)
  <2>3. /\ \A n \in DOMAIN messages : n \in DOMAIN messages' /\ messages'[n] = messages[n]
        /\ \A n \in DOMAIN messages' : n \in DOMAIN messages \/ n = last
        /\ last \in DOMAIN messages' /\ last \notin DOMAIN messages /\ messages'[last] = msg
    BY <1>1, <1>7, <1>9
  <2>4. msg.of = at /\ msg.text = text /\ msg.marked = mark
    BY DEF Message
  <2>. HIDE DEF last, msg
  <2>5. Noted'
    <3>1. ASSUME NEW n \in DOMAIN messages'
          PROVE  /\ messages'[n].of \in Visited'
                 /\ messages'[n].marked <=> messages'[n].text # Text'[messages'[n].of]
      <4>1. CASE n \in DOMAIN messages
        BY <1>4, <1>6, <2>3, <4>1 DEF IInv, Noted
      <4>2. CASE n = last
        BY <1>1, <1>4, <1>6, <2>3, <2>4, <4>2
      <4>. QED
        BY <2>3, <4>1, <4>2
    <3>2. cleaned' <=> Marked' # {}
      <4>1. Marked' # {} <=> Marked # {} \/ mark
        BY <2>3, <2>4 DEF Marked
      <4>2. cleaned' <=> cleaned \/ mark
        BY <1>9, Zenon
      <4>. QED
        BY <4>1, <4>2, Zenon DEF IInv, Noted
    <3>3. removed' <=> Shown' # Visited'
      <4>1. /\ \A i \in Shown' : i \in Shown \/ i = at
            /\ \A i \in Shown : i \in Shown'
            /\ at \in Shown'
        BY <2>3, <2>4 DEF Shown
      <4>2. \A i \in Shown : i \in Visited
        BY DEF IInv, Noted, Shown
      <4>3. Shown' = Visited' <=> Shown = Visited
        BY <1>6, <4>1, <4>2
      <4>. QED
        BY <1>9, <4>3, Zenon DEF IInv, Noted
    <3>. QED
      BY <3>1, <3>2, <3>3 DEF Noted
  <2>6. Kept'
    <3>1. ASSUME NEW i \in Visited', NEW w \in Words(Text[i])
          PROVE  \/ \E n \in DOMAIN messages' : messages'[n].of = i /\ w \in Words(messages'[n].text)
                 \/ w \in Words(Text[Source[i]])
      <4>1. CASE i = at
        <5>1. w \in Words(text) \/ w \in Words(Text[Source[at]])
          BY <4>1 DEF WalkStep
        <5>. QED
          BY <2>3, <2>4, <4>1, <5>1
      <4>2. CASE i # at
        <5>1. i \in Visited
          BY <1>6, <4>2
        <5>. QED
          BY <2>3, <5>1 DEF IInv, Kept
      <4>. QED
        BY <4>1, <4>2
    <3>2. \A t : Words(t)' = Words(t)
      BY DEF Words
    <3>. QED
      BY <1>4, <3>1 DEF Kept, Words
  <2>7. Listed'
    <3>1. ASSUME NEW n \in DOMAIN messages' PROVE messages'[n].of > at'
      <4>1. CASE n \in DOMAIN messages
        BY <1>1, <1>15, <2>3, <4>1
      <4>2. CASE n = last
        BY <1>1, <1>15, <2>3, <2>4, <4>2
      <4>. QED
        BY <2>3, <4>1, <4>2
    <3>2. ASSUME NEW n \in DOMAIN messages', NEW m \in DOMAIN messages', n < m
          PROVE  messages'[n].of > messages'[m].of
      <4>1. n \in DOMAIN messages
        BY <1>1, <1>7, <1>9, <3>2
      <4>2. CASE m \in DOMAIN messages
        <5>1. messages[n].of > messages[m].of
          BY <3>2, <4>1, <4>2 DEF IInv, Listed
        <5>. QED
          BY <2>3, <4>1, <4>2, <5>1
      <4>3. CASE m = last
        BY <1>15, <2>3, <2>4, <4>1, <4>3
      <4>. QED
        BY <2>3, <4>2, <4>3
    <3>3. /\ \A i \in Shown' : i \in Shown \/ i = at
          /\ \A i \in Shown : i \in Shown'
          /\ at \in Shown'
      BY <2>3, <2>4 DEF Shown
    <3>4. cleaning => Cleaned(at) # << >>
      BY <1>1, <1>9
    <3>5. ASSUME NEW i \in Visited' PROVE i \in Shown' <=> (cleaning => Cleaned(i) # << >>)'
      <4>1. CASE i = at
        BY <1>14, <3>3, <3>4, <4>1
      <4>2. CASE i \in Visited
        <5>1. i \in Shown <=> (cleaning => Cleaned(i) # << >>)
          BY <4>2 DEF IInv, Listed
        <5>2. i # at
          BY <1>6, <4>2
        <5>. QED
          BY <1>14, <3>3, <5>1, <5>2
      <4>. QED
        BY <1>6, <4>1, <4>2
    <3>. QED
      BY <3>1, <3>2, <3>5 DEF Listed
  <2>. QED
    BY <2>1, <2>2, <2>5, <2>6, <2>7
<1>10. /\ messages' \in Seq([of : Position, text : Seq(Token), marked : BOOLEAN])
       /\ cleaned' \in BOOLEAN /\ removed' \in BOOLEAN
       /\ Noted' /\ Kept' /\ Listed'
  BY <1>8, <1>9, Zenon DEF WalkStep
<1>11. at' \in 0 .. Len(chain')
  BY <1>1, <1>3 DEF Outermost
<1>16. /\ report' \in [heading : {"none", "this error", "these errors"},
                       note : {"none", "lines marked", "removed"}, backtrace : 0 .. MaxDepth]
       /\ report'.heading = Announced'
  <2>1. report \in [heading : {"none", "this error", "these errors"},
                    note : {"none", "lines marked", "removed"}, backtrace : 0 .. MaxDepth]
    BY Zenon DEF IInv, Base, TypeOK
  <2>2. Announced' \in {"none", "this error", "these errors"}
    BY DEF Announced, Heading
  <2>. HIDE DEF Announced
  <2>. QED
    BY <1>1, <2>1, <2>2
<1>12. TypeOK'
  BY <1>1, <1>10, <1>11, <1>16, Zenon DEF IInv, Base, TypeOK, config, error
<1>13. Begun'
  <2>1. stage' = "walk"
    BY <1>1
  <2>2. chain' # << >> /\ (at' = 0 \/ at' \in Chain(Outermost)')
    BY <1>1, <1>2, <1>3, <1>4, Zenon
  <2>. QED
    BY <1>16, <2>1, <2>2 DEF Begun
<1>. QED
  BY <1>4, <1>10, <1>12, <1>13 DEF IInv, Base

LEMMA NoIndex == DOMAIN << >> = {}
<1>1. << >> \in Seq(Nat) /\ Len(<< >>) = 0
  OBVIOUS
<1>2. DOMAIN << >> = 1 .. 0
  BY <1>1
<1>. QED
  BY <1>2

(* Nothing has been said yet, and nothing has been passed.                  *)
LEMMA Unsaid ==
  ASSUME stage = "on its way", at = 0, messages = << >>, ~cleaned, ~removed,
         report.heading = "none"
  PROVE  Begun /\ Noted /\ Kept /\ Listed
<1>1. Visited = {} /\ Marked = {} /\ Shown = {} /\ DOMAIN messages = {}
  BY NoIndex DEF Visited, Marked, Shown
<1>. QED
  BY <1>1 DEF Begun, Noted, Kept, Listed, Announced

LEMMA InitHolds == Init => IInv
<1>1. Init => stage = "on its way" /\ at = 0 /\ messages = << >> /\ ~cleaned /\ ~removed
  BY Zenon DEF Init
<1>2. Init => report.heading = "none"
  <2>1. Nothing.heading = "none"
    BY DEF Nothing
  <2>2. Init => report = Nothing
    BY Zenon DEF Init
  <2>. QED
    BY <2>1, <2>2, Zenon
<1>. QED
  BY <1>1, <1>2, BaseInit, Unsaid, Zenon DEF IInv

LEMMA OnItsWay ==
  ASSUME IInv, stage = "on its way", UNCHANGED <<stage, walk, report>>
  PROVE  Begun' /\ Noted' /\ Kept' /\ Listed'
<1>1. at = 0 /\ messages = << >> /\ Visited = {}
  BY Zenon DEF IInv, Begun, Visited
<1>2. Marked = {} /\ Shown = {}
  BY <1>1, NoIndex DEF Marked, Shown
<1>3. (~cleaned /\ ~removed)
  BY <1>1, <1>2, Zenon DEF IInv, Noted
<1>4. stage' = "on its way" /\ at' = 0 /\ messages' = << >> /\ ~cleaned' /\ ~removed'
  BY <1>1, <1>3, Zenon DEF walk
<1>5. Visited' = {} /\ Marked' = {} /\ Shown' = {} /\ DOMAIN messages' = {}
  BY <1>4, NoIndex DEF Visited, Marked, Shown
<1>6. report'.heading = "none"
  BY <1>1 DEF IInv, Begun, Announced
<1>. QED
  BY <1>4, <1>5, <1>6 DEF Begun, Noted, Kept, Listed, Announced

LEMMA StartHolds == ASSUME IInv, StartReport PROVE IInv'
<1>1. /\ stage = "on its way" /\ chain # << >> /\ stage' = "walk" /\ at' = Outermost
      /\ UNCHANGED <<config, error>> /\ chain' = chain
      /\ messages' = messages /\ cleaned' = cleaned /\ removed' = removed
      /\ report' = report
      /\ chain \in Seq(Shape) /\ at = 0 /\ messages = << >> /\ Visited = {}
  BY Zenon DEF StartReport, IInv, Begun, Base, TypeOK, Visited, error
<1>2. /\ Outermost' = Outermost /\ Answerable' /\ AsCaptured'
      /\ \A i : Chain(i)' = Chain(i)
  BY <1>1, ErrorKept, Zenon DEF IInv, Base
<1>3. /\ Outermost \in Nat /\ Outermost \in 1 .. Outermost
      /\ at' \in 0 .. Len(chain') /\ Outermost = Len(chain)
  <2>0. chain \in Seq(Shape) /\ chain # << >>
    BY <1>1, Zenon
  <2>1. Len(chain) \in Nat /\ Len(chain) # 0
    BY <2>0
  <2>2. Outermost = Len(chain) /\ at' = Len(chain) /\ Len(chain') = Len(chain)
    BY <1>1, Zenon DEF Outermost
  <2>. QED
    BY <2>1, <2>2
<1>4. TypeOK'
  BY <1>1, <1>3, Zenon DEF TypeOK, IInv, Base, config, error
<1>5. at' \in Chain(Outermost)'
  <2>1. Outermost \in Chain(Outermost)
    BY <1>1, <1>3, ChainStep, ZenonT(30)
  <2>. QED
    BY <1>1, <1>2, <2>1, Zenon
<1>6. Visited' = {}
  <2>1. Chain(at)' = Chain(Outermost)'
    BY <1>1, <1>2, Zenon
  <2>. QED
    BY <1>1, <2>1 DEF Visited
<1>7. Begun'
  <2>1. report.heading = "none"
    BY <1>1 DEF IInv, Begun, Announced
  <2>. QED
    BY <1>1, <1>5, <2>1 DEF Begun, Announced
<1>8. Marked' = {} /\ Shown' = {} /\ DOMAIN messages' = {} /\ Marked = {} /\ Shown = {}
  BY <1>1, NoIndex DEF Marked, Shown
<1>9. Noted'
  BY <1>1, <1>6, <1>8 DEF IInv, Noted
<1>10. Kept' /\ Listed'
  BY <1>6, <1>8 DEF Kept, Listed
<1>. QED
  BY <1>2, <1>4, <1>7, <1>9, <1>10 DEF IInv, Base

LEMMA FinishHolds == ASSUME IInv, FinishReport PROVE IInv'
<1>1. /\ stage = "walk" /\ at = 0 /\ stage' = "reported"
      /\ report' = [heading |-> IF cleaning /\ messages # << >> THEN Heading(Len(messages) - 1)
                                ELSE report.heading,
                    note |-> Note, backtrace |-> Last(Backtraces(Outermost))]
      /\ UNCHANGED <<config, error>> /\ chain' = chain
      /\ at' = at /\ messages' = messages /\ cleaned' = cleaned /\ removed' = removed
      /\ chain \in Seq(Shape) /\ Len(chain) <= MaxDepth
      /\ messages \in Seq([of : Position, text : Seq(Token), marked : BOOLEAN])
      /\ chain # << >>
  BY Zenon DEF FinishReport, IInv, Begun, Base, TypeOK, walk, error
<1>2. /\ Outermost' = Outermost /\ Source' = Source /\ Text' = Text
      /\ Answerable' /\ AsCaptured'
      /\ \A i : Chain(i)' = Chain(i)
      /\ \A i : Backtraces(i)' = Backtraces(i)
  BY <1>1, ErrorKept, Zenon DEF IInv, Base
<1>10. report' = [heading |-> Announcement, note |-> Note,
                  backtrace |-> Last(Backtraces(Outermost))]
  <2>1. report.heading = Announced
    BY <1>1 DEF IInv, Begun
  <2>. QED
    BY <1>1, <2>1, Zenon DEF Announcement
<1>3. report' \in [heading : {"none", "this error", "these errors"},
                   note : {"none", "lines marked", "removed"},
                   backtrace : 0 .. MaxDepth]
  <2>1. Announcement \in {"none", "this error", "these errors"}
    BY DEF Announcement, Announced, Heading
  <2>2. Note \in {"none", "lines marked", "removed"}
    BY Zenon DEF Note
  <2>3. Last(Backtraces(Outermost)) \in 0 .. MaxDepth
    <3>1. Outermost \in Nat /\ Outermost <= MaxDepth /\ Outermost \in 0 .. Outermost
      BY <1>1 DEF Outermost
    <3>2. \A i \in Backtraces(Outermost) : i \in 1 .. Outermost
      BY <1>1, <3>1, WalksWithin DEF Backtraces, Chained
    <3>3. CASE Backtraces(Outermost) = {}
      BY <3>3, MaxDepthAssumption DEF Last
    <3>4. CASE Backtraces(Outermost) # {}
      <4>1. Backtraces(Outermost) \in SUBSET Nat
        BY <3>1, <3>2
      <4>. QED
        BY <3>1, <3>2, <3>4, <4>1, LastIs, MaxDepthAssumption
    <3>. QED
      BY <3>3, <3>4
  <2>. QED
    BY <1>10, <2>1, <2>2, <2>3
<1>4. TypeOK'
  BY <1>1, <1>3, Zenon DEF TypeOK, IInv, Base, config, error
<1>5. Visited' = Visited
  BY <1>1, <1>2 DEF Visited
<1>6. Begun'
  <2>1. Note' = Note
    BY <1>1 DEF Note
  <2>2. Announced' = Announced /\ Announcement' = Announcement
    <3>1. Announced' = Announced
      BY <1>1, AnnouncedKept
    <3>. QED
      BY <1>1, <3>1 DEF Announcement, Heading, config
  <2>3. Backtraces(Outermost)' = Backtraces(Outermost)
    BY <1>2, Zenon
  <2>4. Last(Backtraces(Outermost))' = Last(Backtraces(Outermost))
    BY <2>3
  <2>5. report' = [heading |-> Announcement, note |-> Note,
                   backtrace |-> Last(Backtraces(Outermost))]'
    BY <1>10, <2>1, <2>2, <2>4, Zenon
  <2>. QED
    BY <1>1, <2>5, Zenon DEF Begun
<1>7. Marked' = Marked /\ Shown' = Shown
  BY <1>1 DEF Marked, Shown
<1>8. Noted'
  BY <1>1, <1>2, <1>5, <1>7 DEF IInv, Noted
<1>9. Kept'
  BY <1>1, <1>2, <1>5 DEF IInv, Kept, Words
<1>11. Listed'
  <2>1. \A i : (cleaning => Cleaned(i) # << >>)' <=> (cleaning => Cleaned(i) # << >>)
    BY <1>1, <1>2 DEF Cleaned, config
  <2>. QED
    BY <1>1, <1>5, <1>7, <2>1 DEF IInv, Listed
<1>. QED
  BY <1>2, <1>4, <1>6, <1>8, <1>9, <1>11 DEF IInv, Base

LEMMA Unmoved == ASSUME IInv, UNCHANGED vars PROVE IInv'
<1>1. /\ UNCHANGED <<config, error>> /\ stage' = stage /\ at' = at /\ messages' = messages
      /\ cleaned' = cleaned /\ removed' = removed /\ report' = report /\ chain' = chain
  BY Zenon DEF vars, walk, error
<1>2. /\ Outermost' = Outermost /\ Source' = Source /\ Text' = Text
      /\ Answerable' /\ AsCaptured'
      /\ \A i : Chain(i)' = Chain(i)
      /\ \A i : Backtraces(i)' = Backtraces(i)
  BY <1>1, ErrorKept, Zenon DEF IInv, Base
<1>3. TypeOK'
  BY <1>1, Zenon DEF TypeOK, IInv, Base, config, error
<1>4. Visited' = Visited
  BY <1>1, <1>2 DEF Visited
<1>5. Begun'
  <2>1. Note' = Note
    BY <1>1 DEF Note
  <2>2. Announced' = Announced /\ Announcement' = Announcement
    <3>1. Announced' = Announced
      BY <1>1, AnnouncedKept
    <3>. QED
      BY <1>1, <3>1 DEF Announcement, Heading, config
  <2>3. Backtraces(Outermost)' = Backtraces(Outermost) /\ Chain(Outermost)' = Chain(Outermost)
    BY <1>2, Zenon
  <2>4. Last(Backtraces(Outermost))' = Last(Backtraces(Outermost))
    BY <2>3
  <2>. QED
    BY <1>1, <2>1, <2>2, <2>3, <2>4, Zenon DEF Begun, IInv
<1>6. Marked' = Marked /\ Shown' = Shown
  BY <1>1 DEF Marked, Shown
<1>7. Noted'
  BY <1>1, <1>2, <1>4, <1>6 DEF IInv, Noted
<1>8. Kept'
  BY <1>1, <1>2, <1>4 DEF IInv, Kept, Words
<1>9. Listed'
  <2>1. \A i : (cleaning => Cleaned(i) # << >>)' <=> (cleaning => Cleaned(i) # << >>)
    BY <1>1, <1>2 DEF Cleaned, config
  <2>. QED
    BY <1>1, <1>4, <1>6, <2>1 DEF IInv, Listed
<1>. QED
  BY <1>2, <1>3, <1>5, <1>7, <1>8, <1>9 DEF IInv, Base

LEMMA StepHolds == IInv /\ [Next]_vars => IInv'
<1>. SUFFICES ASSUME IInv, [Next]_vars PROVE IInv'
  OBVIOUS
<1>1. ASSUME NEW t \in Shape, Arise(t) PROVE IInv'
  <2>1. Base'
    BY <1>1, AriseBase DEF IInv
  <2>2. stage = "on its way" /\ UNCHANGED <<stage, walk, report>>
    BY <1>1, Zenon DEF Arise
  <2>. QED
    BY <2>1, <2>2, OnItsWay, Zenon DEF IInv
<1>2. ASSUME NEW t \in Shape, Wrap(t) PROVE IInv'
  <2>1. Base'
    BY <1>2, WrapBase DEF IInv
  <2>2. stage = "on its way" /\ UNCHANGED <<stage, walk, report>>
    BY <1>2, Zenon DEF Wrap
  <2>. QED
    BY <2>1, <2>2, OnItsWay, Zenon DEF IInv
<1>3. CASE StartReport
  BY <1>3, StartHolds
<1>4. CASE CleanNext
  <2>1. PICK text, mark : WalkStep(text, mark)
    BY <1>4, CleanIsWalkStep DEF IInv
  <2>. QED
    BY <2>1, WalkStepKeeps
<1>5. CASE RawHead \/ RawNext
  <2>1. PICK text, mark : WalkStep(text, mark)
    BY <1>5, RawIsWalkStep DEF IInv
  <2>. QED
    BY <2>1, WalkStepKeeps
<1>6. CASE FinishReport
  BY <1>6, FinishHolds
<1>7. CASE UNCHANGED vars
  BY <1>7, Unmoved
<1>. QED
  BY <1>1, <1>2, <1>3, <1>4, <1>5, <1>6, <1>7, Zenon DEF Next

(* The invariant that the theorems rest on: the error is made of errors of   *)
(* the program that captured what they had to, and the report says of the   *)
(* errors that the walk is past what it should.                             *)
THEOREM Inductive == Spec => []IInv
BY InitHolds, StepHolds, PTL DEF Spec

-----------------------------------------------------------------------------
(* The properties.                                                          *)

(* Every state is one of the types that ErrorChain declares.                *)
THEOREM Typed == Spec => []TypeOK
<1>1. IInv => TypeOK
  BY DEF IInv, Base
<1>. QED
  BY <1>1, Inductive, PTL

(* NoRedundantCapture: an error that is asked for a backtrace when one like *)
(* it exists already captures none.  The walk that asked and the walk that  *)
(* looks later find the same errors, as nothing hides what it did not then. *)
THEOREM CapturesOnce == Spec => []NoRedundantCapture
<1>1. IInv => NoRedundantCapture
  <2>. SUFFICES ASSUME IInv, provider, NEW i \in 1 .. Outermost, NEW j \in Backtraces(i),
                       chain[j].backtrace = "optional", NEW k \in Backtraces(i), ~(j <= k)
                PROVE  FALSE
    BY DEF NoRedundantCapture
  <2>1. Chained /\ AsCaptured
    BY Zenon DEF IInv, Base, TypeOK, Chained
  <2>2. Walks /\ Outermost \in Nat
    BY <2>1, WalksAre DEF Chained, Outermost
  <2>3. j \in Chain(i) /\ k \in Chain(i) /\ j \in captured /\ k \in captured
    BY DEF Backtraces, Provides
  <2>4. j \in 1 .. i /\ k \in 1 .. i
    BY <2>2, <2>3 DEF Walks
  <2>5. k < j /\ k < i /\ j - 1 \in 1 .. Outermost /\ j \in 1 .. Outermost /\ k \in 1 .. (j - 1)
    BY <2>2, <2>4
  <2>6. k \in Chain(j - 1)
    <3>1. ~IsTransparent(k + 1)
      BY <2>2, <2>3, <2>5 DEF Walks
    <3>. QED
      BY <2>2, <2>5, <3>1 DEF Walks
  <2>7. k \in Backtraces(j - 1)
    BY <2>3, <2>6 DEF Backtraces, Provides
  <2>8. Backtraces(j - 1) = {}
    BY <2>1, <2>3, <2>5 DEF AsCaptured
  <2>. QED
    BY <2>7, <2>8
<1>. QED
  BY <1>1, Inductive, PTL

(* FromWhereItArose: the backtrace of the report is that of the deepest     *)
(* error that provides one, or of one inside a transparent wrapper; and     *)
(* there is none if nobody provides one.                                    *)
THEOREM ReportsTheOrigin == Spec => []FromWhereItArose
<1>. DEFINE able == {i \in Chain(Outermost) : chain[i].provides}
<1>1. ASSUME IInv, stage = "reported"
      PROVE  /\ report.backtrace = Last(Backtraces(Outermost))
             /\ Backtraces(Outermost) \subseteq able
  <2>1. report.backtrace = Last(Backtraces(Outermost))
    BY <1>1 DEF IInv, Begun
  <2>2. Backtraces(Outermost) \subseteq able
    BY DEF Backtraces, Provides
  <2>. QED
    BY <2>1, <2>2
<1>2. ASSUME IInv, stage = "reported", ~provider \/ able = {}
      PROVE  report.backtrace = 0
  <2>1. Backtraces(Outermost) = {}
    BY <1>1, <1>2 DEF Backtraces, Provides
  <2>. QED
    BY <1>1, <1>2, <2>1 DEF Last
<1>3. ASSUME IInv, stage = "reported", provider, enabled, NEW d \in able,
             \A i \in able : d <= i
      PROVE  \/ report.backtrace = d
             \/ /\ chain[d].kind = "transparent"
                /\ d \notin captured
                /\ Backtraces(d - 1) # {}
  <2>1. Chained /\ AsCaptured
    BY <1>3, Zenon DEF IInv, Base, TypeOK, Chained
  <2>2. Walks /\ Outermost \in Nat /\ Outermost \in 0 .. Outermost
    BY <2>1, WalksAre DEF Chained, Outermost
  <2>3. Chain(Outermost) \subseteq 1 .. Outermost
    BY <2>1, <2>2, WalksWithin
  <2>4. d \in Chain(Outermost) /\ d \in 1 .. Outermost /\ chain[d].provides
    BY <2>3
  <2>5. chain[d] \in Shape
    BY <2>1, <2>4 DEF Chained, Outermost
  <2>6. CASE d \in captured
    <3>1. d \in Backtraces(Outermost)
      BY <1>3, <2>4, <2>6 DEF Backtraces, Provides
    <3>2. Backtraces(Outermost) \in SUBSET Nat /\ Backtraces(Outermost) # {}
      BY <1>1, <1>3, <2>3, <3>1
    <3>3. /\ Last(Backtraces(Outermost)) \in Backtraces(Outermost)
          /\ Last(Backtraces(Outermost)) <= d
      BY <3>1, <3>2, LastIs
    <3>4. d <= Last(Backtraces(Outermost)) /\ Last(Backtraces(Outermost)) \in Nat
      BY <1>1, <1>3, <3>2, <3>3
    <3>. QED
      BY <1>1, <1>3, <2>4, <3>3, <3>4
  <2>7. CASE d \notin captured
    <3>1. chain[d].backtrace \in {"always", "optional"}
      BY <2>4, <2>5, ShapeAssumption DEF Type
    <3>2. chain[d].backtrace = "optional" /\ Backtraces(d - 1) # {}
      BY <1>3, <2>1, <2>4, <2>7, <3>1 DEF AsCaptured, Captures
    <3>3. ASSUME ~IsTransparent(d) PROVE FALSE
      <4>1. PICK k \in Chain(d - 1) : k \in captured /\ chain[k].provides
        BY <3>2 DEF Backtraces, Provides
      <4>2. k \in 1 .. (d - 1) /\ d - 1 \in 1 .. Outermost
        BY <2>1, <2>2, <2>4, WalksWithin
      <4>3. k < d - 1 => ~IsTransparent(k + 1)
        BY <2>2, <4>2 DEF Walks
      <4>4. k + 1 = d \/ k < d - 1
        BY <2>4, <4>2
      <4>5. k \in 1 .. Outermost /\ ~IsTransparent(k + 1)
        <5>1. k \in 1 .. Outermost
          BY <2>2, <2>4, <4>2
        <5>. QED
          BY <3>3, <4>3, <4>4, <5>1
      <4>6. k \in Chain(Outermost)
        BY <2>2, <2>4, <4>2, <4>5 DEF Walks
      <4>7. d <= k
        BY <1>3, <4>1, <4>6
      <4>. QED
        BY <2>4, <4>2, <4>7
    <3>4. chain[d].kind # "opaque"
      BY <2>5, <3>2, ShapeAssumption
    <3>. QED
      BY <2>7, <3>2, <3>3, <3>4 DEF IsTransparent
  <2>. QED
    BY <2>6, <2>7
<1>. HIDE DEF able
<1>4. IInv => FromWhereItArose
  BY <1>2, <1>3, Zenon DEF FromWhereItArose, able
<1>. QED
  BY <1>4, Inductive, PTL

(* The errors of which a line follows that of another                       *)
Following(told) == {i \in told : \E j \in told : i < j}

(* There are none, one or more of them, as there are lines.                 *)
LEMMA LinesFollow ==
  ASSUME TypeOK, Listed
  PROVE  /\ Len(messages) <= 1 => Following(Shown) = {}
         /\ Len(messages) = 2 => \E i : Following(Shown) = {i}
         /\ Len(messages) > 2 => \E i, j \in Following(Shown) : i # j
<1>1. messages \in Seq([of : Position, text : Seq(Token), marked : BOOLEAN])
  BY Zenon DEF TypeOK
<1>2. /\ Len(messages) \in Nat /\ DOMAIN messages = 1 .. Len(messages)
      /\ \A n \in DOMAIN messages : messages[n].of \in Nat
  BY <1>1, OfNat
<1>3. \A n, m \in DOMAIN messages : n < m => messages[n].of > messages[m].of
  BY DEF Listed
<1>4. CASE Len(messages) <= 1
  <2>1. \A n, m \in DOMAIN messages : n = m
    BY <1>2, <1>4
  <2>2. ASSUME NEW i \in Shown, NEW j \in Shown, i < j PROVE FALSE
    <3>1. i = j
      BY <2>1 DEF Shown
    <3>2. i \in Nat
      BY <1>2 DEF Shown
    <3>. QED
      BY <2>2, <3>1, <3>2
  <2>. QED
    BY <1>4, <2>2 DEF Following
<1>5. CASE Len(messages) = 2
  <2>1. DOMAIN messages = {1, 2} /\ 1 \in DOMAIN messages /\ 2 \in DOMAIN messages
    BY <1>2, <1>5
  <2>2. Shown = {messages[1].of, messages[2].of}
    BY <2>1 DEF Shown
  <2>3. messages[2].of < messages[1].of /\ messages[1].of \in Nat /\ messages[2].of \in Nat
    BY <1>2, <1>3, <2>1
  <2>4. Following(Shown) = {messages[2].of}
    BY <2>2, <2>3 DEF Following
  <2>. QED
    BY <1>5, <2>4
<1>6. CASE Len(messages) > 2
  <2>1. 1 \in DOMAIN messages /\ 2 \in DOMAIN messages /\ 3 \in DOMAIN messages
    BY <1>2, <1>6
  <2>2. messages[2].of < messages[1].of /\ messages[3].of < messages[2].of
    BY <1>2, <1>3, <2>1
  <2>3. /\ messages[1].of \in Shown /\ messages[2].of \in Shown /\ messages[3].of \in Shown
        /\ messages[2].of # messages[3].of
    BY <1>2, <2>1, <2>2 DEF Shown
  <2>4. messages[2].of \in Following(Shown) /\ messages[3].of \in Following(Shown)
    BY <2>2, <2>3 DEF Following
  <2>. QED
    BY <1>2, <1>6, <2>3, <2>4
<1>. QED
  BY <1>2, <1>4, <1>5, <1>6

(* So are there errors of the chain, as the raw report counts them.         *)
LEMMA SourcesFollow ==
  ASSUME Chained, chain # << >>
  PROVE  /\ Plurality \in 0 .. 2
         /\ Plurality = 0 => Following(Chain(Outermost)) = {}
         /\ Plurality = 1 => \E i : Following(Chain(Outermost)) = {i}
         /\ Plurality = 2 => \E i, j \in Following(Chain(Outermost)) : i # j
<1>. DEFINE O == Outermost
            s == Source[O]
            t == Source[s]
<1>1. O \in Nat /\ O \in 1 .. O
  BY DEF Chained, Outermost
<1>2. /\ Chain(0) = {}
      /\ \A i \in 1 .. O : Chain(i) = {i} \union Chain(Source[i])
  BY ChainStep DEF Chained
<1>3. O \in Chain(O)
  BY <1>1, <1>2
<1>4. s \in 0 .. O /\ s < O /\ (s # 0 => s \in Chain(O))
  BY <1>3, Onward
<1>5. s # 0 => t \in 0 .. O /\ t < s /\ (t # 0 => t \in Chain(O))
  <2>1. ASSUME s # 0 PROVE t \in 0 .. O /\ t < s /\ (t # 0 => t \in Chain(O))
    <3>1. s \in Chain(O)
      BY <1>4, <2>1
    <3>. QED
      BY <3>1, Onward
  <2>. QED
    BY <2>1
<1>6. Plurality = IF s = 0 THEN 0 ELSE IF t = 0 THEN 1 ELSE 2
  BY DEF Plurality
<1>. HIDE DEF O, s, t
<1>7. CASE s = 0
  <2>1. Chain(O) = {O}
    BY <1>1, <1>2, <1>7 DEF s
  <2>2. Following(Chain(O)) = {}
    BY <1>1, <2>1 DEF Following
  <2>. QED
    BY <1>6, <1>7, <2>2 DEF O
<1>8. CASE s # 0 /\ t = 0
  <2>1. Chain(O) = {O} \union Chain(s) /\ Chain(s) = {s} \union Chain(t)
    BY <1>1, <1>2, <1>4, <1>8 DEF s, t
  <2>2. Chain(O) = {O, s}
    BY <1>2, <1>8, <2>1
  <2>3. Following(Chain(O)) = {s}
    BY <1>1, <1>4, <2>2 DEF Following
  <2>. QED
    BY <1>6, <1>8, <2>3 DEF O
<1>9. CASE s # 0 /\ t # 0
  <2>1. s \in Chain(O) /\ t \in Chain(O) /\ s < O /\ t < O /\ s # t
    BY <1>1, <1>4, <1>5, <1>9
  <2>2. s \in Following(Chain(O)) /\ t \in Following(Chain(O))
    BY <1>3, <2>1 DEF Following
  <2>. QED
    BY <1>6, <1>9, <2>1, <2>2 DEF O
<1>. QED
  BY <1>7, <1>8, <1>9

(* A heading fits the errors if it says how many of them follow.            *)
Fits(heading, told) ==
  /\ heading = "none" <=> Following(told) = {}
  /\ heading = "this error" <=> \E i \in Following(told) : Following(told) = {i}

LEMMA HeadingFits ==
  ASSUME NEW told, NEW n \in Nat,
         n = 0 => Following(told) = {},
         n = 1 => \E i : Following(told) = {i},
         n > 1 => \E i, j \in Following(told) : i # j
  PROVE  Fits(Heading(n), told)
<1>1. CASE n = 0
  <2>1. Heading(n) = "none"
    BY <1>1 DEF Heading
  <2>. QED
    BY <1>1, <2>1 DEF Fits
<1>2. CASE n = 1
  <2>1. Heading(n) = "this error"
    BY <1>2 DEF Heading
  <2>2. PICK i : Following(told) = {i}
    BY <1>2
  <2>. QED
    BY <2>1, <2>2 DEF Fits
<1>3. CASE n > 1
  <2>1. n # 0 /\ n # 1
    BY <1>3
  <2>2. Heading(n) = "these errors"
    BY <2>1 DEF Heading
  <2>3. PICK i \in Following(told), j \in Following(told) : i # j
    BY <1>3
  <2>4. Heading(n) # "none" /\ Heading(n) # "this error"
    BY <2>2
  <2>5. Following(told) # {} /\ ~ \E k \in Following(told) : Following(told) = {k}
    BY <2>3
  <2>. QED
    BY <2>4, <2>5, Zenon DEF Fits
<1>. QED
  BY <1>1, <1>2, <1>3

(* CausesListed: the lines are those of the chain, from the outside in, and *)
(* the heading says how many follow the first, though the raw report finds  *)
(* out by a walk of its own and the cleaned one by counting its lines.      *)
THEOREM ListsTheCauses == Spec => []CausesListed
<1>1. ASSUME IInv, stage = "reported"
      PROVE  /\ TypeOK /\ Listed /\ Chained /\ chain # << >>
             /\ report.heading = Announcement /\ Visited = Chain(Outermost)
             /\ Shown \subseteq Chain(Outermost)
  <2>1. TypeOK /\ Listed /\ Chained /\ chain # << >> /\ at = 0 /\ stage # "on its way"
    BY <1>1, Zenon DEF IInv, Base, Begun, TypeOK, Chained
  <2>2. report.heading = Announcement
    BY <1>1 DEF IInv, Begun
  <2>3. Visited = Chain(Outermost)
    BY <2>1, ChainStep DEF Visited, Chained
  <2>4. Shown \subseteq Visited
    BY <1>1 DEF IInv, Noted, Shown
  <2>. QED
    BY <2>1, <2>2, <2>3, <2>4
<1>. DEFINE told == {i \in Chain(Outermost) : cleaning => Cleaned(i) # << >>}
<1>2. ASSUME IInv, stage = "reported" PROVE Shown = told
  BY <1>1, <1>2 DEF Listed
<1>. HIDE DEF told
<1>3. ASSUME IInv, stage = "reported" PROVE Fits(report.heading, told)
  <2>1. messages \in Seq([of : Position, text : Seq(Token), marked : BOOLEAN])
    BY <1>1, <1>3, Zenon DEF TypeOK
  <2>2. Len(messages) \in Nat /\ (messages = << >> <=> Len(messages) = 0)
    BY <2>1
  <2>3. CASE cleaning /\ messages # << >>
    <3>1. report.heading = Heading(Len(messages) - 1)
      BY <1>1, <1>3, <2>3 DEF Announcement
    <3>. DEFINE n == Len(messages) - 1
    <3>2. /\ n \in Nat
          /\ n = 0 => Len(messages) <= 1
          /\ n = 1 => Len(messages) = 2
          /\ n > 1 => Len(messages) > 2
      <4>1. Len(messages) \in Nat /\ Len(messages) # 0
        BY <2>2, <2>3
      <4>2. \A m \in Nat : m # 0 => /\ m - 1 \in Nat
                                    /\ m - 1 = 0 => m <= 1
                                    /\ m - 1 = 1 => m = 2
                                    /\ m - 1 > 1 => m > 2
        OBVIOUS
      <4>. QED
        BY <4>1, <4>2
    <3>. HIDE DEF n
    <3>3. /\ n = 0 => Following(Shown) = {}
          /\ n = 1 => \E i : Following(Shown) = {i}
          /\ n > 1 => \E i, j \in Following(Shown) : i # j
      BY <1>1, <1>3, <3>2, LinesFollow
    <3>4. Fits(Heading(n), Shown)
      BY <3>2, <3>3, HeadingFits
    <3>. QED
      BY <1>2, <1>3, <3>1, <3>4 DEF n
  <2>4. CASE cleaning /\ messages = << >>
    <3>1. Following(Shown) = {}
      BY <1>1, <1>3, <2>2, <2>4, LinesFollow
    <3>2. Fits(Heading(0), Shown)
      BY <3>1, HeadingFits
    <3>3. report.heading = Heading(0)
      BY <1>1, <1>3, <2>4 DEF Announcement, Announced, Heading
    <3>. QED
      BY <1>2, <1>3, <3>2, <3>3
  <2>5. CASE ~cleaning
    <3>1. told = Chain(Outermost)
      BY <2>5 DEF told
    <3>2. messages # << >>
      <4>1. Outermost \in 1 .. Outermost
        BY <1>1, <1>3 DEF Chained, Outermost
      <4>2. Outermost \in Chain(Outermost)
        BY <1>1, <1>3, <4>1, ChainStep DEF Chained
      <4>3. Shown # {}
        BY <1>2, <1>3, <3>1, <4>2
      <4>. QED
        BY <4>3, NoIndex DEF Shown
    <3>3. report.heading = Heading(Plurality)
      BY <1>1, <1>3, <2>5, <3>2 DEF Announcement, Announced
    <3>. DEFINE p == Plurality
    <3>4. /\ p \in 0 .. 2
          /\ p = 0 => Following(told) = {}
          /\ p = 1 => \E i : Following(told) = {i}
          /\ p = 2 => \E i, j \in Following(told) : i # j
      BY <1>1, <1>3, <3>1, SourcesFollow
    <3>. HIDE DEF p
    <3>5. p \in Nat /\ (p > 1 => p = 2)
      BY <3>4
    <3>6. Fits(Heading(p), told)
      BY <3>4, <3>5, HeadingFits
    <3>. QED
      BY <3>3, <3>6 DEF p
  <2>. QED
    BY <2>3, <2>4, <2>5
<1>4. ASSUME IInv, stage = "reported"
      PROVE  /\ {messages[n].of : n \in DOMAIN messages} = told
             /\ \A n, m \in DOMAIN messages : n < m => messages[n].of > messages[m].of
  BY <1>1, <1>2, <1>4 DEF Listed, Shown
<1>5. IInv => CausesListed
  BY <1>3, <1>4, Zenon DEF CausesListed, Fits, Following, told
<1>. QED
  BY <1>5, Inductive, PTL

(* NoteHolds: the note below the report says neither more nor less than     *)
(* what cleaning changed.                                                   *)
THEOREM NoteIsTrue == Spec => []NoteHolds
<1>1. IInv => NoteHolds
  <2>. DEFINE differs == {n \in DOMAIN messages : messages[n].text # Text[messages[n].of]}
  <2>. SUFFICES ASSUME IInv, stage = "reported"
                PROVE  /\ \A n \in DOMAIN messages : messages[n].marked <=> n \in differs
                       /\ report.note = "lines marked" <=> differs # {}
                       /\ report.note = "removed" <=> /\ differs = {} /\ Shown # {}
                                                      /\ Shown # Chain(Outermost)
    BY DEF NoteHolds, Shown
  <2>1. report.note = Note /\ at = 0 /\ chain \in Seq(Shape)
    <3>1. chain \in Seq(Shape)
      BY Zenon DEF IInv, Base, TypeOK
    <3>2. at = 0 /\ report = [heading |-> Announcement, note |-> Note,
                              backtrace |-> Last(Backtraces(Outermost))]
      BY Zenon DEF IInv, Begun
    <3>. QED
      BY <3>1, <3>2
  <2>2. Visited = Chain(Outermost)
    BY <2>1, ChainStep DEF Visited
  <2>3. \A n \in DOMAIN messages : messages[n].marked <=> n \in differs
    BY DEF IInv, Noted
  <2>4. Marked # {} <=> differs # {}
    BY <2>3 DEF Marked
  <2>5. /\ cleaned <=> differs # {}
        /\ removed <=> Shown # Chain(Outermost)
    BY <2>2, <2>4, Zenon DEF IInv, Noted
  <2>6. messages = << >> <=> Shown = {}
    <3>1. messages \in Seq([of : Position, text : Seq(Token), marked : BOOLEAN])
      BY Zenon DEF IInv, Base, TypeOK
    <3>2. messages = << >> <=> DOMAIN messages = {}
      <4>1. messages # << >> => 1 \in DOMAIN messages
        BY <3>1
      <4>. QED
        BY <4>1, NoIndex
    <3>. QED
      BY <3>2 DEF Shown
  <2>7. Shown = {} => differs = {}
    BY DEF Shown
  <2>. HIDE DEF differs
  <2>8. report.note = "lines marked" <=> differs # {}
    BY <2>1, <2>5, <2>6, <2>7 DEF Note
  <2>9. report.note = "removed" <=> differs = {} /\ Shown # {} /\ Shown # Chain(Outermost)
    BY <2>1, <2>5, <2>6 DEF Note
  <2>. QED
    BY <2>3, <2>8, <2>9
<1>. QED
  BY <1>1, Inductive, PTL

(* NothingLost: what cleaning cuts off an error's text is its source's      *)
(* text, and what that says is below; so no word is lost.                   *)
THEOREM CleaningLosesNothing == Spec => []NothingLost
<1>1. IInv => NothingLost
  <2>. DEFINE Below(i) == {m \in DOMAIN messages : messages[m].of <= i}
              Says(i, w) == \E n \in Below(i) : w \in Words(messages[n].text)
              S == {i \in 0 .. Outermost :
                      i \in Chain(Outermost) => \A w \in Words(Text[i]) : Says(i, w)}
  <2>. SUFFICES ASSUME IInv, stage = "reported", NEW i \in Chain(Outermost),
                       NEW w \in Words(Text[i])
                PROVE  Says(i, w)
    BY DEF NothingLost
  <2>1. Chained /\ at = 0
    BY Zenon DEF IInv, Begun, Base, TypeOK, Chained
  <2>2. Outermost \in Nat /\ Chain(Outermost) \subseteq 1 .. Outermost
    <3>1. Outermost \in Nat /\ Outermost \in 0 .. Outermost
      BY <2>1 DEF Chained, Outermost
    <3>. QED
      BY <2>1, <3>1, WalksWithin
  <2>3. Visited = Chain(Outermost)
    BY <2>1, ChainStep DEF Visited, Chained
  <2>4. \A n \in DOMAIN messages : messages[n].of \in 1 .. Outermost
    BY <2>2, <2>3 DEF IInv, Noted
  <2>5. ASSUME NEW j \in 0 .. Outermost, \A m \in 0 .. Outermost : m < j => m \in S
        PROVE  j \in S
    <3>. SUFFICES ASSUME j \in Chain(Outermost), NEW v \in Words(Text[j])
                  PROVE  Says(j, v)
      OBVIOUS
    <3>1. \/ \E n \in DOMAIN messages : messages[n].of = j /\ v \in Words(messages[n].text)
          \/ v \in Words(Text[Source[j]])
      BY <2>3 DEF IInv, Kept
    <3>2. CASE \E n \in DOMAIN messages : messages[n].of = j /\ v \in Words(messages[n].text)
      BY <2>2, <3>2
    <3>3. CASE v \in Words(Text[Source[j]])
      <4>1. /\ Source[j] \in 0 .. Outermost /\ Source[j] < j
            /\ Source[j] = 0 \/ Source[j] \in Chain(Outermost)
        BY <2>1, Onward
      <4>2. Source[j] # 0
        <5>1. Text[0] = << >>
          BY <2>1, TextIs DEF Chained
        <5>. QED
          BY <3>3, <5>1, NoIndex DEF Words
      <4>3. Source[j] \in S
        BY <2>5, <4>1
      <4>4. PICK n \in Below(Source[j]) : v \in Words(messages[n].text)
        BY <3>3, <4>1, <4>2, <4>3
      <4>5. n \in Below(j)
        BY <2>2, <2>4, <4>1
      <4>. QED
        BY <4>4, <4>5
    <3>. QED
      BY <3>1, <3>2, <3>3
  <2>6. 0 .. Outermost \subseteq S
    <3>1. \A j \in 0 .. Outermost : (\A m \in 0 .. Outermost : m < j => m \in S) => j \in S
      BY <2>5
    <3>. HIDE DEF S
    <3>. QED
      BY <2>2, <3>1, UpTo
  <2>7. i \in S
    BY <2>2, <2>6
  <2>. QED
    BY <2>7
<1>. QED
  BY <1>1, Inductive, PTL

(* DeepestThatCanBeAsked: both of the ways to a backtrace without providers *)
(* lead to the innermost error that the errors outside of it let be asked.  *)
THEOREM AsksTheDeepest == Spec => []DeepestThatCanBeAsked
<1>. DEFINE Inside(i) == {j \in 1 .. i : /\ chain[j].kind = "whatever"
                                         /\ j < i => ~IsTransparent(j + 1)}
<1>1. ASSUME IInv, NEW i \in 1 .. Outermost, chain[i].kind = "whatever"
      PROVE  /\ WhateverBacktrace(i) \in Inside(i)
             /\ \A j \in Inside(i) : WhateverBacktrace(i) <= j
  <2>1. Walks /\ Outermost \in Nat
    <3>1. Chained
      BY <1>1, Zenon DEF IInv, Base, TypeOK, Chained
    <3>. QED
      BY <3>1, WalksAre DEF Chained, Outermost
  <2>2. \A j : j \in Inside(i) <=> j = i \/ j \in KnownWhatevers(i)
    BY <1>1, <2>1 DEF Walks, KnownWhatevers
  <2>3. \A j \in Inside(i) : j \in Nat /\ j <= i
    BY <2>1
  <2>. HIDE DEF Inside
  <2>4. CASE KnownWhatevers(i) = {}
    BY <2>1, <2>2, <2>4 DEF WhateverBacktrace
  <2>5. CASE KnownWhatevers(i) # {}
    <3>1. KnownWhatevers(i) \in SUBSET Nat
      BY <2>2, <2>3
    <3>2. /\ Last(KnownWhatevers(i)) \in KnownWhatevers(i)
          /\ \A j \in KnownWhatevers(i) : Last(KnownWhatevers(i)) <= j
      BY <2>5, <3>1, LastIs
    <3>3. WhateverBacktrace(i) = Last(KnownWhatevers(i))
      BY <2>5 DEF WhateverBacktrace
    <3>. QED
      BY <2>2, <2>3, <3>2, <3>3
  <2>. QED
    BY <2>4, <2>5
<1>2. ASSUME IInv
      PROVE  \A i \in 1 .. Outermost : \E asked \in 1 .. i :
               /\ chain[asked].kind = "foreign" => asked = i
               /\ ~Delegates(asked) /\ \A j \in (asked + 1) .. i : Delegates(j)
               /\ CompatBacktrace[i] = (IF asked \in captured THEN asked ELSE 0)
  <2>. DEFINE Asks(i, asked) ==
                /\ chain[asked].kind = "foreign" => asked = i
                /\ ~Delegates(asked) /\ \A j \in (asked + 1) .. i : Delegates(j)
                /\ CompatBacktrace[i] = (IF asked \in captured THEN asked ELSE 0)
              S == {i \in 0 .. Outermost : i > 0 => \E asked \in 1 .. i : Asks(i, asked)}
  <2>1. chain \in Seq(Shape) /\ Answerable
    BY <1>2, Zenon DEF IInv, Base, TypeOK
  <2>2. Outermost \in Nat
    BY <2>1 DEF Outermost
  <2>3. \A i \in 1 .. Outermost :
          CompatBacktrace[i] = IF Delegates(i) THEN CompatBacktrace[i - 1]
                               ELSE IF i \in captured THEN i ELSE 0
    BY <2>1, CompatIs
  <2>4. ASSUME NEW n \in 0 .. Outermost, \A m \in 0 .. Outermost : m < n => m \in S
        PROVE  n \in S
    <3>. SUFFICES ASSUME n > 0 PROVE \E asked \in 1 .. n : Asks(n, asked)
      OBVIOUS
    <3>1. n \in 1 .. Outermost
      BY <2>2
    <3>2. CASE ~Delegates(n)
      <4>1. n \in 1 .. n /\ (n + 1) .. n = {}
        BY <3>1
      <4>2. Asks(n, n)
        BY <2>3, <3>1, <3>2, <4>1
      <4>. HIDE DEF Asks
      <4>. QED
        BY <4>1, <4>2
    <3>3. CASE Delegates(n)
      <4>1. n # 1
        <5>1. chain # << >>
          BY <2>1, <3>1 DEF Outermost
        <5>. QED
          BY <2>1, <3>3, <5>1 DEF Answerable
      <4>2. n - 1 \in 0 .. Outermost /\ n - 1 < n /\ n - 1 > 0 /\ n \in 2 .. Outermost
        BY <2>2, <3>1, <4>1
      <4>3. PICK asked \in 1 .. (n - 1) : Asks(n - 1, asked)
        BY <2>4, <4>2
      <4>4. chain[asked].kind # "foreign"
        BY <2>1, <3>3, <4>2, <4>3 DEF Answerable
      <4>5. \A j \in (asked + 1) .. n : j \in (asked + 1) .. (n - 1) \/ j = n
        BY <3>1
      <4>6. CompatBacktrace[n] = CompatBacktrace[n - 1]
        BY <2>3, <3>1, <3>3
      <4>7. Asks(n, asked)
        BY <3>3, <4>3, <4>4, <4>5, <4>6
      <4>8. asked \in 1 .. n
        BY <3>1
      <4>. HIDE DEF Asks
      <4>. QED
        BY <4>7, <4>8
    <3>. QED
      BY <3>2, <3>3
  <2>5. \A n \in 0 .. Outermost : (\A m \in 0 .. Outermost : m < n => m \in S) => n \in S
    BY <2>4
  <2>6. 0 .. Outermost \subseteq S
    <3>. HIDE DEF S
    <3>. QED
      BY <2>2, <2>5, UpTo
  <2>7. ASSUME NEW i \in 1 .. Outermost PROVE \E asked \in 1 .. i : Asks(i, asked)
    <3>1. i \in S /\ i > 0
      BY <2>2, <2>6
    <3>. HIDE DEF Asks
    <3>. QED
      BY <3>1
  <2>. QED
    BY <2>7
<1>3. IInv => DeepestThatCanBeAsked
  BY <1>1, <1>2 DEF DeepestThatCanBeAsked
<1>. QED
  BY <1>3, Inductive, PTL
=============================================================================
