------------------------ MODULE StreamContextProofs ------------------------
(***************************************************************************)
(* The safety properties of StreamContext, for every number of layers, of  *)
(* whatever kinds, every executor and every stream inside.                 *)
(***************************************************************************)
EXTENDS StreamContext, SequenceTheorems, FiniteSetTheorems, TLAPS

(* Where a poll can be.                                                     *)
Located ==
  /\ mode = "idle" => at = Depth + 1
  /\ mode = "call" => at \in 0 .. Depth
  /\ mode \in {"pending"} \union Outcome => at \in 1 .. Depth + 1
  /\ mode = "convert" => at \in Layer

(* What has come out has been treated as ErrorsAreWhole says.               *)
Whole(r) ==
  IF r.what # "err" THEN r.trail = << >>
  ELSE /\ Len(r.trail) = Depth
       /\ \A i \in Layer : r.trail[i] = Treatment(i, r.trail[i].call)

(* An error on its way has been treated by all the layers below, each with  *)
(* the context of its latest call.                                          *)
Carried ==
  /\ Len(error) = IF mode \in {"err", "convert"} THEN at - 1 ELSE 0
  /\ \A j \in 1 .. Len(error) :
       error[j] = Treatment(j, IF kind[j] \in Cloned THEN 0 ELSE calls[j])

(* What the innermost stream has given is on its way, received or lost.     *)
OnItsWay == mode \in Outcome \union {"convert"}
Flight ==
  /\ lost \subseteq 1 .. Len(given)
  /\ OnItsWay => /\ Len(given) > 0 /\ Len(given) \notin lost
                 /\ given[Len(given)] = IF mode = "convert" THEN "err" ELSE mode
  /\ \A n \in DOMAIN received :
       /\ received[n].nth <= Len(given)
       /\ OnItsWay => received[n].nth < Len(given)
Arrived == \/ Len(given) = 0 \/ Len(given) \in lost
           \/ \E n \in DOMAIN received : received[n].nth = Len(given)
Balanced == ~OnItsWay => Arrived

(* Layer i has called its closure for the error on its way.                 *)
HasCalled(i) == \/ mode = "err" /\ i < at
                \/ mode = "convert" /\ i <= at

(* The errors for which layer i has been asked.                             *)
Asked(i) ==
  IF mode \in {"err", "convert"} /\ ~HasCalled(i)
  THEN ErrorsGiven(Len(given) - 1) ELSE ErrorsGiven(Len(given))

(* A layer has called its closure once for each of them, but for those that *)
(* a panic has taken along; and the calls for what has been received are    *)
(* over.                                                                    *)
Counted ==
  \A i \in Layer : kind[i] \notin Cloned =>
    /\ Cardinality(Asked(i) \ lost) <= calls[i]
    /\ calls[i] <= Cardinality(Asked(i))
    /\ \A n \in DOMAIN received : received[n].what = "err" =>
         /\ received[n].trail[i].call <= calls[i]
         /\ HasCalled(i) => received[n].trail[i].call < calls[i]

Base == TypeOK /\ Located /\ Carried /\ ErrorsAreWhole /\ Flight
IInv == Base /\ Counted /\ OneCallPerError /\ Balanced

-----------------------------------------------------------------------------
LEMMA TreatmentType ==
  ASSUME TypeOK, NEW i \in Layer, NEW c \in Nat
  PROVE  Treatment(i, c) \in Treatments
BY DEF TypeOK, Treatment, Treatments

LEMMA ErrorsFinite ==
  ASSUME NEW n \in Nat
  PROVE  IsFiniteSet(ErrorsGiven(n)) /\ Cardinality(ErrorsGiven(n)) \in Nat
<1>1. IsFiniteSet(1 .. n)
  BY FS_Interval
<1>2. ErrorsGiven(n) \subseteq 1 .. n
  BY DEF ErrorsGiven
<1>3. QED BY <1>1, <1>2, FS_Subset, FS_CardinalityType

(* Taking more away leaves no more.                                         *)
LEMMA FewerLeft ==
  ASSUME NEW S, NEW T, IsFiniteSet(T), S \subseteq T
  PROVE  /\ IsFiniteSet(S)
         /\ Cardinality(S) \in Nat /\ Cardinality(T) \in Nat
         /\ Cardinality(S) <= Cardinality(T)
BY FS_Subset, FS_CardinalityType

LEMMA ErrorsNext ==
  ASSUME NEW n \in Nat \ {0}
  PROVE  /\ ErrorsGiven(n) = IF given[n] = "err" THEN ErrorsGiven(n - 1) \union {n}
                             ELSE ErrorsGiven(n - 1)
         /\ n \notin ErrorsGiven(n - 1)
BY DEF ErrorsGiven

LEMMA InitBase == Init => Base
<1> SUFFICES ASSUME Init PROVE Base
  OBVIOUS
<1>1. TypeOK
  <2>1. /\ error \in Seq(Treatments) /\ given \in Seq(Outcome)
        /\ received \in Seq([nth : Nat \ {0}, what : Outcome, trail : Seq(Treatments)])
    BY DEF Init
  <2>2. at \in 0 .. Depth + 1
    BY DepthAssumption DEF Init
  <2>3. QED BY <2>1, <2>2 DEF Init, TypeOK
<1>2. Located /\ Carried /\ ErrorsAreWhole /\ Flight
  BY DEF Init, Located, Carried, ErrorsAreWhole, Flight, OnItsWay, Outcome
<1>3. QED BY <1>1, <1>2 DEF Base

(* Steps that neither give, receive nor lose anything.                      *)
Quiet == /\ \/ Poll \/ BecomesReady \/ InnerPending \/ InnerPanics
            \/ Receive /\ mode = "pending"
            \/ \E i \in Layer : \/ Descend(i) \/ Forward(i) \/ CallClosure(i)
                                \/ CloneContext(i) \/ Convert(i)

LEMMA BaseQuiet == ASSUME Base, Quiet PROVE Base' /\ UNCHANGED <<kind, given, received, lost>>
<1> USE DEF Base
<1>1. CASE Poll
  <2> USE <1>1 DEF Poll, history
  <2>1. TypeOK'
    <3>1. at' \in 0 .. Depth + 1
      BY DepthAssumption
    <3>2. notified' \in BOOLEAN
      OBVIOUS
    <3>3. QED BY <3>1, <3>2 DEF TypeOK
  <2>2. Located'
    BY DepthAssumption DEF Located, Outcome
  <2>3. Carried' /\ ErrorsAreWhole' /\ Flight'
    BY DEF Carried, ErrorsAreWhole, Flight, Treatment, OnItsWay, Outcome
  <2>4. QED BY <2>1, <2>2, <2>3
<1>2. CASE BecomesReady
  BY <1>2 DEF BecomesReady, history, TypeOK, Located, Carried, ErrorsAreWhole, Flight,
              Treatment, OnItsWay, Outcome
<1>3. CASE InnerPending
  <2> USE <1>3 DEF InnerPending, history
  <2>1. TypeOK' /\ Located'
    BY DepthAssumption DEF TypeOK, Located, Outcome
  <2>2. Carried' /\ ErrorsAreWhole' /\ Flight'
    BY DEF Carried, ErrorsAreWhole, Flight, Treatment, OnItsWay, Outcome
  <2>3. QED BY <2>1, <2>2
<1>4. CASE InnerPanics
  <2> USE <1>4 DEF InnerPanics, Panics, env
  <2>1. TypeOK' /\ Located'
    BY DepthAssumption DEF TypeOK, Located, Outcome
  <2>2. Carried' /\ ErrorsAreWhole' /\ Flight'
    BY DEF Carried, ErrorsAreWhole, Flight, Treatment, OnItsWay, Outcome
  <2>3. QED BY <2>1, <2>2
<1>5. CASE Receive /\ mode = "pending"
  <2> USE <1>5 DEF Receive
  <2>1. TypeOK' /\ Located'
    BY DepthAssumption DEF TypeOK, Located, Outcome
  <2>2. Carried' /\ ErrorsAreWhole' /\ Flight'
    BY DEF Carried, ErrorsAreWhole, Flight, Treatment, OnItsWay, Outcome
  <2>3. QED BY <2>1, <2>2
<1>6. ASSUME NEW i \in Layer, Descend(i) \/ Forward(i) \/ CloneContext(i)
      PROVE  Base' /\ UNCHANGED <<kind, given, received, lost>>
  <2> USE <1>6 DEF Descend, Forward, CloneContext, env, history
  <2>1. at \in Nat /\ i - 1 \in 0 .. Depth /\ i + 1 \in 1 .. Depth + 1
    BY DepthAssumption DEF TypeOK, Layer
  <2>2. TypeOK'
    <3>1. at' \in 0 .. Depth + 1
      BY <2>1, DepthAssumption DEF Layer, TypeOK
    <3>2. mode' \in {"idle", "call", "pending", "convert"} \union Outcome
      BY DEF TypeOK
    <3>3. QED BY <3>1, <3>2 DEF TypeOK
  <2>3. Located'
    BY <2>1 DEF Located, Outcome
  <2>4. Carried' /\ ErrorsAreWhole' /\ Flight'
    BY ZenonT(30) DEF Carried, ErrorsAreWhole, Flight, Treatment, OnItsWay, Outcome
  <2>5. QED BY <2>2, <2>3, <2>4
<1>7. ASSUME NEW i \in Layer, CallClosure(i)
      PROVE  Base' /\ UNCHANGED <<kind, given, received, lost>>
  <2> USE <1>7 DEF CallClosure, env, history
  <2>1. TypeOK' /\ Located'
    BY DepthAssumption, SMTT(30) DEF TypeOK, Located, Outcome, Layer
  <2>2. Carried'
    BY DepthAssumption DEF Carried, Treatment, Layer, TypeOK
  <2>3. ErrorsAreWhole' /\ Flight'
    BY DEF ErrorsAreWhole, Flight, Treatment, OnItsWay, Outcome
  <2>4. QED BY <2>1, <2>2, <2>3
<1>8. ASSUME NEW i \in Layer, Convert(i)
      PROVE  Base' /\ UNCHANGED <<kind, given, received, lost>>
  <2> USE <1>8 DEF Convert, env, history
  <2> DEFINE call == IF kind[i] \in Cloned THEN 0 ELSE calls[i]
             t == Treatment(i, call)
  <2>1. t \in Treatments /\ error \in Seq(Treatments) /\ Len(error) = i - 1 /\ i \in Nat \ {0}
    <3>1. call \in Nat
      BY DEF TypeOK
    <3>2. QED BY <3>1, TreatmentType, DepthAssumption DEF TypeOK, Carried, Layer
  <2>2. /\ error' \in Seq(Treatments) /\ Len(error') = i /\ error'[i] = t
        /\ \A j \in 1 .. (i - 1) : error'[j] = error[j]
    <3>1. error' = Append(error, t)
      OBVIOUS
    <3> HIDE DEF t
    <3>2. QED BY <3>1, <2>1, AppendProperties
  <2>3. TypeOK' /\ Located'
    BY <2>2, DepthAssumption DEF TypeOK, Located, Outcome, Layer
  <2>4. Carried'
    <3>1. \A j \in 1 .. i :
            error'[j] = Treatment(j, IF kind[j] \in Cloned THEN 0 ELSE calls[j])
      BY <2>1, <2>2 DEF Carried
    <3>2. QED BY <2>2, <3>1 DEF Carried, Treatment
  <2>5. ErrorsAreWhole' /\ Flight'
    BY DEF ErrorsAreWhole, Flight, Treatment, OnItsWay, Outcome
  <2>6. QED BY <2>3, <2>4, <2>5
<1>9. QED BY <1>1, <1>2, <1>3, <1>4, <1>5, <1>6, <1>7, <1>8 DEF Quiet

LEMMA ReceivedType ==
  ASSUME TypeOK, NEW n \in DOMAIN received
  PROVE  /\ received[n] \in [nth : Nat \ {0}, what : Outcome, trail : Seq(Treatments)]
         /\ received[n].nth \in Nat \ {0} /\ received[n].what \in Outcome
<1> DEFINE R == [nth : Nat \ {0}, what : Outcome, trail : Seq(Treatments)]
<1>1. received \in Seq(R)
  BY DEF TypeOK
<1> HIDE DEF R
<1>2. received[n] \in R
  BY <1>1, ElementOfSeq, LenProperties
<1>3. QED BY <1>2 DEF R

(* The calls of what has been received are numbers.                         *)
LEMMA ReceivedCall ==
  ASSUME TypeOK, ErrorsAreWhole, NEW n \in DOMAIN received, received[n].what = "err",
         NEW i \in Layer
  PROVE  received[n].trail[i].call \in Nat
<1>1. received[n].trail \in Seq(Treatments) /\ Len(received[n].trail) = Depth
  BY ReceivedType DEF ErrorsAreWhole
<1>2. received[n].trail[i] \in Treatments
  BY <1>1, ElementOfSeq, LenProperties DEF Layer
<1>3. QED BY <1>2 DEF Treatments

LEMMA BaseGive == ASSUME Base, InnerReady PROVE Base'
<1> USE DEF Base, InnerReady
<1>1. /\ given' = Append(given, inner) /\ inner \in Outcome
      /\ given \in Seq(Outcome) /\ Len(given) \in Nat
  BY LenProperties DEF TypeOK
<1>2. /\ given' \in Seq(Outcome) /\ Len(given') = Len(given) + 1
      /\ given'[Len(given) + 1] = inner
  BY <1>1, AppendProperties
<1>3. TypeOK' /\ Located'
  BY <1>1, <1>2, DepthAssumption DEF TypeOK, Located, Outcome
<1>4. Carried' /\ ErrorsAreWhole'
  BY <1>1, DepthAssumption DEF Carried, ErrorsAreWhole, Treatment, Outcome
<1>5. Flight'
  <2>1. \A n \in DOMAIN received :
          received[n].nth \in Nat /\ received[n].nth <= Len(given)
    BY ReceivedType DEF Flight
  <2>2. mode' = inner /\ mode' # "convert" /\ UNCHANGED <<received, lost>>
    BY <1>1 DEF Outcome
  <2>3. lost' \subseteq 1 .. Len(given') /\ Len(given') \notin lost'
    BY <1>1, <1>2, <2>2 DEF Flight
  <2>4. QED BY <1>1, <1>2, <2>1, <2>2, <2>3 DEF Flight
<1>6. QED BY <1>3, <1>4, <1>5

(* What Receive adds to `received`.                                         *)
Latest == [nth |-> Len(given), what |-> mode, trail |-> error]

LEMMA Received ==
  ASSUME Base, Receive, mode # "pending"
  PROVE  /\ mode \in Outcome
         /\ received' \in Seq([nth : Nat \ {0}, what : Outcome, trail : Seq(Treatments)])
         /\ Len(received') = Len(received) + 1
         /\ \A n \in DOMAIN received : n \in DOMAIN received' /\ received'[n] = received[n]
         /\ received'[Len(received) + 1] = Latest
         /\ DOMAIN received' = DOMAIN received \union {Len(received) + 1}
         /\ DOMAIN received = 1 .. Len(received) /\ Len(received) \in Nat
<1> DEFINE R == [nth : Nat \ {0}, what : Outcome, trail : Seq(Treatments)]
<1>1. mode \in Outcome /\ received \in Seq(R) /\ Len(received) \in Nat
  BY LenProperties DEF Base, TypeOK, Receive
<1>2. Latest \in R
  BY <1>1 DEF Latest, Base, Flight, OnItsWay, TypeOK
<1>3. received' = Append(received, Latest)
  BY DEF Receive, Latest
<1> HIDE DEF R, Latest
<1>4. /\ received' \in Seq(R) /\ Len(received') = Len(received) + 1
      /\ \A n \in 1 .. Len(received) : received'[n] = received[n]
      /\ received'[Len(received) + 1] = Latest
  BY <1>1, <1>2, <1>3, AppendProperties
<1>5. DOMAIN received = 1 .. Len(received) /\ DOMAIN received' = 1 .. Len(received) + 1
  BY <1>1, <1>4, LenProperties
<1>6. QED BY <1>1, <1>4, <1>5 DEF R

LEMMA BaseReceive == ASSUME Base, Receive, mode # "pending" PROVE Base'
<1> USE DEF Base
<1>1. at = Depth + 1 /\ at' = at /\ mode' = "idle" /\ error' = << >>
      /\ UNCHANGED <<kind, inner, waker, calls, given, lost>>
  BY DEF Receive
<1>2. TypeOK'
  <2>1. notified' \in BOOLEAN
    BY DEF Receive, TypeOK
  <2>2. over' \in BOOLEAN
    BY DEF Receive, TypeOK
  <2>3. QED BY <1>1, <2>1, <2>2, Received DEF TypeOK
<1>3. Located' /\ Carried'
  BY <1>1 DEF Located, Carried, Outcome
<1>4. ErrorsAreWhole'
  <2> SUFFICES Whole(Latest)
    <3>1. ErrorsAreWhole <=> \A n \in DOMAIN received : Whole(received[n])
      BY DEF ErrorsAreWhole, Whole
    <3>2. ErrorsAreWhole' <=> \A n \in DOMAIN received' : Whole(received'[n])
      BY <1>1 DEF ErrorsAreWhole, Whole, Treatment
    <3>3. \A n \in DOMAIN received : Whole(received'[n])
      BY <3>1, Received
    <3>4. QED BY <3>2, <3>3, Received
  <2>1. CASE mode # "err"
    <3>1. error = << >>
      <4>1. error \in Seq(Treatments)
        BY DEF TypeOK
      <4>2. mode \notin {"err", "convert"}
        <5>1. mode = "pending" \/ mode \in Outcome
          BY DEF Receive
        <5>2. QED BY <2>1, <5>1 DEF Outcome
      <4>3. Len(error) = 0
        BY <4>2 DEF Carried
      <4>4. QED BY <4>1, <4>3
    <3>2. Latest.what # "err" /\ Latest.trail = << >>
      BY <2>1, <3>1 DEF Latest
    <3>3. QED BY <3>2 DEF Whole
  <2>2. CASE mode = "err"
    <3>1. Len(error) = Depth /\ Layer = 1 .. Len(error)
      BY <1>1, <2>2, DepthAssumption DEF Carried, Layer
    <3>2. \A i \in Layer : error[i] = Treatment(i, error[i].call)
      <4> TAKE i \in Layer
      <4> DEFINE c == IF kind[i] \in Cloned THEN 0 ELSE calls[i]
      <4>1. error[i] = Treatment(i, c)
        BY <3>1 DEF Carried
      <4> HIDE DEF c
      <4>2. Treatment(i, c).call = c
        BY DEF Treatment
      <4>3. QED BY <4>1, <4>2
    <3>3. Latest.trail = error /\ Latest.what = "err"
      BY <2>2 DEF Latest
    <3>4. QED BY <3>1, <3>2, <3>3 DEF Whole
  <2>3. QED BY <2>1, <2>2
<1>5. Flight'
  <2>1. Latest.nth = Len(given) /\ Len(given) \in Nat
    BY LenProperties DEF Latest, TypeOK
  <2>2. ~OnItsWay' /\ UNCHANGED <<given, lost>>
    BY <1>1 DEF OnItsWay, Outcome
  <2>3. \A n \in DOMAIN received' : received'[n].nth <= Len(given)
    <3>1. \A n \in DOMAIN received : received'[n].nth <= Len(given)
      BY Received DEF Flight
    <3>2. received'[Len(received) + 1].nth <= Len(given)
      BY <2>1, Received
    <3>3. QED BY <3>1, <3>2, Received
  <2>4. QED BY <2>2, <2>3 DEF Flight
<1>6. QED BY <1>2, <1>3, <1>4, <1>5

LEMMA BaseLose == ASSUME Base, NEW i \in Layer, UserPanics(i) PROVE Base'
<1> USE DEF Base, UserPanics, Panics, env
<1>1. Len(given) \in Nat /\ OnItsWay
  BY LenProperties DEF TypeOK, OnItsWay, Outcome
<1>0. lost' = lost \union {Len(given)} /\ lost \subseteq 1 .. Len(given) /\ Len(given) > 0
  BY <1>1 DEF Flight
<1>2. TypeOK' /\ Located'
  <2>1. lost' \in SUBSET Nat /\ at' \in 0 .. Depth + 1
    <3>1. \A x \in lost' : x \in Nat
      BY <1>1, <1>0
    <3>2. QED BY <3>1, DepthAssumption
  <2>2. QED BY <2>1 DEF TypeOK, Located, Outcome
<1>3. Carried' /\ ErrorsAreWhole'
  BY DEF Carried, ErrorsAreWhole, Treatment
<1>4. Flight'
  <2>1. ~OnItsWay' /\ UNCHANGED <<given, received>>
    BY DEF OnItsWay, Outcome
  <2>2. \A x \in lost' : x \in 1 .. Len(given)
    BY <1>1, <1>0
  <2>3. QED BY <2>1, <2>2 DEF Flight
<1>5. QED BY <1>2, <1>3, <1>4

LEMMA StepKinds ==
  ASSUME Base, [Next]_vars
  PROVE  \/ UNCHANGED vars
         \/ Quiet
         \/ InnerReady
         \/ Receive /\ mode # "pending"
         \/ \E i \in Layer : UserPanics(i)
BY DEF Next, Running, Inner, Adapter, Quiet

LEMMA BaseNext == ASSUME Base, [Next]_vars PROVE Base'
<1>1. CASE UNCHANGED vars
  BY <1>1, ZenonT(30)
     DEF Base, vars, env, history, TypeOK, Located, Carried, ErrorsAreWhole, Flight,
              Treatment, OnItsWay
<1>2. QED BY <1>1, StepKinds, BaseQuiet, BaseGive, BaseReceive, BaseLose

(* The variables of StreamContext keep their types, for any number of       *)
(* layers of whatever kinds.                                                *)
THEOREM TypeCorrect == Spec => []TypeOK
<1>1. Base /\ [Next]_vars => Base'
  BY BaseNext
<1>2. Base => TypeOK
  BY DEF Base
<1>3. QED BY InitBase, <1>1, <1>2, PTL DEF Spec

(* Every error that comes out of a stack of any depth has been treated by   *)
(* every layer, in order and once each, and nothing else by any.            *)
THEOREM WholeErrors == Spec => []ErrorsAreWhole
<1>1. Base /\ [Next]_vars => Base'
  BY BaseNext
<1>2. Base => ErrorsAreWhole
  BY DEF Base
<1>3. QED BY InitBase, <1>1, <1>2, PTL DEF Spec

-----------------------------------------------------------------------------
(* The errors that an error, Pending, or an item tells apart.               *)
Treating == mode \in {"err", "convert"}

LEMMA InitIInv == Init => IInv
<1> SUFFICES ASSUME Init PROVE IInv
  OBVIOUS
<1>1. Base
  BY InitBase
<1>2. given = << >> /\ received = << >> /\ lost = {} /\ mode = "idle"
  BY DEF Init
<1>3. Counted
  <2>1. ErrorsGiven(0) = {}
    BY DEF ErrorsGiven
  <2>2. \A i \in Layer : Asked(i) = {} /\ calls[i] = 0
    BY <1>2, <2>1 DEF Asked, Init
  <2>3. Cardinality({}) = 0
    BY FS_EmptySet
  <2>4. {} \ lost = {} /\ DOMAIN received = {}
    BY <1>2
  <2>5. QED BY <2>2, <2>3, <2>4 DEF Counted
<1>4. OneCallPerError
  BY <1>2 DEF OneCallPerError
<1>5. Balanced
  BY <1>2 DEF Balanced, Arrived
<1>6. QED BY <1>1, <1>3, <1>4, <1>5 DEF IInv

(* Nothing has been given, received or lost, and no layer is further.       *)
LEMMA SameCounted ==
  ASSUME Counted, UNCHANGED <<kind, given, received, lost, calls>>,
         Treating' <=> Treating,
         \A i \in Layer : kind[i] \notin Cloned => (HasCalled(i)' <=> HasCalled(i))
  PROVE  Counted'
<1>1. \A i \in Layer : kind[i] \notin Cloned => Asked(i)' = Asked(i)
  BY DEF Asked, Treating, ErrorsGiven
<1>2. ASSUME NEW i \in Layer, kind'[i] \notin Cloned
      PROVE  /\ Cardinality(Asked(i)' \ lost') <= calls'[i]
             /\ calls'[i] <= Cardinality(Asked(i)')
             /\ \A n \in DOMAIN received' : received'[n].what = "err" =>
                  /\ received'[n].trail[i].call <= calls'[i]
                  /\ HasCalled(i)' => received'[n].trail[i].call < calls'[i]
  <2>1. Asked(i)' = Asked(i) /\ (HasCalled(i)' <=> HasCalled(i)) /\ kind[i] \notin Cloned
    BY <1>1, <1>2
  <2>2. QED BY <2>1 DEF Counted
<1>3. QED BY <1>2 DEF Counted

LEMMA CountedQuiet == ASSUME Base, Counted, Quiet PROVE Counted'
<1>1. UNCHANGED <<kind, given, received, lost>>
  BY BaseQuiet
<1>2. CASE \/ Poll \/ BecomesReady \/ InnerPending \/ InnerPanics
           \/ Receive /\ mode = "pending"
  <2>1. UNCHANGED calls
    BY <1>2 DEF Poll, BecomesReady, InnerPending, InnerPanics, Panics, Receive
  <2>2. (mode' = mode /\ at' = at) \/ (~Treating /\ ~Treating')
    <3>1. CASE BecomesReady
      BY <3>1 DEF BecomesReady
    <3>2. CASE Poll \/ InnerPending \/ InnerPanics \/ (Receive /\ mode = "pending")
      BY <3>2 DEF Treating, Poll, InnerPending, InnerPanics, Panics, Receive
    <3>3. QED BY <1>2, <3>1, <3>2
  <2>3. \A i \in Layer : HasCalled(i)' <=> HasCalled(i)
    BY <2>2 DEF Treating, HasCalled
  <2>4. Treating' <=> Treating
    BY <2>2 DEF Treating
  <2>5. QED BY <1>1, <2>1, <2>3, <2>4, SameCounted
<1>3. ASSUME NEW i \in Layer, Descend(i) \/ Forward(i)
      PROVE  Counted'
  <2>1. UNCHANGED calls /\ ~Treating /\ ~Treating'
    BY <1>3 DEF Descend, Forward, Treating
  <2>2. \A j \in Layer : HasCalled(j)' <=> HasCalled(j)
    BY <2>1 DEF HasCalled, Treating
  <2>3. QED BY <1>1, <2>1, <2>2, SameCounted
<1>4. ASSUME NEW i \in Layer, CloneContext(i) \/ Convert(i)
      PROVE  Counted'
  <2>1. UNCHANGED calls /\ Treating /\ Treating'
    BY <1>4 DEF CloneContext, Convert, Treating
  <2>2. \A j \in Layer : kind[j] \notin Cloned => (HasCalled(j)' <=> HasCalled(j))
    <3> SUFFICES ASSUME NEW j \in Layer, kind[j] \notin Cloned
                 PROVE  HasCalled(j)' <=> HasCalled(j)
      OBVIOUS
    <3>1. i \in Nat /\ j \in Nat
      BY DepthAssumption DEF Layer
    <3>2. CASE CloneContext(i)
      <4>1. j # i
        BY <3>2 DEF CloneContext
      <4>2. QED BY <3>1, <3>2, <4>1 DEF CloneContext, HasCalled
    <3>3. CASE Convert(i)
      BY <3>1, <3>3 DEF Convert, HasCalled
    <3>4. QED BY <1>4, <3>2, <3>3
  <2>3. QED BY <1>1, <2>1, <2>2, SameCounted
<1>5. ASSUME NEW i \in Layer, CallClosure(i)
      PROVE  Counted'
  <2> USE <1>5 DEF CallClosure
  <2> DEFINE N == Len(given)
  <2>1. N \in Nat \ {0} /\ N \notin lost /\ given[N] = "err"
    BY LenProperties DEF Base, TypeOK, Flight, OnItsWay, Outcome
  <2>2. calls \in [Layer -> Nat]
    BY DEF Base, TypeOK
  <2>3. /\ ErrorsGiven(N) = ErrorsGiven(N - 1) \union {N}
        /\ N \notin ErrorsGiven(N - 1)
    BY <2>1, ErrorsNext
  <2>4. IsFiniteSet(ErrorsGiven(N - 1)) /\ Cardinality(ErrorsGiven(N - 1)) \in Nat
    BY <2>1, ErrorsFinite
  <2>5. Cardinality(ErrorsGiven(N)) = Cardinality(ErrorsGiven(N - 1)) + 1
    BY <2>3, <2>4, FS_AddElement
  <2>6. /\ Cardinality(ErrorsGiven(N) \ lost) = Cardinality(ErrorsGiven(N - 1) \ lost) + 1
        /\ Cardinality(ErrorsGiven(N - 1) \ lost) \in Nat
    <3>1. ErrorsGiven(N) \ lost = (ErrorsGiven(N - 1) \ lost) \union {N}
      BY <2>1, <2>3
    <3>2. IsFiniteSet(ErrorsGiven(N - 1) \ lost) /\ N \notin (ErrorsGiven(N - 1) \ lost)
      BY <2>3, <2>4, FewerLeft
    <3>3. QED BY <3>1, <3>2, FS_AddElement, FS_CardinalityType
  <2>7. ASSUME NEW j \in Layer, kind[j] \notin Cloned
        PROVE  /\ (HasCalled(j)' <=> j = i \/ HasCalled(j))
               /\ Asked(j)' = IF j = i THEN ErrorsGiven(N) ELSE Asked(j)
    <3>1. HasCalled(j)' <=> j = i \/ HasCalled(j)
      BY DEF HasCalled, Layer
    <3>2. ErrorsGiven(Len(given))' = ErrorsGiven(N) /\ ErrorsGiven(Len(given) - 1)' = ErrorsGiven(N - 1)
      BY <1>1 DEF ErrorsGiven
    <3>3. QED BY <3>1, <3>2 DEF Asked
  <2>8. ~HasCalled(i) /\ Asked(i) = ErrorsGiven(N - 1) /\ kind[i] \notin Cloned
    BY DEF HasCalled, Asked, Layer
  <2>9. calls'[i] = calls[i] + 1 /\ \A j \in Layer \ {i} : calls'[j] = calls[j]
    BY <2>2
  <2>10. ASSUME NEW n \in DOMAIN received, received[n].what = "err"
         PROVE  received[n].trail[i].call \in Nat
    BY <2>10, ReceivedCall, <2>8 DEF Base
  <2> HIDE DEF N
  <2>11. ASSUME NEW j \in Layer, kind[j] \notin Cloned
         PROVE  /\ Cardinality(Asked(j)' \ lost) <= calls'[j]
                /\ calls'[j] <= Cardinality(Asked(j)')
                /\ \A n \in DOMAIN received : received[n].what = "err" =>
                     /\ received[n].trail[j].call <= calls'[j]
                     /\ HasCalled(j)' => received[n].trail[j].call < calls'[j]
    <3>1. CASE j = i
      <4>1. Asked(i)' = ErrorsGiven(N) /\ Asked(i) = ErrorsGiven(N - 1)
        BY <2>7, <2>8
      <4>2. /\ Cardinality(ErrorsGiven(N - 1) \ lost) <= calls[i]
            /\ calls[i] <= Cardinality(ErrorsGiven(N - 1))
            /\ \A n \in DOMAIN received : received[n].what = "err" =>
                 received[n].trail[i].call <= calls[i]
        BY <2>8 DEF Counted
      <4>3. calls[i] \in Nat
        BY <2>2
      <4>4. \A n \in DOMAIN received : received[n].what = "err" =>
              received[n].trail[i].call < calls'[i]
        BY <2>9, <2>10, <4>2, <4>3
      <4>5. QED BY <2>4, <2>5, <2>6, <2>9, <2>10, <3>1, <4>1, <4>2, <4>3, <4>4
    <3>2. CASE j # i
      BY <2>7, <2>9, <2>11, <3>2 DEF Counted
    <3>3. QED BY <3>1, <3>2
  <2>12. QED BY <1>1, <2>11 DEF Counted
<1>6. QED BY <1>2, <1>3, <1>4, <1>5 DEF Quiet

LEMMA GivenSame ==
  ASSUME Base, InnerReady, NEW n \in Nat, n <= Len(given)
  PROVE  ErrorsGiven(n)' = ErrorsGiven(n)
<1>1. /\ given \in Seq(Outcome) /\ inner \in Outcome
      /\ given' = Append(given, inner) /\ Len(given) \in Nat
  BY LenProperties DEF Base, TypeOK, InnerReady
<1>2. \A m \in 1 .. Len(given) : given'[m] = given[m]
  BY <1>1, AppendProperties
<1>3. QED BY <1>1, <1>2 DEF ErrorsGiven

LEMMA CountedGive == ASSUME Base, Counted, InnerReady PROVE Counted'
<1> USE DEF InnerReady
<1>1. /\ Len(given) \in Nat /\ Len(given') = Len(given) + 1
      /\ given'[Len(given) + 1] = inner /\ inner \in Outcome
  BY LenProperties, AppendProperties DEF Base, TypeOK
<1>2. /\ ErrorsGiven(Len(given))' = IF inner = "err"
                                    THEN ErrorsGiven(Len(given) - 1)' \union {Len(given) + 1}
                                    ELSE ErrorsGiven(Len(given) - 1)'
      /\ ErrorsGiven(Len(given) - 1)' = ErrorsGiven(Len(given))
  <2> DEFINE N == Len(given)
             E(n) == {m \in 1 .. n : given'[m] = "err"}
  <2>1. \A n : ErrorsGiven(n)' = E(n)
    BY DEF ErrorsGiven
  <2>2. E(N + 1) = IF inner = "err" THEN E(N) \union {N + 1} ELSE E(N)
    BY <1>1
  <2>3. E(N) = ErrorsGiven(N)
    BY <1>1, <2>1, GivenSame
  <2>4. ErrorsGiven(Len(given))' = E(N + 1) /\ ErrorsGiven(Len(given) - 1)' = E(N)
    BY <1>1 DEF ErrorsGiven
  <2>5. QED BY <2>2, <2>3, <2>4
<1>3. ASSUME NEW i \in Layer
      PROVE  ~HasCalled(i)' /\ Asked(i)' = ErrorsGiven(Len(given)) /\ Asked(i) = ErrorsGiven(Len(given))
  <2>1. ~HasCalled(i)' /\ mode' = inner
    BY <1>1, DepthAssumption DEF HasCalled, Layer, Outcome
  <2>2. Asked(i)' = ErrorsGiven(Len(given))
    <3>1. CASE inner = "err"
      BY <1>2, <2>1, <3>1 DEF Asked
    <3>2. CASE inner # "err"
      BY <1>1, <1>2, <2>1, <3>2 DEF Asked, Outcome
    <3>3. QED BY <3>1, <3>2
  <2>3. QED BY <2>1, <2>2 DEF Asked
<1>4. UNCHANGED <<kind, calls, received, lost>>
  OBVIOUS
<1>5. QED BY <1>3, <1>4 DEF Counted

(* When the executor receives an answer every layer has been asked.         *)
LEMMA AllAsked ==
  ASSUME Base, Receive, NEW i \in Layer
  PROVE  /\ Asked(i) = ErrorsGiven(Len(given)) /\ Asked(i)' = ErrorsGiven(Len(given))
         /\ mode = "err" => HasCalled(i)
         /\ ~HasCalled(i)'
<1>1. /\ mode \in {"pending", "ok", "err", "end"} /\ at = Depth + 1 /\ mode' = "idle"
      /\ given' = given
  BY DEF Receive, Outcome
<1>2. mode = "err" => HasCalled(i)
  BY <1>1, DepthAssumption DEF HasCalled, Layer
<1>3. ~HasCalled(i)'
  BY <1>1 DEF HasCalled
<1>4. Asked(i) = ErrorsGiven(Len(given))
  BY <1>1, <1>2 DEF Asked
<1>5. Asked(i)' = ErrorsGiven(Len(given))
  BY <1>1 DEF Asked, ErrorsGiven
<1>6. QED BY <1>2, <1>3, <1>4, <1>5

(* The call for which an error is wrapped by layer i.                       *)
LEMMA LatestCall ==
  ASSUME Base, Receive, mode = "err", NEW i \in Layer
  PROVE  Latest.what = "err" /\ Latest.nth = Len(given)
         /\ Latest.trail[i].call = IF kind[i] \in Cloned THEN 0 ELSE calls[i]
<1>1. Len(error) = Depth /\ i \in 1 .. Len(error)
  BY DepthAssumption DEF Base, Carried, Receive, Layer
<1> DEFINE c == IF kind[i] \in Cloned THEN 0 ELSE calls[i]
<1>2. error[i] = Treatment(i, c)
  BY <1>1 DEF Base, Carried
<1> HIDE DEF c
<1>3. error[i].call = c
  BY <1>2 DEF Treatment
<1>4. QED BY <1>3 DEF Latest, c

LEMMA CountedReceive ==
  ASSUME Base, Counted, Receive, mode # "pending"
  PROVE  Counted'
<1>1. UNCHANGED <<kind, calls, given, lost>>
  BY DEF Receive
<1>2. ASSUME NEW i \in Layer, kind[i] \notin Cloned, NEW n \in DOMAIN received',
             received'[n].what = "err"
      PROVE  received'[n].trail[i].call <= calls[i]
  <2>1. CASE n \in DOMAIN received
    BY <1>2, <2>1, Received DEF Counted
  <2>2. CASE n = Len(received) + 1
    <3>1. received'[n] = Latest
      BY <2>2, Received
    <3>2. mode = "err" /\ calls[i] \in Nat
      BY <1>2, <3>1 DEF Latest, Base, TypeOK
    <3>3. QED BY <1>2, <3>1, <3>2, LatestCall
  <2>3. QED BY <2>1, <2>2, Received
<1>3. QED BY <1>1, <1>2, AllAsked DEF Counted

LEMMA CountedLose == ASSUME Base, Counted, NEW k \in Layer, UserPanics(k) PROVE Counted'
<1> DEFINE N == Len(given)
<1>1. /\ lost' = lost \union {N} /\ mode' = "idle" /\ N \in Nat \ {0}
      /\ given[N] = "err" /\ UNCHANGED <<kind, calls, given, received>>
  BY LenProperties DEF UserPanics, Panics, env, Base, TypeOK, Flight, OnItsWay, Outcome
<1>2. /\ ErrorsGiven(N) = ErrorsGiven(N - 1) \union {N}
      /\ N \notin ErrorsGiven(N - 1)
  BY <1>1, ErrorsNext
<1>3. /\ IsFiniteSet(ErrorsGiven(N)) /\ Cardinality(ErrorsGiven(N)) \in Nat
      /\ IsFiniteSet(ErrorsGiven(N - 1)) /\ Cardinality(ErrorsGiven(N - 1)) \in Nat
  BY <1>1, ErrorsFinite
<1>4. ErrorsGiven(N) \ lost' \subseteq ErrorsGiven(N - 1) \ lost
  BY <1>1, <1>2
<1>5. /\ ErrorsGiven(N - 1) \subseteq ErrorsGiven(N)
      /\ ErrorsGiven(N - 1) \ lost \subseteq ErrorsGiven(N) \ lost
  BY <1>2
<1>6. /\ Cardinality(ErrorsGiven(N) \ lost') <= Cardinality(ErrorsGiven(N - 1) \ lost)
      /\ Cardinality(ErrorsGiven(N) \ lost') <= Cardinality(ErrorsGiven(N) \ lost)
      /\ Cardinality(ErrorsGiven(N - 1)) <= Cardinality(ErrorsGiven(N))
      /\ Cardinality(ErrorsGiven(N) \ lost') \in Nat /\ Cardinality(ErrorsGiven(N) \ lost) \in Nat
      /\ Cardinality(ErrorsGiven(N - 1) \ lost) \in Nat
  <2>1. IsFiniteSet(ErrorsGiven(N - 1) \ lost) /\ IsFiniteSet(ErrorsGiven(N) \ lost)
    BY <1>3, FewerLeft
  <2>2. ErrorsGiven(N) \ lost' \subseteq ErrorsGiven(N) \ lost
    BY <1>4, <1>5
  <2>3. QED BY <1>3, <1>4, <1>5, <2>1, <2>2, FewerLeft
<1>7. ASSUME NEW i \in Layer, kind[i] \notin Cloned
      PROVE  /\ ~HasCalled(i)'
             /\ Cardinality(Asked(i)' \ lost') <= calls[i]
             /\ calls[i] <= Cardinality(Asked(i)')
             /\ \A n \in DOMAIN received : received[n].what = "err" =>
                  received[n].trail[i].call <= calls[i]
  <2>1. ~HasCalled(i)'
    BY <1>1 DEF HasCalled
  <2>2. Asked(i)' = ErrorsGiven(N) /\ Asked(i) \in {ErrorsGiven(N), ErrorsGiven(N - 1)}
    BY <1>1, <2>1 DEF Asked, ErrorsGiven
  <2>3. calls[i] \in Nat
    BY DEF Base, TypeOK
  <2> HIDE DEF N
  <2>4. Cardinality(ErrorsGiven(N) \ lost') <= calls[i] /\ calls[i] <= Cardinality(ErrorsGiven(N))
    <3>1. Cardinality(Asked(i) \ lost) <= calls[i] /\ calls[i] <= Cardinality(Asked(i))
      BY <1>7 DEF Counted
    <3>2. CASE Asked(i) = ErrorsGiven(N)
      BY <1>3, <1>6, <2>3, <3>1, <3>2
    <3>3. CASE Asked(i) = ErrorsGiven(N - 1)
      BY <1>3, <1>6, <2>3, <3>1, <3>3
    <3>4. QED BY <2>2, <3>2, <3>3
  <2>5. QED BY <1>7, <2>1, <2>2, <2>4 DEF Counted
<1>8. ASSUME NEW i \in Layer, kind'[i] \notin Cloned
      PROVE  /\ Cardinality(Asked(i)' \ lost') <= calls'[i]
             /\ calls'[i] <= Cardinality(Asked(i)')
             /\ \A n \in DOMAIN received' : received'[n].what = "err" =>
                  /\ received'[n].trail[i].call <= calls'[i]
                  /\ HasCalled(i)' => received'[n].trail[i].call < calls'[i]
  BY <1>1, <1>7, <1>8
<1>9. QED BY <1>8 DEF Counted

-----------------------------------------------------------------------------
(* OneCallPerError, of the nth answer.                                      *)
Fair(n) ==
  \A i \in Layer :
    LET call == received[n].trail[i].call
        errors == ErrorsGiven(received[n].nth)
    IN  IF kind[i] \in Cloned THEN call = 0
        ELSE /\ Cardinality(errors \ lost) <= call
             /\ call <= Cardinality(errors)
             /\ \A m \in 1 .. (n - 1) :
                  received[m].what = "err" => received[m].trail[i].call < call

LEMMA Fairly == OneCallPerError <=> \A n \in DOMAIN received : received[n].what = "err" => Fair(n)
BY DEF OneCallPerError, Fair

LEMMA OneCallQuiet ==
  ASSUME OneCallPerError, UNCHANGED <<kind, given, received, lost>>
  PROVE  OneCallPerError'
BY DEF OneCallPerError, ErrorsGiven

LEMMA OneCallGive == ASSUME Base, OneCallPerError, InnerReady PROVE OneCallPerError'
<1>1. UNCHANGED <<kind, received, lost>>
  BY DEF InnerReady
<1>2. \A n \in DOMAIN received : ErrorsGiven(received[n].nth)' = ErrorsGiven(received[n].nth)
  <2> SUFFICES ASSUME NEW n \in DOMAIN received
               PROVE  ErrorsGiven(received[n].nth)' = ErrorsGiven(received[n].nth)
    OBVIOUS
  <2>1. received[n].nth \in Nat /\ received[n].nth <= Len(given)
    BY ReceivedType DEF Base, Flight
  <2> DEFINE k == received[n].nth
  <2>2. k' = k
    BY <1>1
  <2>3. ErrorsGiven(k)' = {m \in 1 .. k : given'[m] = "err"}
    BY <2>2 DEF ErrorsGiven
  <2>4. \A m \in 1 .. k : given'[m] = given[m]
    BY <2>1, LenProperties, AppendProperties DEF InnerReady, Base, TypeOK
  <2>5. QED BY <2>3, <2>4 DEF ErrorsGiven
<1>3. QED BY <1>1, <1>2 DEF OneCallPerError

LEMMA OneCallLose ==
  ASSUME Base, OneCallPerError, NEW k \in Layer, UserPanics(k)
  PROVE  OneCallPerError'
<1>1. UNCHANGED <<kind, given, received>> /\ lost' = lost \union {Len(given)}
  BY DEF UserPanics, Panics, env
<1>2. ASSUME NEW n \in DOMAIN received, received[n].what = "err" PROVE Fair(n)'
  <2> DEFINE errors == ErrorsGiven(received[n].nth)
  <2>1. IsFiniteSet(errors) /\ Cardinality(errors) \in Nat
    BY ReceivedType, ErrorsFinite DEF Base
  <2>2. /\ Cardinality(errors \ lost') <= Cardinality(errors \ lost)
        /\ Cardinality(errors \ lost') \in Nat /\ Cardinality(errors \ lost) \in Nat
    <3>1. errors \ lost' \subseteq errors \ lost /\ errors \ lost \subseteq errors
      BY <1>1
    <3>2. IsFiniteSet(errors \ lost)
      BY <2>1, <3>1, FewerLeft
    <3>3. QED BY <3>1, <3>2, FewerLeft
  <2>3. errors' = errors
    BY <1>1 DEF ErrorsGiven
  <2>4. Fair(n)
    BY <1>2, Fairly
  <2>5. \A i \in Layer : received[n].trail[i].call \in Nat
    BY <1>2, ReceivedCall DEF Base
  <2> HIDE DEF errors
  <2>6. ASSUME NEW i \in Layer, kind[i] \notin Cloned
        PROVE  Cardinality(errors \ lost') <= received[n].trail[i].call
    <3>1. Cardinality(errors \ lost) <= received[n].trail[i].call
      BY <2>4, <2>6 DEF Fair, errors
    <3>2. QED BY <2>2, <2>5, <3>1
  <2>7. \A i \in Layer : kind[i] \notin Cloned =>
          Cardinality(ErrorsGiven(received[n].nth)' \ lost') <= received[n].trail[i].call
    BY <2>3, <2>6 DEF errors
  <2>8. ErrorsGiven(received[n].nth)' = ErrorsGiven(received[n].nth)
    BY <1>1 DEF ErrorsGiven
  <2>9. QED BY <1>1, <2>4, <2>7, <2>8 DEF Fair
<1>3. QED BY <1>1, <1>2 DEF OneCallPerError, Fair

LEMMA OneCallReceive ==
  ASSUME Base, Counted, OneCallPerError, Receive, mode # "pending"
  PROVE  OneCallPerError'
<1>1. UNCHANGED <<kind, calls, given, lost>>
  BY DEF Receive
<1>2. ASSUME NEW n \in DOMAIN received, received[n].what = "err" PROVE Fair(n)'
  <2>1. Fair(n) /\ received'[n] = received[n] /\ n \in Nat /\ n <= Len(received)
    BY <1>2, Fairly, Received
  <2>2. \A m \in 1 .. (n - 1) : received'[m] = received[m]
    <3>1. \A m \in 1 .. (n - 1) : m \in 1 .. Len(received)
      BY <2>1, Received
    <3>2. QED BY <3>1, Received
  <2>3. ErrorsGiven(received[n].nth)' = ErrorsGiven(received[n].nth)
    BY <1>1, <2>1 DEF ErrorsGiven
  <2>4. QED BY <1>1, <2>1, <2>2, <2>3 DEF Fair
<1>3. ASSUME NEW n \in Nat, n = Len(received) + 1, mode = "err" PROVE Fair(n)'
  <2> DEFINE E == ErrorsGiven(Len(given))
  <2>1. received'[n] = Latest /\ Latest.nth = Len(given)
    BY <1>3, Received DEF Latest
  <2>2. ErrorsGiven(received[n].nth)' = E
    BY <1>1, <2>1 DEF ErrorsGiven
  <2>3. \A m \in 1 .. (n - 1) : m \in DOMAIN received /\ received'[m] = received[m]
    BY <1>3, Received
  <2> HIDE DEF E
  <2>4. ASSUME NEW i \in Layer
        PROVE  IF kind[i] \in Cloned THEN Latest.trail[i].call = 0
               ELSE /\ Cardinality(E \ lost) <= Latest.trail[i].call
                    /\ Latest.trail[i].call <= Cardinality(E)
                    /\ \A m \in 1 .. (n - 1) : received[m].what = "err" =>
                         received[m].trail[i].call < Latest.trail[i].call
    <3>1. Latest.trail[i].call = IF kind[i] \in Cloned THEN 0 ELSE calls[i]
      BY <1>3, LatestCall
    <3>2. Asked(i) = E /\ HasCalled(i)
      BY <1>3, AllAsked DEF E
    <3>3. QED BY <2>3, <3>1, <3>2 DEF Counted
  <2>5. QED BY <1>1, <2>1, <2>2, <2>3, <2>4 DEF Fair
<1>4. ASSUME NEW n \in DOMAIN received', received'[n].what = "err" PROVE Fair(n)'
  <2>1. CASE n \in DOMAIN received
    BY <1>2, <1>4, <2>1, Received
  <2>2. CASE n = Len(received) + 1
    <3>1. mode = "err" /\ n \in Nat
      BY <1>4, <2>2, Received DEF Latest
    <3>2. QED BY <1>3, <2>2, <3>1
  <2>3. QED BY <1>4, <2>1, <2>2, Received
<1>5. QED BY <1>4 DEF OneCallPerError, Fair

-----------------------------------------------------------------------------
LEMMA BalancedNext == ASSUME Base, Balanced, [Next]_vars PROVE Balanced'
<1>2. CASE UNCHANGED vars
  BY <1>2 DEF vars, env, history, Balanced, Arrived, OnItsWay
<1>3. CASE Quiet
  <2>1. UNCHANGED <<given, received, lost>>
    BY <1>3, BaseQuiet
  <2>2. OnItsWay' <=> OnItsWay
    <3>1. CASE BecomesReady
      BY <3>1 DEF BecomesReady, OnItsWay
    <3>2. CASE \/ Poll \/ InnerPending \/ InnerPanics \/ (Receive /\ mode = "pending")
      BY <3>2 DEF Poll, InnerPending, InnerPanics, Panics, Receive, OnItsWay, Outcome
    <3>3. ASSUME NEW i \in Layer,
                 Descend(i) \/ Forward(i) \/ CallClosure(i) \/ CloneContext(i) \/ Convert(i)
          PROVE  OnItsWay' <=> OnItsWay
      BY <3>3 DEF Descend, Forward, CallClosure, CloneContext, Convert, OnItsWay, Outcome
    <3>4. QED BY <1>3, <3>1, <3>2, <3>3 DEF Quiet
  <2>3. QED BY <2>1, <2>2 DEF Balanced, Arrived
<1>4. CASE InnerReady
  BY <1>4 DEF InnerReady, OnItsWay, Outcome, Balanced, Base, TypeOK
<1>5. CASE Receive /\ mode # "pending"
  <2>1. UNCHANGED given
    BY <1>5 DEF Receive
  <2>2. /\ Len(received) + 1 \in DOMAIN received'
        /\ received'[Len(received) + 1].nth = Len(given)
    BY <1>5, Received DEF Latest
  <2>3. QED BY <2>1, <2>2 DEF Balanced, Arrived
<1>6. ASSUME NEW i \in Layer, UserPanics(i) PROVE Balanced'
  BY <1>6 DEF UserPanics, Panics, Balanced, Arrived
<1>7. QED BY <1>2, <1>3, <1>4, <1>5, <1>6, StepKinds

LEMMA IInvNext == ASSUME IInv, [Next]_vars PROVE IInv'
<1> USE DEF IInv
<1>1. Base' /\ Balanced'
  BY BaseNext, BalancedNext
<1>2. CASE UNCHANGED vars
  BY <1>1, <1>2, OneCallQuiet, SameCounted DEF vars, env, history, HasCalled, Treating
<1>3. CASE Quiet
  BY <1>1, <1>3, BaseQuiet, OneCallQuiet, CountedQuiet
<1>4. CASE InnerReady
  BY <1>1, <1>4, OneCallGive, CountedGive
<1>5. CASE Receive /\ mode # "pending"
  BY <1>1, <1>5, OneCallReceive, CountedReceive
<1>6. ASSUME NEW i \in Layer, UserPanics(i) PROVE IInv'
  BY <1>1, <1>6, OneCallLose, CountedLose
<1>7. QED BY <1>2, <1>3, <1>4, <1>5, <1>6, StepKinds

(* The context of every error that comes out was made for it: the calls of  *)
(* a closure come in the order of the errors, none is for nothing, and only *)
(* errors lost in a panic may lack one; for stacks of any depth and streams *)
(* of any length.                                                           *)
THEOREM ContextsAreFresh == Spec => []OneCallPerError
<1>1. IInv /\ [Next]_vars => IInv'
  BY IInvNext
<1>2. IInv => OneCallPerError
  BY DEF IInv
<1>3. QED BY InitIInv, <1>1, <1>2, PTL DEF Spec

-----------------------------------------------------------------------------
(* StreamContext implements MappedStream.                                   *)

Layers == Way([i \in Layer |-> Treatment(i, 0)])
Out == [n \in DOMAIN received |->
          [nth |-> received[n].nth, what |-> received[n].what,
           through |-> Way(received[n].trail)]]

LEMMA WayOfNone == Way(<< >>) = << >>
<1>1. DOMAIN << >> = {}
  OBVIOUS
<1>2. QED BY <1>1 DEF Way

(* What the layers have done to an error is what they do to any.            *)
LEMMA WayOut ==
  ASSUME Base, Receive, mode # "pending"
  PROVE  Way(error) = IF mode = "err" THEN Layers ELSE << >>
<1>1. CASE mode = "err"
  <2>1. Len(error) = Depth /\ error \in Seq(Treatments)
    BY <1>1, DepthAssumption DEF Base, TypeOK, Carried, Receive
  <2>2. DOMAIN error = Layer
    BY <2>1, LenProperties DEF Layer
  <2>3. \A i \in Layer :
          /\ error[i].layer = Treatment(i, 0).layer
          /\ error[i].wrapped = Treatment(i, 0).wrapped
    <3> SUFFICES ASSUME NEW i \in Layer
                 PROVE  /\ error[i].layer = Treatment(i, 0).layer
                        /\ error[i].wrapped = Treatment(i, 0).wrapped
      OBVIOUS
    <3> DEFINE c == IF kind[i] \in Cloned THEN 0 ELSE calls[i]
    <3>1. error[i] = Treatment(i, c)
      BY <2>1 DEF Base, Carried, Layer
    <3> HIDE DEF c
    <3>2. QED BY <3>1 DEF Treatment
  <2> DEFINE f == [i \in Layer |-> Treatment(i, 0)]
  <2>4. DOMAIN f = Layer /\ \A i \in Layer : f[i] = Treatment(i, 0)
    OBVIOUS
  <2> HIDE DEF f
  <2>5. Way(error) = Way(f)
    BY <2>2, <2>3, <2>4 DEF Way
  <2>6. QED BY <1>1, <2>5 DEF Layers, f
<1>2. CASE mode # "err"
  <2>1. error = << >>
    BY <1>2 DEF Base, Carried, TypeOK, Receive, Outcome
  <2>2. QED BY <1>2, <2>1, WayOfNone
<1>3. QED BY <1>1, <1>2

LEMMA OutAppend ==
  ASSUME Base, Receive, mode # "pending"
  PROVE  Out' = Append(Out, [nth |-> Len(given), what |-> mode, through |-> Way(error)])
<1> DEFINE new == [nth |-> Len(given), what |-> mode, through |-> Way(error)]
           N == Len(received)
<1>1. Out = [n \in 1 .. N |-> Out[n]] /\ Len(Out) = N /\ N \in Nat
  BY Received, LenProperties DEF Out
<1>2. Append(Out, new) = [n \in 1 .. N + 1 |-> IF n = N + 1 THEN new ELSE Out[n]]
  BY <1>1
<1>3. \A n \in 1 .. N + 1 : Out'[n] = IF n = N + 1 THEN new ELSE Out[n]
  BY Received, SMTT(30) DEF Out, Latest
<1>4. DOMAIN Out' = 1 .. N + 1
  BY Received DEF Out
<1>5. QED BY <1>2, <1>3, <1>4 DEF Out

LEMMA InitPromise == Init => Promise!Init
<1>1. DOMAIN << >> = {}
  OBVIOUS
<1>2. QED BY <1>1 DEF Init, Promise!Init

LEMMA StepPromise == ASSUME IInv, [Next]_vars PROVE [Promise!Next]_(Promise!vars)
<1> USE DEF IInv
<1>1. ASSUME UNCHANGED <<kind, given, received, lost>> PROVE UNCHANGED Promise!vars
  BY <1>1 DEF Promise!vars, Way, Treatment
<1>3. Promise!InFlight <=> OnItsWay
  <2>1. Promise!InFlight <=> ~Arrived
    BY DEF Promise!InFlight, Arrived
  <2>2. OnItsWay => ~Arrived
    BY ReceivedType, LenProperties DEF Base, Flight, TypeOK, Arrived
  <2>3. QED BY <2>1, <2>2 DEF Balanced
<1>4. CASE InnerReady
  <2>1. ~OnItsWay /\ inner \in {"ok", "err", "end"} /\ given' = Append(given, inner)
    BY <1>4 DEF InnerReady, OnItsWay, Outcome, Base, TypeOK
  <2>2. UNCHANGED <<kind, received, lost>>
    BY <1>4 DEF InnerReady
  <2>3. UNCHANGED <<Layers, Out, lost>>
    BY <2>2 DEF Layers, Out, Way, Treatment
  <2>4. QED BY <1>3, <2>1, <2>3 DEF Promise!Next, Promise!Give, Layers, Out
<1>5. CASE Receive /\ mode # "pending"
  <2>1. OnItsWay /\ given[Len(given)] = mode /\ UNCHANGED <<kind, given, lost>>
    BY <1>5 DEF Receive, OnItsWay, Outcome, Base, Flight
  <2>2. Out' = Append(Out, Promise!Mapped(Len(given)))
    BY <1>5, <2>1, OutAppend, WayOut DEF Promise!Mapped, Layers
  <2>3. UNCHANGED <<Layers, given, lost>>
    BY <2>1 DEF Layers, Way, Treatment
  <2>4. QED BY <1>3, <2>1, <2>2, <2>3 DEF Promise!Next, Promise!Pass, Layers, Out
<1>6. ASSUME NEW i \in Layer, UserPanics(i) PROVE Promise!Next
  <2>1. /\ OnItsWay /\ given[Len(given)] = "err" /\ lost' = lost \union {Len(given)}
        /\ UNCHANGED <<kind, given, received>>
    BY <1>6 DEF UserPanics, Panics, env, OnItsWay, Outcome, Base, Flight
  <2>2. UNCHANGED <<Layers, given, Out>>
    BY <2>1 DEF Layers, Out, Way, Treatment
  <2>3. QED BY <1>3, <2>1, <2>2 DEF Promise!Next, Promise!Unwind, Layers, Out
<1>7. CASE UNCHANGED vars
  BY <1>1, <1>7 DEF vars, env, history
<1>8. CASE Quiet
  BY <1>1, <1>8, BaseQuiet
<1>9. QED BY <1>4, <1>5, <1>6, <1>7, <1>8, StepKinds

(* A stack of any depth implements MappedStream: whatever the innermost     *)
(* stream gives comes out once and in order, errors through every layer,    *)
(* but for what panics have taken along.                                    *)
THEOREM KeepsPromise == Spec => PromiseKept
<1>1. IInv /\ [Next]_vars => IInv'
  BY IInvNext
<1>2. IInv /\ [Next]_vars => [Promise!Next]_(Promise!vars)
  BY StepPromise
<1>3. QED BY InitIInv, InitPromise, <1>1, <1>2, PTL DEF Spec, PromiseKept, Promise!Spec
=============================================================================
