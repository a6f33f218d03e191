------------------------ MODULE FutureContextProofs ------------------------
(***************************************************************************)
(* The safety properties of FutureContext, for every number of layers, of  *)
(* whatever kinds, and for every executor.                                 *)
(***************************************************************************)
EXTENDS FutureContext, SequenceTheorems, TLAPS

(* The error when it leaves layer i.                                        *)
Treated(i) == [j \in 1 .. i |-> Treatment(j)]

(* Where a poll can be.                                                     *)
Located ==
  /\ mode = "idle" => at = Depth + 1
  /\ mode = "call" => at \in 0 .. Depth
  /\ mode \in {"pending", "ok", "err"} => at \in 1 .. Depth + 1
  /\ mode \in {"closure", "convert"} => at \in Layer

(* An error on its way has been treated by all the layers below.            *)
Carried ==
  error = IF mode \in {"err", "closure", "convert"} THEN Treated(at - 1) ELSE << >>

(* Which contexts have been taken, and which have not.                      *)
Taken ==
  /\ \A i, j \in Layer : i < j /\ context[i] => context[j]
  /\ mode = "err" => \A j \in Layer : j < at => ~context[j]
  /\ mode \in {"closure", "convert"} => \A j \in Layer : j <= at => ~context[j]

(* An error that has come out has cost every layer its context, and while   *)
(* the first one is treated none has come out.                              *)
Single ==
  /\ delivered = << >> \/ delivered = <<Treated(Depth)>>
  /\ delivered # << >> => \A i \in Layer : ~context[i]
  /\ mode = "err" /\ at > 1 => delivered = << >>
  /\ mode \in {"closure", "convert"} => delivered = << >>

(* What an executor that stops at the first answer can rely on.             *)
Protocol ==
  /\ broken => misused
  /\ misused => answers # {}
  /\ mode # "idle" /\ ~misused => answers = {}
  /\ mode \in {"idle", "call", "pending", "ok"} /\ answers = {}
       => \A i \in Layer : context[i]
  /\ mode = "err" /\ answers = {} => \A i \in Layer : i >= at => context[i]
  /\ mode \in {"closure", "convert"} /\ answers = {}
       => \A i \in Layer : i > at => context[i]

IInv == TypeOK /\ Located /\ Carried /\ Taken /\ Single /\ Protocol

-----------------------------------------------------------------------------
LEMMA TreatmentType == ASSUME TypeOK, NEW i \in Layer PROVE Treatment(i) \in Treatments
BY DEF TypeOK, Treatment, Treatments

LEMMA TreatedType ==
  ASSUME TypeOK, NEW i \in 0 .. Depth PROVE Treated(i) \in Seq(Treatments)
<1>1. \A j \in 1 .. i : Treatment(j) \in Treatments
  BY TreatmentType, DepthAssumption DEF Layer
<1>2. i \in Nat
  BY DepthAssumption
<1>3. QED BY <1>1, <1>2, IsASeq DEF Treated

LEMMA TreatedEmpty == Treated(0) = << >>
<1>1. 1 .. 0 = {}
  OBVIOUS
<1>2. QED BY <1>1 DEF Treated

(* A layer that appends its treatment to what the layers below did.         *)
LEMMA TreatedAppend ==
  ASSUME TypeOK, NEW i \in Layer
  PROVE  Append(Treated(i - 1), Treatment(i)) = Treated(i)
<1> DEFINE s == Treated(i - 1)
           u == Append(s, Treatment(i))
<1>1. i \in Nat /\ i - 1 \in 0 .. Depth /\ i \in 0 .. Depth
  BY DepthAssumption DEF Layer
<1>2. s \in Seq(Treatments) /\ Treatment(i) \in Treatments /\ Treated(i) \in Seq(Treatments)
  BY <1>1, TreatedType, TreatmentType
<1>3. Len(s) = i - 1 /\ Len(Treated(i)) = i
  BY <1>1, <1>2, LenProperties DEF Treated
<1>4. /\ u \in Seq(Treatments)
      /\ Len(u) = i
      /\ \A j \in 1 .. (i - 1) : u[j] = s[j]
      /\ u[i] = Treatment(i)
  BY <1>1, <1>2, <1>3, AppendProperties
<1>5. \A j \in 1 .. i : u[j] = Treated(i)[j]
  BY <1>1, <1>4 DEF Treated
<1>6. QED BY <1>2, <1>3, <1>4, <1>5, SeqEqual

-----------------------------------------------------------------------------
LEMMA InitIInv == Init => IInv
<1> SUFFICES ASSUME Init PROVE IInv
  OBVIOUS
<1>1. TypeOK
  <2>1. at \in 0 .. Depth + 1
    BY DepthAssumption DEF Init
  <2>2. error \in Seq(Treatments) /\ delivered \in Seq(Seq(Treatments))
    BY DEF Init
  <2>3. QED BY <2>1, <2>2 DEF Init, TypeOK
<1>2. QED
  BY <1>1 DEF Init, IInv, Located, Carried, Taken, Single, Protocol

(* The steps of the executor and of the innermost future take no context.   *)
LEMMA OutsideIInv ==
  ASSUME IInv, Poll \/ Receive \/ Completes \/ Inner
  PROVE  IInv'
<1> USE DEF IInv
<1>1. CASE Poll
  <2> USE <1>1 DEF Poll
  <2>1. TypeOK' /\ Located'
    <3>1. misused' \in BOOLEAN
      OBVIOUS
    <3>2. at' \in 0 .. Depth /\ at' \in 0 .. Depth + 1
      BY DepthAssumption
    <3>3. QED BY <3>1, <3>2 DEF TypeOK, Located
  <2>2. Carried' /\ Taken'
    BY DEF Carried, Taken
  <2>3. Protocol'
    <3>1. (misused => answers # {})'
      BY DEF Protocol
    <3>2. (mode # "idle" /\ ~misused => answers = {})'
      BY DEF Protocol
    <3>3. answers' = {} => \A i \in Layer : context'[i]
      BY DEF Protocol
    <3>4. (broken => misused)'
      BY DEF Protocol
    <3>5. QED BY <3>1, <3>2, <3>3, <3>4 DEF Protocol
  <2>4. Single'
    BY DEF Single, Treated, Treatment
  <2>5. QED BY <2>1, <2>2, <2>3, <2>4
<1>2. CASE Receive
  <2> USE <1>2 DEF Receive, env
  <2>1. TypeOK'
    BY DEF TypeOK
  <2>2. Located' /\ Carried' /\ Taken' /\ Protocol'
    BY DEF Located, Carried, Taken, Protocol
  <2>3. CASE mode = "err"
    <3>1. delivered = << >> /\ error = Treated(Depth) /\ \A j \in Layer : ~context[j]
      BY <2>3, DepthAssumption DEF Single, Carried, Taken, Layer
    <3>2. delivered' = <<Treated(Depth)>>
      BY <2>3, <3>1 
    <3>3. Treated(Depth)' = Treated(Depth)
      BY DEF Treated, Treatment
    <3>4. QED BY <2>1, <2>2, <3>1, <3>2, <3>3 DEF Single
  <2>4. CASE mode # "err"
    BY <2>1, <2>2, <2>4 DEF Single, Treated, Treatment
  <2>5. QED BY <2>3, <2>4
<1>3. CASE Completes
  BY <1>3, ZenonT(30)
     DEF Completes, history, TypeOK, Located, Carried, Taken, Single, Protocol,
         Treated, Treatment
<1>4. CASE InnerPending
  BY <1>4, DepthAssumption
     DEF InnerPending, history, TypeOK, Located, Carried, Taken, Single, Protocol,
         Treated, Treatment
<1>5. CASE InnerReady
  <2> USE <1>5 DEF InnerReady, history
  <2>1. TypeOK'
    BY DepthAssumption DEF TypeOK
  <2>2. Located' /\ Taken' /\ Protocol' /\ Single'
    BY DepthAssumption
       DEF TypeOK, Located, Taken, Protocol, Single, Treated, Treatment, Layer
  <2>3. Treated(0)' = << >> /\ at' - 1 = 0
    BY TreatedEmpty DEF Treated, Treatment
  <2>4. error' = << >>
    BY DEF Carried
  <2>5. Carried'
    BY <2>3, <2>4 DEF Carried
  <2>6. QED BY <2>1, <2>2, <2>5
<1>6. CASE InnerPanics
  BY <1>6, DepthAssumption
     DEF InnerPanics, Panics, env, TypeOK, Located, Carried, Taken, Single,
         Protocol, Treated, Treatment
<1>7. QED BY <1>1, <1>2, <1>3, <1>4, <1>5, <1>6 DEF Inner

LEMMA AdapterIInv ==
  ASSUME IInv, NEW i \in Layer, Adapter(i)
  PROVE  IInv'
<1> USE DEF IInv, Layer
<1>1. CASE Descend(i)
  BY <1>1, DepthAssumption
     DEF Descend, env, history, TypeOK, Located, Carried, Taken, Single, Protocol,
         Treated, Treatment
<1>2. CASE Forward(i)
  BY <1>2, DepthAssumption
     DEF Forward, env, history, TypeOK, Located, Carried, Taken, Single, Protocol,
         Treated, Treatment
<1>3. CASE Take(i)
  <2> USE <1>3 DEF Take, env, history
  <2>1. TypeOK' /\ Located'
    BY DEF TypeOK, Located
  <2>2. Carried'
    BY DEF Carried, Treated, Treatment
  <2>3. Taken'
    BY DepthAssumption DEF Taken, TypeOK
  <2>4. delivered = << >>
    BY DEF Single
  <2>5. Single'
    BY <2>4 DEF Single
  <2>6. Protocol'
    BY DepthAssumption DEF Protocol, TypeOK
  <2>7. QED BY <2>1, <2>2, <2>3, <2>5, <2>6
<1>4. CASE Expect(i)
  BY <1>4, DepthAssumption
     DEF Expect, Panics, env, TypeOK, Located, Carried, Taken, Single, Protocol,
         Treated, Treatment
<1>5. CASE Show(i)
  BY <1>5
     DEF Show, env, history, TypeOK, Located, Carried, Taken, Single, Protocol,
         Treated, Treatment
<1>6. CASE IntoError(i) \/ WithSource(i)
  <2>1. /\ mode = "convert" /\ at = i /\ mode' = "err" /\ at' = i + 1
        /\ UNCHANGED <<env, context, history>>
    BY <1>6 DEF IntoError, WithSource
  <2>2. error' = Append(error, Treatment(i))
    BY <1>6 DEF IntoError, WithSource, Treatment, TypeOK, Kind, Lazy, Selecting
  <2>3. error' = Treated(i)
    BY <2>1, <2>2, TreatedAppend DEF Carried
  <2>4. \A j \in 0 .. Depth : Treated(j)' = Treated(j)
    BY <2>1 DEF env, Treated, Treatment
  <2>5. i \in 0 .. Depth /\ at' - 1 = i
    BY <2>1, DepthAssumption
  <2>6. Carried'
    BY <2>1, <2>3, <2>4, <2>5 DEF Carried
  <2>7. TypeOK'
    <3>1. error' \in Seq(Treatments)
      BY <2>3, <2>5, TreatedType
    <3>2. QED BY <2>1, <3>1, DepthAssumption DEF TypeOK, env, history
  <2>8. Located' /\ Taken' /\ Protocol'
    BY <2>1, DepthAssumption DEF env, history, Located, Taken, Protocol
  <2>9. Single'
    BY <2>1, <2>4, DepthAssumption DEF env, history, Single
  <2>10. QED BY <2>6, <2>7, <2>8, <2>9
<1>7. CASE UserPanics(i)
  BY <1>7, DepthAssumption
     DEF UserPanics, Panics, env, TypeOK, Located, Carried, Taken, Single, Protocol,
         Treated, Treatment
<1>8. QED
  BY <1>1, <1>2, <1>3, <1>4, <1>5, <1>6, <1>7 DEF Adapter

LEMMA StutterIInv == ASSUME IInv, UNCHANGED vars PROVE IInv'
BY DEF IInv, vars, env, history, TypeOK, Located, Carried, Taken, Single, Protocol,
       Treated, Treatment

(* The inductive invariant: where a poll is fixes what its error has been   *)
(* through and which contexts are left.                                     *)
THEOREM Inductive == Spec => []IInv
<1>1. IInv /\ [Next]_vars => IInv'
  BY OutsideIInv, AdapterIInv, StutterIInv DEF Next, Running
<1>2. QED BY InitIInv, <1>1, PTL DEF Spec

(* Every variable keeps its type: no poll leaves the stack of layers.       *)
THEOREM TypeCorrect == Spec => []TypeOK
<1>1. IInv => TypeOK
  BY DEF IInv
<1>2. QED BY Inductive, <1>1, PTL

(* An error that comes out of the outermost layer has been through all of   *)
(* them, and there is at most one.                                          *)
THEOREM WholeErrors == Spec => []ErrorsAreWhole
<1>1. IInv => ErrorsAreWhole
  <2>1. ASSUME delivered = << >> PROVE ErrorsAreWhole
    BY <2>1 DEF ErrorsAreWhole
  <2>2. ASSUME delivered = <<Treated(Depth)>> PROVE ErrorsAreWhole
    <3>1. Len(delivered) = 1 /\ delivered[1] = Treated(Depth)
      BY <2>2
    <3>2. Treated(Depth) = [i \in Layer |-> Treatment(i)]
      BY DEF Treated, Layer
    <3>3. QED BY <3>1, <3>2 DEF ErrorsAreWhole
  <2>3. QED BY <2>1, <2>2 DEF IInv, Single
<1>2. QED BY Inductive, <1>1, PTL

(* An executor that stops at the first answer never sees `expect` fail.     *)
THEOREM ExpectNeverFails == Spec => []ExpectHolds
<1>1. IInv => ExpectHolds
  BY DEF IInv, Protocol, ExpectHolds
<1>2. QED BY Inductive, <1>1, PTL

(* The contexts are spent from the innermost layer outwards.                *)
THEOREM InnerContextsFirst == Spec => []SpentInwards
<1>1. IInv => SpentInwards
  BY DEF IInv, Taken, SpentInwards
<1>2. QED BY Inductive, <1>1, PTL

(* A context is taken for an error that all layers below have treated.      *)
THEOREM TakesAreForErrors == Spec => TakenForAnError
<1>1. ASSUME IInv, [Next]_vars, NEW i \in Layer, context[i], ~context'[i]
      PROVE  mode = "err" /\ error = [j \in 1 .. (i - 1) |-> Treatment(j)]
  <2>1. Take(i)
    BY <1>1 
       DEF Next, Running, Inner, Adapter, vars, env, history, Poll, Completes,
           Receive, InnerPending, InnerReady, InnerPanics, Descend, Forward, Take,
           Expect, Show, IntoError, WithSource, UserPanics, Panics, IInv, TypeOK
  <2>2. QED BY <1>1, <2>1 DEF Take, IInv, Carried, Treated
<1>2. IInv /\ [Next]_vars
        => [\A i \in Layer : context[i] /\ ~context'[i]
              => /\ mode = "err"
                 /\ error = [j \in 1 .. (i - 1) |-> Treatment(j)]]_vars
  BY <1>1
<1>3. QED BY Inductive, <1>2, PTL DEF Spec, TakenForAnError

(* The stack of layers implements one mapped future.                        *)
THEOREM KeepsPromise == Spec => PromiseKept
<1>1. Init => Promise!Init
  BY DEF Init, Promise!Init
<1>2. ASSUME IInv, [Next]_vars PROVE [Promise!Next]_(Promise!vars)
  <2> USE DEF Promise!vars, Promise!Next
  <2>1. kind' = kind
    BY <1>2
       DEF Next, Running, Inner, Adapter, vars, env, history, Poll, Completes,
           Receive, InnerPending, InnerReady, InnerPanics, Descend, Forward, Take,
           Expect, Show, IntoError, WithSource, UserPanics, Panics
  <2>2. [i \in Layer |-> Treatment(i)]' = [i \in Layer |-> Treatment(i)]
    BY <2>1 DEF Treatment
  <2>3. CASE Receive
    <3>1. CASE mode = "pending"
      BY <2>2, <2>3, <3>1 DEF Receive
    <3>2. CASE mode = "ok"
      BY <2>2, <2>3, <3>2 DEF Receive, Promise!Succeed
    <3>3. CASE mode = "err"
      <4>1. delivered = << >> /\ error = [i \in Layer |-> Treatment(i)]
        BY <1>2, <2>3, <3>3, DepthAssumption
           DEF Receive, IInv, Single, Carried, Treated, Layer
      <4>2. QED BY <2>2, <2>3, <3>3, <4>1 DEF Receive, Promise!Fail
    <3>4. QED BY <2>3, <3>1, <3>2, <3>3 DEF Receive
  <2>4. CASE InnerPanics \/ \E i \in Layer : Expect(i) \/ UserPanics(i)
    BY <2>2, <2>4 DEF InnerPanics, Expect, UserPanics, Panics, Promise!Unwind
  <2>5. CASE Poll \/ Completes \/ InnerPending \/ InnerReady
    BY <2>2, <2>5 DEF Poll, Completes, InnerPending, InnerReady, history
  <2>6. CASE \E i \in Layer : \/ Descend(i) \/ Forward(i) \/ Take(i)
                              \/ Show(i) \/ IntoError(i) \/ WithSource(i)
    BY <2>2, <2>6 DEF Descend, Forward, Take, Show, IntoError, WithSource, history
  <2>7. CASE UNCHANGED vars
    BY <2>2, <2>7 DEF vars, history
  <2>8. QED
    BY <1>2, <2>3, <2>4, <2>5, <2>6, <2>7 DEF Next, Running, Inner, Adapter
<1>3. QED BY Inductive, <1>1, <1>2, PTL DEF Spec, PromiseKept, Promise!Spec
=============================================================================
