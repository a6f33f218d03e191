--------------------------- MODULE OnceBoolProofs ---------------------------
(***************************************************************************)
(* The safety properties of OnceBool, for every number of threads, every   *)
(* number of probed variables and every set of texts.                      *)
(***************************************************************************)
EXTENDS OnceBool, TLAPS

(* The threads running the closure.                                         *)
Inside(t) == pc[t] \in {"probe", "store", "publish"}

(* `call_once`: at most one thread runs the closure, none has passed it     *)
(* before it is complete, and none enters it again.                         *)
Exclusive ==
  /\ start = "incomplete" => \A t \in Thread : pc[t] \in {"idle", "call"}
  /\ start = "complete" => \A t \in Thread : ~Inside(t)
  /\ \A t \in Thread : pc[t] = "load" => start = "complete"
  /\ \A t, u \in Thread : Inside(t) /\ Inside(u) => t = u

(* What the closure knows of the environment at each of its steps.          *)
Traced ==
  /\ start = "running" => \A i \in Variable : env[i] \in held[i]
  /\ \A t \in Thread :
       /\ pc[t] = "probe" => \A j \in 1 .. (cursor[t] - 1) : Unset \in held[j]
       /\ pc[t] = "store" => Explains(verdict[t])
       /\ pc[t] = "publish" => Explains(enabled)
  /\ start = "complete" => Explains(enabled)

(* Only the published value has ever been returned.                         *)
Published ==
  \A t \in Thread : \A b \in answer[t] : start = "complete" /\ b = enabled

IInv == TypeOK /\ Exclusive /\ Traced /\ Published

-----------------------------------------------------------------------------
(* An explanation stays one when the variables take further values.         *)
LEMMA ExplainsMonotone ==
  ASSUME NEW b, Explains(b),
         \A i \in Variable : held[i] \subseteq held'[i]
  PROVE  Explains(b)'
BY DEF Explains, Flag

(* The value an initialiser reads last decides the flag: the variables      *)
(* before it were unset when they were probed.                              *)
LEMMA LastProbeExplains ==
  ASSUME TypeOK, NEW c \in Variable,
         \A i \in Variable : env[i] \in held[i],
         \A j \in 1 .. (c - 1) : Unset \in held[j],
         env[c] # Unset \/ c = Depth
  PROVE  Explains(env[c] = On)
<1> DEFINE e == [i \in Variable |-> IF i < c THEN Unset ELSE env[i]]
<1>1. e \in [Variable -> Value]
  BY DEF TypeOK, Variable, Value
<1>2. \A i \in Variable : e[i] \in held[i]
  BY DepthAssumption DEF Variable
<1>3. ASSUME env[c] = On PROVE Flag(e)
  <2>1. e[c] = On
    BY <1>3, DepthAssumption DEF Variable
  <2>2. \A j \in 1 .. (c - 1) : e[j] = Unset
    BY DepthAssumption DEF Variable
  <2>3. QED BY <2>1, <2>2 DEF Flag
<1>4. ASSUME Flag(e) PROVE env[c] = On
  <2>1. PICK i \in Variable : e[i] = On /\ \A j \in 1 .. (i - 1) : e[j] = Unset
    BY <1>4 DEF Flag
  <2>2. On # Unset
    BY TextAssumption
  <2>3. ~(i < c)
    BY <2>1, <2>2
  <2>4. ~(i > c)
    <3>1. SUFFICES ASSUME i > c PROVE FALSE
      OBVIOUS
    <3>2. c \in 1 .. (i - 1) /\ c # Depth
      BY <3>1, DepthAssumption DEF Variable
    <3>3. e[c] = Unset
      BY <2>1, <3>2
    <3>4. e[c] = env[c]
      BY DepthAssumption DEF Variable
    <3>5. QED BY <3>2, <3>3, <3>4
  <2>5. i = c
    BY <2>3, <2>4, DepthAssumption DEF Variable
  <2>6. QED BY <2>1, <2>5, DepthAssumption DEF Variable
<1>5. (env[c] = On) = Flag(e)
  BY <1>3, <1>4 DEF Flag
<1>6. QED BY <1>1, <1>2, <1>5 DEF Explains

-----------------------------------------------------------------------------
LEMMA InitIInv == Init => IInv
<1> SUFFICES ASSUME Init PROVE IInv
  OBVIOUS
<1>1. TypeOK
  <2>1. 1 \in Variable
    BY DepthAssumption DEF Variable
  <2>2. cursor \in [Thread -> Variable] /\ held \in [Variable -> SUBSET Value]
    BY <2>1 DEF Init
  <2>3. QED BY <2>2 DEF Init, TypeOK
<1>2. \A t \in Thread : pc[t] = "idle" /\ answer[t] = {}
  BY DEF Init
<1>3. Exclusive /\ Traced /\ Published
  BY <1>2 DEF Init, Exclusive, Traced, Published, Inside
<1>4. QED BY <1>1, <1>3 DEF IInv

LEMMA SetEnvIInv ==
  ASSUME IInv, NEW i \in Variable, NEW v \in Value, SetEnv(i, v)
  PROVE  IInv'
<1> USE DEF IInv, SetEnv
<1>1. TypeOK'
  BY DEF TypeOK
<1>2. Exclusive'
  BY DEF Exclusive, Inside
<1>3. \A j \in Variable : held[j] \subseteq held'[j]
  BY DEF TypeOK
<1>4. Traced'
  <2>1. (start = "running" => \A j \in Variable : env[j] \in held[j])'
    BY DEF TypeOK, Traced
  <2>2. ASSUME NEW t \in Thread
        PROVE  (pc[t] = "probe" =>
                  \A j \in 1 .. (cursor[t] - 1) : Unset \in held[j])'
    BY <1>3, DepthAssumption DEF Traced, TypeOK, Variable
  <2>3. ASSUME NEW t \in Thread
        PROVE  /\ (pc[t] = "store" => Explains(verdict[t]))'
               /\ (pc[t] = "publish" => Explains(enabled))'
    <3>1. Explains(verdict[t]) => Explains(verdict[t])'
      BY <1>3 DEF Explains, Flag
    <3>2. Explains(enabled) => Explains(enabled)'
      BY <1>3 DEF Explains, Flag
    <3>3. QED BY <3>1, <3>2 DEF Traced
  <2>4. (start = "complete" => Explains(enabled))'
    <3>1. Explains(enabled) => Explains(enabled)'
      BY <1>3 DEF Explains, Flag
    <3>2. QED BY <3>1 DEF Traced
  <2>5. QED BY <2>1, <2>2, <2>3, <2>4 DEF Traced
<1>5. Published'
  BY DEF Published
<1>6. QED BY <1>1, <1>2, <1>4, <1>5

LEMMA ThreadIInv ==
  ASSUME IInv, NEW t \in Thread, Get(t) \/ Step(t)
  PROVE  IInv'
<1> USE DEF IInv
<1>1. CASE Get(t)
  BY <1>1, ZenonT(30) DEF Get, TypeOK, Exclusive, Traced, Published, Inside, Explains, Flag
<1>2. CASE EnterOnce(t)
  BY <1>2, DepthAssumption
     DEF EnterOnce, TypeOK, Exclusive, Traced, Published, Inside, Variable
<1>3. CASE PassOnce(t)
  BY <1>3, ZenonT(30) DEF PassOnce, TypeOK, Exclusive, Traced, Published, Inside, Explains, Flag
<1>4. CASE ProbeNext(t)
  <2> USE <1>4 DEF ProbeNext
  <2>1. TypeOK'
    BY DepthAssumption DEF TypeOK, Variable
  <2>2. Exclusive' /\ Published'
    BY DEF TypeOK, Exclusive, Published, Inside
  <2>3. start = "running"
    BY DEF TypeOK, Exclusive, Inside
  <2>4. Unset \in held[cursor[t]]
    BY <2>3 DEF Traced, TypeOK
  <2>5. \A j \in 1 .. (cursor'[t] - 1) : Unset \in held[j]
    BY <2>4, DepthAssumption DEF Traced, TypeOK, Variable
  <2>6. Traced'
    BY <2>5 DEF Traced, TypeOK, Explains, Flag
  <2>7. QED BY <2>1, <2>2, <2>6
<1>5. CASE ProbeLast(t)
  <2> USE <1>5 DEF ProbeLast
  <2>1. TypeOK'
    BY DEF TypeOK
  <2>2. Exclusive' /\ Published'
    BY DEF TypeOK, Exclusive, Published, Inside
  <2>3. start = "running"
    BY DEF TypeOK, Exclusive, Inside
  <2>4. Explains(env[cursor[t]] = On)
    <3>1. cursor[t] \in Variable
      BY DEF TypeOK
    <3>2. QED BY <2>3, <3>1, LastProbeExplains DEF Traced
  <2>5. Explains(verdict'[t])
    BY <2>4 DEF TypeOK
  <2>6. \A u \in Thread : u # t => pc'[u] = pc[u] /\ verdict'[u] = verdict[u]
    BY DEF TypeOK
  <2>7. pc'[t] = "store"
    BY DEF TypeOK
  <2>8. ASSUME NEW u \in Thread
        PROVE  /\ (pc[u] = "probe" =>
                      \A j \in 1 .. (cursor[u] - 1) : Unset \in held[j])'
               /\ (pc[u] = "store" => Explains(verdict[u]))'
               /\ (pc[u] = "publish" => Explains(enabled))'
    <3>1. CASE u = t
      BY <2>5, <2>7, <3>1 DEF Explains, Flag
    <3>2. CASE u # t
      <4>1. /\ pc'[u] = pc[u] /\ verdict'[u] = verdict[u] /\ cursor' = cursor
            /\ held' = held /\ enabled' = enabled
        BY <2>6, <3>2
      <4>2. \A b : Explains(b)' <=> Explains(b)
        BY <4>1 DEF Explains, Flag
      <4>3. /\ pc[u] = "probe" => \A j \in 1 .. (cursor[u] - 1) : Unset \in held[j]
            /\ pc[u] = "store" => Explains(verdict[u])
            /\ pc[u] = "publish" => Explains(enabled)
        BY DEF Traced
      <4>4. QED BY <4>1, <4>2, <4>3
    <3>3. QED BY <3>1, <3>2
  <2>9. Traced'
    BY <2>3, <2>8 DEF Traced
  <2>10. QED BY <2>1, <2>2, <2>9
<1>6. CASE Store(t)
  <2> USE <1>6 DEF Store
  <2>1. TypeOK'
    BY DEF TypeOK
  <2>2. start = "running" /\ (\A u \in Thread : u # t => ~Inside(u))
    BY DEF TypeOK, Exclusive, Inside
  <2>3. Exclusive' /\ Published'
    BY <2>2 DEF TypeOK, Exclusive, Published, Inside
  <2>4. Explains(enabled')
    BY DEF Traced
  <2>5. Traced'
    BY <2>2, <2>4 DEF Traced, TypeOK, Inside, Explains, Flag
  <2>6. QED BY <2>1, <2>3, <2>5
<1>7. CASE LeaveOnce(t)
  <2> USE <1>7 DEF LeaveOnce
  <2>1. TypeOK'
    BY DEF TypeOK
  <2>2. start = "running" /\ (\A u \in Thread : u # t => ~Inside(u))
    BY DEF TypeOK, Exclusive, Inside
  <2>3. Exclusive' /\ Published'
    BY <2>2 DEF TypeOK, Exclusive, Published, Inside
  <2>4. Traced'
    BY <2>2 DEF Traced, TypeOK, Inside, Explains, Flag
  <2>5. QED BY <2>1, <2>3, <2>4
<1>8. CASE Load(t)
  <2> USE <1>8 DEF Load
  <2>1. TypeOK'
    BY DEF TypeOK
  <2>2. Exclusive'
    BY DEF TypeOK, Exclusive, Inside
  <2>3. Published'
    BY DEF TypeOK, Exclusive, Published
  <2>4. Traced'
    BY DEF Traced, TypeOK, Explains, Flag
  <2>5. QED BY <2>1, <2>2, <2>3, <2>4
<1>9. QED
  BY <1>1, <1>2, <1>3, <1>4, <1>5, <1>6, <1>7, <1>8 DEF Step

LEMMA StutterIInv == ASSUME IInv, UNCHANGED vars PROVE IInv'
BY DEF IInv, vars, TypeOK, Exclusive, Traced, Published, Inside, Explains, Flag

(* The inductive invariant: Exclusive, Traced and Published are what the    *)
(* type invariant lacks to carry the properties from step to step.          *)
THEOREM Inductive == Spec => []IInv
<1>1. IInv /\ [Next]_vars => IInv'
  BY SetEnvIInv, ThreadIInv, StutterIInv DEF Next
<1>2. QED BY InitIInv, <1>1, PTL DEF Spec

(* Every variable keeps its type, in `get` and in both closures.            *)
THEOREM TypeCorrect == Spec => []TypeOK
<1>1. IInv => TypeOK
  BY DEF IInv
<1>2. QED BY Inductive, <1>1, PTL

(* No two answers of `get` ever differ.                                     *)
THEOREM AnswersAgree == Spec => []Agreement
<1>1. IInv => Agreement
  BY DEF IInv, Published, Agreement
<1>2. QED BY Inductive, <1>1, PTL

(* Every answer is the flag of values the variables had while the closure   *)
(* of the one `call_once` was running.                                      *)
THEOREM AnswersExplained == Spec => []Explained
<1>1. IInv => Explained
  BY DEF IInv, Traced, Published, Explained
<1>2. QED BY Inductive, <1>1, PTL

(* After the first answer, later changes of the environment have no effect. *)
THEOREM AnswersSettled == Spec => Settled
<1>1. ASSUME IInv, [Next]_vars, \E t \in Thread : answer[t] # {}
      PROVE  UNCHANGED <<enabled, held, verdict>>
  <2>1. start = "complete" /\ \A t \in Thread : ~Inside(t)
    BY <1>1 DEF IInv, Published, Exclusive, TypeOK
  <2>2. QED
    BY <1>1, <2>1
       DEF Next, vars, SetEnv, Get, Step, EnterOnce, PassOnce, ProbeNext,
           ProbeLast, Store, LeaveOnce, Load, Inside
<1>2. IInv /\ [Next]_vars
        => [(\E t \in Thread : answer[t] # {})
               => UNCHANGED <<enabled, held, verdict>>]_vars
  BY <1>1
<1>3. QED BY Inductive, <1>2, PTL DEF Spec, Settled

(* `get` implements a write-once Boolean.                                   *)
THEOREM KeepsPromise == Spec => PromiseKept
<1> DEFINE d == IF start = "complete" THEN {enabled} ELSE {}
<1>1. Init => Promise!Init
  BY DEF Init, Promise!Init
<1>2. ASSUME IInv, [Next]_vars PROVE [Promise!Next]_(Promise!vars)
  <2> USE DEF Promise!vars, Promise!Next
  <2>1. CASE \E i \in Variable, v \in Value : SetEnv(i, v)
    BY <2>1 DEF SetEnv
  <2>2. ASSUME NEW t \in Thread, Get(t) \/ Step(t)
        PROVE  [Promise!Next]_(Promise!vars)
    <3>1. CASE Get(t) \/ EnterOnce(t) \/ PassOnce(t) \/ ProbeNext(t) \/ ProbeLast(t)
      BY <3>1, <1>2
         DEF Get, EnterOnce, PassOnce, ProbeNext, ProbeLast
    <3>2. CASE Store(t)
      <4>1. start # "complete"
        BY <1>2, <3>2 DEF Store, IInv, Exclusive, Inside
      <4>2. QED BY <3>2, <4>1 DEF Store
    <3>3. CASE LeaveOnce(t)
      <4>1. start # "complete" /\ enabled \in BOOLEAN
        BY <1>2, <3>3 DEF LeaveOnce, IInv, Exclusive, Inside, TypeOK
      <4>2. Promise!Decide(enabled)
        BY <3>3, <4>1 DEF LeaveOnce, Promise!Decide
      <4>3. QED BY <4>1, <4>2
    <3>4. CASE Load(t)
      <4>1. start = "complete"
        BY <1>2, <3>4 DEF Load, IInv, Exclusive
      <4>2. Promise!Reply(t)
        BY <3>4, <4>1 DEF Load, Promise!Reply
      <4>3. QED BY <4>2
    <3>5. QED BY <2>2, <3>1, <3>2, <3>3, <3>4 DEF Step
  <2>3. CASE UNCHANGED vars
    BY <2>3 DEF vars
  <2>4. QED BY <1>2, <2>1, <2>2, <2>3 DEF Next
<1>3. QED BY Inductive, <1>1, <1>2, PTL DEF Spec, PromiseKept, Promise!Spec
=============================================================================
