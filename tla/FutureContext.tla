--------------------------- MODULE FutureContext ---------------------------
(***************************************************************************)
(* The four futures of src/src/futures/try_future.rs -- Context,           *)
(* WithContext, WhateverContext and WithWhateverContext -- stacked on one  *)
(* another in any order around a future of the program, and the executor   *)
(* that polls the outermost one.                                           *)
(*                                                                         *)
(* A poll runs inwards through the layers to the innermost future, which   *)
(* is external, and its answer runs outwards again.  Code of the program   *)
(* runs on the way (closures, conversions, the generation of implicit      *)
(* data) and may panic; the executor may catch that, may poll without      *)
(* having been woken, and may even poll a future that has resolved.        *)
(***************************************************************************)
EXTENDS Naturals, Sequences

CONSTANT Depth  \* the number of layers; layer 1 wraps the innermost future

ASSUME DepthAssumption == Depth \in Nat \ {0}

Layer == 1 .. Depth

Selecting == {"context", "with_context"}  \* end in `into_error`
Lazy == {"with_context", "with_whatever_context"}  \* hold a closure
Kind == {"context", "with_context", "whatever_context", "with_whatever_context"}

VARIABLES kind,      \* kind[i]: which of the four structs layer i is
          context,   \* context[i]: the Option of layer i is Some
          inner,     \* the innermost future: "running", "ready" or "spent"
          verdict,   \* what it resolves to
          waker,     \* it holds the waker of the last poll
          notified,  \* the executor has been told to poll
          mode,      \* what the running poll is doing
          at,        \* the layer that does it; 0 is the innermost future
          error,     \* error[i]: what layer i did to the error on its way
          answers,   \* history: the final answers the executor has had
          delivered, \* history: the errors among them, in order
          misused,   \* history: it polled again after such an answer
          broken     \* history: an `expect` of the library has failed

env == <<kind, inner, verdict, waker, notified>>
history == <<answers, delivered, misused, broken>>
vars == <<env, context, mode, at, error, history>>

(* What layer i does to an error that passes through it: a closure is shown *)
(* the error of the layer below before that error is wrapped.               *)
Treatment(i) == [layer |-> i,
                 shown |-> kind[i] \in Lazy,
                 wrapped |-> IF kind[i] \in Selecting THEN "selector" ELSE "message"]
Treatments == [layer : Layer, shown : BOOLEAN, wrapped : {"selector", "message"}]

TypeOK ==
  /\ kind \in [Layer -> Kind]
  /\ context \in [Layer -> BOOLEAN]
  /\ inner \in {"running", "ready", "spent"}
  /\ verdict \in {"ok", "err"}
  /\ waker \in BOOLEAN
  /\ notified \in BOOLEAN
  /\ mode \in {"idle", "call", "pending", "ok", "err", "closure", "convert"}
  /\ at \in 0 .. Depth + 1
  /\ error \in Seq(Treatments)
  /\ answers \in SUBSET {"ok", "err", "panic"}
  /\ delivered \in Seq(Seq(Treatments))
  /\ misused \in BOOLEAN
  /\ broken \in BOOLEAN

(* The constructors put the context, or the closure, into a Some.           *)
Init ==
  /\ kind \in [Layer -> Kind]
  /\ context = [i \in Layer |-> TRUE]
  /\ inner = "running"
  /\ verdict \in {"ok", "err"}
  /\ waker = FALSE
  /\ notified = TRUE
  /\ mode = "idle"
  /\ at = Depth + 1
  /\ error = << >>
  /\ answers = {}
  /\ delivered = << >>
  /\ misused = FALSE
  /\ broken = FALSE

-----------------------------------------------------------------------------
(* The executor, external.                                                  *)

Poll ==
  /\ mode = "idle"
  /\ mode' = "call"
  /\ at' = Depth
  /\ notified' = FALSE
  /\ misused' = (misused \/ answers # {})
  /\ UNCHANGED <<kind, inner, verdict, waker, context, error, answers, delivered, broken>>

(* The answer has left the outermost layer.                                 *)
Receive ==
  /\ at = Depth + 1
  /\ mode \in {"pending", "ok", "err"}
  /\ answers' = IF mode = "pending" THEN answers ELSE answers \union {mode}
  /\ delivered' = IF mode = "err" THEN Append(delivered, error) ELSE delivered
  /\ mode' = "idle"
  /\ error' = << >>
  /\ UNCHANGED <<env, context, at, misused, broken>>

(* A panic goes through every layer without one of them doing anything.     *)
Panics ==
  /\ mode' = "idle"
  /\ at' = Depth + 1
  /\ error' = << >>
  /\ answers' = answers \union {"panic"}
  /\ UNCHANGED <<env, context, delivered, misused>>

-----------------------------------------------------------------------------
(* The innermost future, external: it resolves once, on its own, and wakes  *)
(* the task whose waker it holds.  What it does when it is polled after it  *)
(* has resolved is its own affair.                                          *)

Completes ==
  /\ inner = "running"
  /\ inner' = "ready"
  /\ waker' = FALSE
  /\ notified' = (notified \/ waker)
  /\ UNCHANGED <<kind, verdict, context, mode, at, error, history>>

InnerPending ==
  /\ mode = "call" /\ at = 0
  /\ inner \in {"running", "spent"}
  /\ waker' = (inner = "running")
  /\ mode' = "pending"
  /\ at' = 1
  /\ UNCHANGED <<kind, inner, verdict, notified, context, error, history>>

InnerReady ==
  /\ mode = "call" /\ at = 0
  /\ \/ inner = "ready" /\ mode' = verdict
     \/ inner = "spent" /\ mode' \in {"ok", "err"}
  /\ inner' = "spent"
  /\ at' = 1
  /\ UNCHANGED <<kind, verdict, waker, notified, context, error, history>>

InnerPanics ==
  /\ mode = "call" /\ at = 0
  /\ inner = "spent"
  /\ Panics
  /\ UNCHANGED broken

-----------------------------------------------------------------------------
(* The layers: `poll` of each of the four structs.                          *)

(* Mutant: the context is taken before the layer below is polled.           *)
Descend_Takes(i) ==
  /\ mode = "call" /\ at = i
  /\ at' = i - 1
  /\ context' = [context EXCEPT ![i] = FALSE]
  /\ UNCHANGED <<env, mode, error, history>>

(* `inner.try_poll(ctx)`, handing the waker on.                             *)
Descend(i) ==
  /\ mode = "call" /\ at = i
  /\ at' = i - 1
  /\ UNCHANGED <<env, context, mode, error, history>>

(* Mutants of Forward: it passes errors on as well; it takes the context    *)
(* whatever the answer is; it has not handed the executor's waker on.       *)
Forward_Errors(i) ==
  /\ mode \in {"pending", "ok", "err"} /\ at = i
  /\ at' = i + 1
  /\ UNCHANGED <<env, context, mode, error, history>>
Forward_Takes(i) ==
  /\ mode \in {"pending", "ok"} /\ at = i
  /\ at' = i + 1
  /\ context' = [context EXCEPT ![i] = FALSE]
  /\ UNCHANGED <<env, mode, error, history>>
Forward_LosesWaker(i) ==
  /\ mode \in {"pending", "ok"} /\ at = i
  /\ at' = i + 1
  /\ waker' = FALSE
  /\ UNCHANGED <<kind, inner, verdict, notified, context, mode, error, history>>

(* Ready(Ok(v)) and Pending pass as they are.                               *)
Forward(i) ==
  /\ mode \in {"pending", "ok"} /\ at = i
  /\ at' = i + 1
  /\ UNCHANGED <<env, context, mode, error, history>>

(* Mutant: the context is used and stays.                                   *)
Take_Peeks(i) ==
  /\ mode = "err" /\ at = i
  /\ context[i]
  /\ mode' = IF kind[i] \in Lazy THEN "closure" ELSE "convert"
  /\ UNCHANGED <<env, context, at, error, history>>

(* Ready(Err(error)): `context.take()`.                                     *)
Take(i) ==
  /\ mode = "err" /\ at = i
  /\ context[i]
  /\ context' = [context EXCEPT ![i] = FALSE]
  /\ mode' = IF kind[i] \in Lazy THEN "closure" ELSE "convert"
  /\ UNCHANGED <<env, at, error, history>>

(* `.expect("Cannot poll Context after it resolves")`.                      *)
Expect(i) ==
  /\ mode = "err" /\ at = i
  /\ ~context[i]
  /\ broken' = TRUE
  /\ Panics

(* `context(&mut error)`                                                    *)
Show(i) ==
  /\ mode = "closure" /\ at = i
  /\ mode' = "convert"
  /\ UNCHANGED <<env, context, at, error, history>>

(* `.into_error(error)` of a context selector.                              *)
IntoError(i) ==
  /\ mode = "convert" /\ at = i
  /\ kind[i] \in Selecting
  /\ error' = Append(error, [layer |-> i,
                             shown |-> kind[i] = "with_context",
                             wrapped |-> "selector"])
  /\ mode' = "err"
  /\ at' = i + 1
  /\ UNCHANGED <<env, context, history>>

(* `FromString::with_source(error.into(), context.into())`                  *)
WithSource(i) ==
  /\ mode = "convert" /\ at = i
  /\ kind[i] \notin Selecting
  /\ error' = Append(error, [layer |-> i,
                             shown |-> kind[i] = "with_whatever_context",
                             wrapped |-> "message"])
  /\ mode' = "err"
  /\ at' = i + 1
  /\ UNCHANGED <<env, context, history>>

(* Code of the program that a layer calls panics.                           *)
UserPanics(i) ==
  /\ mode \in {"closure", "convert"} /\ at = i
  /\ Panics
  /\ UNCHANGED broken

-----------------------------------------------------------------------------
Inner == InnerPending \/ InnerReady \/ InnerPanics
Adapter(i) == \/ Descend(i) \/ Forward(i) \/ Take(i) \/ Expect(i)
              \/ Show(i) \/ IntoError(i) \/ WithSource(i) \/ UserPanics(i)

Running == Receive \/ Inner \/ \E i \in Layer : Adapter(i)

Next == Poll \/ Completes \/ Running

Spec == Init /\ [][Next]_vars

(* A poll that has begun is carried on, and an executor polls a task it has *)
(* been told to poll.  It owes no other poll, and the innermost future owes *)
(* no completion.                                                           *)
Fairness == WF_vars(Running) /\ WF_vars(notified /\ Poll)
FairSpec == Spec /\ Fairness

-----------------------------------------------------------------------------
(* However the future is polled, an error that reaches the executor has     *)
(* been through every layer, in order and once each, and each closure has   *)
(* been shown the error before its layer wrapped it; and no second error    *)
(* follows: no context is ever used twice, cloned or skipped.               *)
ErrorsAreWhole ==
  /\ \A n \in 1 .. Len(delivered) : delivered[n] = [i \in Layer |-> Treatment(i)]
  /\ Len(delivered) <= 1

(* `expect("Cannot poll ... after it resolves")` fails for no executor that *)
(* stops polling when it has had an answer.                                 *)
ExpectHolds == broken => misused

(* Between two polls the contexts that are gone are those of the innermost  *)
(* layers: none of them is used up by an error that a layer below had       *)
(* already failed to treat, by a success, or by a Pending.                  *)
SpentInwards ==
  \A i, j \in Layer : i < j /\ context[i] => context[j]

(* A success, a Pending or a second poll of a resolved future spends        *)
(* nothing: a context is only ever taken to treat an error for which the    *)
(* layers below have taken theirs in the same poll.                         *)
TakenForAnError ==
  [][\A i \in Layer : context[i] /\ ~context'[i]
       => /\ mode = "err"
          /\ error = [j \in 1 .. (i - 1) |-> Treatment(j)]]_vars

(* No wake-up is lost on its way through the layers: when the innermost     *)
(* future has resolved, the executor is told so.                            *)
WakeUpArrives == inner = "ready" ~> answers # {}

Promise == INSTANCE MappedFuture WITH whole <- [i \in Layer |-> Treatment(i)]
PromiseKept == Promise!Spec
=============================================================================
