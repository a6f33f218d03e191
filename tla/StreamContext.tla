--------------------------- MODULE StreamContext ---------------------------
(***************************************************************************)
(* The four streams of src/src/futures/try_stream.rs -- Context,           *)
(* WithContext, WhateverContext and WithWhateverContext -- stacked on one  *)
(* another in any order around a stream of the program, and the executor   *)
(* that polls the outermost one.                                           *)
(*                                                                         *)
(* Unlike a future, a stream goes on: after an error, and, unless it is    *)
(* fused, after its end.  A layer therefore keeps its context: it clones   *)
(* it, or calls its closure, which is FnMut and may keep state of its own, *)
(* anew for every error.                                                   *)
(***************************************************************************)
EXTENDS Naturals, Sequences, FiniteSets

CONSTANTS Depth,    \* the number of layers; layer 1 wraps the innermost stream
          MaxItems  \* bound: how often the innermost stream gives something

ASSUME DepthAssumption == Depth \in Nat \ {0}
ASSUME MaxItemsAssumption == MaxItems \in Nat

Layer == 1 .. Depth

Selecting == {"context", "with_context"}  \* end in `into_error`
Cloned == {"context", "whatever_context"}  \* hold a value, not a closure
Kind == {"context", "with_context", "whatever_context", "with_whatever_context"}

Outcome == {"ok", "err", "end"}

VARIABLES kind,      \* kind[i]: which of the four structs layer i is
          calls,     \* calls[i]: how often layer i has called its closure
          inner,     \* the innermost stream: "running", or what it has ready
          waker,     \* it holds the waker of the last poll
          notified,  \* the executor has a reason to poll
          mode,      \* what the running poll is doing
          at,        \* the layer that does it; 0 is the innermost stream
          error,     \* error[i]: what layer i did to the error on its way
          given,     \* history: what the innermost stream has given
          received,  \* history: what the executor has received
          lost,      \* history: the positions in `given` lost in a panic
          over       \* history: the executor has had the end, or a panic

env == <<kind, inner, waker, notified>>
history == <<given, received, lost, over>>
vars == <<env, calls, mode, at, error, history>>

(* What layer i does to an error: which call of its closure made the        *)
(* context (none, for a clone), and how the error is wrapped.               *)
Treatment(i, call) ==
  [layer |-> i, call |-> call,
   wrapped |-> IF kind[i] \in Selecting THEN "selector" ELSE "message"]
Treatments == [layer : Layer, call : Nat, wrapped : {"selector", "message"}]

TypeOK ==
  /\ kind \in [Layer -> Kind]
  /\ calls \in [Layer -> Nat]
  /\ inner \in {"running"} \union Outcome
  /\ waker \in BOOLEAN
  /\ notified \in BOOLEAN
  /\ mode \in {"idle", "call", "pending", "convert"} \union Outcome
  /\ at \in 0 .. Depth + 1
  /\ error \in Seq(Treatments)
  /\ given \in Seq(Outcome)
  /\ received \in Seq([nth : Nat \ {0}, what : Outcome, trail : Seq(Treatments)])
  /\ lost \in SUBSET Nat
  /\ over \in BOOLEAN

Init ==
  /\ kind \in [Layer -> Kind]
  /\ calls = [i \in Layer |-> 0]
  /\ inner = "running"
  /\ waker = FALSE
  /\ notified = TRUE
  /\ mode = "idle"
  /\ at = Depth + 1
  /\ error = << >>
  /\ given = << >>
  /\ received = << >>
  /\ lost = {}
  /\ over = FALSE

-----------------------------------------------------------------------------
(* The executor, external.  It has a reason to poll when it has been woken, *)
(* and after every item, as a loop around `next().await` has.               *)

Poll ==
  /\ mode = "idle"
  /\ mode' = "call"
  /\ at' = Depth
  /\ notified' = FALSE
  /\ UNCHANGED <<kind, inner, waker, calls, error, history>>

Receive ==
  /\ at = Depth + 1
  /\ mode \in {"pending"} \union Outcome
  /\ received' = IF mode = "pending" THEN received
                 ELSE Append(received, [nth |-> Len(given), what |-> mode, trail |-> error])
  /\ notified' = (notified \/ mode \in {"ok", "err"})
  /\ over' = (over \/ mode = "end")
  /\ mode' = "idle"
  /\ error' = << >>
  /\ UNCHANGED <<kind, inner, waker, calls, at, given, lost>>

(* A panic goes through every layer without one of them doing anything.     *)
Panics ==
  /\ mode' = "idle"
  /\ at' = Depth + 1
  /\ error' = << >>
  /\ over' = TRUE
  /\ UNCHANGED <<env, calls, given, received>>

-----------------------------------------------------------------------------
(* The innermost stream, external.  When it has something ready it wakes    *)
(* the task whose waker it holds.                                           *)

BecomesReady ==
  /\ inner = "running"
  /\ Len(given) < MaxItems
  /\ inner' \in Outcome
  /\ waker' = FALSE
  /\ notified' = (notified \/ waker)
  /\ UNCHANGED <<kind, calls, mode, at, error, history>>

InnerPending ==
  /\ mode = "call" /\ at = 0
  /\ inner = "running"
  /\ waker' = TRUE
  /\ mode' = "pending"
  /\ at' = 1
  /\ UNCHANGED <<kind, inner, notified, calls, error, history>>

InnerReady ==
  /\ mode = "call" /\ at = 0
  /\ inner # "running"
  /\ mode' = inner
  /\ given' = Append(given, inner)
  /\ inner' = "running"
  /\ at' = 1
  /\ UNCHANGED <<kind, waker, notified, calls, error, received, lost, over>>

(* A stream may panic when it is polled after its end.                      *)
InnerPanics ==
  /\ mode = "call" /\ at = 0
  /\ inner = "running"
  /\ \E n \in DOMAIN given : given[n] = "end"
  /\ Panics
  /\ UNCHANGED lost

-----------------------------------------------------------------------------
(* The layers: `poll_next` of each of the four structs.                     *)

(* `inner.try_poll_next(ctx)`, handing the waker on.                        *)
Descend(i) ==
  /\ mode = "call" /\ at = i
  /\ at' = i - 1
  /\ UNCHANGED <<env, calls, mode, error, history>>

(* Mutants of Forward: the waker is not handed on; errors pass as items do; *)
(* the closure is called for items as well.                                 *)
Forward_LosesWaker(i) ==
  /\ mode \in {"pending", "ok", "end"} /\ at = i
  /\ at' = i + 1
  /\ waker' = FALSE
  /\ UNCHANGED <<kind, inner, notified, calls, mode, error, history>>
Forward_Errors(i) ==
  /\ mode \in {"pending", "ok", "end", "err"} /\ at = i
  /\ at' = i + 1
  /\ UNCHANGED <<env, calls, mode, error, history>>
Forward_Calls(i) ==
  /\ mode \in {"pending", "ok", "end"} /\ at = i
  /\ at' = i + 1
  /\ calls' = [calls EXCEPT ![i] = IF mode = "ok" THEN @ + 1 ELSE @]
  /\ UNCHANGED <<env, mode, error, history>>

(* Pending, Ready(None) and Ready(Some(Ok(v))) pass as they are.            *)
Forward(i) ==
  /\ mode \in {"pending", "ok", "end"} /\ at = i
  /\ at' = i + 1
  /\ UNCHANGED <<env, calls, mode, error, history>>

(* `context(&mut error)`                                                    *)
CallClosure(i) ==
  /\ mode = "err" /\ at = i
  /\ kind[i] \notin Cloned
  /\ calls' = [calls EXCEPT ![i] = @ + 1]
  /\ mode' = "convert"
  /\ UNCHANGED <<env, at, error, history>>

(* `context.clone()`, which leaves the context of the layer as it is.       *)
CloneContext(i) ==
  /\ mode = "err" /\ at = i
  /\ kind[i] \in Cloned
  /\ mode' = "convert"
  /\ UNCHANGED <<env, calls, at, error, history>>

(* Mutant: the stream ends where an error is.                               *)
Convert_Ends(i) ==
  /\ mode = "convert" /\ at = i
  /\ error' = << >>
  /\ mode' = "end"
  /\ at' = i + 1
  /\ UNCHANGED <<env, calls, history>>

(* `.into_error(error)`, or `E::with_source(error.into(), ...)`, with the   *)
(* context just made.                                                       *)
Convert(i) ==
  /\ mode = "convert" /\ at = i
  /\ error' = Append(error, Treatment(i, IF kind[i] \in Cloned THEN 0 ELSE calls[i]))
  /\ mode' = "err"
  /\ at' = i + 1
  /\ UNCHANGED <<env, calls, history>>

(* Code of the program that a layer calls panics: the error is gone.        *)
UserPanics(i) ==
  /\ mode \in {"err", "convert"} /\ at = i
  /\ lost' = lost \union {Len(given)}
  /\ Panics

-----------------------------------------------------------------------------
Inner == InnerPending \/ InnerReady \/ InnerPanics
Adapter(i) == \/ Descend(i) \/ Forward(i) \/ CallClosure(i)
              \/ CloneContext(i) \/ Convert(i) \/ UserPanics(i)

Running == Receive \/ Inner \/ \E i \in Layer : Adapter(i)

Next == Poll \/ BecomesReady \/ Running

Spec == Init /\ [][Next]_vars

(* A poll that has begun is carried on, and an executor polls when it has a *)
(* reason to.  The innermost stream owes nothing.                           *)
Fairness == WF_vars(Running) /\ WF_vars(notified /\ Poll)
FairSpec == Spec /\ Fairness

-----------------------------------------------------------------------------
(* However many errors a stream yields, with items, Pendings, the end and   *)
(* panics between them, each error received has been through every layer,   *)
(* in order and once each; and what is not an error has been through none.  *)
ErrorsAreWhole ==
  \A n \in DOMAIN received :
    LET r == received[n] IN
      IF r.what # "err" THEN r.trail = << >>
      ELSE /\ Len(r.trail) = Depth
           /\ \A i \in Layer : r.trail[i] = Treatment(i, r.trail[i].call)

ErrorsGiven(n) == {m \in 1 .. n : given[m] = "err"}

(* The context of an error was made for that error.  A clone owes nothing   *)
(* to earlier errors.  The calls of a closure come in the order of the      *)
(* errors, one for each of those given so far: items, Pendings and the end  *)
(* call it for nothing, and only errors lost in a panic may lack a call.    *)
OneCallPerError ==
  \A n \in DOMAIN received : received[n].what = "err" =>
    \A i \in Layer :
      LET call == received[n].trail[i].call
          errors == ErrorsGiven(received[n].nth)
      IN  IF kind[i] \in Cloned THEN call = 0
          ELSE /\ Cardinality(errors \ lost) <= call
               /\ call <= Cardinality(errors)
               /\ \A m \in 1 .. (n - 1) :
                    received[m].what = "err" => received[m].trail[i].call < call

(* No wake-up is lost on its way through the layers, and no error keeps a   *)
(* stream from going on: whatever the innermost stream has ready is         *)
(* fetched, unless the executor has had the end or a panic.                 *)
EverythingFetched == inner # "running" ~> (inner = "running" \/ over)

(* The way an error took, without the calls.                                *)
Way(trail) == [i \in DOMAIN trail |-> <<trail[i].layer, trail[i].wrapped>>]

Promise == INSTANCE MappedStream WITH
  layers <- Way([i \in Layer |-> Treatment(i, 0)]),
  received <- [n \in DOMAIN received |->
                 [nth |-> received[n].nth, what |-> received[n].what,
                  through |-> Way(received[n].trail)]]
PromiseKept == Promise!Spec
=============================================================================
