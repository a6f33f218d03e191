------------------------------ MODULE OnceBool ------------------------------
(***************************************************************************)
(* The lazily initialised Boolean of src/src/once_bool.rs, together with   *)
(* the two closures that initialise one:                                   *)
(*   - `backtrace_collection_enabled` (lib.rs) probes RUST_LIB_BACKTRACE   *)
(*     and, if that is unset, RUST_BACKTRACE: Depth = 2;                   *)
(*   - `trace_cleaning_enabled` (report.rs) probes                         *)
(*     SNAFU_RAW_ERROR_MESSAGES: Depth = 1.                                *)
(* Any thread may call `get`, and the environment may be rewritten by the  *)
(* rest of the program between any two steps, also between two probes.     *)
(* `std::sync::Once` is external: its `call_once` lets one caller run the  *)
(* closure, blocks the others until it has returned, and afterwards lets   *)
(* everybody pass.                                                         *)
(***************************************************************************)
EXTENDS Naturals

CONSTANTS Thread,  \* the threads that may call `get`
          Depth,   \* how many environment variables the closure may probe
          Text,    \* the texts a variable may be set to
          On,      \* the text "1"
          Unset    \* `env::var_os` returned None

ASSUME DepthAssumption == Depth \in Nat \ {0}
ASSUME TextAssumption == On \in Text /\ Unset \notin Text

Variable == 1 .. Depth           \* in the order in which they are probed
Value == Text \union {Unset}

VARIABLES env,      \* env[i]: the environment variable probed i-th
          start,    \* the field `start: Once`
          enabled,  \* the field `enabled: AtomicBool`
          pc,       \* where each thread is in `get`
          cursor,   \* in the closure: the variable to probe next
          verdict,  \* the closure's result, before it is stored
          answer,   \* answer[t]: every value `get` has returned to t
          held      \* held[i]: what variable i was while the closure ran

vars == <<env, start, enabled, pc, cursor, verdict, answer, held>>

TypeOK ==
  /\ env \in [Variable -> Value]
  /\ start \in {"incomplete", "running", "complete"}
  /\ enabled \in BOOLEAN
  /\ pc \in [Thread -> {"idle", "call", "probe", "store", "publish", "load"}]
  /\ cursor \in [Thread -> Variable]
  /\ verdict \in [Thread -> BOOLEAN]
  /\ answer \in [Thread -> SUBSET BOOLEAN]
  /\ held \in [Variable -> SUBSET Value]

Init ==
  /\ env \in [Variable -> Value]
  /\ start = "incomplete"
  /\ enabled = FALSE
  /\ pc = [t \in Thread |-> "idle"]
  /\ cursor = [t \in Thread |-> 1]
  /\ verdict = [t \in Thread |-> FALSE]
  /\ answer = [t \in Thread |-> {}]
  /\ held = [i \in Variable |-> {}]

-----------------------------------------------------------------------------
(* The environment, rewritten by code outside the crate at any moment.      *)

SetEnv(i, v) ==
  /\ env' = [env EXCEPT ![i] = v]
  /\ held' = IF start = "running" THEN [held EXCEPT ![i] = @ \union {v}]
                                  ELSE held
  /\ UNCHANGED <<start, enabled, pc, cursor, verdict, answer>>

-----------------------------------------------------------------------------
(* `get`, one step per access to something another thread can see.          *)

Get(t) ==
  /\ pc[t] = "idle"
  /\ pc' = [pc EXCEPT ![t] = "call"]
  /\ UNCHANGED <<env, start, enabled, cursor, verdict, answer, held>>

(* The caller that `call_once` lets in runs the closure.                    *)
EnterOnce(t) ==
  /\ pc[t] = "call"
  /\ start = "incomplete"
  /\ start' = "running"
  /\ pc' = [pc EXCEPT ![t] = "probe"]
  /\ cursor' = [cursor EXCEPT ![t] = 1]
  /\ held' = [i \in Variable |-> {env[i]}]
  /\ UNCHANGED <<env, enabled, verdict, answer>>

(* Mutant: a caller does not wait for the closure to return.                *)
PassOnce_Hurried(t) ==
  /\ pc[t] = "call"
  /\ start # "incomplete"
  /\ pc' = [pc EXCEPT ![t] = "load"]
  /\ UNCHANGED <<env, start, enabled, cursor, verdict, answer, held>>

(* The callers that find the closure already run.  One that finds it       *)
(* running has neither step: it is blocked in `call_once`.                  *)
PassOnce(t) ==
  /\ pc[t] = "call"
  /\ start = "complete"
  /\ pc' = [pc EXCEPT ![t] = "load"]
  /\ UNCHANGED <<env, start, enabled, cursor, verdict, answer, held>>

(* `var_os(..).or_else(..)`: an unset variable that is not the last one     *)
(* hands over to the next.                                                  *)
ProbeNext(t) ==
  /\ pc[t] = "probe"
  /\ env[cursor[t]] = Unset
  /\ cursor[t] < Depth
  /\ cursor' = [cursor EXCEPT ![t] = @ + 1]
  /\ UNCHANGED <<env, start, enabled, pc, verdict, answer, held>>

(* Mutant: any value enables.                                               *)
ProbeLast_AnyValue(t) ==
  /\ pc[t] = "probe"
  /\ env[cursor[t]] # Unset \/ cursor[t] = Depth
  /\ verdict' = [verdict EXCEPT ![t] = (env[cursor[t]] # Unset)]
  /\ pc' = [pc EXCEPT ![t] = "store"]
  /\ UNCHANGED <<env, start, enabled, cursor, answer, held>>

(* `.map_or(false, |v| v == "1")`                                           *)
ProbeLast(t) ==
  /\ pc[t] = "probe"
  /\ env[cursor[t]] # Unset \/ cursor[t] = Depth
  /\ verdict' = [verdict EXCEPT ![t] = (env[cursor[t]] = On)]
  /\ pc' = [pc EXCEPT ![t] = "store"]
  /\ UNCHANGED <<env, start, enabled, cursor, answer, held>>

Store(t) ==
  /\ pc[t] = "store"
  /\ enabled' = verdict[t]
  /\ pc' = [pc EXCEPT ![t] = "publish"]
  /\ UNCHANGED <<env, start, cursor, verdict, answer, held>>

(* Mutants: the end of the closure is not recorded, so that the next caller *)
(* runs it again; or the callers that wait for it are never let through.    *)
LeaveOnce_Forgotten(t) ==
  /\ pc[t] = "publish"
  /\ start' = "incomplete"
  /\ pc' = [pc EXCEPT ![t] = "load"]
  /\ UNCHANGED <<env, enabled, cursor, verdict, answer, held>>
LeaveOnce_StillRunning(t) ==
  /\ pc[t] = "publish"
  /\ start' = "running"
  /\ pc' = [pc EXCEPT ![t] = "load"]
  /\ UNCHANGED <<env, enabled, cursor, verdict, answer, held>>

(* The closure has returned: `call_once` marks itself complete.             *)
LeaveOnce(t) ==
  /\ pc[t] = "publish"
  /\ start' = "complete"
  /\ pc' = [pc EXCEPT ![t] = "load"]
  /\ UNCHANGED <<env, enabled, cursor, verdict, answer, held>>

Load(t) ==
  /\ pc[t] = "load"
  /\ answer' = [answer EXCEPT ![t] = @ \union {enabled}]
  /\ pc' = [pc EXCEPT ![t] = "idle"]
  /\ UNCHANGED <<env, start, enabled, cursor, verdict, held>>

(* What a thread inside `get` does next.                                    *)
Step(t) == \/ EnterOnce(t) \/ PassOnce(t)
           \/ ProbeNext(t) \/ ProbeLast(t)
           \/ Store(t) \/ LeaveOnce(t) \/ Load(t)

Next == \/ \E i \in Variable, v \in Value : SetEnv(i, v)
        \/ \E t \in Thread : Get(t) \/ Step(t)

Spec == Init /\ [][Next]_vars

(* A thread inside `get` keeps being scheduled.  Nobody has to call `get`,  *)
(* and nothing is assumed of those who rewrite the environment.             *)
Fairness == \A t \in Thread : WF_vars(Step(t))
FairSpec == Spec /\ Fairness

-----------------------------------------------------------------------------
(* What the program would read if all variables were read at one moment.    *)
Flag(e) == \E i \in Variable : /\ e[i] = On
                               /\ \A j \in 1 .. (i - 1) : e[j] = Unset

(* b is the flag of some combination of values that the variables had       *)
(* while the closure was running.                                           *)
Explains(b) ==
  \E e \in [Variable -> Value] : /\ \A i \in Variable : e[i] \in held[i]
                                 /\ b = Flag(e)

(* No two answers ever given differ, whoever asked and whenever: the flag   *)
(* of lib.rs:1356-1358 "will be tested only once per program execution".    *)
Agreement == \A t, u \in Thread : \A a \in answer[t], b \in answer[u] : a = b

(* An answer comes from the values the variables had during the one run of  *)
(* the closure, in the documented order of precedence: later changes of the *)
(* environment have no effect, and a default is never mistaken for a value. *)
(* With one variable that is a single moment; with two, the variables may   *)
(* have been read at different moments.                                     *)
Explained == \A t \in Thread : \A b \in answer[t] : Explains(b)

(* Once some caller has been answered, neither the stored value nor the     *)
(* record of what was probed changes, whatever happens to the environment.  *)
Settled == [][(\E t \in Thread : answer[t] # {})
                 => UNCHANGED <<enabled, held, verdict>>]_vars

(* Nobody waits for ever: a caller that arrives while another one runs the  *)
(* closure is let through when that one is done.                            *)
EveryCallReturns == \A t \in Thread : pc[t] # "idle" ~> pc[t] = "idle"

(* The callers see a write-once Boolean.                                    *)
Promise == INSTANCE WriteOnceFlag
             WITH decided <- IF start = "complete" THEN {enabled} ELSE {}
PromiseKept == Promise!Spec
=============================================================================
