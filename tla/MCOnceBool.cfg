\* backtrace_collection_enabled: RUST_LIB_BACKTRACE, then RUST_BACKTRACE
CONSTANTS
  t1 = t1
  t2 = t2
  t3 = t3
  one = one
  zero = zero
  unset = unset
  Thread <- MCThread
  Depth = 2
  Text <- MCText
  On = one
  Unset = unset
SPECIFICATION FairSpec
INVARIANTS Explained
PROPERTIES Settled PromiseKept EveryCallReturns
