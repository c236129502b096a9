SPECIFICATION FairSpec
CONSTANTS
  sa = sa
  sb = sb
  sc = sc
  Streams = {sa, sb, sc}
  MaxCalls = 4
  Kinds = {"plan", "plan_verify", "prefetch", "prefetch_async", "reduce",
           "reduce_barrier_false"}
INVARIANTS
  CallOrder
  LayoutVouchedFor
PROPERTY EveryCallCompletes
