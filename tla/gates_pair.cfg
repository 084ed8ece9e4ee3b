\* Two threads, a quick and a slow provider of the same host.
SPECIFICATION Spec
CONSTANTS
  t1 = t1
  t2 = t2
  quick = quick
  slow = slow
  None = None
  Threads <- TwoThreads
  Providers <- BothProviders
  Interval <- Intervals
  Slots <- OneSlotEach
  TotalTimeout = 3
  MaxRetries = 1
  MaxRedirects = 1
  Delays <- SomeDelays
  MaxLag = 1
SYMMETRY Symmetric
INVARIANTS
  LimitsCount
PROPERTIES
  ReservationsSpaced
