CONSTANTS
  Apps = {a1, a2}
  NoTask = none
  MaxIrqs = 2
  Clients = {c1, c2}
  Cats = {k1, k2, k3}
  Blocks = {b1, b2, b3}
  Null = null
  Bytes = {d1}
  Junk = junk
  Drivers = {"mutex", "spinlock", "rdwrlock", "seqlock", "atomic_ops"}
  MaxRounds = 3
SPECIFICATION MCSpec
INVARIANTS SignalSafe CharSafe LocksCount PhaseHolds HoldsWhatItReleases CodeFindsItsData
PROPERTIES Progress
CHECK_DEADLOCK FALSE
