CONSTANTS
  Null = Null
  Sweeper = sw
  Handler = {h1, h2}
  Proc = {h1, h2, sw}
  PoolSize = 1
  ReadOnly = FALSE
SPECIFICATION Spec
INVARIANTS OneWriterAtThePool SomebodyGoesOn SweeperStopsBeforeTheStore NobodyIsCutShort
PROPERTIES CallsReturn SignalEndsTheProcess
