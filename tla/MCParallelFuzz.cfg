SPECIFICATION Spec
CONSTANTS
  Workers = {1, 2}
  Cases = 4
  SYNC_INTERVAL = 2
  Buckets = {1, 2}
  Progs = {"left", "right", "both", "oops", "idle"}
  Hits <- MCHits
  Sigs = {"sig"}
  Sig <- MCSig
  Outcome <- MCOutcome
  MaxSeeds = 2
INVARIANTS TypeOK LocalLags CoverageKept CorpusCovers LocalPrefix CrashOnce StatsBalance
PROPERTY Termination
CHECK_DEADLOCK FALSE
