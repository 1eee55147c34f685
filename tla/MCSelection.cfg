SPECIFICATION MCSpec
CONSTANTS
  Kinds <- NtpKinds
  Data <- SelectData
  Dumps = {}
  Mode = "mix"
  Strata = {1}
  Leaps = {"normal"}
  Options = {{"prefer"}}
  Actives = {}
  LeapCloses = {FALSE}
  Polls = {}
  OrphanStratum = 16
  LocalRefid = 0
  MinSources = 1
  NormalModes = {TRUE}
  SampleCounts = {0}
  MinSamples = 3
  ReachBits = 1
  BadThreshold = 2
  DistantPenalty = 1
  ScoreLimit = 4
  CombineLimit = 2
  MaxSources = 2
  MaxUpdates = 1
  MaxBad = 0
INVARIANTS RegistrySound
PROPERTIES PreferRespected RequireRespected ChangesJustified
