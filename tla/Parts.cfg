\* Two processes on a table of one row (rows do not touch each other), two writers of a file, two hosts,
\* two readers of a channel, 35 years of days, races of two URLs, and
\* two commands to the tunnel helper, the commands "run" and "instance", and the
\* list of a box.
SPECIFICATION PartsSpec
CONSTANTS
  a1 = a1
  a2 = a2
  k1 = k1
  Procs <- MCActors
  Keys <- MCKeys
  Dirs <- MCDirs
  Attempts = 2
  MaxCalls = 2
  MaxCrashes = 1
  MaxFaults = 1
  MaxBloats = 2
  Writers <- MCActors
  MaxKills = 1
  Hosts = {1, 2}
  MaxStarts = 4
  MaxFailures = 2
  Clients <- MCActors
  Chans = {"c"}
  Pics = {"p"}
  Requests <- MCRequests
  Posts = {1, 150}
  MaxAsks = 3
  MaxBreaks = 1
  FirstYear = 2013
  LastYear = 2047
  Commands <- MCActors
  MaxTunnels = 2
  MaxCommands = 3
  MaxTroubles = 1
  Urls = {1, 2}
  SampleCounts = {1, 2}
  Delays = {1, 5}
  MaxDelay = 2
  Configs = {1, 2}
  Intervals = {1}
  Pings = {3, 5}
  PingCount = 4
  MaxPublished = 1
  MaxMeddles = 1
  MaxLapses = 1
  Boxes <- MCBoxes
  MaxLists = 1
  MaxTests = 1
  MaxChoices = 1
SYMMETRY Symmetry
CHECK_DEADLOCK FALSE
INVARIANTS
  TablesAreKept
  WritesAreAtomic
  LockNamesTheHost
  EzytelAnswersAreSound
  DaysFollow
  VerdictsAreSound
  TunnelObeys
  StandaloneServes
  ProxiesAreShownTruly
