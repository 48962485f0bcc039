SPECIFICATION Spec
CHECK_DEADLOCK FALSE
CONSTANTS
  Parts = {"source", "external", "github", "secrets"}
  Sources <- MCSources
  MaxRounds = 2
  Externals <- MCExternals
  Contents <- MCContents
  Headers <- MCHeaders
  Down = "down"
  MaxChanges = 1
  Functions = {"latestRelease", "latestReleaseAssetURL"}
  Repos = {"r", "s"}
  Goroutines = {"g1", "g2"}
  MaxRequests = 3
  MaxTicks = 1
  Periods = {0, 1}
  MaxVersion = 1
  Managers = {"vault", "pass", "rbw", "secret", "keeper", "protonPass", "doppler", "dashlane", "keyring",
              "azure", "aws", "ejson", "lastpass", "bws", "passhole", "gopass", "bitwarden", "op", "keepassxc"}
  Items = {"a", "b"}
  MaxCalls = 2
  Racing = {"pass"}
  MaxTime = 2
  MaxRuns = 2
INVARIANTS
  TypeOK TargetsWellFormed AppliedReadsAlike DataTrusted  AnswersFresh SecretsGuarded
PROPERTIES
  ReadsDeclared DownloadsKept
