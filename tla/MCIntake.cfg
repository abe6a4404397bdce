SPECIFICATION IntakeSpec
CONSTANTS
  Interfaces = {"i", "j"}
  Endpoints = {"https://e"}
  Distributions <- Wheels
  Edits <- Rewrites
  MaxEdits = 2
  Deps = {"a", "b"}
  Root = "root"
  Targets <- Environments
  Requests <- Asks
  Indexes <- Pinned
  Layouts <- Venvs
  Payloads <- Written
  Builders = {"b1", "b2"}
  MaxProposals = 3
  Calls <- Inputs
  Contents = {"pinned", "other", "absent"}
  Starts <- Sizes
  Unit = 2
  Balanced = 2
  Rare = 3
  Hour = 2
  Day = 4
  Week = 6
  MaxHorizon = 50
  MinFit = 3
INVARIANTS AnswersMatchInput ScoresByPinned BundleIsSound BestWheelPicked SealedAsPinned SealedTreeIsClosed
  VerdictIsContent
CHECK_DEADLOCK FALSE
