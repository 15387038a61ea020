CONSTANTS
  Handlers = {h1, h2, h3}
  Hooks = 2
  AdminEnabled = TRUE
SPECIFICATION FairProcess
INVARIANTS
  FailedStartReleases
  ConfigErrorsFirst
  HandlersHaveKeys
  CleanExitClears
PROPERTIES
  ProcessEnds
