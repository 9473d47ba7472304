SPECIFICATION ShellSpec
CONSTANTS
  Nodes <- SomeNodes
  MaxNodes = 3
  Dirs <- RootAndApp
  MaxFailures = 1
INVARIANTS PushedIsTested ToldIsPushed PlainFlowsPush NoNodeIsLost
CHECK_DEADLOCK FALSE
