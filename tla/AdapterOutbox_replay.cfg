SPECIFICATION Spec
CONSTANTS
  Hooks = {h1, h2}
  MaxEvents = 3
  Branches = {main, topic}
  main = main
  topic = topic
  Trees <- ThreeTrees
  MaxMishaps = 1
  Limit = 2
  None = None
SYMMETRY HookSymmetry
CONSTRAINT StolenWithTwo
INVARIANTS PromptIsAnswered NoRunIsOrphaned FinishLeavesNothing
CHECK_DEADLOCK FALSE
