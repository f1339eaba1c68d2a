SPECIFICATION Spec
CONSTANTS
  Handlers = {h1, h2}
  Turns = {t1, t2}
  Calls = {k1}
  Outputs = {o1, o2}
  MaxModelCalls = 2
  MaxCancels = 1
  MaxStarts = 2
  Specs = {s1}
  ExperimentBudget = 1
INVARIANTS TurnTypeOK TurnsAreRecorded ExperimentsAccounted
PROPERTY OutcomeIsFinal
SYMMETRY TurnSymmetry
CHECK_DEADLOCK FALSE
