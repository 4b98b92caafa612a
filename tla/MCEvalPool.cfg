CONSTANTS
  Worker = {w1, w2, w3}
  Jobs = 3
  Datasets = 2
SPECIFICATION FairEvalSpec
INVARIANTS EvalTypeOK CwdRestored FoundUnlessOverlapped LoadedOnce FigureOfNamedModel
PROPERTY EvaluationEnds
CHECK_DEADLOCK FALSE
