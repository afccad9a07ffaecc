\* lpscleave on every LPS of one or two summands from the pool, every
\* parameter split and every -s option.
CONSTANTS
  tau = tau
  intern = intern
  noact = noact
  P = {"x", "w"}
  SumVar = "e"
  D = {0, 1}
  Exprs <- MCExprs
  FV <- MCFV
  Eval <- MCEval
  Tau <- tau
  Intern <- intern
  NoAct <- noact
  Pool <- MCPool
  MaxSummands = 2
SPECIFICATION Spec
INVARIANTS CleavePreservesBehaviour
\* The tool computes its two outputs and stops.
CHECK_DEADLOCK FALSE
