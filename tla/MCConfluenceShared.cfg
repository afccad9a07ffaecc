\* Confluence detection on every subsequence of a pool of summands in which
\* c(f) names its summation variable e, like sum e . tau.
CONSTANTS
  tau = tau
  ctau = ctau
  none = none
  Tau <- tau
  CTau <- ctau
  NoVar <- none
  States <- MCStates
  E <- MCE
  Pool <- MCPoolShared
SPECIFICATION Spec
INVARIANTS MarkedAreConfluent
\* run() returns after relabelling: the final state has no successor.
CHECK_DEADLOCK FALSE
