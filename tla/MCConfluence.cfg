\* Confluence detection on every subsequence of a pool of summands whose
\* summation variables have distinct names.
CONSTANTS
  tau = tau
  ctau = ctau
  none = none
  Tau <- tau
  CTau <- ctau
  NoVar <- none
  States <- MCStates
  E <- MCE
  Pool <- MCPool
SPECIFICATION FairSpec
INVARIANTS TypeOK
PROPERTIES ImplementsConfluenceSpec
\* run() returns after relabelling: the final state has no successor.
CHECK_DEADLOCK FALSE
