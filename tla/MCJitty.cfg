CONSTANTS
  SortOf <- MCSortOf
  Equations <- MCEquations
  TrueTerm <- MCTrueTerm
  Sigma <- MCSigma
  Inputs <- MCInputs
  None = None
SPECIFICATION JSpec
INVARIANTS
  TypeOK
  NormalFormClaimsHold
PROPERTIES
  RewritesToNormalForm
CHECK_DEADLOCK FALSE
