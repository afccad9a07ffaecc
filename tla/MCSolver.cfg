CONSTANTS
  sOk = sOk
  sBad = sBad
  eTwo = eTwo
  eNone = eNone
  eBad = eBad
  NoSpec = NoSpec
  Broken = Broken
  Specs <- MCSpecs
  Exprs <- MCExprs
  Parses <- MCParses
  WellFormed <- MCWellFormed
  Solutions <- MCSolutions
  MaxSends = 4
  GuiSolveWhileBusy = FALSE
SPECIFICATION Spec
INVARIANTS TypeOK ParseCacheSound AbortFlagIsCurrent
PROPERTIES SolveReturns
\* The aterm thread idles in its event loop once the GUI has made its
\* MaxSends calls and every event is delivered.
CHECK_DEADLOCK FALSE
