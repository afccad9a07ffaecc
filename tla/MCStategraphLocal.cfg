CONSTANTS
  x0 = x0
  y0 = y0
  y1 = y1
  x1 = x1
  y2 = y2
  x2 = x2
  y3 = y3
  J = 2
  Vertices <- MCVertices
  VGraph <- MCVGraph
  VName <- MCVName
  Edges <- MCEdges
  Names = {"X", "Y"}
  Params <- MCParams
  DataParams <- MCParams
  PredVars <- MCPredVars
  Used <- MCUsed
  Changed <- MCChanged
  SigChoices <- MCSigChoices
  Flow <- MCFlow
  ArgFV <- MCArgFV
SPECIFICATION Spec
INVARIANTS TypeOK MarkingWithinBelongs ResultIsLeastFixpoint MarkingWithinOld
PROPERTIES Terminates
CHECK_DEADLOCK FALSE
