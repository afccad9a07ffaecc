CONSTANTS
  r1 = r1
  r2 = r2
  r3 = r3
  r4 = r4
  i1 = i1
  i2 = i2
  i3 = i3
  i4 = i4
  x4 = x4
  a1 = a1
  a2 = a2
  f1 = f1
  f2 = f2
  f3 = f3
  f4 = f4
  f5 = f5
  f6 = f6
  f7 = f7
  Procs <- MCProcs
  Files <- MCFiles
  Gen <- MCGen
  Loc <- MCLoc
  ProjectFile <- MCProjectFile
  StoreFiles <- MCStoreFiles
  DirProc <- MCDirProc
  ImportProcs <- MCImportProcs
  AddProcs <- MCAddProcs
SPECIFICATION Spec
INVARIANTS TypeOK ReverseDependsExact NoOrphans GeneratorsPrecede
\* Once the bounded GUI has added, imported and removed what it can, the
\* project manager waits for the next call.
CHECK_DEADLOCK FALSE
