\* The project file system of mcrl2ide with two property names and two texts.
CONSTANTS
  p1 = p1
  p2 = p2
  t1 = t1
  t2 = t2
  Absent = Absent
  Empty = Empty
  MaxEntries = 3
  MaxTime = 4
  Names = {p1, p2}
  Texts = {t1, t2}
SPECIFICATION Spec
INVARIANTS TypeOK ProjectFileListsProperties EveryPropertyHasItsFile ProjectSpecificationSaved SpecificationChangesNotMisreported
