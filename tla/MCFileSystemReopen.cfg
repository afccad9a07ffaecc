\* Reopening the project or the specification gives back what the IDE shows as saved.
CONSTANTS
  p1 = p1
  p2 = p2
  t1 = t1
  t2 = t2
  Absent = Absent
  Empty = Empty
  MaxEntries = 3
  MaxTime = 5
  Names = {p1, p2}
  Texts = {t1, t2}
SPECIFICATION Spec
INVARIANTS ReopenRestoresSession
