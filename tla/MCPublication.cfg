CONSTANTS
  Writers = {w1, w2}
  Paths = {p1, p2}
  Temps = {t1, t2}
  Files = {f1, f2, f3, f4}
  Values = {v1, v2}
  Modes = {"new", "private", "readonly"}
  Writable = {"new", "private"}
  NewMode = "new"
  None = None
  Directory = Directory
  Torn = Torn
  NoMode = NoMode
  p1 = p1
  p2 = p2
  f1 = f1
  f2 = f2
  v1 = v1
  Disks <- MCDisks
  MaxCalls = 2
  MaxMeddles = 1
SYMMETRY Alike
SPECIFICATION Spec
INVARIANTS StagingIsOwned
PROPERTIES PublicationIsAtomic ModesKept
CHECK_DEADLOCK FALSE
