SPECIFICATION JjSpec
CONSTANTS
  c1 = c1
  c2 = c2
  c3 = c3
  p1 = p1
  p2 = p2
  s1 = s1
  s2 = s2
  o1 = o1
  o2 = o2
  Unset = Unset
  Clients = {c1, c2}
  Paths = {p1}
  Mountable = {p1}
  States = {s1, s2}
  Objects = {o1}
  Conflicts = {}
  Nested = {o1}
  Parentless = {}
  Tables = {"files", "trees"}
  MayRestart = TRUE
  MountsDie = TRUE
  Careful = TRUE
SYMMETRY Symmetry
INVARIANTS
  PoisonHasACause
  CellsAgreeWithDaemon
