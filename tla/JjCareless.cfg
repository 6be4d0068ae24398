SPECIFICATION JjSpec
CONSTANTS
  c1 = c1
  c2 = c2
  c3 = c3
  p1 = p1
  p2 = p2
  s1 = s1
  s2 = s2
  o1 = o1
  o2 = o2
  Unset = Unset
  Clients = {c1, c2}
  Paths = {p1, p2}
  Mountable = {p1}
  States = {s1, s2}
  Objects = {}
  Conflicts = {}
  Nested = {}
  Parentless = {}
  Tables = {"commits", "trees"}
  MayRestart = FALSE
  MountsDie = TRUE
  Careful = FALSE
INVARIANTS
  CheckoutStateIsNotTorn
  InternalsAreOnTheMount
PROPERTIES
  CheckoutStateIsSetOnce
  EveryCommandEnds
