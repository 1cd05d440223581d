SPECIFICATION Spec
CONSTANTS
  Runs = {r1, r2}
  Inodes = {i1, i2, i3, i4}
  NoFile = NoFile
  Pieces = 2
  Longest = 2
  Served = {"right", "wrong"}
SYMMETRY Interchangeable
VIEW Reachable
INVARIANTS
  SavedMeansValid NoPartLeft
PROPERTIES ValidKept
