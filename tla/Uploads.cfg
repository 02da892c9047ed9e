\* Uploads, readers and comments at once; a failing operation and a crash.
SPECIFICATION Spec
CONSTANTS
  i1 = i1
  i2 = i2
  elsewhere = elsewhere
  Absent = Absent
  Slots = {s1, s2}
  Ids = {i1, i2}
  Elsewhere = elsewhere
  Mentions <- Urls
  Cap <- Caps
  Head = 1
  Chunk = 1
  Sizes = {1, 3}
  MaxBody = 2
  Bodies = {0, 2, 3}
  Lengths <- Declarable
  MaxFaults = 1
  MaxCrashes = 1
SYMMETRY SlotSymmetry
INVARIANTS MediaServed ServedForever Tidy InputBounded
