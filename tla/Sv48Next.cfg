SPECIFICATION Spec
CONSTANTS
  c1 = c1
  c2 = c2
  u1 = u1
  u2 = u2
  cr3 = cr3
  none = none
  CPU = {c1, c2}
  Umap = {u1, u2}
  Boot = c1
  Cr3 = cr3
  NPages = 8
  Fan = 2
  Slots = 3
  Leaf = {100}
  Archs = {"sv48"}
  UserPage <- FarApart
  KVA = {0}
  EVA = {1}
  NoUmap = none
  MaxOps = 7
INVARIANT NextIsNextSv48
SYMMETRY Symmetry
