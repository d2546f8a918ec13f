CONSTANTS
  d1 = d1
  d2 = d2
  f1 = f1
  x = x
  y = y
  meta = meta
  Id = {d1, d2, f1}
  Folder = {d1, d2}
  Name = {x, y}
  Root = Root
  Outside = Outside
  Gone = Gone
  NoPath = NoPath
  Reserved <- ReservedPath
  Backends = {"id", "path"}
  TreeEvents = {"expires"}
  MaxActs = 3
  InitialTrees <- Trees
SPECIFICATION Spec
INVARIANTS
  CacheIsATree
  CacheMirrorsTree
  EveryChangeReported
