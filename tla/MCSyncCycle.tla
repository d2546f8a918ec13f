---- MODULE MCSyncCycle ----
EXTENDS SyncCycle, TLC
Symmetry == Permutations(Path)
Contents == 0..MaxTick
====
