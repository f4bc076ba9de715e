\* Two targets with at most two neighbours, lists that are too short for some
\* numbers, just long enough or longer for others, an object and a copy, a
\* search; an unwritten minimum holds 9.
SPECIFICATION Spec
CONSTANTS
  N = 2
  Values = {0, 1}
  Unset = 0
  MaxRow = 2
  Extents = {1, 2}
  Objects = {o1, o2}
  Leftover = {9}
  MaxSearches = 1
SYMMETRY ObjectSymmetry
INVARIANTS
  TypeOK
  DeviceReadsTable
  HostReadsTable
  BehindIsMarked
