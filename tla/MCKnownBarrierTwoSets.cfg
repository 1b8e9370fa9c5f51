SPECIFICATION Spec
CONSTANTS
  NrTasklets = 4
  Rounds = 1
  Groups = {{0, 1}, {2, 3}}
  MaskOf <- MCMaskOf
INVARIANT
  StopsOnlyWhenDone
