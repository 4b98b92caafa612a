CONSTANTS
  Shell = {s1, s2}
  MaxSetups = 2
  MaxHeard = 4
SPECIFICATION Spec
SYMMETRY symmetry
INVARIANTS EachInOrder KeptByAll
