CONSTANTS
  File = {f1, f2}
  None = None
  MaxObjects = 2
SPECIFICATION Spec
SYMMETRY Symmetry
INVARIANTS  ClosedClean JoinsThread
 
