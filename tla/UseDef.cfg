CONSTANTS
  Insts = {i1, i2, i3}
  MaxInputs = 2
SYMMETRY Symmetry
SPECIFICATION Spec
INVARIANTS UsersMatchInputs NoDeadOperands
CHECK_DEADLOCK FALSE
