CONSTANTS
  Archs <- LinkRegister
  Threads = {t1, t2}
  FreshFlags = {FALSE}
  Preemptive <- None
  Label = Label
  Handler = Handler
SPECIFICATION Spec
INVARIANTS ReturnsToCaller
SYMMETRY ThreadSymmetry
