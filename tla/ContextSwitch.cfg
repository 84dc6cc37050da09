CONSTANTS
  Archs <- AllArchs
  Threads = {t1, t2, t3}
  FreshFlags = {FALSE}
  Preemptive <- X86
  Label = Label
  Handler = Handler
SPECIFICATION Spec
INVARIANTS TypeOK ContextSurvives ResumesOwnCode
SYMMETRY ThreadSymmetry
