SPECIFICATION Spec
CONSTANTS
  Jobs <- MCReduceJobs
  MaxInFlight = 2
  Mantissa = 9
INVARIANT ReduceLockStep
