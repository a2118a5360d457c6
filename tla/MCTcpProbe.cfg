CONSTANTS
  j1 = j1
  j2 = j2
  j3 = j3
  Jobs <- ThreeJobs
  NoJob = NoJob
  Handles = {1, 2}
  Capacity = 2
SPECIFICATION Spec
SYMMETRY JobSymmetry
INVARIANTS HandlesConserved VerdictEarned
