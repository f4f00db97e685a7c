SPECIFICATION Spec
CONSTANTS
  Order <- MCOrder
  Versions <- MCVersions
  FeatureNames <- MCFeatureNames
  Jobs <- MCJobs
  MaxRounds = 5
INVARIANTS RequirementsMet ResolvesClosure
PROPERTIES Ends
CHECK_DEADLOCK FALSE
