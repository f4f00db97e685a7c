SPECIFICATION Spec
CONSTANTS
  Builders = {p1, p2}
  Outs = {"o", "q"}
  Roots = {"r", "s"}
  Scripts <- MCScripts
  NoScript = "none"
  Tracks <- MCTracks
  Does <- MCDoes
  Requests <- MCRequests
  Inputs = {v1, v2}
  MaxBuilds = 3
  MaxEvents = 2
SYMMETRY Symmetry
INVARIANTS TreesRecorded
PROPERTIES BuildsLikeNew StaleOutputsRemoved ForeignOutputsKept SecondBuildWritesNothing
CHECK_DEADLOCK FALSE
