SPECIFICATION Spec
CONSTANTS
  Order <- MCOrder
  Versions <- MCVersions
  FeatureNames <- MCFeatureNames
  Universes <- MCUniverses
  Manifests <- MCManifests
  MaxRounds = 4
  MaxCommands = 2
PROPERTIES LockStaysPut ClasspathIsLocked
CHECK_DEADLOCK FALSE
