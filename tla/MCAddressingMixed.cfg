SPECIFICATION Spec
CONSTANTS
  Projects = {"p"}
  Names = {"n"}
  Zones = {"us-east1-a", "us-east4-a"}
  Regions = {"us-east1", "us-east4"}
  RegionOf <- MCRegionOf
  Segments <- MCSegments
  Letters = {"a"}
  None = None
  MaxRestarts = 0
INVARIANT RestrictedOnlyIfAllNarrow
CHECK_DEADLOCK FALSE
