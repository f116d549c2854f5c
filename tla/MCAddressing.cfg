SPECIFICATION Spec
CONSTANTS
  Projects = {"services", "locations"}
  Names = {"n", "locations"}
  Zones = {"us-east1-a", "us-east4-a"}
  Regions = {"us-east1", "us-east4"}
  RegionOf <- MCRegionOf
  Segments <- MCSegments
  Letters = {"a"}
  None = None
  MaxRestarts = 1
INVARIANTS
  AddressesItsTarget
  RefusedExactlyIfUnfit
  TargetsAreDistinct
  PublishedAsItIs
CHECK_DEADLOCK FALSE
