SPECIFICATION Spec
CONSTANTS
  FieldSets <- MCFieldSets
  Vals <- MCVals
  Home = {"10.0.0.1", "10.0.0.2", "fd00::1", "fd00::2"}
  Listed = {"9.9.9.9"}
  Private = {"10.0.0.1", "10.0.0.2", "2001::1"}
  Located = {"8.8.8.8", "3fff::2"}
  Vendors = {"a"}
  L2 <- MCL2
  Members = {0, 1, 2}
INVARIANTS WellFormed Viewpoint ClientPartition
CHECK_DEADLOCK FALSE
