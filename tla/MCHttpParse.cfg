SPECIFICATION Spec
CHECK_DEADLOCK FALSE
CONSTANTS
  Streams <- Everything
  ContentLength = 3
INVARIANT FragmentationIndependence
PROPERTIES ParsedTextKept Returns
