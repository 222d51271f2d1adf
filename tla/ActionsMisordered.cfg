SPECIFICATION SorterSpec
CONSTANTS
  ProductIds = {1, 2, 3}
  SortRequests <- MixedRequests
CHECK_DEADLOCK FALSE
INVARIANT RequirementsAreMet
