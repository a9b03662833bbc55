CONSTANT Requests <- MCPickedRequests
SPECIFICATION Spec
INVARIANT TeamAgrees
CHECK_DEADLOCK FALSE
