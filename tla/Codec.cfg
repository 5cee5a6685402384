SPECIFICATION Spec
CONSTANT Keys = {0, 1}
INVARIANTS RoundTrip KeysSeparate RequestsComplete AnnouncementsRead
CHECK_DEADLOCK FALSE
