CONSTANT Entry = {"gateway"}
SPECIFICATION RequestSpec
INVARIANT CallerGuaranteesUser
CHECK_DEADLOCK FALSE
