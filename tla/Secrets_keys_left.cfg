SPECIFICATION SecretsSpec
INVARIANT KeysForgotten
CHECK_DEADLOCK FALSE
