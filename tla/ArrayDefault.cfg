\* The default capacity, and pushes only, as main begins.
CONSTANTS
    Values = {1, 2, 3}
    Nothing = Nothing
    Capacities = {0}
    MaxLength = 5
CHECK_DEADLOCK FALSE
SPECIFICATION TestSpec
PROPERTIES PushKeeps
