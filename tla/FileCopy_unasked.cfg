SPECIFICATION Spec
CONSTANTS
    Methods = {"wsl"}
    MaxOthers = 1
PROPERTIES
    NothingLostUnasked
CHECK_DEADLOCK FALSE
