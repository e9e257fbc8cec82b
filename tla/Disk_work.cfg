\* A settings file through four saves, with errors, kills, power losses and damage; or
\* one transfer of each kind.
CONSTANTS
    SyncsDirectory = TRUE
    MaxWrites = 4
    Methods = {"upload", "download", "wsl"}
    MaxOthers = 3
SPECIFICATION DiskSpec
INVARIANTS StoreSound CopySound
PROPERTIES AskedFirst CopyEndsOrAsks
CHECK_DEADLOCK FALSE
