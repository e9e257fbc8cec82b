\* A file spoilt from outside, then saved again.
CONSTANTS
    SyncsDirectory = TRUE
    MaxWrites = 3
SPECIFICATION StoreSpec
INVARIANT DamageIsRecovered
CHECK_DEADLOCK FALSE
