SPECIFICATION Spec
CONSTANTS
    Contents = {0, 1}
    Fresh = 0
    MaxRevisions = 2
    CertificateWrites = TRUE
INVARIANT
    StoreIntact
CHECK_DEADLOCK FALSE
