SPECIFICATION FairSpec
CONSTANTS
    Contents = {0, 1}
    Fresh = 0
    MaxRevisions = 4
    CertificateWrites = FALSE
INVARIANTS
    TypeOK
    StoreIntact
    FakeAgrees
PROPERTY
    ListerCatchesUp
CHECK_DEADLOCK FALSE
