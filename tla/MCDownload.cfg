CONSTANTS
    MaxBytes = 4
    Sizes <- Around
    MaxHops = 2
SPECIFICATION FairSpec
CHECK_DEADLOCK FALSE
INVARIANTS
    TypeOK
    OkIsTheArtifact
    CeilingIsExact
    NoCredentialReachesStorage
PROPERTY DownloadReturns
