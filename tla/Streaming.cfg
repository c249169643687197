SPECIFICATION Spec
CONSTANTS
    BlockSize = 2
    Base = 3
    IVLen = 4
    Zeros = 2
    Objs = {"doc", "pic", "note"}
    Revisions <- MCRevisions
    NewRevision <- MCNewRevision
    Named <- MCNamed
    Ranges <- MCRanges
    Portion <- MCPortion
    MaxRequests = 1
    MaxChanges = 2
INVARIANTS RangeExact LengthHonest ZipNamesDistinct ZipComplete
PROPERTIES DownloadsEnd
CHECK_DEADLOCK FALSE
