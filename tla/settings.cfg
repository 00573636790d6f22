CONSTANTS
    leaf = leaf
    root = root
    other = other
    File <- ThreeFiles
    NoFile = NoFile
    Absent = Absent
    Extension <- Extensions
    Draft <- Drafts
    Service <- AddedServices
    Flags <- SvcFlags
    Cluster <- PortLists
    MaxPort = 4
    MaxEdits = 3
SPECIFICATION Spec
INVARIANTS OnlyOwnSettings LoadNearestWins FlagsApplied ExpansionExact
