CONSTANTS
    Hvas <- MCHvas
    IovaLimit <- MCIovaLimit
    MaxCommits <- MCMaxCommits
    TopologyChangesDuringConnect = TRUE
SPECIFICATION Spec
INVARIANT DmaMirrorEqual
