CONSTANTS
    Hvas <- MCHvas
    IovaLimit <- MCIovaLimit
    MaxCommits <- MCMaxCommits
    TopologyChangesDuringConnect = FALSE
SPECIFICATION Spec
INVARIANT DInv
