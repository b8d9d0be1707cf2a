CONSTANTS
    Bars <- MCBars
    Addrs <- MCAddrs
    AreaOffsets <- MCNoAreas
    RegionStride <- MCRegionStride
    MmapMayFail = TRUE
    MaxActivations <- MCMaxActivations
SPECIFICATION Spec
INVARIANT RInv
INVARIANT MInv
