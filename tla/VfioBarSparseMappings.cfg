CONSTANTS
    Bars <- MCBars
    Addrs <- MCAddrs
    AreaOffsets <- MCAreaOffsets
    RegionStride <- MCRegionStride
    MmapMayFail = TRUE
    MaxActivations <- MCMaxActivations
SPECIFICATION Spec
INVARIANT TypeOK
INVARIANT MappingsFollowActivation
