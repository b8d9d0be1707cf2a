CONSTANTS
    Bars <- MCBars
    Addrs <- MCAddrs
    AreaOffsets <- MCNoAreas
    RegionStride <- MCRegionStride
    MmapMayFail = FALSE
    MaxActivations <- MCMaxActivations
SPECIFICATION Spec
INVARIANT RamBackedByLiveMapping
INVARIANT BarResourcesMatch
INVARIANT MappingsFollowActivation
