CONSTANTS
    Bars <- MCBars
    Addrs <- MCAddrs
    AreaOffsets <- MCAreaOffsets
    RegionStride <- MCRegionStride
    MmapMayFail = FALSE
    MaxActivations <- MCMaxActivations
SPECIFICATION Spec
INVARIANT RamBackedByLiveMapping
