CONSTANTS
    MaxIrqs <- MCMaxIrqs
    DeviceStoresRoWrites = TRUE
SPECIFICATION Spec
INVARIANT MsiWiring
INVARIANT DescriptorDiscipline
INVARIANT NoSpuriousMsi
INVARIANT GuestHeaderSane
