CONSTANTS
    MaxIrqs <- MCMaxIrqs
    DeviceStoresRoWrites = TRUE
SPECIFICATION Spec
INVARIANT GuestHeaderSane
