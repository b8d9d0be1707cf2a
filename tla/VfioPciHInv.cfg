CONSTANTS
    MaxIrqs <- MCMaxIrqs
    DeviceStoresRoWrites = TRUE
SPECIFICATION Spec
INVARIANT HInv
