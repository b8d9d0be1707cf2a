CONSTANTS
    MaxIrqs <- MCMaxIrqs
    DeviceStoresRoWrites = FALSE
SPECIFICATION Spec
INVARIANT IInv
