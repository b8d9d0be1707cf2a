CONSTANTS
    MaxIrqs <- MCMaxIrqs
    DeviceStoresRoWrites = FALSE
SPECIFICATION Spec
PROPERTY MsiOnlyWhenEnabled
