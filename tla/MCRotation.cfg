SPECIFICATION RotationSpec
CONSTANTS
    Tenants <- MCTenants
    Slots <- MCSlots
    MayUse <- TwoPools
PROPERTIES
    EveryTenantServed
