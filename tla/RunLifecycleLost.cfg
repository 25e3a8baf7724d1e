\* One driver, two reconcilers, one of which may die.
CONSTANTS
    None = None
    drv = drv
    cmd = cmd
    r1 = r1
    r2 = r2
    Owners = {drv}
    Driver = {drv}
    Reconcilers = {r1, r2}
    MaxOwnerFaults = 1
    MaxReconcilerFaults = 1
SPECIFICATION Spec
PROPERTIES
    LossIsReconcilable
CHECK_DEADLOCK FALSE
