\* A driver and a direct command started with the same run id, two
\* reconcilers; two owner faults and one reconciler fault.
CONSTANTS
    None = None
    drv = drv
    cmd = cmd
    r1 = r1
    r2 = r2
    Owners = {drv, cmd}
    Driver = {drv}
    Reconcilers = {r1, r2}
    MaxOwnerFaults = 2
    MaxReconcilerFaults = 1
SPECIFICATION Spec
INVARIANTS
    SelectedRecordsIntact
    ReceiptStaysComplete
    OwnerLossIsReal
PROPERTIES
    SelectedOnce
    AbandonedCloses
CHECK_DEADLOCK FALSE
