SPECIFICATION FairSpec
CHECK_DEADLOCK FALSE
CONSTANTS
    app = app
    db = db
    next = next
    lone = lone
    web = web
    sql = sql
    Containers = {app, db, next, lone}
    HostPorts = {web, sql}
    Targets = {t1, t2}
    None = none
    Publishes <- Ports
    Networks <- Nets
    MaxChanges = 4
INVARIANTS
    SyncMirrorsPorts
PROPERTIES
    PortsGetMirrored
    WorkingForwardsStay
