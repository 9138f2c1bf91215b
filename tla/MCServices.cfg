SPECIFICATION ServicesSpec
CONSTANTS
    admin = admin
    editor = editor
    viewer = viewer
    operator = operator
    stranger = stranger
    Nil = Nil
    Callers <- MCCallers
    RolesOf <- MCRolesOf
    RolePermissions <- MCRolePermissions
    DefaultGrants <- MCDefaultGrants
    MaxFrames = 2
    first = first
    second = second
    Procs = {first, second}
    MaxAttempts = 2
    MaxOutages = 1
    MaxRevision = 2
    Unset = Unset
    Servers = {api, idp}
    Hosts = {api, idp}
    Admins = {a1, a2}
    Names <- PolicyNames
    Submissions <- Documents
    Targets <- RowsAfterFirst
    Down = Down
    MaxRevisions = 4
INVARIANTS
    SameRightOnEverySurface
    
    LapsedTokenDoesNothing
    ServesEquipped
    ServesOnceActive
PROPERTIES
    EveryStartSettles
    OutageEnds
CHECK_DEADLOCK FALSE
