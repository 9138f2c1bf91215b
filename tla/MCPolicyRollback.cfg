SPECIFICATION Spec
CONSTANTS
    Servers = {api}
    Hosts = {api}
    Admins = {a1}
    Names <- PolicyNames
    Submissions <- Documents
    Targets <- AnyRow
    Down = Down
    MaxRevisions = 4
INVARIANT ActiveLoads
CHECK_DEADLOCK FALSE
