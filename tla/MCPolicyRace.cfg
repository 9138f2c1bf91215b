SPECIFICATION Spec
CONSTANTS
    Servers = {api}
    Hosts = {api}
    Admins = {a1, a2}
    Names <- PolicyNames
    Submissions <- Documents
    Targets <- RowsAfterFirst
    Down = Down
    MaxRevisions = 4
INVARIANT NeverDrifts
