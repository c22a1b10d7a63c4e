SPECIFICATION ProvisioningSpec
CONSTANTS
    None = None
    Keep = Keep
    c1 = c1 c2 = c2 c3 = c3
    a1 = a1 a2 = a2 a3 = a3
    x1 = x1 x2 = x2 legacy = legacy outside = outside
    e1 = e1
    k1 = k1 k2 = k2
    r1 = r1 r2 = r2
    p1 = p1 p2 = p2
    Sections = {e1}
    Controllers = {c1, c2, c3}
    Accounts = {a1, a2, a3}
    Extensions = {x1, x2, legacy, outside}
    Legacy = {legacy}
    Dialable = {x1, x2, legacy}
    Secrets = {k1, k2}
    Requests = {r1, r2}
    Scripts = {p1, p2}
    Present = {c1, c2}
    MaxKills = 1
    Workload = {"create_account", "update_account", "delete_account", "assign", "create_controller", "update_controller", "delete_controller", "delete_section"}
    Registered <- RegisteredAtStart
    Assigned <- AssignedAtStart
    Payloads <- Bodies
INVARIANT ProvisioningTypeOK
INVARIANT TablesAgree
INVARIANT NoDuplicateEndpoint
INVARIANT ProcedureSuffices
PROPERTY FileIsPublished
