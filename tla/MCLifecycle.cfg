SPECIFICATION Spec
CONSTANTS
    Null = Null
    Nothing = Nothing
    Kinds = {"file", "remote_exec", "local_exec", "user", "bundle_install",
             "vault_start", "consul_start", "boundary_start", "vault_init", "boundary_init",
             "vault_unseal", "kind_cluster", "kind_load_image"}
    Movable = {"user", "bundle_install", "vault_unseal", "vault_init", "boundary_init", "kind_load_image"}
    Mains = {"m1", "m2"}
    Rests = {"r1", "r2"}
    Hosts = {"h1", "h2"}
    MaxEdits = 3
    MaxFaults = 2
INVARIANTS
    TypeOK
    InSync
    SumInSync
    NoOrphan
PROPERTIES
    PlanHolds
    Converges
    DriftIsRepaired
CHECK_DEADLOCK FALSE
