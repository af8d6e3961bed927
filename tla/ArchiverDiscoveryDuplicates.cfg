SPECIFICATION Spec
CONSTANTS
    None = None
    a = a
    b = b
    c = c
    local = local
    near = near
    far = far
    Archiver <- ThreeArchivers
    Seeds <- SeedA
    Reports <- Disagreeing
    Standalone = None
    MaxEntries = 4
    MaxWrites = 2
    MaxCrashes = 1
INVARIANTS
    KeysAreUnique
