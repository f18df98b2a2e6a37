SPECIFICATION Spec
CONSTANTS
    j1 = j1
    j2 = j2
    j3 = j3
    j4 = j4
    j5 = j5
    t1 = t1
    u1 = u1
    u2 = u2
    post = post
    retry = retry
    batch = batch
    lone = lone
    newThread = newThread
    againThread = againThread
    dropThread = dropThread
    newUser = newUser
    dropUser = dropUser
    NoJob = NoJob
    Job = {j1, j2, j3, j4, j5}
    Group = {t1, u1, u2}
    GroupOf <- ThreadGroupOf
    ValidAt <- SameDate
    Window = 2
    Batches <- ThreadBatches
    DeleteCall <- MCDeletes
    MaxCrashes = 1
    Request = {post, dropThread, newThread, againThread, batch, lone, newUser, dropUser}
    Kind <- MCKind
    Subject <- MCSubject
    Owner <- MCOwner
    Body <- ThreadBody
    Uuid <- OwnUuid
    Role <- AnyRole
    IgnoreRoles <- MCIgnoreRoles
    Ungrouped = {j3}
    Existing = {u1}
    Scenarios <- ThreadTogether
    MaxFaults = 1
INVARIANTS
    CompletedMeansAccepted
PROPERTIES
    DeletedStaysQuiet
SYMMETRY Creations
CHECK_DEADLOCK FALSE
