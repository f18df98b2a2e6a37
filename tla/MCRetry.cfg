SPECIFICATION Spec
CONSTANTS
    j1 = j1
    j2 = j2
    j3 = j3
    j4 = j4
    j5 = j5
    t1 = t1
    u1 = u1
    u2 = u2
    post = post
    retry = retry
    batch = batch
    lone = lone
    newThread = newThread
    againThread = againThread
    dropThread = dropThread
    newUser = newUser
    dropUser = dropUser
    NoJob = NoJob
    Job = {j1, j2, j3, j4}
    Group = {t1, u1}
    GroupOf <- RetryGroupOf
    ValidAt <- SameDate
    Window = 2
    Batches <- RetryBatches
    DeleteCall <- MCDeletes
    MaxCrashes = 1
    Request = {post, retry}
    Kind <- MCKind
    Subject <- MCSubject
    Owner <- MCOwner
    Body <- RetryBody
    Uuid <- RetryUuid
    Role <- RetryRole
    IgnoreRoles <- MCIgnoreRoles
    Ungrouped = {}
    Existing = {t1, u1}
    Scenarios <- RetryTogether
    MaxFaults = 2
INVARIANTS
    TypeOK
    AllStoredBeforeAnyAccepted
    OncePerUuid
    RefusedLeavesNoTrace
PROPERTIES
    ImplementsGraphService
    AllAnswered
    TaskEnds
CHECK_DEADLOCK FALSE
