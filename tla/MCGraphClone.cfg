SPECIFICATION Spec
CONSTANTS
    p1 = p1
    p2 = p2
    drop = drop
    create = create
    createDst = createDst
    put1 = put1
    put2 = put2
    clone1 = clone1
    clone2 = clone2
    dropDst = dropDst
    dropSrc = dropSrc
    write = write
    write2 = write2
    r1 = r1
    src = src
    dst = dst
    f = f
    g = g
    n1 = n1
    n2 = n2
    n3 = n3
    e1 = e1
    e2 = e2
    e3 = e3
    Nobody = Nobody
    Own = Own
    Request = {p1, p2, drop, create, createDst, put1, put2, clone1, clone2, dropDst, dropSrc, write, write2}
    Op <- MCOp
    RowOf <- MCRowOf
    Sets <- MCSets
    Row = {r1, src, dst}
    Field = {f, g}
    Existing = {r1, src}
    Scenarios <- MCScenarios
    MaxFaults = 1
    Source = src
    Target = dst
    Entity = {n1, n2, n3}
    Fact = {e1, e2, e3}
    From <- Subject
    To <- Object
    AtStart = {n1, n2}
    FactsAtStart = {e1}
    Limit = 2
INVARIANTS
    PatchesKept
    PutsSettle
    
    GraphsApart
PROPERTIES
    StaysDeleted
CHECK_DEADLOCK FALSE
