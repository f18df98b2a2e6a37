SPECIFICATION Spec
CONSTANTS
    add0 = add0
    remove0 = remove0
    e0 = e0
    add1 = add1
    add2 = add2
    add3 = add3
    add4 = add4
    bulk = bulk
    remove1 = remove1
    remove2 = remove2
    again0 = again0
    add5 = add5
    e5 = e5
    buildAll = buildAll
    buildOne = buildOne
    buildNew = buildNew
    upN = upN
    upM = upM
    upM2 = upM2
    e1 = e1
    e2 = e2
    e3 = e3
    e4 = e4
    n = n
    m = m
    o = o
    near = near
    far = far
    f = f
    h = h
    NoEpisode = NoEpisode
    Call = {add0, remove0, add1, add2, add3, add4, bulk, remove1, remove2, again0, add5, buildAll, buildOne, buildNew, upN, upM, upM2}
    What <- MCWhat
    Adds <- MCAdds
    Removes <- MCRemoves
    Episode = {e0, e1, e2, e3, e4, e5}
    Entity = {n, m, o}
    Fact = {f, h}
    Mentions <- MCMentions
    States <- MCStates
    Joins <- MCJoins
    ValidAt <- MCValidAt
    Saga = {e1, e2, e3, e4}
    AtStart = {o}
    Given <- MCGiven
    Group = {near, far}
    GroupOf <- MCGroupOf
    Scenarios <- MCScenarios
    MaxCrashes = 1
    Built <- MCBuilt
    Of <- MCOf
INVARIANTS
    RemovalExact
    SagaInOrder
    MembershipsSettle
    BuildsSettle
CHECK_DEADLOCK FALSE
