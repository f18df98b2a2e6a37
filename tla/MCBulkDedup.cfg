SPECIFICATION Spec
CONSTANTS
    a1 = a1
    b1 = b1
    a2 = a2
    b2 = b2
    g1 = g1
    g2 = g2
    A = A
    B = B
    C = C
    D = D
    Episode = {1, 2}
    Extracted <- Entities
    EpisodeOf <- Owner
    StatedIn <- States
    GraphNode = {g1, g2}
    NoNode = NoNode
    Name = {A, B, C, D}
    Short = {D}
    Likeness <- Closeness
    Same = 3
    NameOf <- Namings
    Fact = {1, 2, 3}
    From <- Subject
    To <- Object
    TextOf <- Texts
INVARIANTS
    PoolSound
    OneNodeForEach
    EndsSaved
PROPERTIES
    ImplementsMap
