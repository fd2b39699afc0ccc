SPECIFICATION Spec
CONSTANTS
    a = a
    b = b
    q1 = q1
    q2 = q2
    nA = nA
    nB = nB
    o1 = o1
    o2 = o2
    o3 = o3
    None = None
    Id = {a}
    Port = {q1, q2}
    Name = {nA, nB}
    NameTimeout = 2
    Output = {o1, o2, o3}
    MaxEntries = 2
    Ttl = 1
    Times = {0, 1, 2}
PROPERTIES
    AnswersTrue
    MisroutingBounded
    AlarmsJustified
    PagesKept
SYMMETRY Symmetry
