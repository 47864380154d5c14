SPECIFICATION MCSpec
CONSTANTS
    p1 = p1
    p2 = p2
    p3 = p3
    ann = ann
    bob = bob
    carol = carol
    machine = machine
    actor = actor
    Proc = {p1, p2, p3}
    Key = {ann, bob, carol, machine}
    Legacy = {carol}
    Actor = actor
    SubjectExp <- MCSubjectExp
    Life <- MCLife
    Margin = 1
    MaxDelay = 1
    MaxSize = 2
    MaxTime = 2
    MaxVer = 2
    Panics = TRUE
SYMMETRY Interchangeable
INVARIANTS
    MapMatchesList
    ServedAlive
    OneFetchPerKey
    NoInheritedCancellation
    RefusalsAreFresh
    TokensAreTheirOwn
