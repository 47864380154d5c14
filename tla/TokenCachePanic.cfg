SPECIFICATION WholeSpec
CONSTANTS
    p1 = p1
    p2 = p2
    p3 = p3
    ann = ann
    bob = bob
    carol = carol
    machine = machine
    actor = actor
    Proc = {p1, p2}
    Key = {bob}
    Legacy = {}
    Actor = actor
    SubjectExp <- MCSubjectExp
    Life <- MCLife
    Margin = 1
    MaxDelay = 1
    MaxSize = 1
    MaxTime = 0
    MaxVer = 0
    Panics = TRUE
PROPERTIES
    EveryCallerAnswered
