CONSTANTS
    s = s
    t = t
    u = u
    Try = {s, t, u}
    R = R
SPECIFICATION FairSpec
CHECK_DEADLOCK FALSE
INVARIANTS TypeOK AnsweredRun
PROPERTIES AgreementSpec BothOrNeither
