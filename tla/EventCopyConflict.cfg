CONSTANTS
    note = note
    secret = secret
    u1 = u1
    u2 = u2
    u3 = u3
    p1 = p1
    a1 = a1
    a2 = a2
    Facts <- MCFacts
    Removed <- MCRemoved
    Forbidden <- MCForbidden
    Original = Original
    Fresh <- MCFresh
    Absent = Absent
    Plans <- MCPlans
    Applies <- MCApplies
    NoPlan = NoPlan
    MaxEdits = 1
SYMMETRY Symmetry
SPECIFICATION Spec
INVARIANT
    ConflictSituationHolds
CHECK_DEADLOCK FALSE
