SPECIFICATION Spec
CONSTANTS
    Listeners = {r1, r2}
    Senders = {s1, s2}
    MayReadNone = TRUE
SYMMETRY Symmetry
INVARIANT TypeOK
INVARIANT RejectedIsDisturbed
INVARIANT UndisturbedIsWhole
