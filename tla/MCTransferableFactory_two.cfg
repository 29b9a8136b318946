SPECIFICATION Spec
CONSTANTS
    Listeners = {r1, r2}
    Senders = {s1}
    MayReadNone = FALSE
SYMMETRY Symmetry
INVARIANT KnownMessageAccepted
