CONSTANTS
    r1 = r1
    r2 = r2
    s1 = s1
    s2 = s2
    None = None
    Tombstone = Tombstone
    Responses = {r1, r2}
    Sessions = {s1, s2}
    MaxFaults = 0
    IndexMayVanish = TRUE
SYMMETRY Ids
SPECIFICATION Spec
CHECK_DEADLOCK FALSE
INVARIANT SessionKept
