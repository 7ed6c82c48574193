SPECIFICATION FairSpec
CONSTANTS
    s1 = s1
    s2 = s2
    c1 = c1
    c2 = c2
    Sessions = {s1, s2}
    Consoles = {c1, c2}
    Impatient = {s1, s2, c2}
    Nobody = Nobody
INVARIANTS
    CommandsApart
PROPERTIES
    RequestAnswered
