CONSTANTS
    Source = {s1, s2}
    Request = {r1, r2, r3, r4, r5}
    Setting = {c1, c2}
    NoSource = NoSource
SPECIFICATION Spec
INVARIANTS TypeOK NoJobSlipsIn JobsKeepTheirSource OneDeletion
PROPERTIES DeletedIsFrozen
SYMMETRY Symmetry
CHECK_DEADLOCK FALSE
