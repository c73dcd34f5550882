CONSTANTS
    Addr = {public, private, bridge}
    Blocked = {private, bridge}
    Allowlisted = {bridge}
    NoAddr = NoAddr
    Name = {n1, n2}
    NoName = NoName
    Session = {s1, s2}
    MaxRows = 2
    MaxTable = 4
    MaxAnswer = 2
    MaxInt = 7
    MaxExact = 4
    Text = {ascii, utf8, blob, bits}
    Malformed = {blob, bits}
    Repaired <- Repairing
    Value <- MCValue
SPECIFICATION Spec
SYMMETRY Symmetric
INVARIANTS TypeOK OneTargetOfItsOwn PlaintextOnlyToAllowlisted ResultIsWhole AnsweredAsStored
CHECK_DEADLOCK FALSE
