CONSTANTS
    r1 = r1  r2 = r2  r3 = r3  a1 = a1  a2 = a2  a3 = a3
    None = None  Same = Same  Fresh = Fresh
    Req <- Reqs3
    Address <- Addresses3
    MaxCode = 3
SPECIFICATION Spec
SYMMETRY Symmetry
INVARIANTS TypeOK CodeColumnsAgree
PROPERTIES EmailProven ChangeEnds SecretSpec
