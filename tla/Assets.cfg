\* Two readers, three packages one after the other.
CONSTANTS
    r1 = r1
    r2 = r2
    Main = Main
    Absent = Absent
    Partial = Partial
    Packed = Packed
    Empty = Empty
    None = None
    Readers = {r1, r2}
    MaxVersion = 3
SPECIFICATION Spec
SYMMETRY Symmetry
INVARIANTS
    VersionTells
    ReadsWhole
    RootsWhole
CHECK_DEADLOCK FALSE
