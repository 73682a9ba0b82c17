\* Two processes, two roots that may be copies of each other, one anchor.
CONSTANTS
    Procs = {p1, p2}
    Roots = {r1, r2}
    Manifests = {m1, m2}
    Authorities = {a1, a2}
    AuthorityKeys = {ka}
    BoundaryKeys = {kb}
    MaxSignatures = 2
    None = None
SPECIFICATION Spec
SYMMETRY MCSymmetry
INVARIANT StoreInv
PROPERTIES FreshLoad ImplementsLog
