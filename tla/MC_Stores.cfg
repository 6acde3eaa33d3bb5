CONSTANTS
    None = None
    Never = Never
    MaxTime = 2
    Name = {n1, n2}
    Text = {x}
    k1 = k1
    Master = {k1, k2, short}
    Malformed = {short}
    MaxSnapshots = 1
    Key = {e1, e2}
    Value = {x}
    Saver = {s1, s2}
    MaxTtl = 1
    MaxKept = 1
    Domain = {d1, d2}
    Cookie = {c1, c2}
    CookieValue = {x}
    Request = {r1}
    Call = {q1, q2, q3}
    a = a
    Folder = Folder
    Content = {a}
    Path <- MCPath
    Named <- MCNamed
    Target <- MCTarget
    OnDisk <- MCOnDisk
    Repository <- MCOnDisk
    LeftOut = {}
    MaxFiles = 2
    BatchSize = 1

SPECIFICATION StoresSpec
CHECK_DEADLOCK FALSE

INVARIANTS
    StoresTypeOK
    TransfersArrive
PROPERTIES
    SecretStoreIsMap
    StateStoreIsMap
    OverlapsLoseNothing
