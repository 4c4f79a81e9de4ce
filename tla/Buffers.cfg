CONSTANTS
    o1 = o1
    o2 = o2
    o3 = o3
    b1 = b1
    b2 = b2
    b3 = b3
    Objects = {o1, o2, o3}
    Blocks = {b1, b2, b3}
    Null = Null
    MaxSize = 63
    SizeOfT = 3
    Alignment = 4
    Shapes <- SomeShapes
    ThrowingKinds = {"rows", "array"}
SYMMETRY AnyOrder
SPECIFICATION Spec
INVARIANTS
    IInv
    ConstructsApart
    DestroysOnce
    FreedAsAllocated
    OneOwner
    IteratorSound
