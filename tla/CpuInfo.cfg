CONSTANTS
    t1 = t1
    t2 = t2
    t3 = t3
    NULL = NULL
    Threads = {t1, t2, t3}
    Files <- AnyFile
SYMMETRY AnyOrder
SPECIFICATION Spec
INVARIANTS
    IInv
    SpansStayValid
    OneThreadPerCore
