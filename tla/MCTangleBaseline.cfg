SPECIFICATION Spec
CONSTANTS
    p1 = p1
    p2 = p2
    fa = fa
    fb = fb
    x = x
    y = y
    s1 = s1
    s2 = s2
    e1 = e1
    t1 = t1
    Absent = Absent
    Nil = Nil
    Unhashed = Unhashed
    Edits = {e1}
    TmpOf <- SharedTmp
    Runs = {p1}
    Chunks = {fa, x}
    Refs <- SmallRefs
    Drivers <- OneDriver
    SrcOf <- OneSrcOf
    FileChunks <- OneFile
    MaxVersion = 1
    CanRevert = FALSE
INVARIANTS
    OnlyEditedFilesAreRefused
