SPECIFICATION Spec
CONSTANTS
    File = {f1, f2}
    Big = {f1}
    Dsts <- MCDsts
    Absent = Absent
    maxHashFails = 2
    MaxHarm = 2
CHECK_DEADLOCK FALSE
INVARIANT RegisteredIsKept
