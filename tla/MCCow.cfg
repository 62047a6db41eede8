\* Three processes with a stack and one more page, one file page, and too few
\* frames for everybody to have copies; a count is full at three.
CONSTANTS
    Procs = {p1, p2, p3}
    Pages = {s, v}
    Stack = s
    Frames = {f1, f2}
    Files = {k}
    Values = {0, 1}
    Zero = 0
    CountMax = 3
    Batch = 1
    Scarce = FALSE
    NoFrame = NoFrame
    NoFile = NoFile
    NoProc = NoProc
    Absent = Absent
SPECIFICATION Spec
INVARIANTS MappedIsHeld WritableIsPrivate
 
SYMMETRY MCSymmetry
CHECK_DEADLOCK FALSE
