SPECIFICATION Spec
CONSTANTS
    Start = 2
    Size = 24
    Sizes = {1, 3, 6}
    Alignments = {2, 8}
INVARIANTS WellLinked Partition
CHECK_DEADLOCK FALSE
