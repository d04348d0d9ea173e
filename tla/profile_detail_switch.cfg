SPECIFICATION Spec
CONSTANTS
    A = A
    B = B
    none = none
    l1 = l1
    l2 = l2
    w1 = w1
    w2 = w2
    noLoad = noLoad
    Entities = {A, B}
    NoEntity = none
    Loads = {l1, l2}
    NoLoad = noLoad
    Writes = {w1}
    MaxVersion = 3
INVARIANT ShownIsSelected
