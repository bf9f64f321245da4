CONSTANTS
    Ids = {1, 2, 3, 4}
    Names = {"a", "b", "c", "d"}
SPECIFICATION Spec
INVARIANT
    Inverses
