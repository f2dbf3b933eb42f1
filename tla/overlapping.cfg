\* Two bytes of 0 .. 3 make an address; the image has eight cells.
CONSTANTS
    Programs <- MCPrograms
    Names = {"a", "b"}
    Labels = {"f", "g", "h"}
    ImageSize = 8
    Byte = 4
    Null = Null
SPECIFICATION Spec
INVARIANT
    SectionsApart
\* Linking ends.
CHECK_DEADLOCK FALSE
