\* Two bytes of 0 .. 3 make an address; the image has eight cells.
CONSTANTS
    object_export <- MCExport
    object_import <- MCImport
    Builds <- MCBuilds
    Programs <- MCPrograms
    Names = {"a", "b"}
    Labels = {"f", "g", "h", "DATA"}
    ImageSize = 8
    Byte = 4
    Null = Null
SPECIFICATION CocasSpec
INVARIANTS
    TypeOK
    LinkedAsCompiled
    NeededIsUsed
    PlacedRight
    WholeFieldsExact
\* Linking ends.
CHECK_DEADLOCK FALSE
