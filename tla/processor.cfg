SPECIFICATION Spec
CONSTANTS
    WordSize = 64
    ByteSize = 8
    Registers <- MCRegisters
    Programs <- MCPrograms
    Interrupts = {7}
    Externals = {5, 6}
    MaxEvents = 2
INVARIANTS TypeOK VirtualIsNumbered
PROPERTY ImplementsMachine
