SPECIFICATION Spec
CONSTANTS
    ulSize = 4
    Bytes <- MCBytes
INVARIANTS
    TypeOK
    BlocksAreSafe
PROPERTY
    ImplementsStream
