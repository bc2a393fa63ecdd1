SPECIFICATION TestSpec
CONSTANTS
    Opcodes <- Two
    Archives <- SomeArchives
    Directories <- SomeDirectories
    MaxChanges = 2
INVARIANT OneSource
INVARIANT FirstPlaceDecides
CHECK_DEADLOCK FALSE
