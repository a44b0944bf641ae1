CONSTANTS
    PAGE_SIZE = 2
    MAX_MEMORY_MAP_SIZE = 11
    FirmwareLists <- MCFirmwareLists
    Layouts <- MCLayouts
    NumFrames = 14
SPECIFICATION Spec
INVARIANTS
    RegionsDisjoint
    UsableIsUnused
PROPERTIES
    ImplementsOwnership
