CONSTANTS
    p = p
    q = q
    missing = missing
    unset = unset
    Paths <- MCPaths
    FileNames <- MCFileNames
    Binaries <- MCBinaries
    Missing = missing
    Manifests <- MCManifests
    Unset = unset
    ALIGNMENT = 4
    MaxChanges = 2
SPECIFICATION TestSpec
INVARIANTS
    ImageHasKernel
    ImageHasConstants
    StatusIsRight
