CONSTANTS
    PAGE_SIZE = 2
    BLOCK = 2
    PARAGRAPH = 4
    WORD = 16
    HUGE = 8
    KernelBuffer = 0
    PageTableStart = 2
    PageTableEnd = 4
    BootloaderStart = 4
    BootSector = 4
    VgaStart = 12
    VgaEnd = 14
    KernelTarget = 32
    MemoryEnd = 80
    Images <- MCImages
    MAX_MEMORY_MAP_SIZE = 14
    FirmwareLists <- MCFirmwareLists
    Layouts <- MCLayouts
    NumFrames = 40
    Elfs <- MCElfs
    SectionSizes <- MCSectionSizes
    LinkBase = 16
    MAX_SEGMENTS = 3
    L4Entries = 9
    PagesPerEntry = 32
    TempPage = 224
    KERNEL_STACK_SIZE = 2
    Configs <- MCUnalignedOffset
    HeapStart = 256
    HeapPages = 2
SPECIFICATION BootSpec
INVARIANT PhysicalMemoryMapped
