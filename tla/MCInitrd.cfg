SPECIFICATION FairInitrdSpec
CONSTANTS
    HDR = 110
    INITRD_MAX_FILES = 2
    WORD = 65536
    Boots <- MCBoots
    Names <- MCNames
    Reads <- MCReads
INVARIANTS FilesInArchive IntactPrefixFound ReadStaysInFile
PROPERTY WalkEnds
