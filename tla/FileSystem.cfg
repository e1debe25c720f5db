SPECIFICATION Spec
CONSTANTS
    MAX_NUM_PROCESSES = 2
    file_size <- MCFileSize
    NBytes = {2, 3}
    MAX_NUM_FILES = 4
    DATA_BLK_SIZE = 2
    num_dir_entries = 3
    None = None
INVARIANTS
    TypeOK
    StreamIntact
    ListingComplete
CONSTRAINT Bounded
VIEW Seen
