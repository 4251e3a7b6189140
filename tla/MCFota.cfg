\* Three downloads of an image of three blocks, two power failures, two failures
\* of the card or the flash.  The last block is a multiple of four bytes.
SPECIFICATION LiveSpec
CONSTANTS
    Packets = 3
    LastBytes = 8
    MaxDownloads = 3
    MaxCuts = 2
    MaxFaults = 2
INVARIANTS OnlyWholeImagesRun SuccessIsStored
PROPERTIES ImplementsFirmware Installs
