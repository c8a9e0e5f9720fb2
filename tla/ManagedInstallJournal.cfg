SPECIFICATION FairInstallSpec
CONSTANTS
    MaxTxn = 1
    MaxTrouble = 0
    MaxCrashes = 1
PROPERTIES
    JournalShortLived
