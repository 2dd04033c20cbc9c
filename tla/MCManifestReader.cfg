CONSTANTS
    Chars <- MCChars
    Word <- MCWord
    Processes <- MCProcesses
    BinPath <- MCBinPath
    ApplicationFolders <- MCApplicationFolders
    MachineManifests <- MCMachineManifests
SPECIFICATION Spec
INVARIANTS
    ReaderTypeOK
    ServesWhatIsDeclared
    ReportsAsItsService
    PollsItsProcess
CHECK_DEADLOCK FALSE
