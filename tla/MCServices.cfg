SPECIFICATION Spec
CONSTANTS
    File = {"f"}
    NoFile = "no file"
    FileSize = 2
    Value = {0, 1}
    FileTCs <- MCFileTCs
    TC_MAX = 5
    LOAD_MAX = 4
    TM_MAX = 5
    Word = 8
    SoftwareId = {1, 2}
    FirstSoftware = 1
    NoSoftware = 0
    SystemTCs <- MCSystemTCs
INVARIANTS ServicesTypeOK FilesAsLoaded DumpFaithful DevicesClosed ContextAsCommanded SilentOnlyOnDeviceFailure
