CONSTANTS
    a = a
    b = b
    None = None
    Folder = Folder
    Path <- MCPath
    Folders <- MCFolders
    Ignored = {}
    Outside <- MCOutside
    Content = {a, b}
    MaxOps = 2

SPECIFICATION Spec
CHECK_DEADLOCK FALSE

PROPERTIES
    MovesReachDisk
