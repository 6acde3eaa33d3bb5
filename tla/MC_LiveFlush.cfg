CONSTANTS
    a = a
    b = b
    None = None
    Folder = Folder
    Path <- MCPath
    Folders <- MCFolders
    Ignored <- MCIgnored
    Outside <- MCOutside
    Content = {a, b}
    MaxOps = 4

SPECIFICATION Spec
CHECK_DEADLOCK FALSE

PROPERTIES
    FlushAppliesAll
