SPECIFICATION LiveSource

PROPERTIES
    FolderHandedOver
    ReturnsToPrimary
    PollsGoThrough
