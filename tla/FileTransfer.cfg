\* One transfer, then another; a change or a foreign packet.
SPECIFICATION Spec
CONSTANTS
    Chunks = {1, 2}
    Contents <- SmallContents
    Retries = 1
    MaxStarts = 2
    MaxEvents = 1
    MaxLink = 2
    None = None
\* Nothing happens after the last transfer.
CHECK_DEADLOCK FALSE
INVARIANTS
    DownloadedIsWhole
    SuccessIsDelivered
PROPERTIES
    UploadedIsWritten
    TransferEnds
