\* The image of a Simos16, whose CBOOT and ASW1 regions overlap.
CONSTANTS
    None = None
    WINDOW_SIZE = 6
    MAX_CODED = 5
    Modules <- Overlapping
    Vendor <- MCVendor
    AreaTable <- MCAreaTable
    BoxCodes <- MCBoxCodes
    PATCH_BYTES <- MCPatch
    TuneValues = {34}
    MaxMishaps = 0
    Slack = 1
    Shared = 3
SPECIFICATION Spec
PROPERTY ExtractedIsSound
CHECK_DEADLOCK FALSE
