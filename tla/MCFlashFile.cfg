CONSTANTS
    None = None
    WINDOW_SIZE = 6
    MAX_CODED = 5
    Modules <- MCModules
    Vendor <- MCVendor
    AreaTable <- MCAreaTable
    BoxCodes <- MCBoxCodes
    PATCH_BYTES <- MCPatch
    TuneValues = {4, 7, 84}
    MaxMishaps = 1
    Slack = 1
    Shared = 3
SPECIFICATION Spec
INVARIANTS TypeOK PreparedExactly WorkflowAgrees
PROPERTY ExtractedIsSound
CHECK_DEADLOCK FALSE
