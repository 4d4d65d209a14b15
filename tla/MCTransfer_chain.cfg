SPECIFICATION Spec
CONSTANTS
    PreDumps = {p1}
    Images = {img}
    Pages = {}
    AgentFiles = {}
    maxConcurrency = 1
    Restores = {r1, r2}
CHECK_DEADLOCK FALSE
INVARIANT UploadedWhole
INVARIANT ChainDownloaded
PROPERTY ImagesStay
PROPERTY TransfersReturn
