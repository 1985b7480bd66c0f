SPECIFICATION Spec
CONSTANTS
    Modes = {"inspect", "preview", "apply"}
    Bundles <- MCBundles
INVARIANT FinalRestrained
INVARIANT FailClosed
PROPERTY StrictNeedsRelease
