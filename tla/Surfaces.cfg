SPECIFICATION SurfacesSpec
CONSTANTS
    Varying <- SomeFiles
    Givens <- NamedInterfaces
    Places <- AllPlaces
    Edits = 1
INVARIANT NoSilentDegrade
PROPERTY EditorShown
