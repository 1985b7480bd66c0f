SPECIFICATION Spec
CONSTANTS
    Varying <- SomeAssets
    Texts <- SomeTexts
    Edits = 2
INVARIANT DangerRouted
INVARIANT AlarmGrounded
INVARIANT RoutingsAgree
