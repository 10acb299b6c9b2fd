CONSTANTS
    None = None
    Modules <- MCModules
    Digits <- MCDigits
SPECIFICATION Spec
INVARIANTS
    TypeOK
    RoundTrip
    Accounted
    KeysDense
