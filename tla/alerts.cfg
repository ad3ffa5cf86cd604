SPECIFICATION Spec
CONSTANTS
    co2 = co2
    noise = noise
    Parameter = {co2, noise}
    Value <- Values
    Reading <- Readings
    Profile <- Profiles
    Default <- Defaults
    Evaluator = {e1, e2}
    MaxReadings = 3
    MaxFailures = 1
    None = None
SYMMETRY Symmetry
INVARIANTS
    StateIsWhatWasTold
PROPERTIES
    ImplementsProtocol
    NoFlicker
    BreachIsTold
