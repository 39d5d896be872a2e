SPECIFICATION Spec
CONSTANT Inputs <- SmallInputs
INVARIANTS
    DetectsWellFormed
    DetectMatchesTable
PROPERTY
    DetectTerminates
CHECK_DEADLOCK FALSE
