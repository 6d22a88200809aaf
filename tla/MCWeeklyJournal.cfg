CONSTANTS
    capture = capture
    handoff = handoff
    preview = preview
    receipt = receipt
    N = 3
    Repeatable <- MCRepeatable
    Path = {capture, handoff, preview, receipt}
    InputsOf <- MCInputsOf
    OutputsOf <- MCOutputsOf
    Process = {p1, p2}
    Viewer = {v1}
    Undo = FALSE
    MaxEdits = 1
    MaxFaults = 2

SPECIFICATION Spec
SYMMETRY Symmetry
INVARIANTS
    TypeOK
    ExternalEffectOnce
    AttemptsAreKept
    ComputedFromRecord
    CompletedIsCoherent
    HeldCopyIsCurrent
PROPERTIES
    Refines
