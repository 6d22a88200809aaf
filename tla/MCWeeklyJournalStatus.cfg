CONSTANTS
    capture = capture
    handoff = handoff
    preview = preview
    receipt = receipt
    N = 3
    Repeatable <- MCRepeatable
    Path = {capture, handoff, preview, receipt}
    InputsOf <- MCInputsOf
    OutputsOf <- MCOutputsOf
    Process = {p1, p2}
    Viewer = {v1}
    Undo = FALSE
    MaxEdits = 0
    MaxFaults = 0

SPECIFICATION Spec
SYMMETRY Symmetry
PROPERTIES
    InterruptedIsAbandoned
