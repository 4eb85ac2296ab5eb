SPECIFICATION Spec
CONSTANTS
    Kernels = {k1, k2, k3}
    None = None
INVARIANTS IInv CountMatches
PROPERTIES ChoicesSurvive
