SPECIFICATION TCSpec
CONSTANTS
    f = f
    g = g
    Names <- MCNames
    Exprs <- MCExprs
    Targets <- MCTargets
    TensorForms <- MCTensorForms
    ParamLists <- MCParamLists
    MaxStatements = 4
    MaxDepth = 3
SYMMETRY MCSymmetry
INVARIANTS
    NoSilentCapture
    CompilesUnlessGap
\* A program ends.
CHECK_DEADLOCK FALSE
