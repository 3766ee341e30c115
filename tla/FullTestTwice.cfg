SPECIFICATION FullTestSpec
CONSTANTS
    Requests = {q1, q2}
    MaxMishaps = 0
    StackNames = {"ppp-app"}
    App = "ppp-app"
    AtOnce = TRUE
SYMMETRY Symmetry
INVARIANT PutBackExactly
