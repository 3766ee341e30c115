SPECIFICATION Spec
CONSTANTS
    Members = {owner}
    Fresh = {owner}
    Names = {n1, n2}
    Taken = {n2}
    Tokens = {t1, t2}
    Requests = {r1, r2, r3}
    MaxMishaps = 1
SYMMETRY Symmetry
INVARIANTS
    SpentLinkIsGone
    RefusedLinkComesBack
    OldSessionsDie
    NoPasswordWithoutUsername
