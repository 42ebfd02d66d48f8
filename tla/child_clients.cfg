SPECIFICATION Spec
CONSTANTS
    Workers = {w1, w2}
    Secrets = {s1, s2, s3}
    NoKey = NoKey
    Cap = 2
    MaxVersion = 4
SYMMETRY Symmetry
INVARIANT LockStep
PROPERTY Rotated
PROPERTY RecentSurvives
