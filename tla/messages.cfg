SPECIFICATION Spec
CONSTANTS
    a = a
    b = b
    g = g
    Agents = {a, b}
    Groups = {g}
    Patterns <- MCPatterns
    Specs <- MCSpecs
    Limits = {1}
    Calls = {c1, c2, c3}
    MaxClock = 1
    MaxChanges = 1
INVARIANT ReadMeansHandled
INVARIANT AnswersFollow
PROPERTY Audience
SYMMETRY Symmetry
CHECK_DEADLOCK FALSE
