\* The Intent is refreshed between a pass before the freeze and the final one.
SPECIFICATION MigrationSpec
CONSTANTS
    c1 = c1 c2 = c2 s1 = s1 x1 = x1 o = o
    Absent = Absent
    ApiCalls = {c1, c2}
    Purposes = {"replan"}
    Contributors = {s1}
    Sources = {x1}
    Origin = o
\* Each call is made once.
CHECK_DEADLOCK FALSE
SYMMETRY InterchangeableCalls
INVARIANT PrefillOnlyShortens
