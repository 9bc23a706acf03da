SPECIFICATION Spec
CONSTANTS
    Thread = {t1, t2, t3, t4}
    Nesting = {t1}
INVARIANTS
    Exclusion
    NoStranded
PROPERTY WritersProgress
