\* Two tabs of one browser, a limiter that locks after two failures,
\* any number of changes of the password and of expiries.
SPECIFICATION Spec
CONSTANTS
    Tabs = {t1, t2}
    MaxFailures = 2
    Last = t1
INVARIANTS
    GuessesBounded
PROPERTY SessionSettles
