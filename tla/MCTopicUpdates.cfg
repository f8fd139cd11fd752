SPECIFICATION Spec
CONSTANTS
    Windows = {w1, w2}
    Tabs = {t1, t2}
    NoUpdate = noUpdate
    NoPlace = noPlace
INVARIANTS
    ForwardedToItsAgent
