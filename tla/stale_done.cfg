CONSTANTS
    Quotes <- MCQuotes
    Slots <- MCSlots
    None = None
    q1 = q1
    q2 = q2
    s1 = s1
    s2 = s2
SPECIFICATION Spec
INVARIANTS
    SigningIsOnScreen
