SPECIFICATION Spec
CONSTANTS
    Token = {t1, t2, t3}
    NoToken = NoToken
    Request = {q1, q2}
    Address = {"old", "new"}
    MaxAttempts = 2
    MaxCounter = 2
    MaxRows = 2
    Traffic <- AllTraffic
SYMMETRY Symmetry
INVARIANTS
    TypeOK
    GuessLimit
    VerifiedAddress
PROPERTIES
    SpentOnce
    CounterGrows
    EnablesWhatItRead
