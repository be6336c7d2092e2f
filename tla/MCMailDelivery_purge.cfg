CONSTANTS
    Delivery = {d1}
    Refresh = {r1}
    Purger = {p1}
    User = {u1}
    Address = {a1, a2}
    NoAddress = NoAddress
    MailboxId = {b1, b2}
    NoMailbox = NoMailbox
    MessageId = {m1}
    NoMessageId = NoMessageId
    InboundPolicy = "KNOWN_ONLY"
SYMMETRY Symmetry
CHECK_DEADLOCK FALSE
SPECIFICATION Spec
INVARIANTS
    OneEmailPerCopy
    
    NobodyForgotten
    
