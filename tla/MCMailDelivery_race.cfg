SPECIFICATION Spec
CONSTANTS
    Delivery = {d1, d2}
    Refresh = {r1}
    Purger = {}
    User = {u1}
    Address = {a1}
    NoAddress = NoAddress
    MailboxId = {b1, b2}
    NoMailbox = NoMailbox
    MessageId = {m1}
    NoMessageId = NoMessageId
    InboundPolicy = "CATCH_ALL"
SYMMETRY Symmetry
CHECK_DEADLOCK FALSE
INVARIANTS
    TypeOK
    AcknowledgedKept
    ClaimedIsDelivered
