SPECIFICATION Spec
CONSTANTS
    Senders = {s1}
    First = s1
    Receiver = r
    Capacity = 1
    MaxSends = 2
PROPERTY ClosedRejectsSend
\* Every endpoint may be gone, or nobody may have anything to send.
CHECK_DEADLOCK FALSE
