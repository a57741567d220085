SPECIFICATION FairSpec
CONSTANTS
    Senders = {s1, s2, s3}
    First = s1
    Receiver = r
    Capacity = 3
    MaxSends = 2
INVARIANTS TypeOK CountsAreExact EachValueOnce
PROPERTIES RecvReturns
\* Every endpoint may be gone, or nobody may have anything to send.
CHECK_DEADLOCK FALSE
