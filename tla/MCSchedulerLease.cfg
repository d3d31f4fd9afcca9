SPECIFICATION FairLease
CONSTANTS
    Owners = {o1, o2}
    MaxToken = 3
    Ttl = 3
    AcquireDelay = 1
    MaxLeaseFaults = 1
INVARIANTS LeaseIsSound
PROPERTIES LeaseComesFree
