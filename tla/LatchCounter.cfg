SPECIFICATION FairLatchSpec
CONSTANTS
    Workers = {t1, t2, t3}
    NbLoop = 3
INVARIANTS LatchTypeOK OneInLatch
PROPERTIES ImplementsFetchAndAdd PrintsReference
