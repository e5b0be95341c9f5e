SPECIFICATION FairSpec
CONSTANTS
    Nthread = 2
    MAX_TRANSACTION = 3
    MAX_OPERATION = 2
    Rows = {r1}
INVARIANTS TypeOK Serializable RowsAreSerial CollectKeepsNeeded EraseStaysInList
PROPERTIES ImplementsSerialStore WaterMarkMonotone AllFinish
