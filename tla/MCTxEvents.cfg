CONSTANTS
    Addresses = {"ann", "bob"}
    Datas <- MCDatas
    Others <- MCOthers
    Filters <- MCFilters
    BigStake = 5
    MaxEvents = 5
    Null = "null"
SPECIFICATION Spec
INVARIANTS
    TypeOK
    ReceivedIsTransferred
    SentIsTransferred
    DescriptionNamesATransfer
CHECK_DEADLOCK FALSE
