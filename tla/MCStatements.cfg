CONSTANTS
    select = select
    insert = insert
    Queries = {select}
    Updates = {insert}
    RowCount <- MCRowCount
    Args = {a1, a2}
    Miscount = Miscount
    Short = Short
    BusyRetryTimeout = 1
    StatementIds = {s1, s2, s3}
    ResultSetIds = {r1, r2}
    None = None
SPECIFICATION Spec
INVARIANTS
    TypeOK
    OwnRows
    NoUseAfterFinalize
    OpenSetsExact
    InUseFlag
    ClosedIsEmpty
PROPERTIES
    EveryCallReturns
CHECK_DEADLOCK FALSE
