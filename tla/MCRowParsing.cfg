SPECIFICATION MapSpec
CONSTANTS
    Impossible = Impossible
    None = None
    Blank = Blank
    Text = {Words, Spaces, Blank}
    White = {Spaces, Blank}
    Timestamp = {1, 2}
    Author = {"ann"}
    Context = {"Work Notes"}
    MaxLines = 5
    InsertionMax = 2
    Cell <- MCCell
    Row <- MCRow
    Nil = Nil
CHECK_DEADLOCK FALSE
INVARIANTS
    EntriesMatchHeaders
    OnlyPreambleDropped
    FailsOnlyWhole
    PartsOfTheCell
