SPECIFICATION JournalSpec
CONSTANTS
    Impossible = Impossible
    None = None
    Blank = Blank
    Words = Words
    Spaces = Spaces
    Text = {Words, Spaces, Blank}
    White = {Spaces, Blank}
    Timestamp = {1, 2}
    Author = {"ann"}
    Context = {"Work Notes"}
    InsertionMax = 12
    MaxEntries = 3
    Body <- MCBody
INVARIANTS
    InsertionChronological
