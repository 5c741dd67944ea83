SPECIFICATION Spec
CONSTANTS
    Ids = {1, 2, 3}
    Kinds <- MCKinds
    PageSize = 2
    Unassigned = Unassigned
    Null = Null
    Cells <- MCCells
    Rows <- MCRows
INVARIANTS ViewsAgree SplitsPartition TenorFollowsBands QuietPagesCover CellsReadBack ValidRowsAreWhole
