CONSTANTS
  Sections = 3
  Columns = 2
  Inputs <- MCInputs
  ResRows = 5
SPECIFICATION FairSpec
INVARIANTS GroupsAddUp RowsCounted RowsAligned
PROPERTY Ends
