\* The same lookups, checking that table keys keep their table names.
CONSTANTS
    Table <- MCTable
    Names <- MCNames
    Keys <- MCKeys
SPECIFICATION Spec
\* Once every name has been cached and every key named, no lookup changes
\* the maps any more: the program goes on, the model has nothing to add.
CHECK_DEADLOCK FALSE

INVARIANT NamesStayCanonical
