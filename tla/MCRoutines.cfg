SPECIFICATION Spec
INVARIANTS TypeOK TablesAgree FreeListIntact 
PROPERTIES ImplementsSet
CHECK_DEADLOCK FALSE
