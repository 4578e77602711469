SPECIFICATION Spec
INVARIANTS
    CommandsAreMeant
    NamesAreTrusted
    
    ServiceKeepsItsWord
    BenchCommandsAreSafe
CHECK_DEADLOCK FALSE
