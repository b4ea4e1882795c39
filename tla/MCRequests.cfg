SPECIFICATION Spec
CONSTANT
    NoOne = NoOne
INVARIANTS
    
    
    
    
    EventsAccounted
    AgreesWithReference

    
CHECK_DEADLOCK FALSE
