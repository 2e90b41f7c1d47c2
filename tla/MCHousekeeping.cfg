SPECIFICATION Spec
CONSTANTS
    HKTables <- MCHKTables
    Requests <- MCRequests
    CycleModulus = 4
    TMRoom = 2
INVARIANTS HousekeepingTypeOK NeverLate RequestApplied
PROPERTIES EmittedIfAsked
