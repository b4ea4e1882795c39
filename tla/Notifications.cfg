SPECIFICATION Spec
CONSTANTS MaxDeletes=4 MaxLapses=1
INVARIANTS BareKept
CHECK_DEADLOCK FALSE
