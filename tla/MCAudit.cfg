SPECIFICATION Spec
INVARIANTS TypeOK StoppedIsClean ForcedIsHarmless
PROPERTIES ConsumerKeepsDelivery ExitsOnSigterm
CHECK_DEADLOCK FALSE
