CONSTANT Configs <- AllConfigs
SPECIFICATION Spec
INVARIANTS TypeOK BoundaryIsExact EnforcedFromTheStart TeardownLeavesNoRule ResolvedComesBack
CHECK_DEADLOCK FALSE
