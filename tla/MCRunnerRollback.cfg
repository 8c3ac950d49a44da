CONSTANT Configs <- AllConfigs
SPECIFICATION Spec
INVARIANT RollbackLeavesNoRule
CHECK_DEADLOCK FALSE
