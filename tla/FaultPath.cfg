CONSTANTS
  QueueSlots = 2
  Timeout = 3
  HookSets = {{}, {"hal_fail_safe"}, {"write_retention_register", "hal_fail_safe"}, {"write_retention_register", "iwdg_escalate"}, {"write_retention_register", "hal_fail_safe", "iwdg_escalate"}}
SPECIFICATION PathSpec
INVARIANT OutputsSafe
PROPERTIES SaturationReported EscalationResets
