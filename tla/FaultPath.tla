----------------------------- MODULE FaultPath ------------------------------
(***************************************************************************)
(* From a saturated safety queue to the report after the reset: the hard-  *)
(* fault escalation of core/event (fault.c, the saturated branch of        *)
(* queue_push), the Cortex-M watchdog and safe state (watchdog.c) and the  *)
(* boot recovery (startup.c).  The independent watchdog counts on whatever *)
(* the processor does, so a reset can fall between any two steps.          *)
(*                                                                         *)
(* The safety queue is reduced to the number of faults it stores; module   *)
(* EventQueue has the rest of it.  RAM is lost in a reset, the retention   *)
(* register (RTC backup) is lost only when the power is.                   *)
(***************************************************************************)
EXTENDS Integers

CONSTANTS QueueSlots, \* slots of the safety queue, all reserved for faults
          Timeout,    \* timeout_ms of the watchdog, in ticks
          HookSets    \* hook configurations the integrator may install

Hooks == {"write_retention_register", "hal_fail_safe", "iwdg_escalate"}

ASSUME PathAssumption ==
  /\ QueueSlots \in Nat \ {0}
  /\ Timeout \in Nat \ {0}
  /\ HookSets \subseteq SUBSET Hooks

VARIABLES
  pc,            \* where the processor is
  hooks,         \* hard_fault_hooks of the queue: the ones that are set
  stored, terminal,
  remaining, is_running, hang_induced, tx_authorized, safe_state_active, reset_cause,
  iwdgrstf,      \* RCC flag: the last reset came from the watchdog
  retention,     \* the retention register holds the fault code
  log,           \* faults in the boot-time fault log
  owed           \* history: a saturation was retained and not yet logged

wdg == <<remaining, is_running, hang_induced, tx_authorized, safe_state_active, reset_cause>>
path_vars == <<pc, hooks, stored, terminal, wdg, iwdgrstf, retention, log, owed>>

PathInit ==
  /\ pc = "boot" /\ hooks = {} /\ stored = 0 /\ terminal = FALSE
  /\ remaining = 0 /\ is_running = FALSE /\ hang_induced = FALSE
  /\ tx_authorized = FALSE /\ safe_state_active = TRUE /\ reset_cause = "UNKNOWN"
  /\ iwdgrstf = FALSE /\ retention = FALSE /\ log = 0 /\ owed = FALSE

(* Mutant: the transmit authorisation is not withdrawn.                    *)
set_safe_state_keeps_tx == safe_state_active' = TRUE /\ UNCHANGED tx_authorized

set_safe_state == safe_state_active' = TRUE /\ tx_authorized' = FALSE

-----------------------------------------------------------------------------
(* Mutant: boot skips the restore.                                         *)
watchdog_init_no_restore ==
  /\ pc = "boot"
  /\ reset_cause' = IF iwdgrstf THEN "WATCHDOG" ELSE "POWER_ON"
  /\ iwdgrstf' = FALSE
  /\ remaining' = Timeout /\ is_running' = TRUE /\ hang_induced' = FALSE
  /\ set_safe_state
  /\ pc' = "bind"
  /\ UNCHANGED <<hooks, stored, terminal, retention, log, owed>>

(* Boot.                                                                   *)
watchdog_init ==
  /\ pc = "boot"
  /\ reset_cause' = IF iwdgrstf THEN "WATCHDOG" ELSE "POWER_ON"
  /\ iwdgrstf' = FALSE
  /\ remaining' = Timeout /\ is_running' = TRUE /\ hang_induced' = FALSE
  /\ set_safe_state
  /\ pc' = "restore"
  /\ UNCHANGED <<hooks, stored, terminal, retention, log, owed>>

(* restore_retained_fault: copy first, clear only after the log took it;   *)
(* the log was initialised in this boot, so it has room.                   *)
restore_copy ==
  /\ pc = "restore"
  /\ IF retention
     THEN log' = log + 1 /\ owed' = FALSE /\ pc' = "clear"
     ELSE pc' = "bind" /\ UNCHANGED <<log, owed>>
  /\ UNCHANGED <<hooks, stored, terminal, wdg, iwdgrstf, retention>>

restore_clear ==
  /\ pc = "clear"
  /\ retention' = FALSE
  /\ pc' = "bind"
  /\ UNCHANGED <<hooks, stored, terminal, wdg, iwdgrstf, log, owed>>

(* bind_event_queue installs all three hooks; an integrator that bypasses  *)
(* it may leave some out.                                                  *)
bind_hooks ==
  /\ pc = "bind"
  /\ \E h \in HookSets : hooks' = h
  /\ pc' = "run"
  /\ UNCHANGED <<stored, terminal, wdg, iwdgrstf, retention, log, owed>>

-----------------------------------------------------------------------------
(* Mutant: a feed is taken after the escalation too.                       *)
feed_always ==
  /\ pc = "run"
  /\ is_running
  /\ remaining' = Timeout
  /\ UNCHANGED <<pc, hooks, stored, terminal, is_running, hang_induced, tx_authorized,
                 safe_state_active, reset_cause, iwdgrstf, retention, log, owed>>

(* The main loop.                                                          *)
feed ==
  /\ pc = "run"
  /\ is_running /\ ~hang_induced
  /\ remaining' = Timeout
  /\ UNCHANGED <<pc, hooks, stored, terminal, is_running, hang_induced, tx_authorized,
                 safe_state_active, reset_cause, iwdgrstf, retention, log, owed>>

authorize_tx(authorize) ==
  /\ pc = "run"
  /\ tx_authorized' = authorize /\ safe_state_active' = ~authorize
  /\ UNCHANGED <<pc, hooks, stored, terminal, remaining, is_running, hang_induced,
                 reset_cause, iwdgrstf, retention, log, owed>>

push_fault ==
  /\ pc = "run" /\ ~terminal
  /\ IF stored < QueueSlots
     THEN stored' = stored + 1 /\ UNCHANGED <<pc, terminal>>
     ELSE terminal' = TRUE /\ pc' = "escalate" /\ UNCHANGED stored
  /\ UNCHANGED <<hooks, wdg, iwdgrstf, retention, log, owed>>

pop_fault ==
  /\ pc = "run" /\ stored > 0
  /\ stored' = stored - 1
  /\ UNCHANGED <<pc, hooks, terminal, wdg, iwdgrstf, retention, log, owed>>

induce_hang ==
  /\ pc = "run"
  /\ hang_induced' = TRUE
  /\ UNCHANGED <<pc, hooks, stored, terminal, remaining, is_running, tx_authorized,
                 safe_state_active, reset_cause, iwdgrstf, retention, log, owed>>

-----------------------------------------------------------------------------
(* hard_fault_escalate, hook by hook.                                      *)
escalate_retention ==
  /\ pc = "escalate"
  /\ IF "write_retention_register" \in hooks
     THEN retention' = TRUE /\ owed' = TRUE ELSE UNCHANGED <<retention, owed>>
  /\ pc' = "fail_safe"
  /\ UNCHANGED <<hooks, stored, terminal, wdg, iwdgrstf, log>>

(* Without retention the outputs are made safe, if they can be, and the    *)
(* processor spins.                                                        *)
escalate_fail_safe ==
  /\ pc = "fail_safe"
  /\ IF "hal_fail_safe" \in hooks
     THEN set_safe_state ELSE UNCHANGED <<safe_state_active, tx_authorized>>
  /\ pc' = IF "write_retention_register" \in hooks THEN "iwdg" ELSE "spin"
  /\ UNCHANGED <<hooks, stored, terminal, remaining, is_running, hang_induced, reset_cause,
                 iwdgrstf, retention, log, owed>>

watchdog_escalate ==
  /\ set_safe_state
  /\ hang_induced' = TRUE
  /\ remaining' = 0

escalate_iwdg ==
  /\ pc = "iwdg"
  /\ IF "iwdg_escalate" \in hooks
     THEN watchdog_escalate
     ELSE UNCHANGED <<safe_state_active, tx_authorized, hang_induced, remaining>>
  /\ pc' = "returning"
  /\ UNCHANGED <<hooks, stored, terminal, is_running, reset_cause, iwdgrstf, retention, log, owed>>

(* Only a complete configuration lets push return ERR_FULL_FAULT.          *)
escalate_return ==
  /\ pc = "returning"
  /\ pc' = IF {"hal_fail_safe", "iwdg_escalate"} \subseteq hooks THEN "run" ELSE "spin"
  /\ UNCHANGED <<hooks, stored, terminal, wdg, iwdgrstf, retention, log, owed>>

-----------------------------------------------------------------------------
(* The hardware.  RAM is lost in a reset; boot initialises it again.       *)
ram_lost == hooks' = {} /\ stored' = 0 /\ terminal' = FALSE /\ log' = 0

iwdg_tick ==
  /\ is_running
  /\ IF remaining > 1
     THEN /\ remaining' = remaining - 1
          /\ UNCHANGED <<pc, hooks, stored, terminal, is_running, hang_induced, tx_authorized,
                         safe_state_active, reset_cause, iwdgrstf, log>>
     ELSE /\ remaining' = 0 /\ is_running' = FALSE
          /\ reset_cause' = "WATCHDOG" /\ iwdgrstf' = TRUE
          /\ set_safe_state /\ hang_induced' = FALSE
          /\ ram_lost
          /\ pc' = "boot"
  /\ UNCHANGED <<retention, owed>>

power_cycle ==
  /\ pc' = "boot" /\ ram_lost
  /\ remaining' = 0 /\ is_running' = FALSE /\ hang_induced' = FALSE
  /\ set_safe_state
  /\ reset_cause' = "UNKNOWN" /\ iwdgrstf' = FALSE
  /\ retention' = FALSE /\ owed' = FALSE

Boot == watchdog_init \/ restore_copy \/ restore_clear \/ bind_hooks
Escalation == escalate_retention \/ escalate_fail_safe \/ escalate_iwdg \/ escalate_return
MainLoop == feed \/ (\E a \in BOOLEAN : authorize_tx(a)) \/ push_fault \/ pop_fault \/ induce_hang

PathNext == Boot \/ MainLoop \/ Escalation \/ iwdg_tick \/ power_cycle

(* The watchdog oscillator keeps counting, and a processor that is not     *)
(* spinning keeps executing boot and escalation code, faster than the      *)
(* watchdog period (a boot that never fits in it would reset for ever).    *)
(* Nothing is assumed of the main loop or of the power supply.             *)
PathFairness ==
  /\ WF_path_vars(iwdg_tick)
  /\ WF_path_vars(Boot) /\ WF_path_vars(Escalation)
  /\ SF_path_vars(restore_copy)

PathSpec == PathInit /\ [][PathNext]_path_vars /\ PathFairness

-----------------------------------------------------------------------------
(* Every retained saturation is reported after a later boot, or the power  *)
(* is lost (SwRS.md:113, "persisted and reported on next boot").           *)
SaturationReported == owed ~> ~owed

(* Escalation and safe-spin always end in a reset: the main loop cannot    *)
(* feed its way out, whichever hooks are missing.                          *)
EscalationResets == terminal ~> pc = "boot"

(* From a reset until the main loop runs nothing drives the outputs, and   *)
(* so it is while spinning if the fail-safe hook exists (SW-FR-BM-006).    *)
OutputsSafe ==
  /\ pc \in {"boot", "restore", "clear", "bind"} => safe_state_active /\ ~tx_authorized
  /\ pc = "spin" /\ "hal_fail_safe" \in hooks => safe_state_active /\ ~tx_authorized
  /\ tx_authorized => ~safe_state_active

=============================================================================
