------------------------------- MODULE EvoTables -----------------------------
(***************************************************************************)
(* The tables of the EVO panels: event_map (hardware/evo/event.py), the    *)
(* blocks of RAM a status poll reads (RAMDataParserMap in                  *)
(* hardware/evo/parsers.py, hardware/evo/adapters.py) and property_map     *)
(* (hardware/evo/property.py).                                             *)
(***************************************************************************)
EXTENDS PanelTables

Stay == {On("arm_stay"), On("arm")}
Disarmed == {Off("arm"), <<"current_state", "disarmed">>, Off("audible_alarm")}

Events0 == {
  Row({0}, Each, "zone", {Off("open")}, {}),
  Row({1}, Each, "zone", {On("open")}, {}),
  Row({2}, Each, "zone", {On("zone_tamper_trouble")}, {"trouble"}),
  Row({3}, Each, "zone", {On("fire_loop_trouble")}, {"trouble"}),
  Row({4}, {0}, "system", {}, {"trouble"}),
  Row({4}, {1} \cup 6..24, "system", {}, {}),
  Row({4}, {2}, "partition", {On("arm")}, {"arm"}),
  Row({4}, {3, 5}, "partition", Stay, {"arm"}),
  Row({4}, {4}, "partition", {On("arm_away"), On("arm")}, {"arm"}),
  Row({5, 7}, Each, "user", {}, {}),
  Row({6}, Each, "door", {}, {"access"}),
  Row({8}, Each, "zone", {}, {}),
  Row(9..11, Each, "partition", {On("arm")}, {"arm"}) }

Events12 == {
  Row({12}, 0..10, "partition", {On("arm")}, {"arm"}),
  Row(13..15, Each, "partition", Disarmed, {"disarm"}),
  Row(16..18, Each, "partition", Disarmed, {"disarm", "after_alarm"}),
  Row(19..20, Each, "user", {}, {"alarm", "cancel"}),
  Row({21}, Each, "keyswitch", {}, {"alarm", "cancel"}),
  Row({22}, (0..9) \ {3}, "partition", {Off("arm")}, {"disarm"}),
  Row({22}, {3}, "partition", {Off("arm")}, {"disarm", "after_alarm"}),
  Row({23}, Each, "zone", {Toggle("bypassed")}, {"bypass"}) }

\* The hook of "Zone in alarm" changes the partition of the event: it is
\* a second row of major 24.
ZoneGeneratedAlarm ==
  {<<"current_state", "triggered">>, On("alarm_in_memory"), On("was_in_alarm"),
   On("audible_alarm"), Off("exit_delay")}

\* Mutant of Events24: the end of an alarm is taken for its beginning.
Events24Swapped == {
  Row({24}, Each, "zone", {On("generated_alarm"), On("presently_in_alarm")},
      {"alarm", "trigger"}),
  Row({24}, Each, "partition", ZoneGeneratedAlarm, {}),
  Row({25, 27}, Each, "zone", {On("fire_alarm")}, {"alarm", "fire", "trigger"}) }

Events24 == {
  Row({24}, Each, "zone", {On("generated_alarm"), On("presently_in_alarm")},
      {"alarm", "trigger"}),
  Row({24}, Each, "partition", ZoneGeneratedAlarm, {}),
  Row({25}, Each, "zone", {On("fire_alarm")}, {"alarm", "fire", "trigger"}),
  Row({26}, Each, "zone", {Off("presently_in_alarm")}, {"alarm", "restore"}),
  Row({27}, Each, "zone", {Off("fire_alarm")}, {"alarm", "fire", "restore"}),
  Row({28, 29}, Each, "user", {}, {}),
  Row({30}, 0..15, "special", {}, {"alarm", "trigger"}),
  Row({31}, Each, "user", {}, {"alarm", "trigger"}),
  Row({32}, Each, "zone", {On("shutdown")}, {}),
  Row({33}, Each, "zone", {On("zone_tamper_trouble")}, {"tamper"}),
  Row({34}, Each, "zone", {Off("zone_tamper_trouble")}, {"tamper", "restore"}),
  Row({35}, 0..1, "zone", {}, {"tamper"}) }

\* The rows 41 to 44 say "changes", which nothing reads, where the others say
\* "change".
Events36 == {
  Row({36}, (0..21) \ {10}, "system", {}, {"trouble"}),
  Row({37}, ((0..21) \ {10}) \cup {99}, "system", {}, {"trouble", "restore"}),
  Row({38}, 0..9, "system", {}, {"trouble"}),
  Row({39}, 0..9, "system", {}, {"trouble", "restore"}),
  Row({40}, Each, "system", {}, {}),
  Row({41, 42}, Each, "zone", {}, {"trouble"}),
  Row({43, 44}, Each, "zone", {}, {"trouble", "restore"}) }

Events45 == {
  Row({45}, 0..8, "system", {}, {}),
  Row({46, 47}, Each, "user", {}, {}),
  Row({48}, Each, "utility", {}, {}),
  Row(49..54, Each, "door", {}, {}),
  Row(55..57, Each, "zone", {}, {}),
  Row({58, 59, 61}, Each, "module", {}, {}),
  Row({60}, 0..1, "system", {}, {}),
  Row({62}, Each, "user", {}, {"access", "granted"}),
  Row({63}, Each, "user", {}, {"access", "denied"}),
  Row(64..66, 0..7, "system", {}, {}),
  Row({67}, (4..7) \cup (96..99) \cup (103..117) \cup (120..129) \cup {133, 134, 136},
      "system", {}, {}) }

Events == Events0 \cup Events12 \cup Events24 \cup Events36 \cup Events45

-----------------------------------------------------------------------------
(* Status blocks *)

SystemTroubles == <<
  "time_lost_trouble", "zone_fault_trouble", "zone_low_battery_trouble",
  "zone_tamper_trouble", "module_supervision_trouble", "module_trouble",
  "dialer_trouble", "system_trouble", "panel_tamper_trouble", "_",
  "rom_error_trouble", "bell_absent_trouble", "bell_limit_trouble",
  "aux_limit_trouble", "battery_failure_trouble", "ac_trouble", "_", "_",
  "com_pc_trouble", "fail_central_4_trouble", "fail_central_3_trouble",
  "fail_central_2_trouble", "fail_central_1_trouble", "tlm_trouble",
  "module_aux_trouble", "module_battery_fail", "module_ac_trouble",
  "module_printer_trouble", "module_fail_to_com_trouble", "module_tlm_trouble",
  "module_rom_error_trouble", "module_tamper_trouble", "mdl_com_error",
  "bus_overload_trouble", "bus_global_fail", "safety_mismatch_trouble", "_", "_",
  "missing_module_trouble", "missing_keypad_trouble">>

ZoneFlags(first, last) == Flags("zone",
  <<"generated_alarm", "presently_in_alarm", "activated_entry_delay",
    "activated_intellizone_delay", "bypassed", "shutted_down", "tx_delay",
    "supervision_trouble">>, first, last)

ModuleTroubles(first, last) == Flags("module",
  <<"aux_trouble", "battery_fail", "ac_trouble", "printer_trouble", "fail_to_comm",
    "tlm_trouble", "rom_error", "tamper">>, first, last)

\* Eight flags and three bytes of time_left.
PGMFlags(first, last) ==
  [Flags("pgm", <<"fire_2_wires", "normally_closed", "disabled", "timer_active", "on",
                  "time_left">>, first, last) EXCEPT !.bits = 32]

First2 == <<
  "fire_alarm", "audible_alarm", "silent_alarm", "was_in_alarm", "arm_no_entry",
  "arm_stay", "arm_away", "arm", "lockout", "programming", "zone_bypassed",
  "alarm_in_memory", "trouble", "entry_delay", "exit_delay", "ready">>

Last4 == <<
  "zone_supervision_trouble", "zone_fire_loop_trouble", "zone_low_battery_trouble",
  "zone_tamper_trouble", "voice_arming", "auto_arming_engaged",
  "fire_delay_in_progress", "intellizone_engage", "time_to_refresh_zone_status",
  "panic_alarm", "police_code_delay", "follow_become_delay", "remote_arming",
  "stay_arming_auto", "partition_recently_close",
  "cancel_alarm_reporting_on_disarming", "tx_delay_finished", "auto_arm_reach",
  "fire_delay_end", "no_movement_delay_end", "alarm_duration_finished",
  "entry_delay_finished", "exit_delay_finished", "intellizone_delay_finished",
  "_", "_", "_", "all_zone_closed", "inhibit_ready", "bypass_ready", "force_ready",
  "stay_instant_ready">>

\* The six bytes of partition 6 are split over the two blocks.
PartitionStatus(bytes) ==
  IF bytes = 32
  THEN <<Flags("partition", First2 \o Last4, 1, 5), Flags("partition", First2, 6, 6)>>
  ELSE <<Flags("partition", Last4, 6, 6), Flags("partition", First2 \o Last4, 7, 8)>>

\* _weekday, _system_flags, three rows of partition flags, keyswitches, doors,
\* troubles, date, power, and three flags of each of the first 96 zones.
Block1 ==
  <<Plain(2), Flags("partition", <<"bell">>, 1, 8), Flags("partition", <<"fire_alarm">>, 1, 8),
    Flags("partition", <<"open_close_kiss_off">>, 1, 8),
    Flags("key-switch", <<"triggered">>, 1, 32), Flags("door", <<"open">>, 1, 32),
    Flags("system", SystemTroubles, 1, 1), Plain(7), Plain(3),
    Flags("zone", <<"open">>, 1, 96), Flags("zone", <<"tamper">>, 1, 96),
    Flags("zone", <<"low_battery">>, 1, 96)>>

\* Mutant of Block9: the flags of the zones are read from zone 96 on.
Block9Early ==
  <<Flags("zone", <<"open">>, 97, 192), Flags("zone", <<"tamper">>, 97, 192),
    Flags("zone", <<"low_battery">>, 97, 192), ZoneFlags(96, 123)>>

Block9 ==
  <<Flags("zone", <<"open">>, 97, 192), Flags("zone", <<"tamper">>, 97, 192),
    Flags("zone", <<"low_battery">>, 97, 192), ZoneFlags(97, 124)>>

Blocks ==
  [n \in {1, 2, 3, 4, 5, 6, 7, 8, 9, 10, 11, 16, 57, 58} |->
     CASE n = 1 -> Block1
       [] n = 2 -> <<ZoneFlags(1, 64)>>
       [] n = 3 -> <<ZoneFlags(65, 96)>> \o PartitionStatus(32)
       [] n = 4 -> PartitionStatus(16) \o <<Plain(1), Plain(4), Plain(8), Plain(1), Plain(34)>>
       [] n = 5 -> <<Plain(1), ModuleTroubles(1, 63)>>
       [] n = 6 -> <<ModuleTroubles(64, 127)>>
       [] n = 7 -> <<ModuleTroubles(128, 191)>>
       [] n = 8 -> <<ModuleTroubles(192, 254), Plain(1)>>
       [] n = 9 -> Block9
       [] n = 10 -> <<ZoneFlags(125, 188)>>
       [] n = 11 -> <<ZoneFlags(189, 192), Plain(60)>>
       [] n = 16 -> <<Flags("module", <<"assigned">>, 1, 256), Flags("module", <<"missing">>, 1, 256)>>
       [] n = 57 -> <<PGMFlags(1, 16)>>
       [] n = 58 -> <<PGMFlags(17, 32)>>]

-----------------------------------------------------------------------------
(* property_map: the properties whose changes are announced *)

Announced1 == {
  "ac_trouble", "aux_limit_trouble", "generated_alarm", "fire_alarm",
  "alarm_duration_finished", "alarm_in_memory", "arm", "arm_away", "arm_no_entry",
  "arm_stay", "all_zone_closed", "audible_alarm", "auto_arm_reach",
  "auto_arming_engaged", "bypass_ready", "cancel_alarm_reporting_on_disarming",
  "battery_failure_trouble", "follow_become_delay", "bell_absent_trouble",
  "bell_limit_trouble", "bypassed"}

Announced2 == {
  "force_ready", "inhibit_ready", "intellizone_engage", "lockout",
  "no_movement_delay_end", "entry_delay", "entry_delay_finished", "exit_delay",
  "exit_delay_finished", "fire_delay_in_progress", "fire_delay_end",
  "intellizone_delay_finished", "module_tamper_trouble", "open", "panic_alarm",
  "partition_recently_close", "programming", "ready", "remote_arming",
  "police_code_delay", "silent_alarm", "stay_arming_auto"}

Announced3 == {
  "stay_instant_ready", "supervision_trouble", "tamper",
  "time_to_refresh_zone_status", "trouble", "tx_delay_finished", "voice_arming",
  "was_in_alarm", "zone_bypassed", "zone_fire_loop_trouble",
  "zone_supervision_trouble", "zone_tamper_trouble", "zone_low_battery_trouble",
  "bus_com_trouble", "bus_global_fail", "bus_overload_trouble", "com_pc_trouble",
  "dialer_trouble", "fail_tel_1_trouble", "fail_tel_2_trouble",
  "fail_tel_3_trouble", "fail_tel_4_trouble"}

Announced4 == {
  "mdl_com_error", "missing_keypad_trouble", "missing_module_trouble",
  "module_ac_trouble", "module_aux_trouble", "module_battery_fail",
  "module_fail_to_com_trouble", "module_printer_trouble",
  "module_rom_error_trouble", "module_tlm_trouble", "module_trouble",
  "rom_error_trouble", "safety_mismatch_trouble", "system_trouble",
  "time_lost_trouble", "tlm_trouble", "zone_fault_trouble", "activated_entry_delay",
  "activated_intellizone_delay", "low_battery", "presently_in_alarm", "shut_down",
  "tx_delay", "time", "current_state", "target_state"}

Announced == Announced1 \cup Announced2 \cup Announced3 \cup Announced4
==============================================================================
