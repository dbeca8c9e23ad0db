------------------------------ MODULE SpectraTables --------------------------
(***************************************************************************)
(* The tables of the Spectra and Magellan panels: event_map                *)
(* (hardware/spectra_magellan/event.py), the blocks of RAM a status poll   *)
(* reads (RAMDataParserMap in hardware/spectra_magellan/parsers.py and its *)
(* adapters) and property_map (hardware/spectra_magellan/property.py).     *)
(***************************************************************************)
EXTENDS PanelTables

\* event_opt1: the type of a wireless module by minor.  It also gives a number, as
\* "id", which LiveEvent does not use.
WirelessModules(major, change, tags) ==
  LET Part(type, minors) == Row({major}, minors, type, change, tags)
  IN {Part("output", 1..16), Part("repeater", 17..18), Part("keypad", 19..22),
      Part("siren", 27..30), Part("module", {99})}

Sound(p) == {On(p), On("alarm")}

Events0 == {
  Row({0}, Each, "zone", {Off("open")}, {}),
  Row({1}, Each, "zone", {On("open")}, {}),
  Row({2}, {0, 1, 10, 15, 16, 99}, "partition", {}, {}),
  Row({2}, {2}, "partition", Sound("silent_alarm"), {"alarm", "silent_alarm"}),
  Row({2}, {3}, "partition", Sound("audible_alarm"), {"alarm", "buzzer_alarm"}),
  Row({2}, {4}, "partition", Sound("audible_alarm"), {"alarm", "steady_alarm"}),
  Row({2}, {5}, "partition", Sound("audible_alarm"), {"alarm", "pulse_alarm"}),
  Row({2}, {6}, "partition", Sound("strobe_alarm"), {"alarm", "strobe"}),
  Row({2}, {7}, "partition", {Off("alarm")}, {}),
  Row({2}, {8}, "partition", {On("squawk")}, {}),
  Row({2}, {9}, "partition", {Off("squawk")}, {}),
  Row({2}, {11}, "partition",
      {Off("arm"), Off("arm_sleep"), Off("arm_stay"), Off("alarm")}, {"disarm"}),
  Row({2}, {12}, "partition", {On("arm")}, {"arm"}),
  Row({2}, {13}, "partition", {On("entry_delay")}, {}),
  Row({2}, {14}, "partition", {On("exit_delay")}, {}),
  Row({3}, {0}, "system", {Off("bell_activated")}, {}),
  Row({3}, {1}, "system", {On("bell_activated")}, {}),
  Row({3}, {2, 3, 99}, "system", {}, {}) }

\* Rows without a type, the ones "N/A" says nothing of, stand for type None.
Events6 == {
  Row({6}, {0}, "system", {}, {"trouble"}),
  Row({6}, {1} \cup (8..13) \cup {25, 26}, "system", {}, {}),
  Row({6}, {3, 6}, "partition", {On("arm_stay"), On("arm")}, {"arm"}),
  Row({6}, {4}, "partition", {On("arm_sleep"), On("arm")}, {"arm"}),
  Row({6}, {5}, "partition", {On("arm_force"), On("arm")}, {"arm"}),
  Row({6}, {7}, "system", {On("computer_fail_to_communicate_trouble")}, {"trouble"}),
  Row({6}, {14}, "system", {}, {"alarm"}),
  Row({6}, {15}, "system", {}, {"supervision", "alarm"}),
  Row({6}, {20}, "partition", {On("arm")}, {}),
  Row({6}, {21}, "firmware", {}, {}),
  Row({6}, {23}, "partition", {On("stayd_mode_active")}, {}),
  Row({6}, {24}, "partition", {Off("stayd_mode_active")}, {}),
  Row({6}, {27, 30}, "partition", {}, {}),
  Row({6}, {28}, "system", {}, {"trouble", "supervision"}),
  Row({6}, {29}, "system", {}, {"trouble", "restore", "supervision"}),
  Row({6}, {2, 16, 17, 18, 19, 22, 99}, "", {}, {}) }

\* The buttons of a remote control get the time they were pressed.
Pressed(p) == {<<p, "now">>}

Events8 == {
  Row({8}, Each, "user", Pressed("button_b"), {}),
  Row({9}, Each, "user", Pressed("button_c"), {}),
  Row({10}, Each, "user", Pressed("button_d"), {}),
  Row({11}, Each, "user", Pressed("button_e"), {}),
  Row({12, 13}, Each, "user", {}, {}),
  Row({14}, Each, "zone", {Toggle("bypassed")}, {}),
  Row({15}, Each, "partition", {}, {}),
  Row(16..21, Each, "zone", {}, {}),
  Row({22}, Each, "user", Pressed("button_5"), {}),
  Row({23}, Each, "user", Pressed("button_6"), {}),
  Row({24}, Each, "zone", {On("fire_delay")}, {}),
  Row({26}, (0..4) \cup (9..13) \cup {99}, "system", {}, {}),
  Row({27}, 0..3, "bus", {}, {}) }

Events28 == {
  Row({28}, Each, "zone", {}, {}),
  Row({29}, Each, "user", {}, {"arm"}),
  Row({30}, {0, 2, 3, 4, 5, 6, 99}, "special", {}, {"arm"}),
  Row({30}, {1}, "special", {}, {}),
  Row({31}, Each, "user", {}, {"disarm"}),
  Row({32}, Each, "user", {}, {"disarm", "after_alarm"}),
  Row({33}, Each, "user", {}, {"alarm", "cancel"}),
  Row({34}, {0}, "special", {}, {}),
  Row({34}, {1, 5, 99}, "special", {}, {"disarm"}),
  Row({34}, {2, 6}, "special", {}, {"disarm", "after_alarm"}),
  Row({34}, {3, 4, 7}, "special", {}, {"alarm", "cancel"}) }

Events35 == {
  Row({35}, Each, "zone", {Toggle("bypassed")}, {"bypass"}),
  Row({36}, Each, "zone", {On("alarm")}, {"alarm", "trigger"}),
  Row({37}, Each, "zone", {On("fire_alarm")}, {"alarm", "fire", "trigger"}),
  Row({38}, Each, "zone", {Off("alarm")}, {"alarm", "restore"}),
  Row({39}, Each, "zone", {Off("fire_alarm")}, {"alarm", "fire", "restore"}),
  Row({40}, (0..6) \cup {99}, "special", {}, {"alarm", "trigger"}),
  Row({41}, Each, "zone", {On("shutdown")}, {}),
  Row({42}, Each, "zone", {On("zone_tamper_trouble")}, {"tamper"}),
  Row({43}, Each, "zone", {Off("zone_tamper_trouble")}, {"tamper", "restore"}) }

Events44 == {
  Row({44}, ((0..5) \cup (8..9) \cup (11..21) \cup {23, 99}), "system", {}, {"trouble"}),
  Row({44}, {6}, "system", {On("timer_loss_trouble")}, {"trouble"}),
  Row({44}, {7}, "system", {On("fire_loop_trouble")}, {"trouble"}),
  Row({45}, ((0..9) \cup (11..21) \cup {23, 99}), "system", {}, {"trouble", "restore"}),
  Row({46}, (0..3) \cup {99}, "module", {}, {"trouble"}),
  Row({47}, (0..3) \cup {99}, "system", {}, {"trouble", "restore"}),
  Row({48}, (0..8) \cup {99}, "system", {}, {}) }

\* The rows 49 to 52 say "changes", which nothing reads.  Row 56 has no "sub", unlike
\* the row 55 that it ends, and so changes the module whose number is the minor.
Events49 ==
  {Row({49}, Each, "zone", {}, {"trouble"}),
   Row({50}, Each, "zone", {}, {"trouble", "restore"}),
   Row({51}, Each, "zone", {}, {"trouble", "supervision"}),
   Row({52}, Each, "zone", {}, {"trouble", "supervision", "restore"}),
   Row({56}, Each, "module", {Off("module_tamper_trouble")}, {"trouble", "tamper", "restore"}),
   Row({57}, Each, "user", {}, {"alarm", "medic", "trigger"}),
   Row({58, 59}, Each, "zone", {}, {}),
   Row({64}, 0..5, "system", {}, {})}
  \cup WirelessModules(53, {On("module_supervision_trouble")}, {"trouble", "supervision"})
  \cup WirelessModules(54, {Off("module_supervision_trouble")},
                       {"trouble", "supervision", "restore"})
  \cup WirelessModules(55, {On("module_tamper_trouble")}, {"trouble", "tamper"})

Events ==
  Events0 \cup Events6 \cup Events8 \cup Events28 \cup Events35 \cup Events44 \cup Events49

-----------------------------------------------------------------------------
(* Status blocks *)

\* Of the root key "troubles", whose flags _process_trouble_statuses puts into the
\* storage one by one.
SystemTroubles == <<
  "timer_loss_trouble", "fire_loop_trouble", "module_tamper_trouble",
  "zone_tamper_trouble", "communication_trouble", "bell_trouble", "power_trouble",
  "rf_low_battery_trouble", "rf_interference_trouble", "_", "_", "_", "_", "_",
  "module_supervision_trouble", "zone_supervision_trouble", "_",
  "wireless_repeater_battery_trouble", "wireless_repeater_ac_loss_trouble",
  "wireless_keypad_battery_trouble", "wireless_keypad_ac_trouble",
  "auxiliary_output_overload_trouble", "ac_failure_trouble", "low_battery_trouble",
  "_", "_", "_", "_", "_", "_", "bell_output_overload_trouble",
  "bell_output_disconnected_trouble", "_", "_",
  "computer_fail_to_communicate_trouble", "voice_fail_to_communicate_trouble",
  "pager_fail_to_communicate_trouble", "central_2_reporting_ftc_indicator_trouble",
  "central_1_reporting_ftc_indicator_trouble", "telephone_line">>

\* StatusAdapter: a bit for each element.
Status(type, name, bytes) == Flags(type, <<name>>, 1, 8 * bytes)

\* PartitionStatusAdapter: four bytes for each of the two partitions.
PartitionStatus ==
  [Flags("partition",
     <<"alarm", "pulse_fire_alarm", "audible_alarm", "silent_alarm", "strobe_alarm",
       "arm_stay", "arm_sleep", "arm", "bell_activated", "auto_arming_engaged",
       "recent_closing_delay", "intellizone_delay", "zone_bypassed",
       "alarms_in_memory", "entry_delay", "exit_delay", "paramedic_alarm",
       "arm_with_remote", "transmission_delay_finished", "bell_delay_finished",
       "entry_delay_finished", "exit_delay_finished", "intellizone_delay_finished",
       "wait_window", "in_remote_delay", "stayd_mode_active", "arm_force",
       "ready_status">>, 1, 2) EXCEPT !.bits = 32]

ZoneStatus == PerByte("zone",
  <<"was_in_alarm", "alarm", "fire_delay", "entry_delay", "intellizone_delay",
    "no_delay", "bypassed", "shutdown", "in_tx_delay", "was_bypassed">>, 1, 32)

Signal(type, last) == PerByte(type, <<"signal_strength">>, 1, last)

Blocks ==
  [n \in {0, 1, 2, 3, 4, 5, 7} |->
     CASE n = 0 -> <<Flags("system", SystemTroubles, 1, 1), Plain(6), Plain(3), Plain(1),
                     Status("zone", "open", 4), Status("zone", "tamper", 4),
                     Status("pgm", "tamper", 2), Status("module", "tamper", 2),
                     Status("zone", "fire", 4), Plain(1)>>
       [] n = 1 -> <<Status("zone", "rf_supervision_trouble", 4),
                     Status("pgm", "supervision_trouble", 2),
                     Status("module", "supervision_trouble", 2),
                     Status("repeater", "supervision_trouble", 1),
                     Status("zone", "rf_low_battery_trouble", 4), PartitionStatus,
                     Status("repeater", "ac_loss_trouble", 1),
                     Status("repeater", "battery_failure_trouble", 1),
                     Status("keypad", "ac_loss_trouble", 1),
                     Status("keypad", "battery_failure_trouble", 1),
                     Status("keypad", "supervision_failure_trouble", 1), Plain(6)>>
       [] n = 2 -> <<ZoneStatus>>
       [] n = 3 -> <<Signal("zone", 32)>>
       [] n = 4 -> <<Signal("pgm", 16), Signal("repeater", 2), Signal("keypad", 8), Plain(6)>>
       [] n = 5 -> <<Status("zone", "exit_delay", 4), Plain(28)>>
       [] n = 7 -> <<PerByte("pgm", <<"on">>, 1, 32)>>]

-----------------------------------------------------------------------------
(* property_map: the properties whose changes are announced *)

Announced1 == {
  "ac_failure_trouble", "ac_loss_trouble", "alarm", "alarms_in_memory", "arm",
  "arm_force", "arm_sleep", "arm_stay", "arm_with_remote", "audible_alarm",
  "auto_arming_engaged", "auxiliary_output_overload_trouble", "battery",
  "battery_failure_trouble", "bell_activated", "bell_delay_finished",
  "bell_output_disconnected_trouble", "bell_output_overload_trouble",
  "bell_trouble", "bypassed"}

Announced2 == {
  "central_1_reporting_ftc_indicator_trouble",
  "central_2_reporting_ftc_indicator_trouble", "communication_trouble",
  "computer_fail_to_communicate_trouble", "dc", "entry_delay",
  "entry_delay_finished", "exit_delay", "exit_delay_finished", "fire_delay", "fire",
  "fire_loop_trouble", "in_remote_delay", "intellizone_delay",
  "intellizone_delay_finished", "in_tx_delay", "keypad_battery_failure_trouble",
  "low_battery_trouble", "module_supervision_trouble", "module_tamper_trouble",
  "no_delay", "open"}

Announced3 == {
  "pager_fail_to_communicate_trouble", "paramedic_alarm", "power_trouble",
  "pulse_fire_alarm", "ready_status", "recent_closing_delay",
  "rf_interference_trouble", "rf_low_battery_trouble", "noise_floor",
  "rf_supervision_trouble", "shutdown", "signal_strength", "silent_alarm", "squawk",
  "stayd_mode_active", "strobe_alarm", "supervision_failure_trouble",
  "supervision_trouble", "tamper", "telephone_line", "timer_loss_trouble",
  "transmission_delay_finished"}

Announced4 == {
  "trouble", "vdc", "voice_fail_to_communicate_trouble", "wait_window",
  "was_bypassed", "was_in_alarm", "wireless_keypad_ac_trouble",
  "wireless_keypad_battery_trouble", "wireless_repeater_ac_loss_trouble",
  "wireless_repeater_battery_trouble", "zone_bypassed", "zone_supervision_trouble",
  "zone_tamper_trouble", "time", "current_state"}

Announced == Announced1 \cup Announced2 \cup Announced3 \cup Announced4
==============================================================================
