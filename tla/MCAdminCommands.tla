-------------------------- MODULE MCAdminCommands ---------------------------
(* Two distributors and a list of claim statuses, for two admins.          *)
EXTENDS AdminCommands

CONSTANTS alice, bob,   \* wallets
          vault, safe   \* token accounts

Dist(admin, closable) ==
    [admin |-> admin, clawback_receiver |-> vault, clawback_start_ts |-> 2,
     enable_slot |-> 1, clawed_back |-> FALSE, closable |-> closable]

NoStatuses == [s \in 1..ClaimStatuses |-> Absent]

\* Two distributors, the second one closable.
Setting(commands, keypairs, until) ==
    [dist |-> [v \in Versions |-> Dist(alice, v = 2)], statuses |-> NoStatuses,
     folder |-> <<1, 2>>, commands |-> commands, keypairs |-> keypairs,
     until |-> until]

\* No distributor, and claim statuses of which some belong to bob.
Closing(bobs) ==
    [dist |-> [v \in Versions |-> Absent],
     statuses |-> [s \in 1..ClaimStatuses |-> IF s \in bobs THEN bob ELSE alice],
     folder |-> <<>>, commands |-> {"close_claim_status"},
     keypairs |-> {alice}, until |-> 0]

MCScenarios ==
    {Setting({"set_admin", "close_distributor"}, {alice, bob}, 0),
     Setting({"set_enable_slot"}, {alice}, 0),
     Setting({"set_enable_slot_by_time"}, {alice, bob}, 1),
     Setting({"set_clawback_receiver", "clawback"}, {alice}, 2),
     Setting({"set_clawback_start_ts", "clawback"}, {alice}, 2)}
      \cup {Closing(bobs) : bobs \in {{}, {1}, {4}, {6}}}

\* No samples; 400 ms; two that average 600 ms; 6000 ms; no slots.
MCSampleLists ==
    {<<>>,
     <<[sample_period_secs |-> 60, num_slots |-> 150]>>,
     <<[sample_period_secs |-> 60, num_slots |-> 150],
       [sample_period_secs |-> 60, num_slots |-> 75]>>,
     <<[sample_period_secs |-> 60, num_slots |-> 10]>>,
     <<[sample_period_secs |-> 60, num_slots |-> 0]>>}
=============================================================================
