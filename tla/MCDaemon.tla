------------------------------ MODULE MCDaemon ------------------------------
(* Instances of Daemon: days of four instants, and a local time that is two  *)
(* instants ahead of UTC.  Hour 3 of one local day is skipped.               *)
EXTENDS Daemon

MCMidnight == [z \in {"utc", "local"} |-> IF z = "utc" THEN {0} ELSE {-2, 2}]
MCSlotAt ==
    [z \in {"utc", "local"} |->
        [d \in MCMidnight[z] |->
            [h \in {1, 3} |-> IF z = "local" /\ d = -2 /\ h = 3 THEN {} ELSE {d + h}]]]

Conf(zone, hour, channels, launch) ==
    [scheduled |-> TRUE, zone |-> zone, hour |-> hour, channels |-> channels, probe |-> launch]

\* Reloads move the hour both ways, switch the zone and replace the probe.
ReloadConfigs ==
    {Conf("utc", 1, {"telegram"}, {"exec"}),
     Conf("utc", 3, {"telegram", "feishu"}, {"files"}),
     Conf("local", 1, {"telegram"}, {})}

DingTalkOnly == {Conf("utc", 1, {"dingtalk"}, {})}

=============================================================================
