---------------------------- MODULE MCHostApply ----------------------------
(***************************************************************************)
(* Small instances of HostApply for TLC.                                   *)
(***************************************************************************)
EXTENDS HostApply, TLC

CONSTANTS v0, v1, v2, a1, a2

MCFaultKinds == {"crash", "fail", "broken", "reboot", "edit", "meddle", "inspect"}

\* Bounds on killed runs, failing operations, failing rollbacks and commits,
\* reboots, edits of the configuration, VMs started or stopped from outside, and
\* failing inspections.
MaxFaultsOf(crash, fail, broken, reboot, edit, meddle, inspect) ==
    [k \in MCFaultKinds |-> CASE k = "crash" -> crash
                              [] k = "fail" -> fail
                              [] k = "broken" -> broken
                              [] k = "reboot" -> reboot
                              [] k = "edit" -> edit
                              [] k = "meddle" -> meddle
                              [] k = "inspect" -> inspect]
OneOfEach == MaxFaultsOf(1, 1, 1, 1, 1, 1, 1)
SomeMixes == {{"crash", "reboot", "edit", "meddle"}, {"fail", "reboot", "edit", "meddle"},
              {"crash", "fail", "broken", "edit"}, {"inspect", "fail", "edit"}}
NoFailures == MaxFaultsOf(0, 0, 0, 0, 0, 2, 0)

\* Configurations: the units of the listed exports at version u, the rest of
\* the files at version x.
Config(u, x, units, size, odd, inside) ==
    [want |-> [f \in Files |-> IF f \notin UnitFiles THEN (IF f[1] = "dir" THEN v1 ELSE x)
                               ELSE IF <<f[2], f[3]>> \in units THEN u ELSE Missing],
     size |-> [n \in Nodes |-> size], autostart |-> Nodes, odd |-> odd, inside |-> inside]

First == Config(v1, v1, Units, 1, FALSE, {})
NewUnit == [First EXCEPT !.want[<<"unit", 1, 1>>] = v2]         \* only a unit changes
\* Everything changes, an export goes away, and the disk lies in a dataset.
Larger == Config(v2, v2, Nodes \X {1}, 2, FALSE, {<<"disk", 1, 0>>})
Odd == [First EXCEPT !.odd = TRUE]

AllConfigs == {NewUnit, Larger, Odd}
OneConfig == {First}

AllFound == [tools |-> Tools, image |-> "verified"]
MCSites == {AllFound, [tools |-> Tools \ {"virsh"}, image |-> "unverified"]}
GoodSite == {AllFound}

Fresh == [file |-> [f \in Files |-> Missing], disk |-> [n \in Nodes |-> NoDisk],
          domain |-> [n \in Nodes |-> [def |-> Missing, live |-> Missing, autostart |-> FALSE]]]
\* A host someone defined VMs on by hand.
Taken == [Fresh EXCEPT !.domain = [n \in Nodes |->
                            [def |-> Foreign, live |-> Missing, autostart |-> FALSE]],
                       !.disk = [n \in Nodes |-> [size |-> 1, foreign |-> TRUE, used |-> TRUE]]]
\* A host that an earlier version of the configuration was applied to.
Older == [file |-> [f \in Files |-> IF f \in UnitFiles \/ f[1] # "dir" THEN v0 ELSE v1],
          disk |-> [n \in Nodes |-> [size |-> 1, foreign |-> FALSE, used |-> TRUE]],
          domain |-> [n \in Nodes |-> [def |-> v0, live |-> Missing, autostart |-> TRUE]]]

MCHosts == {Fresh, Taken, Older}
FreshHost == {Fresh}

\* One inspection command of each kind by itself.
OneMissed == {{<<k, 1, 0>>} : k \in {"dumpxml", "domstate", "dominfo", "info"}}
             \cup {{<<k, 1, 1>>} : k \in {"is-active", "is-enabled"}} \cup {{BaseInfo}}
NoneMissed == {}

NoFlags == {{}}
SomeFlags == {{}, {"redefine", "adoption"}}
=============================================================================
