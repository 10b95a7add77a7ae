---------------------------- MODULE MCNodeAgent ----------------------------
(* NodeAgent for TLC: an instance with its primary ENI and two more.       *)
EXTENDS NodeAgent

CONSTANTS eth0, eth1, eth2

MCLink    == {eth1, eth2}
MCDevices == <<eth0, eth1, eth2>>

Rule(id, devices) == [id |-> id, devices |-> devices, valid |-> TRUE]

Refused(id, devices) == [id |-> id, devices |-> devices, valid |-> FALSE]

\* No rule; a rule of this node before one for the others; rules for other nodes
\* and the rest; and a rule that is no pair of an instance and devices.
MCRuleLists == {
    <<>>,
    <<Rule("own", {eth1}), Rule("*", {eth1, eth2})>>,
    <<Rule("other", {eth0}), Rule("*", {eth2})>>,
    <<Rule("own", {eth1}), Refused("", {})>> }

\* The rules the README gives as examples, one list each; the pattern of
\* checkExpose refuses the third, "i-* erdma_*".
DocumentedRules == {
    <<Rule("own", {eth1})>>,
    <<Rule("*", {eth1})>>,
    <<Refused("*", {eth0, eth1, eth2})>> }

NoRules == {}
===========================================================================
