----------------------------- MODULE MCMqttExport ----------------------------
(* One variable of either type, one topic, rules with and without an        *)
(* interval.  The texts are "true" and "0.01".                              *)
EXTENDS MqttExport, TLC

V(t, numbers) == {[type |-> t, n |-> n] : n \in numbers}
Bools == V("BOOL", {0, 1})
Values == Bools \cup V("BYTE", {0}) \cup V("REAL", {0, 6, 20})
Texts == {[truth |-> TRUE, number |-> 0], [truth |-> FALSE, number |-> 10]}

R(access, interval, max) ==
  [topic |-> "t", access |-> access, onChange |-> TRUE,
   minInterval |-> interval, min |-> 0, max |-> max]

Configs ==
  {R("READ_ONLY", 2, 0), R("READ_WRITE", 2, 1000), R("READ_WRITE", 0, 1000)}
Instant == {R("READ_WRITE", 0, 1000)}
==============================================================================
