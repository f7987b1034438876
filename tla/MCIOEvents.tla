------------------------------ MODULE MCIOEvents -----------------------------
(* One program, one endpoint, one I/O and one scheduled trigger. *)
EXTENDS IOEvents, TLC

Values == {[type |-> "BOOL", val |-> 0], [type |-> "BOOL", val |-> 1]}

IO(type, debounce) ==
  [type |-> type, enabled |-> TRUE, endpoint |-> "e", program |-> "p",
   debounceMs |-> debounce, rising |-> TRUE]
At(minute) ==
  [type |-> "SCHEDULED", enabled |-> TRUE, program |-> "p",
   schedule |-> {minute}]

Configs == { (1 :> IO("INPUT_CHANGED", 2)) @@ (2 :> At(1)) }
==============================================================================
