------------------------------ MODULE MCMtbUni ------------------------------
(***************************************************************************)
(* Small instances of MtbUni: two clients, two outputs, two configurations *)
(* and some of the requests below.                                         *)
(***************************************************************************)
EXTENDS MtbUni

CONSTANTS A, B,                   \* the clients
          on1A, on1B, two1A, on2B, off1A, \* sets of outputs
          confA, confB,           \* configurations
          fwA, badA, rebootB, resetA, resetB, beaconB, addrB

MCKind == [r \in Requests |->
    CASE r \in {on1A, on1B, two1A, on2B, off1A} -> "module_set_outputs"
      [] r \in {confA, confB} -> "module_set_config"
      [] r \in {fwA, badA} -> "module_upgrade_fw"
      [] r = rebootB -> "module_reboot"
      [] r \in {resetA, resetB} -> "reset_my_outputs"
      [] r = addrB -> "module_set_address"
      [] OTHER -> "module_beacon"]
MCSocket == [r \in Requests |->
    IF r \in {on1B, on2B, confB, rebootB, resetB, beaconB, addrB} THEN B ELSE A]
MCOutputs == [r \in Requests |->
    CASE r \in {on1A, on1B} -> (1 :> 1)
      [] r = two1A -> (1 :> 2)
      [] r = off1A -> (1 :> 0)
      [] r = on2B -> (2 :> 1)
      [] OTHER -> <<>>]
\* In c1 the safe state of every output is off, in c2 it is not.
MCSafe == [c \in Configs |->
    [p \in Ports |-> IF c = "c2" /\ p = 2 THEN 2 ELSE 0]]
MCNewConfig == [r \in Requests |->
    IF "c2" \in Configs /\ ("c1" \notin Configs \/ r = confB) THEN "c2" ELSE "c1"]
=============================================================================
