------------------------------ MODULE MCServer ------------------------------
(***************************************************************************)
(* A small instance of Server: a client with write access and one without, *)
(* two modules, and requests with good and bad addresses.                  *)
(***************************************************************************)
EXTENDS Server

CONSTANTS A, B,    \* the clients
          subA, myA, myBadA, unsubA, topoA, untopoA, stateA, confA, specA,
          delB, specB, nopeB

MCKind == [r \in Requests |->
    CASE r = subA -> "module_subscribe"
      [] r = unsubA -> "module_unsubscribe"
      [] r \in {myA, myBadA} -> "my_module_subscribes"
      [] r = topoA -> "topology_subscribe"
      [] r = untopoA -> "topology_unsubscribe"
      [] r = delB -> "module_delete"
      [] r = confA -> "module_set_config"
      [] r \in {specA, specB} -> "module_specific_command"
      [] r = stateA -> "module"
      [] OTHER -> "unknown"]
MCSender == [r \in Requests |-> IF r \in {delB, specB, nopeB} THEN B ELSE A]
\* 0 is no valid address.
MCAddresses == [r \in Requests |->
    CASE r = myBadA -> {0, 2}
      [] r = unsubA -> Absent
      [] r = myA -> {2}
      [] OTHER -> {1}]
=============================================================================
