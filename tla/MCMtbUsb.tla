------------------------------ MODULE MCMtbUsb ------------------------------
(***************************************************************************)
(* A small instance of MtbUsb: two changes of the speed (the commands that *)
(* are in conflict), commands forwarded to two modules, a ping.            *)
(***************************************************************************)
EXTENDS MtbUsb

CONSTANTS speed1, speed2, set1, config2, ping

MCCmds == {speed1, speed2, set1, config2, ping}
MCKind == [c \in Cmds |-> CASE c \in {speed1, speed2} -> "speed"
                            [] c = ping -> "ping"
                            [] OTHER -> "forward"]
MCModule == [c \in Cmds |-> IF c = config2 THEN 2 ELSE 1]
MCCode == [c \in Cmds |-> IF c = config2 THEN "SetConfig" ELSE "SetOutput"]
MCAnswer == [b \in BusCodes |->
                IF b = "SetConfig" THEN {"Acknowledgement"} ELSE {"OutputSet"}]
=============================================================================
