---------------------------- MODULE MCMtbUsbLink ----------------------------
(***************************************************************************)
(* A small instance of MtbUsbLink: two commands to one module with the     *)
(* same answer, a command to another module, and two changes of the speed, *)
(* which MTB-USB acknowledges alike.                                       *)
(***************************************************************************)
EXTENDS MtbUsbLink

CONSTANTS setA, setB, config, speed1, speed2

MCCmds == {setA, setB, config, speed1, speed2}
MCKind == [c \in Cmds |-> IF c \in {speed1, speed2} THEN "speed" ELSE "forward"]
MCModule == [c \in Cmds |-> IF c = config THEN 2 ELSE 1]
MCCode == [c \in Cmds |-> IF c = config THEN "SetConfig" ELSE "SetOutput"]
MCAnswer == [b \in BusCodes |->
                IF b = "SetConfig" THEN {"Acknowledgement"} ELSE {"OutputSet"}]
=============================================================================
