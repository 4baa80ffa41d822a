---------------------------- MODULE MCMtbDaemon ----------------------------
(***************************************************************************)
(* Small instances of MtbDaemon: one address, with an MTB-RC or a module   *)
(* of a type that the daemon does not know; two speeds, of which the file  *)
(* has the lower and the client asks for the other; the file knows the     *)
(* module by the unknown type.                                             *)
(***************************************************************************)
EXTENDS MtbDaemon

CONSTANTS rc, other, slow, fast, A

MCNewSpeed == [r \in Requests |-> IF r = slow THEN 1 ELSE 2]
MCFiles == {[modules |-> [a \in Addr |-> other], speed |-> 1]}
=============================================================================
