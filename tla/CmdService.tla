----------------------------- MODULE CmdService -----------------------------
(***************************************************************************)
(* What the class MtbUsb promises to its callers, without its queues.      *)
(*                                                                         *)
(* A caller hands over a command with an ok callback and an error          *)
(* callback.  While the port is open the command is "waiting" until one of *)
(* the two callbacks tells how it ended; once it ended, it stays so.  A    *)
(* command handed over while the port is closed ends with SerialPortClosed *)
(* at once, and the port is closed only after every waiting command ended. *)
(* The process may end: where an error callback throws, or calls           *)
(* disconnect in its turn while the port is being closed.                  *)
(***************************************************************************)
CONSTANTS Cmds,      \* the commands handed to MtbUsb::send, one per call
          Throwing,  \* those whose error callback may throw
          CmdErrors  \* the error codes that an error callback receives

VARIABLES open,    \* is the serial port open
          alive,   \* is the daemon's process running
          status   \* of each command: "new", "waiting", "ok" or an error code

serviceVars == <<open, alive, status>>

Unfinished == {"new", "waiting"}

Init ==
    /\ open = FALSE
    /\ alive = TRUE
    /\ status = [c \in Cmds |-> "new"]

\* The caller hands over c while the port is open.
Accept(c) ==
    /\ alive /\ open
    /\ status[c] = "new"
    /\ status' = [status EXCEPT ![c] = "waiting"]
    /\ UNCHANGED <<open, alive>>

\* The caller hands over c while the port is closed; it gets back what the error
\* callback throws.
Refuse(c) ==
    /\ alive /\ ~open
    /\ status[c] = "new"
    /\ status' = [status EXCEPT ![c] = "SerialPortClosed"]
    /\ alive' = TRUE \/ (c \in Throwing /\ alive' = FALSE)
    /\ UNCHANGED open

\* The command ends, with its ok callback or with an error code.
Finish(c, result) ==
    /\ alive /\ open
    /\ status[c] = "waiting"
    /\ status' = [status EXCEPT ![c] = result]
    /\ UNCHANGED <<open, alive>>

Open ==
    /\ alive /\ ~open
    /\ open' = TRUE
    /\ UNCHANGED <<alive, status>>

Close ==
    /\ alive /\ open
    /\ \A c \in Cmds : status[c] # "waiting"
    /\ open' = FALSE
    /\ UNCHANGED <<alive, status>>

\* The process ends without an answer to the commands that wait.
Die ==
    /\ alive /\ open
    /\ alive' = FALSE
    /\ UNCHANGED <<open, status>>

Next ==
    \/ \E c \in Cmds : \/ Accept(c)
                       \/ Refuse(c)
                       \/ \E r \in CmdErrors \cup {"ok"} : Finish(c, r)
    \/ Open
    \/ Close
    \/ Die

Spec == Init /\ [][Next]_serviceVars
=============================================================================
