---------------------------- MODULE AttachSession ----------------------------
(***************************************************************************)
(* What nprt-debug promises of the order of its commands: each of them is  *)
(* a program of its own, but together they are one session, that begins    *)
(* with attach and ends with detach.  Most commands take effect only       *)
(* inside of it, some anywhere.                                            *)
(***************************************************************************)
CONSTANTS Pids, NoPid

VARIABLES session,  \* the process attached to, or NoPid
          last,     \* the kind of command that took effect last
          broken    \* a command was cut off between its writes

SessionInit == session = NoPid /\ last = "none" /\ broken = FALSE

Attach == session' \in Pids /\ last' = "attach" /\ UNCHANGED broken

Detach == session # NoPid /\ session' = NoPid /\ last' = "detach" /\ UNCHANGED broken

Work(kind) ==
  /\ kind = "inside" => session # NoPid
  /\ last' = kind
  /\ UNCHANGED <<session, broken>>

\* A command that is cut off may lose the session, which has to begin anew.
BreakOff == session' \in {session, NoPid} /\ broken' = TRUE /\ UNCHANGED last

SessionNext ==
  \/ Attach \/ Detach \/ BreakOff
  \/ \E kind \in {"inside", "anywhere"} : Work(kind)

SessionSpec == SessionInit /\ [][SessionNext]_<<session, last, broken>>
=============================================================================
