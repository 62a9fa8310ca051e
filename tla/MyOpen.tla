------------------------------- MODULE MyOpen -------------------------------
(***************************************************************************)
(* unixdomain/mycat: a program that has another one, openfile, open a file *)
(* for it and gets the descriptor through a pair of sockets (myopen.cpp,   *)
(* read_fd.cpp, write_fd.cpp).  An error comes back as the exit status of  *)
(* the child.                                                              *)
(***************************************************************************)
EXTENDS Integers

CONSTANTS
  Errnos,     \* the errors of open() and sendmsg(); EPERM is 1
  FileLen     \* blocks of the file

ErrSys == 1   \* what err_sys exits with

VARIABLES
  openErr,    \* what open() will say: 0 or an error
  passErr,    \* what sendmsg() will say
  opc,        \* the child: "exec", "open", "write_fd", "exit", "exited", "killed"
  status,     \* its exit status
  cause,      \* history: "none", or the call of the child that failed
  pair,       \* the socket pair holds the descriptor
  fd, errno,  \* what my_open returns: -1 or the file (3)
  copied,     \* blocks written to stdout
  mpc         \* the parent: "waitpid", "read_fd", "cat", "done", "failed", "quit"

file == <<openErr, passErr>>
child == <<opc, status, cause, pair>>
parent == <<fd, errno, copied, mpc>>
vars == <<file, child, parent>>

TheFile == 3
Unset == 32767

TypeOK ==
  /\ {openErr, passErr, status, errno} \subseteq Errnos \cup {0, ErrSys}
  /\ opc \in {"exec", "open", "write_fd", "exit", "exited", "killed"}
  /\ cause \in {"none", "exec", "open", "write_fd"}
  /\ pair \in BOOLEAN
  /\ fd \in {-1, TheFile, Unset} /\ copied \in 0 .. FileLen
  /\ mpc \in {"waitpid", "read_fd", "cat", "done", "failed", "quit"}

Init ==
  /\ openErr \in Errnos \cup {0} /\ passErr \in Errnos \cup {0}
  /\ opc = "exec" /\ status = 0 /\ cause = "none" /\ pair = FALSE
  /\ fd = -1 /\ errno = 0 /\ copied = 0 /\ mpc = "waitpid"

----------------------------------------------------------------------------
(* The child.                                                              *)

Exit(s, why) == status' = s /\ cause' = why /\ opc' = "exited"

\* There may be no ./openfile to run.
Exec ==
  /\ opc = "exec"
  /\ \/ Exit(ErrSys, "exec")
     \/ opc' = "open" /\ UNCHANGED <<status, cause>>
  /\ UNCHANGED <<file, pair, parent>>

Open ==
  /\ opc = "open"
  /\ IF openErr # 0 THEN Exit(openErr, "open")
                    ELSE opc' = "write_fd" /\ UNCHANGED <<status, cause>>
  /\ UNCHANGED <<file, pair, parent>>

PassStatus_Zero == 0
PassStatus == passErr

WriteFd ==
  /\ opc = "write_fd"
  /\ pair' = (passErr = 0)
  /\ IF passErr # 0 THEN Exit(PassStatus, "write_fd")
                    ELSE opc' = "exit" /\ UNCHANGED <<status, cause>>
  /\ UNCHANGED <<file, parent>>

ExitWell == opc = "exit" /\ Exit(0, "none") /\ UNCHANGED <<file, pair, parent>>

\* A signal ends the child.
Killed ==
  /\ opc \in {"exec", "open", "write_fd", "exit"} /\ opc' = "killed"
  /\ UNCHANGED <<file, status, cause, pair, parent>>

----------------------------------------------------------------------------
(* The parent.                                                             *)

Waitpid ==
  /\ mpc = "waitpid" /\ opc \in {"exited", "killed"}
  /\ mpc' = IF opc = "killed" THEN "quit"
            ELSE IF status = 0 THEN "read_fd" ELSE "failed"
  /\ errno' = IF opc = "killed" THEN errno ELSE status
  /\ UNCHANGED <<file, child, fd, copied>>

\* With nothing in the stream and no writer recvmsg returns 0 and recvfd is
\* never set.
ReadFd ==
  /\ mpc = "read_fd"
  /\ fd' = (IF pair THEN TheFile ELSE Unset) /\ pair' = FALSE
  /\ mpc' = "cat"
  /\ UNCHANGED <<file, opc, status, cause, errno, copied>>

Cat ==
  /\ mpc = "cat"
  /\ IF copied < FileLen THEN copied' = copied + 1 /\ UNCHANGED mpc
                         ELSE mpc' = "done" /\ UNCHANGED copied
  /\ UNCHANGED <<file, child, fd, errno>>

ChildStep == Exec \/ Open \/ WriteFd \/ ExitWell
ParentStep == Waitpid \/ ReadFd \/ Cat

Next == ChildStep \/ Killed \/ ParentStep
Spec == Init /\ [][Next]_vars

\* The processes run.
FairSpec == Spec /\ WF_vars(ChildStep) /\ WF_vars(ParentStep)

----------------------------------------------------------------------------
(* Properties.                                                             *)

\* What my_open returns is the file the child opened, never a descriptor that
\* Read_fd did not set; and the error my_open returns is the one the child met,
\* but that a missing openfile looks like EPERM.
OpenedIsReturned ==
  /\ mpc \in {"cat", "done"} => openErr = 0 /\ fd = TheFile
  /\ mpc = "failed" => CASE cause = "exec" -> errno = ErrSys
                         [] cause = "open" -> errno = openErr
                         [] cause = "write_fd" -> errno = passErr
                         [] OTHER -> FALSE

Settled == mpc \in {"done", "failed", "quit"}
=============================================================================
