------------------------------ MODULE SSHSession ------------------------------
(***************************************************************************)
(* internal/ssh/macos.go with internal/node/terminal.go: a session that      *)
(* runs a command for an attached client, SetupSessionIO and then            *)
(* ExecuteCommand, with the goroutines that copy stdin and follow the size   *)
(* of the terminal.  What is written to stdinPipe is a sequence of "env",    *)
(* "cmd" and "input" lines, in the order the remote shell reads them.        *)
(***************************************************************************)
EXTENDS Integers, Sequences

CONSTANTS EnvLines, CmdLines, MaxInput, MaxResizes

ASSUME SessionAssumption == {EnvLines, CmdLines, MaxInput, MaxResizes} \subseteq Nat

VARIABLES
  tty,          \* attach.TTY()
  stdin,        \* attach.Stdin() # nil
  input,        \* lines the client has sent that nobody has read
  sent,         \* how many it has sent
  eof,          \* has it closed stdin?
  resizes,      \* resize events that wait to be received
  resized,      \* how many there have been
  session,         \* where SetupSessionIO and ExecuteCommand are
  copier,       \* the goroutine that copies stdin: "none", "copying" or "done"
  resizer,      \* HandleTerminalResizing: "none", "listening" or "done"
  stdinPipe,    \* what has been written to the session
  pipeClosed,
  remote        \* the remote side: "none", "running" or "ended"

sessionVars == <<tty, stdin, input, sent, eof, resizes, resized, session, copier, resizer, stdinPipe, pipeClosed, remote>>
clientVars == <<tty, stdin, sent, eof, resized>>

SessionInit ==
  /\ tty = FALSE /\ stdin = FALSE
  /\ input = 0 /\ sent = 0 /\ eof = FALSE /\ resizes = 0 /\ resized = 0
  /\ session = "idle" /\ copier = "none" /\ resizer = "none"
  /\ stdinPipe = <<>> /\ pipeClosed = FALSE /\ remote = "none"

Written(kind) == Len(SelectSeq(stdinPipe, LAMBDA line : line = kind))

-----------------------------------------------------------------------------
(* SetupSessionIO.                                                         *)

SetupSessionIO(hasTTY, hasStdin) ==
  /\ session = "idle" /\ session' = "sizing" /\ tty' = hasTTY /\ stdin' = hasStdin
  /\ UNCHANGED <<sent, eof, resized, input, resizes, copier, resizer, stdinPipe, pipeClosed, remote>>

\* A plausible slip: the goroutines are started without a terminal, too.
SetUpAnyway == "setup"

WithoutTerminal == "starting"

\* GetConsoleSize: the first resize event or, after five seconds, a default
\* size.  A terminal that reports a size of zero gets no pseudo terminal.
GetConsoleSize ==
  /\ session = "sizing"
  /\ \/ tty /\ resizes > 0 /\ resizes' = resizes - 1
        /\ session' \in {"setup", WithoutTerminal}
     \/ tty /\ session' = "setup" /\ UNCHANGED resizes
     \/ ~tty /\ session' = WithoutTerminal /\ UNCHANGED resizes
  /\ UNCHANGED <<clientVars, input, copier, resizer, stdinPipe, pipeClosed, remote>>

\* A plausible slip: the copying of stdin is left to ExecuteCommand.
NotCopied == "none"

CopierStarts == IF stdin THEN "copying" ELSE "none"

\* setupTTYSession: request a pseudo terminal and start both goroutines.
SetupTTYSession ==
  /\ session = "setup"
  /\ \/ session' = "starting" /\ copier' = CopierStarts /\ resizer' = "listening"
     \/ session' = "returned" /\ UNCHANGED <<copier, resizer>>
  /\ UNCHANGED <<clientVars, input, resizes, stdinPipe, pipeClosed, remote>>

\* A plausible slip: the goroutine ends and leaves the session open.
LeavesSession == remote

ClosesSession == "ended"

\* io.Copy reads a line and passes it on.
Forwards ==
  /\ input > 0 /\ input' = input - 1
  /\ stdinPipe' = Append(stdinPipe, "input")

\* At the end of the input, or when it can no longer write, it returns.
CopyEnds == (input = 0 /\ (eof \/ ~stdin)) \/ (input > 0 /\ remote = "ended")

CopierCopies ==
  /\ copier = "copying"
  /\ \/ ~CopyEnds /\ Forwards /\ UNCHANGED <<copier, remote>>
     \/ CopyEnds /\ copier' = "done" /\ remote' = ClosesSession /\ UNCHANGED <<input, stdinPipe>>
  /\ UNCHANGED <<clientVars, resizes, session, resizer, pipeClosed>>

\* HandleTerminalResizing receives one event and returns; the context of the
\* call is done once the call has returned.
HandleTerminalResizing ==
  /\ resizer = "listening" /\ resizer' = "done"
  /\ \/ resizes > 0 /\ resizes' = resizes - 1
     \/ session = "returned" /\ UNCHANGED resizes
  /\ UNCHANGED <<clientVars, input, session, copier, stdinPipe, pipeClosed, remote>>

-----------------------------------------------------------------------------
(* ExecuteCommand.                                                         *)

\* A plausible slip: stdin is taken to be copied in the background always.
WaitsAtOnce == "waiting"

AfterCommand == IF tty THEN "waiting" ELSE "copying"

\* BuildExecCommandString succeeds and the command is started, or a shell is,
\* which gets the command on its stdin; either may fail.
Starts ==
  /\ session = "starting"
  /\ \/ remote = "none" /\ remote' = "running" /\ session' \in {AfterCommand, "writing"}
     \/ session' = "returned" /\ UNCHANGED remote
  /\ UNCHANGED <<clientVars, input, resizes, copier, resizer, stdinPipe, pipeClosed>>

CommandWritten == Written("cmd") = CmdLines

\* First the environment, of which a line may get lost, then the command.
WritesLine ==
  /\ session = "writing" /\ ~CommandWritten /\ remote = "running"
  /\ \E kind \in IF Written("cmd") = 0 /\ Written("env") < EnvLines THEN {"env", "cmd"} ELSE {"cmd"} :
       stdinPipe' = Append(stdinPipe, kind)
  /\ UNCHANGED <<clientVars, input, resizes, session, copier, resizer, pipeClosed, remote>>

WritesEnd ==
  /\ session = "writing" /\ (CommandWritten \/ remote = "ended")
  /\ session' = IF CommandWritten THEN AfterCommand ELSE "returned"
  /\ UNCHANGED <<clientVars, input, resizes, copier, resizer, stdinPipe, pipeClosed, remote>>

\* Without a terminal, the client's input is copied here, and the pipe closed.
MainCopies ==
  /\ session = "copying"
  /\ \/ ~CopyEnds /\ Forwards /\ UNCHANGED <<session, pipeClosed>>
     \/ /\ CopyEnds
        /\ pipeClosed' = (input = 0) /\ session' = IF input = 0 THEN "waiting" ELSE "returned"
        /\ UNCHANGED <<input, stdinPipe>>
  /\ UNCHANGED <<clientVars, resizes, copier, resizer, remote>>

Waits ==
  /\ session = "waiting" /\ remote = "ended" /\ session' = "returned"
  /\ UNCHANGED <<clientVars, input, resizes, copier, resizer, stdinPipe, pipeClosed, remote>>

-----------------------------------------------------------------------------
(* The attached client and the remote command.                             *)

ClientSends ==
  /\ stdin /\ ~eof
  /\ \/ sent < MaxInput /\ sent' = sent + 1 /\ input' = input + 1 /\ UNCHANGED eof
     \/ eof' = TRUE /\ UNCHANGED <<sent, input>>
  /\ UNCHANGED <<tty, stdin, resizes, resized, session, copier, resizer, stdinPipe, pipeClosed, remote>>

ClientResizes ==
  /\ tty /\ resized < MaxResizes /\ session # "returned"
  /\ resized' = resized + 1 /\ resizes' = resizes + 1
  /\ UNCHANGED <<tty, stdin, input, sent, eof, session, copier, resizer, stdinPipe, pipeClosed, remote>>

RemoteEnds ==
  /\ remote = "running" /\ remote' = "ended"
  /\ UNCHANGED <<clientVars, input, resizes, session, copier, resizer, stdinPipe, pipeClosed>>

SessionNext ==
  \/ \E hasTTY, hasStdin \in BOOLEAN : SetupSessionIO(hasTTY, hasStdin)
  \/ GetConsoleSize \/ SetupTTYSession \/ CopierCopies \/ HandleTerminalResizing
  \/ Starts \/ WritesLine \/ WritesEnd \/ MainCopies \/ Waits
  \/ ClientSends \/ ClientResizes \/ RemoteEnds

\* The goroutines run; a remote command whose input has ended ends.  Nothing
\* makes the client send, or the command end before its input.
SessionFairness ==
  /\ WF_sessionVars(GetConsoleSize) /\ WF_sessionVars(SetupTTYSession) /\ WF_sessionVars(CopierCopies)
  /\ WF_sessionVars(HandleTerminalResizing) /\ WF_sessionVars(Starts) /\ WF_sessionVars(WritesLine)
  /\ WF_sessionVars(WritesEnd) /\ WF_sessionVars(MainCopies) /\ WF_sessionVars(Waits)
  /\ WF_sessionVars(pipeClosed /\ RemoteEnds)

SessionSpec == SessionInit /\ [][SessionNext]_sessionVars /\ SessionFairness

-----------------------------------------------------------------------------
\* The remote shell reads the environment, the command and the client's input
\* in this order.  It holds without a terminal; with one, the copying
\* goroutine writes to the same pipe while the command is being written.
InputFollowsCommand ==
  ~tty => \A i, j \in DOMAIN stdinPipe :
            i < j /\ stdinPipe[i] = "input" => stdinPipe[j] = "input"

\* Is anybody to copy the input?  Not if a terminal reported a size of zero.
Attached == tty => resizer # "none"

\* When the client closes stdin the call returns, with and without terminal.
EOFEndsSession == eof /\ Attached ~> session = "returned"

=============================================================================
