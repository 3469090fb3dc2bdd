---------------------------- MODULE ControlSession ----------------------------
(***************************************************************************)
(* The control session file and the commands that read and write it.       *)
(*                                                                         *)
(* Two kinds of process run commands: threads of the connector server,     *)
(* which serve the paired VM (Remote), and command line processes started  *)
(* by Workbench or by the customer (Local).  They share control-session.json *)
(* and nothing else: there is no lock, a write is write_text (open with    *)
(* truncation, then write), and every operation reads the file again.  Each *)
(* read, each open and each write of the file is one step here.            *)
(***************************************************************************)
EXTENDS ControlGate

CONSTANTS Remote,          \* connector server threads
          Local,           \* local command line processes
          RemoteRequests,  \* the requests the VM may send
          LocalRequests    \* the commands that are run locally

Procs == Remote \cup Local
Ops   == {"start", "stop", "kill", "live"}

(* `mode' matters to a start, `class' and `approved' to a live action.     *)
RequestType == [op: Ops, mode: Modes, class: Classes, approved: BOOLEAN]

ASSUME ProcsAssumption == Remote \cap Local = {}
ASSUME RequestsAssumption ==
    /\ RemoteRequests \subseteq RequestType
    /\ LocalRequests \subseteq RequestType

VARIABLES
    file,      \* control-session.json: its form on disk and what it holds
    proc,      \* the processes: where each is, and its local variables
    wanted,    \* history: the session the finished commands ask for
    orderly    \* history: no session commands have overlapped or crashed

history == <<wanted, orderly>>
vars == <<file, proc, history>>

Forms == {"absent", "empty", "garbled", "json"}

(* The steps of a command that writes the file, from its first read on.    *)
WritingSteps == {"peek", "load", "open1", "write1", "emit", "open2", "write2"}
Steps == WritingSteps \cup {"idle", "killCheck", "serverGate", "cliGate", "act"}

(* `buf' is the session the process is about to write; `announce' says that
   a start will alert the customer and write again.                        *)
Process == [pc: Steps, req: RequestType, buf: Session, announce: BOOLEAN]

NoRequest ==
    [op |-> "live", mode |-> "ask_permission", class |-> "codex", approved |-> FALSE]

Idle ==
    [pc |-> "idle", req |-> NoRequest, buf |-> DefaultSession, announce |-> FALSE]

TypeOK ==
    /\ file \in [form: Forms, session: Session]
    /\ proc \in [Procs -> Process]
    /\ wanted \in [active: BOOLEAN, kill: BOOLEAN, mode: Modes]
    /\ orderly \in BOOLEAN

Init ==
    /\ file = [form |-> "absent", session |-> DefaultSession]
    /\ proc = [p \in Procs |-> Idle]
    /\ wanted = [active |-> FALSE, kill |-> FALSE, mode |-> "ask_permission"]
    /\ orderly = TRUE

At(p, l) == proc[p].pc = l
Op(p)    == proc[p].req.op

-------------------------------------------------------------------------------
(* Reading and writing the file.                                           *)

ReadControlSession ==
    IF file.form = "json" THEN file.session ELSE DefaultSession

(* The processes in the middle of a session command.                       *)
Writers == {p \in Procs : proc[p].pc \in WritingSteps}

(* A write lands at offset 0.  On a file that is still empty it leaves
   exactly the new record; if another writer has written since our open
   truncated it, a longer old record leaves its tail behind.  Which record
   is longer depends on labels and timestamps that are not modelled.       *)
Landed(s) ==
    {[form |-> "json", session |-> s]} \cup
    IF file.form = "empty" THEN {}
                           ELSE {[form |-> "garbled", session |-> DefaultSession]}

-------------------------------------------------------------------------------
(* Moving through a command.                                               *)

Becomes(p, new) == proc' = [proc EXCEPT ![p] = new]
Goto(p, l)      == Becomes(p, [proc[p] EXCEPT !.pc = l])
Return(p)       == Becomes(p, Idle)

(* The first step of the command proper, after what guards it.             *)
CommandStep(p, op) ==
    CASE op = "start" -> "peek"
      [] op \in {"stop", "kill"} -> "load"
      [] OTHER -> IF p \in Remote THEN "serverGate" ELSE "cliGate"

(* A session command that finds another one at work overlaps it; a start or
   a kill that finds none will put the file in order again.                *)
Enter(p, r) ==
    /\ Becomes(p, [proc[p] EXCEPT !.pc = CommandStep(p, r.op), !.req = r])
    /\ orderly' = IF r.op = "live" THEN orderly
                  ELSE Writers = {} /\ (orderly \/ r.op \in {"start", "kill"})
    /\ UNCHANGED wanted

(* A local command starts at once; a remote one at the connector's own kill
   switch check.                                                           *)
Request(p) ==
    /\ At(p, "idle")
    /\ \/ p \in Local /\ \E r \in LocalRequests : Enter(p, r)
       \/ /\ p \in Remote
          /\ \E r \in RemoteRequests :
                Becomes(p, [proc[p] EXCEPT !.pc = "killCheck", !.req = r])
          /\ UNCHANGED history
    /\ UNCHANGED file

(* Variant: the allowlist lets a start through as well.                    *)
KillCheckAllowsStart(p) ==
    /\ At(p, "killCheck")
    /\ IF Op(p) \notin {"kill", "start"} /\ ReadControlSession.kill
       THEN Return(p) /\ UNCHANGED history
       ELSE Enter(p, proc[p].req)
    /\ UNCHANGED file

(* _remote_kill_switch_error: of the commands modelled, only the kill switch
   itself is on the allowlist.                                             *)
KillCheck(p) ==
    /\ At(p, "killCheck")
    /\ IF Op(p) # "kill" /\ ReadControlSession.kill
       THEN Return(p) /\ UNCHANGED history
       ELSE Enter(p, proc[p].req)
    /\ UNCHANGED file

-------------------------------------------------------------------------------
(* Live actions.  A remote one passes the gate twice, once in the server
   and once in the command it runs; each pass reads the file again.        *)

Gate(p, here, next) ==
    /\ At(p, here)
    /\ IF GateAllows(ReadControlSession, proc[p].req.class, proc[p].req.approved)
       THEN Goto(p, next)
       ELSE Return(p)
    /\ UNCHANGED <<file, history>>

ServerGate(p) == Gate(p, "serverGate", "cliGate")

(* Variant: the command line trusts what the server has checked.           *)
CliGateTrustsServer(p) ==
    IF p \in Remote
    THEN At(p, "cliGate") /\ Goto(p, "act") /\ UNCHANGED <<file, history>>
    ELSE Gate(p, "cliGate", "act")

CliGate(p) == Gate(p, "cliGate", "act")

(* The action on the Mac itself, with its audit record.                    *)
Act(p) ==
    /\ At(p, "act")
    /\ Return(p)
    /\ UNCHANGED <<file, history>>

-------------------------------------------------------------------------------
(* Session commands.                                                       *)

(* control_start looks at the session once to decide whether it will have
   to alert the customer ...                                               *)
Peek(p) ==
    /\ At(p, "peek")
    /\ Becomes(p, [proc[p] EXCEPT !.pc = "load",
                                  !.announce = ~Warning(ReadControlSession)])
    /\ UNCHANGED <<file, history>>

(* Variant: every start opens a new warning window.                        *)
StartedAlwaysNew(s, m) ==
    [active |-> TRUE, mode |-> m, kill |-> FALSE, left |-> WarningSeconds]

(* ... and start_control_session looks again to decide on the window: a
   running warning keeps its deadline, otherwise a new one begins.         *)
Started(s, m) ==
    [active |-> TRUE, mode |-> m, kill |-> FALSE,
     left |-> IF Warning(s) THEN s.left ELSE WarningSeconds]

(* Variant: a stop writes a fresh record and so forgets the kill switch.   *)
StoppedAfresh(s) == DefaultSession

(* Variant: a stop ends the warning only.                                  *)
StoppedWarning(s) == [s EXCEPT !.left = 0]

(* stop_control_session: everything but the activity is written back as it
   was read.                                                               *)
Stopped(s) == [s EXCEPT !.active = FALSE, !.left = 0]

Load(p) ==
    /\ At(p, "load")
    /\ Becomes(p, [proc[p] EXCEPT
         !.pc = "open1",
         !.buf = IF Op(p) = "start" THEN Started(ReadControlSession, proc[p].req.mode)
                                    ELSE Stopped(ReadControlSession)])
    /\ UNCHANGED <<file, history>>

(* write_text truncates as it opens ...                                    *)
Open(p) ==
    /\ \/ At(p, "open1") /\ Goto(p, "write1")
       \/ At(p, "open2") /\ Goto(p, "write2")
    /\ file' = [form |-> "empty", session |-> DefaultSession]
    /\ UNCHANGED history

(* For the history: the session p's command asks for.  A start counts from
   its first write on, a stop or a kill from its last.                     *)
Asked(p) ==
    CASE Op(p) = "start" -> [active |-> TRUE, kill |-> FALSE, mode |-> proc[p].req.mode]
      [] Op(p) = "stop"  -> [wanted EXCEPT !.active = FALSE]
      [] Op(p) = "kill"  -> [wanted EXCEPT !.active = FALSE, !.kill = TRUE]
      [] OTHER           -> wanted

(* ... and writes when it closes.  After its first write a kill sets the
   switch in the same record and writes again ...                          *)
WriteOfKill(p) ==
    /\ At(p, "write1") /\ Op(p) = "kill"
    /\ file' \in Landed(proc[p].buf)
    /\ Becomes(p, [proc[p] EXCEPT !.pc = "open2", !.buf = [@ EXCEPT !.kill = TRUE]])
    /\ UNCHANGED history

(* ... a start that announces goes on to alert the customer ...            *)
WriteOfStart(p) ==
    /\ At(p, "write1") /\ Op(p) = "start" /\ proc[p].announce
    /\ file' \in Landed(proc[p].buf)
    /\ Goto(p, "emit")
    /\ wanted' = Asked(p)
    /\ UNCHANGED orderly

(* ... and any other write ends its command.                               *)
LastWrite(p) ==
    /\ \/ At(p, "write2")
       \/ At(p, "write1") /\ Op(p) # "kill" /\ ~(Op(p) = "start" /\ proc[p].announce)
    /\ file' \in Landed(proc[p].buf)
    /\ Return(p)
    /\ wanted' = IF At(p, "write2") /\ Op(p) = "start" THEN wanted ELSE Asked(p)
    /\ UNCHANGED orderly

Write(p) == WriteOfKill(p) \/ WriteOfStart(p) \/ LastWrite(p)

(* _emit_takeover_warning: notification, beeps and sounds, several seconds
   of them; then the record of the first write, with the outcome of the
   alerts (not modelled), is written a second time.                        *)
EmitTakeoverWarning(p) ==
    /\ At(p, "emit")
    /\ Goto(p, "open2")
    /\ UNCHANGED <<file, history>>

-------------------------------------------------------------------------------
(* Time and crashes.                                                       *)

(* Variant: the remaining seconds are not held at zero.                    *)
SecondPassesBelowZero(s) == [s EXCEPT !.left = @ - 1]

SecondPasses(s) == [s EXCEPT !.left = IF @ > 0 THEN @ - 1 ELSE 0]

(* A second passes for the deadline on disk and for those in memory.       *)
Tick ==
    /\ file' = [file EXCEPT !.session = SecondPasses(@)]
    /\ proc' = [p \in Procs |-> [proc[p] EXCEPT !.buf = SecondPasses(@)]]
    /\ UNCHANGED history

(* The threads of the connector end together; a command line process ends
   on its own.  The file stays as it is, truncated or not.                 *)
Crash ==
    \E dead \in {Remote} \cup {{p} : p \in Local} :
        /\ \E p \in dead : ~At(p, "idle")
        /\ proc' = [p \in Procs |-> IF p \in dead THEN Idle ELSE proc[p]]
        /\ orderly' = (orderly /\ dead \cap Writers = {})
        /\ UNCHANGED <<file, wanted>>

-------------------------------------------------------------------------------

Progress(p) ==
    \/ KillCheck(p) \/ ServerGate(p) \/ CliGate(p) \/ Act(p)
    \/ Peek(p) \/ Load(p) \/ Open(p) \/ Write(p) \/ EmitTakeoverWarning(p)

Next ==
    \/ \E p \in Procs : Request(p) \/ Progress(p)
    \/ Tick
    \/ Crash

Spec == Init /\ [][Next]_vars

(* A running command goes on and time passes; nobody has to send a request. *)
Fairness == (\A p \in Procs : WF_vars(Progress(p))) /\ WF_vars(Tick)

FairSpec == Spec /\ Fairness

-------------------------------------------------------------------------------
(* Properties.                                                             *)

IsAsWanted(s) ==
    /\ s.active = wanted.active
    /\ s.kill = wanted.kill
    /\ wanted.active => s.mode = wanted.mode

(* While session commands come one at a time and none dies half way, the
   file shows what they ask for: the last start's mode, stopped once a stop
   has ended, killed from the end of a kill until a start.                 *)
FileShowsTheSession ==
    orderly /\ Writers = {} => IsAsWanted(ReadControlSession)

(* The kill switch is on disk and no command is about to rewrite it.       *)
Sealed == file.form = "json" /\ file.session.kill /\ Writers = {}

(* p begins a session command that a killed session lets through.          *)
BeginsCommand(p) ==
    /\ proc[p].pc \notin WritingSteps
    /\ proc'[p].pc \in WritingSteps
    /\ p \in Local \/ proc'[p].req.op = "kill"

(* A kill switch at rest stays on, whatever requests the VM has under way
   or sends and whatever crashes, until a command is run on the Mac itself
   or the switch is thrown again.                                          *)
KillHolds ==
    [][Sealed => Sealed' \/ \E p \in Procs : BeginsCommand(p)]_vars

(* p's live action has just been let through.                              *)
LetThrough(p) == proc[p].pc # "act" /\ proc'[p].pc = "act"

(* With the kill switch at rest no further action on the Mac is let
   through, with an approval or without, however far its request had come. *)
KillBlocks ==
    [][Sealed => \A p \in Procs : LetThrough(p) => proc[p].req.class = "codex"]_vars

(* Between orderly session commands, an action goes ahead without an
   approval only in the session the customer has granted: active, not
   killed, its warning over, in a mode that covers the action - at the time
   of the action's last check, not merely when the server looked.          *)
ActsAsGranted ==
    [][orderly /\ Writers = {} =>
         \A p \in Procs : LetThrough(p) /\ ~proc[p].req.approved =>
            /\ wanted.active /\ ~wanted.kill
            /\ file.session.left = 0
            /\ wanted.mode = "full_access" \/ proc[p].req.class = "routine"]_vars

Starting(p) == p \in Writers /\ Op(p) = "start"

(* A session that is not active becomes active by a start alone: no stop or
   kill that works on an old copy, and no half-written file, revives it.   *)
StopIsFinal ==
    [][~ReadControlSession.active /\ (\A p \in Procs : ~Starting(p))
         => ~ReadControlSession'.active]_vars

(* The file is open for writing, and whatever it held is truncated.        *)
FileOpen == \E p \in Procs : proc[p].pc \in {"write1", "write2"}

(* Starting again and again does not put off the end of the warning: while
   session commands come one at a time, every warning on disk is at some
   time over, and not just unreadable.                                     *)
WarningEnds ==
    []orderly => (Warning(ReadControlSession) ~> ~Warning(ReadControlSession) /\ ~FileOpen)

(* The documented meaning of the kill switch: once thrown, no live session
   until the customer starts one
   (docs/desktop-control-engine-v2.md:35-37).                              *)
KilledStaysDown ==
    wanted.kill => ~(ReadControlSession.active /\ ~ReadControlSession.kill)

(* A paired VM cannot clear the kill switch
   (docs/customer-mac-connector.md:212-214).                               *)
RemoteCannotClearKill ==
    [][\A p \in Remote :
         /\ wanted.kill
         /\ proc[p].pc \in {"write1", "write2"} /\ proc'[p] # proc[p] /\ file' # file
         => ReadControlSession'.kill]_vars
===============================================================================
