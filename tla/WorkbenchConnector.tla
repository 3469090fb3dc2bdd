-------------------------- MODULE WorkbenchConnector --------------------------
(***************************************************************************)
(* Turning Mac Access on and off in the Workbench app:                     *)
(* WorkbenchConnectorProcessManager starts a helper, waits until one       *)
(* answers a ping, and starts the connector that will act through it.      *)
(*                                                                         *)
(* Everything runs on the main actor, so that a piece of code between two  *)
(* awaits is one step; but each press of Turn On is a task of its own, and *)
(* others run while it is suspended: during the ping of a helper that runs *)
(* already ("pinging"), of the one it has launched ("waiting"), and while  *)
(* it asks for the address to listen at ("address").                       *)
(*                                                                         *)
(* A process is named by the call of start that launched it.  It is told   *)
(* to end by SIGTERM and ends a little later, so that it may still answer, *)
(* or hold its port, for a while; it may also end by itself.  What a       *)
(* helper does between its start and its first answer is in HelperIpc:     *)
(* here it takes over the socket path and the token file in one step.      *)
(***************************************************************************)
EXTENDS Naturals, FiniteSets

CONSTANTS Starts,   \* the calls of start, each for one press of Turn On
          Hosts,    \* the addresses that a connector may be told to use
          None

ASSUME WorkbenchAssumption == None \notin Starts

VARIABLES
    calls,      \* how far each call of start is
    manager,    \* process and helperProcess
    connector,  \* the connector that each call has launched
    helper,     \* the helper that each call has launched
    port,       \* who listens on port 8765 of each address
    path,       \* the helper that the socket path and the token lead to
    history

vars == <<calls, manager, connector, helper, port, path, history>>

Lives == {"new", "starting", "up", "told", "ended"}

(* history: have calls of start overlapped, has the app crashed, was the last
   that was pressed Stop (or was the app left), and which calls of start
   were suspended then: Stop does not tell them.                           *)
History == [overlapped : BOOLEAN, crashed : BOOLEAN, off : BOOLEAN, caught : SUBSET Starts]

(* `answered' is the helper whose answer to the ping let the call go on;
   `calm' says that no other call was under way, and since the call nothing
   else was pressed, no helper or connector ended and the app did not crash. *)
Call ==
    [pc : {"idle", "pinging", "waiting", "address", "done"},
     answered : Starts \cup {None}, calm : BOOLEAN]

TypeOK ==
    /\ calls \in [Starts -> Call]
    /\ manager \in [process : Starts \cup {None}, helper : Starts \cup {None}]
    /\ connector \in [Starts -> Lives]
    /\ helper \in [Starts -> Lives]
    /\ port \in [Hosts -> Starts \cup {None}]
    /\ \A h \in Hosts : port[h] # None => connector[port[h]] \in {"up", "told"}
    /\ path \in Starts \cup {None}
    /\ path # None => helper[path] \in {"up", "told"}
    /\ history \in History

Init ==
    /\ calls = [s \in Starts |->
                  [pc |-> "idle", answered |-> None, calm |-> FALSE]]
    /\ manager = [process |-> None, helper |-> None]
    /\ connector = [s \in Starts |-> "new"]
    /\ helper = [s \in Starts |-> "new"]
    /\ port = [h \in Hosts |-> None]
    /\ path = None
    /\ history = [overlapped |-> FALSE, crashed |-> FALSE, off |-> TRUE, caught |-> {}]

-----------------------------------------------------------------------------

IsRunning(life, p) == p # None /\ life[p] \in {"starting", "up", "told"}

Terminate(life, p) ==
    IF IsRunning(life, p) THEN [life EXCEPT ![p] = "told"] ELSE life

Suspended(s) == calls[s].pc \in {"pinging", "waiting", "address"}
UnderWay     == {s \in Starts : Suspended(s)}

(* start returns; what it says is left out. *)
Returned == [pc |-> "done", answered |-> None, calm |-> FALSE]

(* What happens while other calls are suspended disturbs them. *)
Disturbed == [s \in Starts |-> [calls[s] EXCEPT !.calm = FALSE]]

(* stopComputerUseHelper *)
StopComputerUseHelper ==
    /\ helper' = Terminate(helper, manager.helper)
    /\ manager' = [manager EXCEPT !.helper = None]

-----------------------------------------------------------------------------

(* start: both run, and nothing is done. *)
AlreadyRunning(s) ==
    /\ IsRunning(connector, manager.process)
    /\ IsRunning(helper, manager.helper)
    /\ calls' = [Disturbed EXCEPT ![s] = Returned]
    /\ UNCHANGED <<manager, connector, helper>>

(* A connector whose helper has ended is ended, too. *)
DropConnector ==
    /\ ~ (IsRunning(connector, manager.process) /\ IsRunning(helper, manager.helper))
    /\ connector' = Terminate(connector, manager.process)

Kept == IF IsRunning(connector, manager.process) THEN None ELSE manager.process

(* The bridge is not installed, or the helper cannot be launched. *)
Offline(s) ==
    /\ DropConnector
    /\ calls' = [Disturbed EXCEPT ![s] = Returned]
    /\ manager' = [manager EXCEPT !.process = Kept]
    /\ UNCHANGED helper

(* startComputerUseHelper, to its first await *)
PingHelper(s) ==
    /\ DropConnector
    /\ IsRunning(helper, manager.helper)
    /\ calls' = [Disturbed EXCEPT ![s].pc = "pinging", ![s].calm = UnderWay = {}]
    /\ manager' = [manager EXCEPT !.process = Kept]
    /\ UNCHANGED helper

(* Variant: a helper is launched although one runs.                      *)
LaunchHelperAgain(s) ==
    /\ DropConnector
    /\ helper' = [helper EXCEPT ![s] = "starting"]
    /\ calls' = [Disturbed EXCEPT ![s].pc = "waiting", ![s].calm = UnderWay = {}]
    /\ manager' = [process |-> Kept, helper |-> s]

LaunchHelper(s) ==
    /\ DropConnector
    /\ ~ IsRunning(helper, manager.helper)
    /\ helper' = [helper EXCEPT ![s] = "starting"]
    /\ calls' = [Disturbed EXCEPT ![s].pc = "waiting", ![s].calm = UnderWay = {}]
    /\ manager' = [process |-> Kept, helper |-> s]

TurnOn(s) ==
    /\ calls[s].pc = "idle"
    /\ AlreadyRunning(s) \/ Offline(s) \/ PingHelper(s) \/ LaunchHelper(s)
    /\ history' = [history EXCEPT !.overlapped = @ \/ UnderWay # {}, !.off = FALSE,
                                       !.caught = {}]
    /\ UNCHANGED <<port, path>>

(* helper ping is answered by whoever listens at the path. *)
Answered(s) ==
    /\ calls[s].pc \in {"pinging", "waiting"}
    /\ IsRunning(helper, path)
    /\ calls' = [calls EXCEPT ![s].pc = "address", ![s].answered = path]
    /\ UNCHANGED <<manager, connector, helper, port, path, history>>

(* Variant: start goes on without an answer.                             *)
UnansweredIgnored(s) ==
    /\ calls[s].pc \in {"pinging", "waiting"}
    /\ calls' = [calls EXCEPT ![s].pc = "address"]
    /\ UNCHANGED <<manager, connector, helper, port, path, history>>

(* One ping failed, or those of three seconds.  The helper that ran already
   is left running; whichever is the manager's now is stopped if the call
   had launched one.                                                       *)
Unanswered(s) ==
    /\ calls' = [calls EXCEPT ![s] = Returned]
    /\ \/ calls[s].pc = "pinging" /\ UNCHANGED <<manager, helper>>
       \/ calls[s].pc = "waiting" /\ StopComputerUseHelper
    /\ UNCHANGED <<connector, port, path, history>>

(* The rest of start, when the address is there. *)
LaunchConnector(s) ==
    /\ calls[s].pc = "address"
    /\ connector' = [connector EXCEPT ![s] = "starting"]
    /\ manager' = [manager EXCEPT !.process = s]
    /\ calls' = [calls EXCEPT ![s] = Returned]
    /\ UNCHANGED <<helper, port, path, history>>

CannotLaunchConnector(s) ==
    /\ calls[s].pc = "address"
    /\ StopComputerUseHelper
    /\ calls' = [calls EXCEPT ![s] = Returned]
    /\ UNCHANGED <<connector, port, path, history>>

(* Variant: the helper is left running.                                  *)
StopConnectorOnly ==
    /\ connector' = Terminate(connector, manager.process)
    /\ manager' = [process |-> None, helper |-> None]
    /\ UNCHANGED <<helper, port, path>>

(* stop *)
StopBoth ==
    /\ connector' = Terminate(connector, manager.process)
    /\ helper' = Terminate(helper, manager.helper)
    /\ manager' = [process |-> None, helper |-> None]
    /\ UNCHANGED <<port, path>>

Stop ==
    /\ StopBoth
    /\ calls' = Disturbed
    /\ history' = [history EXCEPT !.off = TRUE, !.caught = UnderWay]

(* The app ends and is opened again: its tasks are gone. *)
Lost ==
    [s \in Starts |-> IF Suspended(s) THEN Returned ELSE calls[s]]

Quit ==
    /\ StopBoth
    /\ calls' = Lost
    /\ history' = [history EXCEPT !.off = TRUE, !.caught = {}]

Crash ==
    /\ calls' = Lost
    /\ manager' = [process |-> None, helper |-> None]
    /\ history' = [history EXCEPT !.crashed = TRUE, !.off = FALSE, !.caught = {}]
    /\ UNCHANGED <<connector, helper, port, path>>

-----------------------------------------------------------------------------

(* The processes. *)
HelperListens(h) ==
    /\ helper[h] = "starting"
    /\ helper' = [helper EXCEPT ![h] = "up"]
    /\ path' = h
    /\ UNCHANGED <<calls, manager, connector, port, history>>

ConnectorListens(c) ==
    /\ connector[c] = "starting"
    /\ \E h \in Hosts :
           /\ port[h] = None
           /\ port' = [port EXCEPT ![h] = c]
    /\ connector' = [connector EXCEPT ![c] = "up"]
    /\ UNCHANGED <<calls, manager, helper, path, history>>

(* The port is in use, and the connector ends. *)
ConnectorRefused(c) ==
    /\ connector[c] = "starting"
    /\ \E h \in Hosts : port[h] # None
    /\ connector' = [connector EXCEPT ![c] = "ended"]
    /\ calls' = Disturbed
    /\ UNCHANGED <<manager, helper, port, path, history>>

(* Variant: a connector that has ended keeps its port.                   *)
ConnectorEndsListening(c) ==
    /\ IsRunning(connector, c)
    /\ connector' = [connector EXCEPT ![c] = "ended"]
    /\ calls' = Disturbed
    /\ UNCHANGED <<manager, helper, port, path, history>>

ConnectorEnds(c) ==
    /\ IsRunning(connector, c)
    /\ connector' = [connector EXCEPT ![c] = "ended"]
    /\ port' = [h \in Hosts |-> IF port[h] = c THEN None ELSE port[h]]
    /\ calls' = Disturbed
    /\ UNCHANGED <<manager, helper, path, history>>

HelperEnds(h) ==
    /\ IsRunning(helper, h)
    /\ helper' = [helper EXCEPT ![h] = "ended"]
    /\ path' = IF path = h THEN None ELSE path
    /\ calls' = Disturbed
    /\ UNCHANGED <<manager, connector, port, history>>

StartStep(s) ==
    \/ TurnOn(s) \/ Answered(s) \/ Unanswered(s)
    \/ LaunchConnector(s) \/ CannotLaunchConnector(s)

ProcessStep(p) ==
    \/ HelperListens(p) \/ ConnectorListens(p) \/ ConnectorRefused(p)
    \/ ConnectorEnds(p) \/ HelperEnds(p)

Next ==
    \/ \E s \in Starts : StartStep(s) \/ ProcessStep(s)
    \/ Stop \/ Quit \/ Crash

(* A process that was told to end does. *)
Fairness ==
    \A p \in Starts :
        /\ WF_vars(connector[p] = "told" /\ ConnectorEnds(p))
        /\ WF_vars(helper[p] = "told" /\ HelperEnds(p))

Spec == Init /\ [][Next]_vars
FairSpec == Spec /\ Fairness

-----------------------------------------------------------------------------

At(life, p)   == life[p] \in {"starting", "up"}   \* runs and is to go on
Gone(life, p) == life[p] \in {"new", "ended"}
Orderly       == ~ history.overlapped /\ ~ history.crashed

(* What runs and was not told to end is what the manager knows of, and what
   the next Stop, or the end of the app, will end.  Helpers are only lost
   when the app crashes (start launches none while its own runs);
   connectors also when two calls of start overlap, as the second one then
   overwrites the process of the first.                                    *)
NothingLeftBehind ==
    /\ ~ history.crashed => \A h \in Starts : At(helper, h) => manager.helper = h
    /\ Orderly => \A c \in Starts : At(connector, c) => manager.process = c

(* A connector is launched for a helper that can act for it: unless
   something came between, the helper of the manager runs, and the ping that
   start waited for was answered by it, or by an earlier one that has been
   told to end but listens still.                                          *)
LaunchedForHelper ==
    [][\A s \in Starts :
          connector[s] = "new" /\ connector'[s] # "new" /\ calls[s].calm /\ ~ history.crashed
              => /\ manager.helper # None /\ At(helper, manager.helper)
                 /\ calls[s].answered # None
                 /\ \/ calls[s].answered = manager.helper
                    \/ helper[calls[s].answered] = "told"]_vars

(* After Stop, or after the app was left, what start launched ends, unless
   Turn On is pressed again or calls of start overlapped or the app crashed
   before.  One thing may go on: the connector of a call that was suspended
   at that Stop, which resumes and launches it all the same; its helper does
   end.                                                                    *)
StopEndsAll ==
    (history.off /\ Orderly) ~>
        \/ ~ history.off \/ ~ Orderly
        \/ \A p \in Starts : Gone(helper, p) /\ (Gone(connector, p) \/ p \in history.caught)
=============================================================================
