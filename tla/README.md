# A TLA+ model of evaos-desktop-bridge

The bridge lets an agent on a paired VM act on a customer's Mac: through a
connector server, a command line, a resident helper that posts the events, and
a Workbench app that owns the processes. What makes it correct is mostly about
order: who may act now, who may stop it, what the audit log says of it, and
what is left when a process dies in the middle. The modules here model that
order; what is on the screen, and what a message says, is left out unless a
property needs it.

Paths below are relative to the repository's root; `bridge/` stands for
`src/evaos_desktop_bridge/`.

## Files

| Module | What it is |
| --- | --- |
| `ControlGate` | the session record and the decision that every live command is put through |
| `ControlSession` | the session file and every command that reads or writes it |
| `ControlSession_proofs` | the theorems about `ControlSession` |
| `MCControlSession` | the requests that TLC sends |
| `AuditedActuation` | abstract: what the bridge promises of an action it hands to the helper |
| `HelperIpc` | the helper's life, its socket and token, and the bridge commands that act through it |
| `HelperIpc_proofs` | the theorems about `HelperIpc` |
| `MCHelperIpc` | the symmetry used by TLC |
| `ApprovalGate` | dry runs, the audit log, and both gates looking an approval up in it; extends `ControlGate` |
| `ApprovalGate_proofs` | the theorems about `ApprovalGate` |
| `MCApprovalGate` | the texts and the requests that TLC uses |
| `Screen` | the app in front and the owner of each process id, as other programs change them |
| `DesktopPlans` | for each command on the customer's Mac, the checks and the engines in the order they are tried |
| `DesktopActions` | what those checks and engines do; extends both |
| `DesktopActions_proofs` | the theorems about `DesktopActions` |
| `MCDesktopActions` | the processes and the commands that TLC uses |
| `VisibleMessage` | the Codex Desktop adapter: looking at the window, selecting a thread, sending a message |
| `VisibleMessage_proofs` | the theorems about `VisibleMessage` |
| `MCVisibleMessage` | the titles that TLC uses |
| `AppServerRpc` | one JSON-RPC session with the Codex app-server, over each of three transports |
| `AppServerRpc_proofs` | the theorems about `AppServerRpc` |
| `MCAppServerRpc` | its instance for TLC |
| `WorkbenchConnector` | the Workbench app turning Mac Access on and off |
| `WorkbenchConnector_proofs` | the theorems about `WorkbenchConnector` |

## Inventory

The system's parts, with the state each keeps, its operations, whom it talks
to, what is hard about it, and what makes it correct.

**Control session** (`bridge/state.py`). State: `control-session.json` (active,
mode, kill switch, deadline of the takeover warning). Operations: read, start,
stop, kill. Callers: threads of the connector server and command line processes,
with nothing but the file in common. Hard: no lock, so each operation is a read,
and an open and a write for each save (a kill saves twice; so does a start that
alerts the customer, several seconds apart); a reader may find the file
truncated or garbled and then takes the default session, whose kill switch is
off; a process may die between any two of these steps. Correct: the file shows
what was asked for; a kill lasts; only a start makes a session active; a warning
ends.

**Live-action gates** (`bridge/connector_server.py` `_remote_kill_switch_error`,
`_live_guarded_approval_error`; `bridge/cli.py` `_validate_guarded_approval`).
No state of their own. The connector checks the kill switch, then its gate, then
runs the command line, which checks again; each reads the session file for
itself. Hard: what the first read saw may be false by the last. Correct: at the
last check the session grants the action or an approval does, and a kill switch
is obeyed.

**Approval records** (`bridge/state.py` `read_audit_record`,
`approval_audit_freshness_error`; `bridge/cli.py`). A dry run leaves an audit
record; a live call names it, and must match its command and fields within
fifteen minutes. Hard: reuse, expiry between the two gates, the clock. Correct:
a live call that needs an approval has a fresh one for the same thing.

**Audit log, latest observation, queue** (`bridge/audit.py`, `bridge/state.py`,
`bridge/queue.py`). Files that are appended to, or overwritten. Hard: a torn
line. Correct: what was done can be told from the log.

**Customer-Mac adapter** (`bridge/adapters/customer_mac.py`). State: snapshot
index files. Operations: observations; actions, each with its blocks (sensitive
app, target identity, browser) and its engines (helper, Peekaboo, System Events,
accessibility). Hard: an element that has gone stale; an engine that fails after
it has acted, and the next one that acts again. Correct: an action is performed
at most once, on the target the snapshot showed, and the result says whether.

**Computer-use helper** (`bridge/helper_ipc.py`). State: token file, socket
path, one connection at a time. Operations: start (write a token, take the path,
listen), serve (read a frame, authorize, execute, answer), end. Talks to the
bridge commands over a Unix socket. Hard: the client gives up after two seconds
and the frame is still executed; either side dies at any step; another helper
takes or removes the path; a silent peer. Correct: nothing is posted without its
authorization record, or twice; the completion record is true; the helper goes
on serving, and is reachable.

**Connector server** (`bridge/connector_server.py`). A thread per request, which
runs the command line in-process. Also bearer-token authentication and
enrollment with the control service. Hard: threads interleave at every file
access. Correct: see the session and the gates.

**Command line and connector service** (`bridge/cli.py`, `bridge/policy.py`).
`main` gates, runs, audits and saves the latest observation; the connector
service commands drive launchd. Hard: a death between the action and its audit
record.

**Codex adapters** (`bridge/adapters/codex_macos.py`, `codex_app_server.py`).
Visible-thread actions behind an approval; a read-only JSON-RPC client with
deadlines. State: none that lasts; the composer and the open thread belong to
Codex. Hard: late answers on a shared pipe; partial reads; the screen changing
between check and act. Correct: a message goes to the thread that was asked for,
once, and the report says whether it went; every session ends and leaves no
server behind.

**VM side** (`openclaw-plugin/`, `hermes-adapter/`). A tool per command, an HTTP
call per tool, timeouts; a control start whose answer is lost is reconciled by
one status call. A firewall looks at other tools' calls. Hard: the reconciled
session may not be the one that was asked for.

**Workbench** (`apps/eva-desktop-mac/`). Starts and stops connector and helper,
shows state, decides approvals at the broker, switches customers. Everything
runs on the main actor but suspends at each await. Hard: start and stop
interleave; an answer comes back after the customer was switched. Correct: what
was started is known, and is ended by Stop; a connector has a helper to act
through.

**The rest** (manifest, redaction, schema, canaries, views, decoding models):
pure functions, test tooling or layout.

`PROJECT.json` lists all of them, with what is modelled of each, and the
hazards, each at the line where it bites.

## Plan

Done in this order, the most important behaviour first:

1. `ControlGate`, `ControlSession`: the session, the gates, the kill switch.
   Proved.
2. `AuditedActuation`, `HelperIpc`: acting through the helper, as a refinement.
   Proved.
3. `ApprovalGate`: dry runs, the audit log as a sequence of records, their age,
   both gates looking them up. Proved.
4. `Screen`, `DesktopPlans`, `DesktopActions`: every command on the customer's
   Mac, its checks and its chain of engines, on a screen that changes. Proved.
5. `AppServerRpc`: the session with the Codex app-server. Proved.
6. `VisibleMessage`: the commands on the window of Codex Desktop. Proved.
7. `WorkbenchConnector`: start and stop of connector and helper, suspended at
   their awaits. Proved.

"Proved" means the invariants and the action properties of the module; what needs
fairness is checked. What was considered and left out is under "Not modelled".

## ControlGate and ControlSession

`ControlGate` holds the record and the decision. Timestamps are kept as what is
left of them, `left`, which is all `takeover_warning_state` computes from them.
The commands fall into four classes, by what the two copies of the tables
(`connector_server.py:47-170`, `cli.py:75-205`) say of them; the tables were
compared and are the same. Whether the approval a request carries is valid is
part of the request (`approved`) in `ControlSession`; `ApprovalGate` has the
lookup, over a session that is read and written in one step.

`ControlSession` has one process for each connector thread (`Remote`) and each
command line process (`Local`), with a `pc` and its local variables, and the
file. The steps are the code's accesses to the file:

| Action | Code |
| --- | --- |
| `Request`, `KillCheck` | `do_POST`; `_remote_kill_switch_error` reads the file |
| `ServerGate`, `CliGate`, `Act` | the two gates, each with its own read, and the action |
| `Peek` | the first read of `control_start`: will it alert? |
| `Load` | the read in `start_control_session` / `stop_control_session`, and the new record |
| `Open`, `WriteOfKill`, `WriteOfStart`, `LastWrite` | `write_text`: truncate, then write; a kill and an announcing start do it twice |
| `EmitTakeoverWarning` | the alerts between a start's two writes |
| `Tick` | one second, for the deadline on disk and those in memory |
| `Crash` | a command line process, or the server with all its threads |

Overlapping writes: a record written over another one that landed after our
truncation may leave the tail of a longer one. Which one is longer depends on
labels and timestamps that are not in the model, so `Landed` allows both.
`left` of a garbled file has no reader. Two history variables say what the
finished commands ask for (`wanted`) and whether session commands have come one
at a time and to their end (`orderly`).

The properties: `FileShowsTheSession` relates the file to what was asked for,
`KillHolds` and `KillBlocks` are about a kill switch at rest (on disk, nobody
writing) and hold under any interleaving and any crash, `ActsAsGranted` about
the last gate, `StopIsFinal` about what can revive a session, `WarningEnds`
about a VM that keeps starting control.

They hold with the preconditions they state, and the two findings show what
happens without: `KilledStaysDown` (a kill that completes while a start alerts
the customer is overwritten by the start's second write, `customer_mac.py:451`,
though the kill switch "immediately stops the session and blocks future live
connector commands until the customer starts a new control session") and
`RemoteCannotClearKill` (a remote start checked before the kill clears it).

## HelperIpc and AuditedActuation

A helper (`Launches`) goes through `Launch` (the token), `Look` and `Unlink`
(whatever socket is at the path), `Bind`, `Listen`; then `Accept`, `Read`,
`Execute`, `Respond` for one connection after the other; it ends by `Terminate`
(SIGTERM from Workbench, or a crash: the socket file stays) or by `Interrupt`
and `Cleanup` (the `finally` clause unlinks the path). A bridge command
(`Commands`) goes through `Begin` (read the token), `Authorize` (first audit
record), `Connect`, `Send`, then `Receive` or `Timeout`, and `Complete` (second
record); it may `Die` anywhere. `Blocked` stands for the checks between them.

What is abstracted: the backlog is a set, as each command has one connection;
a token is named by the helper that made it; what an executor posts for one
request is one step, which may still end in an error (a menu path that is
pressed half way, an exception between two events); `Read` may fail at any time,
as the peer may be silent for two seconds; frames are whole or absent. A frame
stays readable after its sender has gone. Which exceptions `dispatch` turns into
an answer, and which reach the adapter's `except`, is kept: `unavailable` and
`failedBefore`.

`AuditedActuation` is the promise: authorized, then posted at most once, and
reported at most once, as done only if it was posted. `HelperIpc` is checked, and
proved, to implement it, with what is authorized and reported read off the audit
log. `SoleHelperReachable` says that what earlier helpers leave behind (token,
socket file) never keeps commands from a helper that is alone. `FramesAreServed`
is the claim of `docs/computer-use-helper-ipc.md` that read timeouts keep a
stalled peer from wedging the helper.

One finding: `FailedBeforePerforming` (the report "failed before performing" is
written of an action the helper performed and then ended). A frame may also be
executed after the command has given up and written its completion record;
`ActuationIsAudited` allows that, as the record then says no more than that there
was no answer, and `HelperHasTheLastWord` in `DesktopActions` is about what the
command may do meanwhile.

## ApprovalGate

A live command that its session does not grant needs an `approval_audit_id`: the
id of the audit record of a successful dry run of the same command with the same
fields, at most fifteen minutes old. The connector checks this against the
parameters as it was sent them (`connector_server.py:1218-1238`), turns them into
an argv, and the command line checks again against what its parser made of the
argv (`cli.py:1303-1335`); both look into a log whose texts have been redacted.
So a field exists in three versions, and whether they agree is the subject of
this module.

| Action | Code |
| --- | --- |
| `Request` | `do_POST`, or the parser of a terminal's command line |
| `KillCheck` | `_remote_kill_switch_error` |
| `ServerGate`, `ServerLookup` | `_live_guarded_approval_error`: the session part, then the record |
| `BuildArgv` | `build_bridge_argv` and the parser: a required field is missing, a default is filled in, a label stripped, an amount clamped |
| `CliGate`, `CliLookup` | `_validate_guarded_approval`: the same two parts |
| `Run` | the command or its dry run, which may fail |
| `AppendAudit` | `append_audit`, for refusals of the command line, too; what the connector refuses leaves no record |
| `Die` | a process ends, or `append_audit` raises |
| `ControlStart`, `ControlStop`, `KillSwitch`, `Tick` | the session, and time for it and for the records |

The thirty-three guarded commands treat a field of theirs in one of four ways
(`Takes`), pass it through the argv as it is or not (`Normalised`), and log it
redacted or as a hash (`Hashed`). There is one command of each combination that
occurs, with one field; the gates compare the fields of a command one by one, so
that several fields are so many comparisons of this kind. `_clamp_int` and
`strip` are a function `Normal`, redaction a function `Redact` that changes
nothing the second time. (The code redacts when it writes and again when it
reads.) An id that is not in the log is the reference 0.

Left out: the `confirm` flag that two Codex commands ask for besides; the clock
being set back (the code tolerates a minute); torn lines of the log. The session
changes in one step, as `ControlSession` is about its file.

`ApprovedByDryRun` can be read off the log alone, and is what an auditor would
check: every action that an approval let through points to an earlier dry run of
the same command with the same field. `GatesAgree` says that the second lookup
never contradicts the first one, the age apart. `RerunIsAccepted` is the promise
of `docs/customer-mac-connector.md:268-271`: rerun the exact same command with the
matching audit id. It holds for a field that comes through argv and redaction
unchanged (`Ordinary`). For others the code is stricter than its documentation
says, and no dry run approves them: a text with a home directory or a secret in
it, a label with blanks around it, an amount beyond its limits, and the
`attribute` of `desktop_set_value` or the `direction` of `desktop_scroll` left to
its default, which the command line fills in and the connector does not.
`GatesAgree` has one exception, too: a terminal's dry run that logged a label
with blanks around it is accepted by the connector and then fails the command
line, which has the stripped one.

## Screen, DesktopPlans and DesktopActions

A command of `customer_mac.py` looks at the screen, refuses or goes on, and asks
one engine after another until one answers well. `DesktopPlans` has each command
as a table: a sequence of stages that must all succeed, each a sequence of
operations that are tried in order. `DesktopActions` gives the operations their
meaning, and `Screen` is what they meet: the app in front (`front`) and the app
that each process id belongs to (`owner`), which change at any moment.

| Action | Code |
| --- | --- |
| `Begin`, `DryRun` | the command is called; a dry run returns before the first look |
| `Look`, `LookBrowser`, `LookShot`, `LookTree`, `PhoneFront` | the reads of the front app, each with its block |
| `CheckTarget`, `Resolve` | the element that a snapshot recorded: is it fresh, and not of a sensitive app |
| `Run`, `Act`, `AnswersOk`, `AnswersBadly` | an engine that the command runs itself: Peekaboo, System Events, an AX script, `open` |
| `WaitSees`, `WaitFails` | `_wait_for_frontmost` |
| `Keep` | screenshot and elements are stored as a snapshot |
| `Ask`, `HelperOk`, `HelperRefuses`, `HelperSilent` | `_mouse_action`, `_helper_ax_action` and the answer within two seconds |
| `HelperActs`, `JobEnds` | the helper, which may go on when nobody waits |
| `Switch`, `Reassign`, `SnapshotAges` | apps come to the front, end, and take over pids; time passes |

An engine acts at most once, when it pleases, before it answers; one that fails
or exceeds its time-out is killed, does nothing more, and may have acted. Those
that are given no process act on whatever is in front when they act. `seen` and
`phone` date what the command has last read, so that a property can say "unless
it changed since".

`HelperHasTheLastWord` says why the helper and another engine never do the same
thing side by side, though a job the command has given up may still be done: the
helper is asked last, or its silence ends the command, as for menus. `DoneOnce` relates a
stage's success to what its engines did: the text of an approved message was
typed before Send is pressed, and is typed again only after an engine that
failed. (That one may have typed all the same, which the code accepts.)
`SensitiveSpared`, `PhoneGetsItsInput` and `AddressedSpared` are about who is
acted upon; each has to hold along every chain of fallbacks, and each states the
gap between looking and acting as its exception.

Assumed and abstracted: the name an app is asked for is the name of its process;
the pid and its name are found in one step, and so are the helper's check of the
target and its event; an element in a process that ended cannot be pressed;
whether Peekaboo is available is asked once in each stage; only the latest
snapshot matters; commands come one after another. Dry runs return before the first look, while
`local_site_action`, `iphone_tap` and `desktop_click` resolve their target first
and may refuse it: a dry run changes nothing either way, and no property is about
its answer. A front app that cannot be
read is not blocked (`customer_mac.py:2716`), so the properties leave that case
out. `desktop_menu` reads the front app a second time (`:838`) and addresses its
menu by the second read, so `AddressedSpared` excepts menus from the denylist. The
click that recovers the focus of the phone is sent to whatever app is in front
(`:1128`), though its warning says that the window of iPhone Mirroring was
clicked.

## VisibleMessage

The commands of `CodexDesktopObserver` (`codex_macos.py`): snapshot, focus,
select-thread, send-visible-message and continue. Each is a sequence of programs
(`Following`), one action for each; the screen has the app in front, the rows of
the list of threads in their order, the open thread, the text fields, where the
keyboard is, and the sign of a turn under way. It changes between any two
programs, and a program may fail before or after it has done what it was for.

| Action | Code |
| --- | --- |
| `MatchTitle`, `FindTarget`, `FindRow`, `Verify` | looking a thread up by title or visible id, its row, and whether the row is selected |
| `CheckFront`, `CheckTree` | `_visible_message_preflight`: is Codex in front, and which field is the composer |
| `Look`, `Capture` | `snapshot`: a look at what is in front, then the picture |
| `Focus`, `ClickRow`, `ClickField`, `Type`, `Return` | the programs that act |
| `Peek`, `Observe`, `Judge` | a poll after the submit, and its verdict |

`stale` names the facts that have changed since the command last looked, and
whether the click into the list met the row that was found. `MessageReachesTarget`
says where the keystrokes go, as a relation between what the command looked at (up
to ten programs earlier) and the screen at the moment of the keystroke;
`SelectsTheRowFound` and `PicturesShowCodex` say the same of the click that
selects a thread and of the pictures. `ReportTellsSent` and `VerdictIsEarned` are
about the report: what it may say, given what happened.

The check after the click (`Verify`) is what should notice that the list was
reordered before the click, and that another thread was opened by it. It is content
with a row that is selected *or* focused (`codex_macos.py:1510`), so
`ShownSelected` is both: the row of the open thread, or the one that the keyboard is
in (`focus` may be a row; a click may put it there, or not). A row that only has the
keyboard says nothing of the open thread (`Learnt`), and `MessageReachesTarget` has
to except it: a click that met another row is noticed unless the row it was for has
the keyboard. Without that exception (`"click"` in `Reaches`) TLC finds the message
submitted to another thread than the one asked for: the rows change places after the
second listing, the click opens the other one, and the keyboard is in the row asked
for when the check comes, which calls itself a confirmation of "the selected target"
(`codex_macos.py:1519`).

Assumed: the row that Codex shows as selected is the open thread; the list shows
all titles or none; the candidates are the rows; two fields can pass for the
composer, and the search field comes last in the tree. Abstracted: `continue` takes
the one thread with a title (the code, the one whose title has the text in it,
`:892`); `focus` has brought Codex to the front when its program says so, as the code
believes (it does not look again, `:382-396`); the signs of a turn that failed and
of one that is done end the wait alike (`:1434-1437`), and are one. Left out are the dry run
of focus and a live message that is not confirmed, which return before anything
is looked at, and what changes before the first program, which the initial
screens cover. What a failed submit says of `submitted` (`False`, also when Return
went through, `:815`) is in no property: `ReportTellsSent` is about the verdict of the
report, `ok`, failed, or failed in the submit.

## AppServerRpc

A session of `CodexJsonRpcClient` (`codex_app_server.py`): it connects, shakes
hands where there are WebSocket frames, asks `initialize` and then at most one
method, may collect notifications, and closes. `pipe` is what the server has
written, `buf` what the client has read and not yet understood, which for lines
over stdio is the buffer of `readline` and for frames the rest of a read. What
the server writes arrives in two parts, and the client may read between them.

| Action | Code |
| --- | --- |
| `Start`, `Ask` | spawning or connecting; `_request_raw` writes |
| `ReadLine` | `select` and `readline` of `LineProcessTransport` |
| `Receive`, `ReadFrame`, `ReadGarbage`, `ReadRaises` | the frames of the two WebSocket transports, and the proxy transport after it forgot a header |
| `Tick` | 50 ms in which nothing can be read, and what the deadline does |
| `CloseTransport`, `Reap` | `close`: the process group is told to end, waited for and killed |
| `ServerShakes`, `ServerSends`, `ServerEnds`, `ServerDies` | the server, which is not part of the repository |

`AnsweredIsNotGivenUp` says in which cases a request that was answered is
reported as timed out: never with a socket. `SuccessIsGranted` counts a request
of the server's own with the same id as an answer, as `_request_raw` does.
`EventsFollowTheAnswer` says that what a subscription returns is a stretch of
what the server sent, in order. `SessionEnds` has an exception that the code has:
a server that writes half a line over stdio holds `readline`, and with it the
client, for as long as it likes.

The finding, `OnlyTheUnansweredIsGivenUp`: over stdio an answer that arrives
together with the line before it is read ahead, and `select` does not see it.

Assumed: the server answers a request at most once; what is in the pipe of a
process that ended can be read to its end (over stdio) or not at all (the
proxy); nobody but the process itself holds its pipe. What the client does not understand is
like a request with another id. Time passes only while the client waits.

## WorkbenchConnector

`WorkbenchConnectorProcessManager` (`WorkbenchModel.swift`): `start` launches a
helper, unless its own runs, waits until one answers a ping, asks for the address
and launches the connector; `stop` tells both to end. All of it runs on the main
actor, so that the code between two awaits is one step, but every press of Turn
On is a task of its own, and while it waits others run, and Stop does.

| Action | Code |
| --- | --- |
| `TurnOn` | `start` up to its first await, in its four ways: nothing to do, no bridge, a helper that runs already, a helper launched |
| `Answered`, `Unanswered` | the ping, once or for three seconds |
| `LaunchConnector`, `CannotLaunchConnector` | the rest of `start` |
| `Stop`, `Quit`, `Crash` | `stop`; the end of the app, by itself or not |
| `HelperListens`, `HelperEnds` | the helper's life; its details are in `HelperIpc` |
| `ConnectorListens`, `ConnectorRefused`, `ConnectorEnds` | the connector's life and the port |

A process told to end by SIGTERM goes on for a while: it may answer a ping or hold
its port. A ping is answered by whoever is at the path, and may always fail.
`history` records whether calls overlapped, whether the app crashed, whether Stop
was the last that was pressed (`off`), and which calls of `start` were suspended
then (`caught`); `calm` and `answered` what a call of `start` has seen.

`NothingLeftBehind` is the point of the module: whatever goes on running is what
the manager knows of, and so is ended by Stop. It holds unless the app crashes,
and for connectors unless presses of Turn On overlap: then the second call writes over
the first one's process, which no Stop ends any more (`Orderly` excepts both;
the hazards have the lines). With the type invariant it says of the port, too,
that it is held only by the manager's connector or by one on its way out.
`LaunchedForHelper` is about what a call knew before an await and acts on after it.
`StopEndsAll` is about Stop as the user understands it: whatever was launched
ends, unless Turn On is pressed again. It has one exception: a call of `start` that
was suspended when Stop was pressed is not told, resumes, and launches its connector,
which goes on (`WorkbenchModel.swift:2776-2805`). Its helper ends. Without that
exception one press of Turn On and one of Stop suffice for TLC to find a connector
that goes on though the button "Stops the local connector service on this Mac"
(`BridgePanelView.swift:118`); the next Stop ends it, as `NothingLeftBehind` says.

Left out: what `start` says in its messages, and how long an app that ended
stays closed.

## Runs

| Run | Instance | States | Shows |
| --- | --- | --- | --- |
| `session_safety` | one connector thread, one local process, every command and class, a warning of 2 s, fair | 246,573 | the type invariant, `FileShowsTheSession`, `KillHolds`, `KillBlocks`, `ActsAsGranted`, `StopIsFinal`, `WarningEnds` |
| `session_kill_undone` | a start and a kill | violated | `KilledStaysDown` |
| `session_remote_clears` | a remote start and a local kill | violated | `RemoteCannotClearKill` |
| `helper_safety` | two commands, two helpers, a backlog of 1, symmetric | 247,454 | the type invariant, `SoleHelperReachable`, `ActuationIsAudited` |
| `helper_liveness` | two commands, one helper, a backlog of 2, fair | 10,698 | `FramesAreServed` |
| `helper_failed_before` | one command, one helper | violated | `FailedBeforePerforming` |
| `approval_safety` | a connector thread, a local process, five of the eight commands, four texts, two records, an age of 1 | 703,082 | the type invariant, `ApprovedByDryRun`, `GatesAgree`, `RerunIsAccepted` |
| `desktop_safety` | one command of twenty-eight kinds, a browser, an app of the denylist and iPhone Mirroring, one change from outside, fair | 576,747 | the type invariant, `HelperHasTheLastWord`, `SensitiveSpared`, `PhoneGetsItsInput`, `AddressedSpared`, `DoneOnce`, `CommandEnds` |
| `rpc_safety` | three transports, probe and subscription, a deadline of two slices, two events, three messages of the server's own, fair | 1,193,174 | the type invariant, `SuccessIsGranted`, `EventsFollowTheAnswer`, `AnsweredIsNotGivenUp`, `ServerIsReaped`, `SessionEnds` |
| `rpc_readahead` | stdio | violated | `OnlyTheUnansweredIsGivenUp` |
| `visible_safety` | two threads and titles, a wait of two intervals, two changes of the screen | 2,478,296 | the type invariant, `ReportTellsSent`, `VerdictIsEarned`, `MessageReachesTarget`, `SelectsTheRowFound`, `DryRunOnlyLooks`, `PicturesShowCodex` |
| `workbench_safety` | three presses of Turn On, one address, fair | 631,666 | the type invariant, `NothingLeftBehind`, `LaunchedForHelper`, `StopEndsAll` |

Bounds. Two processes are enough for every pair of overlapping accesses, and
the session file is the only thing they share; the theorems cover any number. A
warning of 2 s has a state in which it runs, one in which it is about to end and
one in which it is over. Two helpers are enough for one to start while the other
starts, serves or ends, and for one to take over what the other left; two
commands for one to wait behind the other, and a backlog of 1 for one to be
refused. The helper's commands and launches are finite, so that a behaviour ends
when all are used up: the helper runs do not check deadlock. `posted`, the only
counter, is bounded by the property itself. In `ApprovalGate` two records
(`MaxRecords`) are an approval and what it approves, and no lookup involves more
than one record and one process; with a local process the log grows under a
request that is on its way. `MaxAge = 1` has records that are new, at the limit
and too old. Of the four texts one is changed by redaction, one by the argv, and
one is a risky label. The run leaves out `desktop_type`, `desktop_scroll` and
`codex_continue_thread`, whose fields go the way of another command's; the
theorems have all eight.

In `DesktopActions` one change (`MaxMoves`) is enough for whatever a command has
seen to be false when it acts, at any of its steps, and one command (`MaxCommands`)
with any snapshot that an earlier one can have left, as commands share nothing else
but the snapshot and the helper's late jobs, which no command asks for. Each app
has one process, and a pid can be given to another app. The kinds left out have
the plan of another one, or one that is a part of it. In `AppServerRpc` three
messages of the server's own are one before, one between and one after the
answers, or one more than a subscription takes (`MaxEvents`); a deadline of two
slices has one in which the client may still read. In `VisibleMessage` two
threads are the one that is meant and another, in both orders; two changes may
undo each other, or change two facts; a wait of two intervals has three polls,
in which idleness can be seen twice in a row, or interrupted. In
`WorkbenchConnector` three presses are a call, one that overlaps it, and one after
both; with a single address all connectors compete for one port (the theorems
have any addresses). The runs whose behaviours end, when the commands are used
up or the session is over, do not check deadlock.

Fairness. `ControlSession`: a command under way goes on (its steps are calls
that return; the alerts have time-outs) and time passes; nobody has to send a
request or crash. `HelperIpc`: a helper that runs takes its next serving step
(its reads have time-outs, `accept` returns when somebody waits); commands may
stop anywhere, and helpers need not be started. `DesktopActions`: a
command takes its next step, as every program it runs has a time-out and is killed
when that is over; neither the helper nor whoever changes the screen is expected
to do anything. `AppServerRpc`: the client takes its next step
if there is one, and time passes; nothing is expected of the server.
`WorkbenchConnector`: a process that was told to end ends; a call of `start` is
not expected to go on, as the program that tells the address has no time-out.

## Theorems

`ControlSession_proofs`, for any processes, requests and length of the warning:

- `TypeCorrect`: the type invariant.
- `Inductive`: `IInv`, which says of the one session command under way what it
  has read, holds and has written, as far as the history is orderly.
  `FileShowsTheSession` alone is not inductive: it says nothing while somebody
  writes, and what a writer leaves on disk depends on what it read before.
  `FileShows` follows from it.
- `KillSwitchHolds`, `KillSwitchBlocks`, `ActionsAreGranted`, `OnlyStartsRevive`:
  the action properties, one step of the proof for each action that could
  violate them.

The assumptions are those of the modules: the warning lasts at least one second,
`Remote` and `Local` are disjoint, requests have their type.

`HelperIpc_proofs`, for any commands, helpers and backlog:

- `TypeCorrect`: the type invariant.
- `AloneIsReachable`: `SoleHelperReachable`. It is strengthened by
  `AloneServes`: while one helper is alone the others have not started or have
  ended, so from its `Launch` on the token is its own, and from its `Bind` on the
  path is.
- `ImplementsAudited`: `ActuationIsAudited`. Recording the authorization and the
  completion and posting the action are the abstract steps, everything else is a
  stutter.
- `Inductive`: `IInv`, on which they rest. `TypeOK` alone is not inductive, since
  `Connect` writes over the connection: `LinkedLate` says that there is none yet.
  For the refinement, `AuthorizedFirst` says that a command that connects, and a
  connection that outlives its command, has its authorization in the log;
  `PostedOnce`, that what has been posted is only answered after that, or its
  connection is closed, so that nobody executes it again; `DoneIsPosted`, that an
  `ok` on its way through helper, connection and command is true; and
  `ReportedLast`, that a completion record is the end of its command.

Assumed is `HelperAssumption`: the backlog is positive, and `None` is neither a
command nor a helper.

`ApprovalGate_proofs`, for any processes, requests, texts, ages and length of the
log:

- `TypeCorrect`: the type invariant.
- `ActionsAreApproved`: `ApprovedByDryRun`.
- `LookupsAgree`: `GatesAgree`.
- `RerunsAreAccepted`: `RerunIsAccepted`, with a second inductive invariant,
  `RemoteParses`: what the connector's command line has is always what the argv
  made of what was sent, whether or not an approval was looked up.
- `Inductive`: `IInv`, on which they rest. An approval is carried from the record
  it names to the record of the action: what the connector found is still in the
  log while the argv is built and parsed (`FoundIsThere`: the log only grows, and
  ageing changes nothing but the age), what the command line has is what the argv
  made of what was sent (`FieldFromSent`), what it found is still there when the
  action is recorded (`GrantedIsThere`), and to redact once more what is found in
  the log changes nothing (`LogIsRedacted`), without which the record of the
  action could differ from that of its dry run.

Assumed is `ApprovalAssumption`: the two kinds of process are disjoint, requests
have their type, `Redact` is idempotent on the texts and `Normal` maps them to
texts.

`VisibleMessage_proofs`, for any threads and titles, wait and number of changes:

- `TypeCorrect`: the type invariant.
- `MessageCorrect`, `SelectCorrect`, `DryRunCorrect`, `PicturesCorrect`: the
  action properties `MessageReachesTarget`, `SelectsTheRowFound`,
  `DryRunOnlyLooks`, `PicturesShowCodex`.
- `ReportCorrect`, `VerdictCorrect`: `ReportTellsSent` and `VerdictIsEarned`.
- `Invariant`: `IInv`, on which they rest. The action properties are about the
  moment of a click or a keystroke, and what makes them true was found out several
  programs before; so `IInv` carries each fact along the programs between
  (`FrontKnown`, `ShotKnown`, `RowKnown`, `TitleKnown`, `ThreadKnown`,
  `FieldKnown`): it still holds, unless `stale` names it. `ThreadKnown` begins with the
  click: unless that is known to have missed the row, the open thread is the one
  asked for (the lemma `Meets`), and a check that saw only the keyboard in the row adds
  nothing to it. `Whose` says which
  commands get to which programs, `SentKnown` and `PollKnown` what has been sent and
  seen by then, without which `ReportTellsSent` and `VerdictIsEarned` are not
  inductive.

Assumed are `VisibleAssumption` (there are finitely many threads, at least one,
each has a title, and `Hidden` is none) and `NoneAssumption`, that `None` is
none of the values it stands beside.

`WorkbenchConnector_proofs`, for any number of presses and addresses:

- `TypeCorrect`: the type invariant.
- `NothingIsLost`: `NothingLeftBehind`.
- `LaunchCorrect`: `LaunchedForHelper`.
- `Invariant`: `IInv`, on which they rest. That a launch loses no process needs
  `NoneToLose` (while a call is suspended, the connector before it is on its way
  out) and `HelperNotTold`; that calls come one at a time is noted by
  `OneAtATime`; what an undisturbed call has seen still holds by `HelperIsThere`
  and `AnswerStands`. `LaunchedOnce` (the processes of a call that has not
  launched them are new) is needed for the type invariant, too: otherwise a
  launch could start a process afresh that still holds a port.

Assumed is that `None` is no call of `start`.

`DesktopActions_proofs`, for any apps, processes and denylist, any number of
commands and of changes of the screen, and all thirty-nine kinds of command, of
which the run has twenty-eight:

- `TypeCorrect`: the type invariant.
- `LastWord`: `HelperHasTheLastWord`.
- `Spared`, `PhoneSpared`, `Addressed`, `OnlyOnce`: the action properties
  `SensitiveSpared`, `PhoneGetsItsInput`, `AddressedSpared`, `DoneOnce`.
- `Invariance`: `IInv`, on which they rest. That each of the plans is fit for the
  properties is a lemma about the table, `PlansFit`: the helper is the last
  operation of its stage, but for menus; an AX action comes right after the check
  of its target; a look that lets the next operation be skipped is followed by it
  (`Step`). A plan of one stage looks before anything that acts on what is in
  front (`Careful`); one of several first brings the app to the front and waits
  to see it there (`Focusing`), and every operation of an acting command that
  may succeed does something (`Active`).
  `IInv` says of the command at any place of such a plan what it
  knows: once it has looked it would know an app of the denylist in front
  (`Spares`), and past its first stage another app than iPhone Mirroring
  (`KnowsPhone`), as both are dated, and the screen changes only with a new date.
  `Tallied` counts what was done in the stage, and `JobIsAsked` says the same of
  a job while the command waits for the helper's answer: `HelperHasTheLastWord`
  alone is not inductive, since a job outlives the command, and it takes `OneJob`
  (a command has one job, and none is older than its command) to tell that the jobs
  of a new command are its own.

Assumed are `ScreenAssumption` (the denylist are apps, browsers and iPhone
Mirroring are apps outside of it, `None` is nothing else) and
`CommandsAssumption`.

`AppServerRpc_proofs`, for any deadlines and limits, any of the transports and
goals, and any number of messages of the server's own:

- `TypeCorrect`: the type invariant. That there is room for the number of the next
  notification is a matter of counting (`Room`): those before it are as many
  messages, and the server has said fewer than the bound.
- `Success`, `Events`: `SuccessIsGranted`, `EventsFollowTheAnswer`.
- `GivenUp`, `Reaped`: the action properties `AnsweredIsNotGivenUp` and
  `ServerIsReaped`.
- `Invariance`: `IInv`, on which they rest. Its subject is the stream, `buf` and
  `pipe` together, and what is still `Unread` there. What is unread is in the order
  in which it was sent (`InOrder`), later than all that was taken (`Later`), and what
  was sent later than something unread is unread itself (`EarlierIsRead`, but not of a
  proxy, which loses messages); so an event more is the next event, and nothing is
  skipped (`AllCollected`). An answer that is waited for is unread (`AnswerIsThere`)
  as long as the transport is in step. `Lines` says where a line over stdio begins
  and ends, without which a process that ended could leave a message behind that
  nobody reads. `Numbered`, `WritesTheNewest`, `AnswersTheAsked`,
  `SilentIfUnreached` and `ShakesFirst` are what can be relied on of the server.

The proof has one lemma for a step that takes a message out of the stream
(`Understands`), whichever transport reads it, one for a step that takes none
(`Proceeds`), and for each of the actions a lemma that says which of the two it is
and what it does to the stream; what dropping a part at the front or adding one at
the end does is said once, of sequences of parts (`DropOne`, `DropLine`,
`AppendHead`, `AppendRest`).

Assumed is `RpcAssumption`: deadlines and limits are positive, the transports and
goals are those of the module, and `None` is no number.

Only model-checked: what needs fairness (`WarningEnds`, `FramesAreServed`,
`CommandEnds`, `SessionEnds`, `StopEndsAll`), out of the prover's reach, and the
violations. Every invariant and action property of a run that passes has its
theorem. The inductive invariants were checked by TLC before they were proved, each
on the instance of its module's run or a larger one.

## Not modelled

- The content of the screen and of messages: which label, which element, which
  text. Where it decides something it is a choice, or a member of a small set.
- Authentication of the VM and enrollment: comparisons of tokens, and one call to
  a service, without state here.
- The connector service commands: what they drive is launchd, whose states are
  not in the repository.
- `openclaw-plugin/` and `hermes-adapter/`: one HTTP call for each tool, none of
  them retried. Their requests are those of `Remote` in `ControlSession`. The status
  call that reconciles a lost control start (`bridge.ts:1598`) takes any session
  with the same label for its own, which leaves nothing to promise of it.
- Sign-in, customers and the refreshes of approvals in the Workbench app: a refresh
  that waits for the broker while the user signs out, or decides a request, shows
  its late answer all the same (`WorkbenchModel.swift:1290`, `1325`). Apart from
  what holds by construction, nothing holds once two of them overlap.
- How much a program writes: `commandOutput` (`WorkbenchModel.swift:3074`) waits for
  the end of a program before it reads its output, and for ever if that is more than
  a pipe holds.
- The audit log as a file: a torn last line joins the next record and both are
  skipped (`audit.py:54`). The order of action and record is in `HelperIpc` and
  `ApprovalGate`.
- Manifest, redaction, schema, canaries and the behavior harness, decoding models
  and views: pure functions, test tooling and layout.

Four gaps are in the models and in no property, as the code has nothing to hold
against them: the time between the last gate and the action (`cli.py:815`); a
warning window that opens without an alert because the one before it ended
between two reads of `control_start` (`customer_mac.py:445`); a front app that could not
be read and so is not blocked (`customer_mac.py:2716`); and, in the list of threads,
two of one title that swap places (`codex_macos.py:1232`).

The parts left out write neither the session file nor the socket path, the token
or the log, except through the commands that the models have. The status of each
is in `PROJECT.json`.
