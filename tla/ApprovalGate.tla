----------------------------- MODULE ApprovalGate -----------------------------
(***************************************************************************)
(* Approvals.  A command that its session does not grant goes ahead only   *)
(* with an approval_audit_id: the id of an audit record, not older than    *)
(* APPROVAL_AUDIT_MAX_AGE_SECONDS, of a successful dry run of the same     *)
(* command with the same fields.  The connector looks the record up with   *)
(* the parameters it was sent; it then builds an argv from them, and the   *)
(* command line looks the record up again with what it parsed from the     *)
(* argv.  Whatever reaches the command line, dry run, refusal or action,   *)
(* is appended to the audit log at its end, redacted.                      *)
(*                                                                         *)
(* Here the session changes in one step; its file is in ControlSession.    *)
(***************************************************************************)
EXTENDS ControlGate, Sequences, FiniteSets

CONSTANTS Remote,      \* connector server threads
          Local,       \* command line processes
          RemoteRequests, LocalRequests,   \* what they may be asked to do
          Text,        \* what a field may hold
          NoText,      \* a field left out
          Default,     \* the default value of the fields that have one
          Risky,       \* the labels with a risk word in them
          Redact,      \* redact_string
          Normal,      \* what the way through the argv makes of a field
          MaxAge,      \* APPROVAL_AUDIT_MAX_AGE_SECONDS, 900 in the code
          MaxRecords   \* bound on the length of the log

Procs  == Remote \cup Local
Fields == Text \cup {NoText}

(* One command of each way to treat its approval fields.  "required": a
   request without the field is malformed; "optional": the field stays out;
   "filled": the argv builder and the parser put a default in, and the
   connector's gate does not know it (desktop_set_value's attribute,
   desktop_scroll's direction); "agreed": the gate knows the default, too
   (_approval_field_value).                                                *)
Takes == [desktop_type               |-> "required",
          desktop_click              |-> "optional",
          desktop_set_value          |-> "filled",
          desktop_scroll             |-> "filled",
          send_approved_message      |-> "agreed",
          app_focus                  |-> "required",
          codex_send_visible_message |-> "required",
          codex_continue_thread      |-> "agreed"]

(* Fields the argv changes: a label is stripped, an amount clamped, a
   message has its line ends translated.                                   *)
Normalised == {"desktop_click", "desktop_scroll", "codex_send_visible_message"}

(* Fields logged and compared as a hash, which redaction leaves alone.     *)
Hashed == {"codex_send_visible_message"}

(* A command with a field, for real or as a dry run.                       *)
RequestType == [op: DOMAIN Takes, sent: Fields, dry: BOOLEAN]

ASSUME ApprovalAssumption ==
    /\ Remote \cap Local = {}
    /\ RemoteRequests \subseteq RequestType /\ LocalRequests \subseteq RequestType
    /\ NoText \notin Text /\ Default \in Text /\ Risky \subseteq Text
    /\ Redact \in [Text -> Text] /\ Normal \in [Text -> Text]
    /\ \A t \in Text : Redact[Redact[t]] = Redact[t]
    /\ MaxAge \in Nat

(* _ask_permission_requires_approval: what a session makes of the command. *)
Class(op, v) ==
    CASE op \in {"desktop_type", "desktop_set_value", "send_approved_message"} -> "highImpact"
      [] op = "desktop_click" -> IF v = NoText \/ v \in Risky THEN "highImpact" ELSE "routine"
      [] op = "desktop_scroll" -> "routine"
      [] op = "app_focus" -> "legacy"
      [] OTHER -> "codex"

VARIABLES
    session,   \* the control session
    log,       \* the audit log; the id of a record is its place
    proc       \* the processes

vars == <<session, log, proc>>

Steps == {"idle", "killCheck", "serverGate", "serverLookup", "argv",
          "cliGate", "cliLookup", "run", "append", "refused"}

(* How a request got past the last gate: a dry run is free.                *)
Grants == {"none", "free", "session", "approval"}

(* `sent' is the field as requested, `field' as the command line has it;
   `found' says that the connector has looked the approval up and accepted
   it.  An id, `ref', is 0 when there is none (or none that exists).       *)
Process == [pc: Steps, op: DOMAIN Takes, sent: Fields, dry: BOOLEAN, ref: Nat,
            field: Fields, found: BOOLEAN, grant: Grants, ok: BOOLEAN]

(* `ref' is provenance.approval_audit_id; `grant' is history.              *)
Record == [op: DOMAIN Takes, field: Fields, dry: BOOLEAN, ok: BOOLEAN,
           ref: Nat, age: 0..(MaxAge + 1), grant: Grants]

Idle == [pc |-> "idle", op |-> "app_focus", sent |-> NoText, dry |-> TRUE, ref |-> 0,
         field |-> NoText, found |-> FALSE, grant |-> "none", ok |-> FALSE]

TypeOK ==
    /\ session \in Session
    /\ log \in Seq(Record)
    /\ proc \in [Procs -> Process]

Init ==
    /\ session = DefaultSession
    /\ log = <<>>
    /\ proc = [p \in Procs |-> Idle]

At(p, l) == proc[p].pc = l

-------------------------------------------------------------------------------
(* What becomes of a field.                                                *)

(* Variant: a default the gate counts on is not put into the argv.         *)
FilledLeavesOut(op, v) == IF v = NoText /\ Takes[op] = "filled" THEN Default ELSE v

(* The default of the parser.                                              *)
Filled(op, v) ==
    IF v = NoText /\ Takes[op] \in {"filled", "agreed"} THEN Default ELSE v

(* build_bridge_argv, and the parser at the other end.                     *)
Argv(op, v) ==
    IF op \in Normalised /\ v # NoText THEN Normal[v] ELSE Filled(op, v)

(* What the connector's gate compares with.                                *)
ApprovalFieldValue(op, v) ==
    IF v = NoText /\ Takes[op] = "agreed" THEN Default ELSE v

(* redact_value, on its way into the log.                                  *)
Redacted(op, v) == IF op \in Hashed \/ v = NoText THEN v ELSE Redact[v]

-------------------------------------------------------------------------------
(* The approval itself, as both gates look for it.                         *)

IsDryRunOf(i, op, v) ==
    /\ i \in DOMAIN log
    /\ log[i].op = op /\ log[i].ok /\ log[i].dry
    /\ log[i].field = v

Fresh(i) == log[i].age <= MaxAge

(* Variant: any successful record of the command will do.                  *)
ApprovesAlsoLive(i, op, v) ==
    /\ i \in DOMAIN log
    /\ log[i].op = op /\ log[i].ok /\ log[i].field = v
    /\ Fresh(i)

(* Variant: the limit itself is too old.                                   *)
ApprovesBelowLimit(i, op, v) == IsDryRunOf(i, op, v) /\ log[i].age < MaxAge

Approves(i, op, v) == IsDryRunOf(i, op, v) /\ Fresh(i)

-------------------------------------------------------------------------------
(* One request, from the connector or from a terminal to the audit log.    *)

Becomes(p, new) == proc' = [proc EXCEPT ![p] = new] /\ UNCHANGED <<session, log>>
Goto(p, l)      == Becomes(p, [proc[p] EXCEPT !.pc = l])
Refuse(p)       == Becomes(p, [Idle EXCEPT !.pc = "refused"])
Pass(p, l, how) == Becomes(p, [proc[p] EXCEPT !.pc = l, !.grant = how])

Busy == {p \in Procs : ~At(p, "idle") /\ ~At(p, "refused")}

(* A request may carry the id of any record there is.  The parser refuses a
   command line without a required field.                                  *)
Request(p) ==
    /\ At(p, "idle") \/ At(p, "refused")
    /\ Len(log) + Cardinality(Busy) < MaxRecords
    /\ \E ref \in 0..Len(log) :
          \/ /\ p \in Remote
             /\ \E r \in RemoteRequests : Becomes(p, [Idle EXCEPT
                   !.pc = "killCheck", !.op = r.op, !.sent = r.sent, !.dry = r.dry,
                   !.ref = ref])
          \/ /\ p \in Local
             /\ \E r \in LocalRequests :
                   /\ r.sent # NoText \/ Takes[r.op] # "required"
                   /\ Becomes(p, [Idle EXCEPT
                         !.pc = "cliGate", !.op = r.op, !.sent = r.sent, !.dry = r.dry,
                         !.ref = ref, !.field = Filled(r.op, r.sent)])

(* _remote_kill_switch_error: dry runs are blocked, too.                   *)
KillCheck(p) ==
    /\ At(p, "killCheck")
    /\ IF session.kill THEN Refuse(p) ELSE Goto(p, "serverGate")

Blocked(c) == c \in WarningGated /\ (session.kill \/ Warning(session))
Granted(c) == ~Blocked(c) /\ SessionGrants(session, c)

(* A gate reads the session, and the log only when the session leaves the
   question open.  Refused by the connector, a request leaves no record.   *)
ServerGate(p) ==
    /\ At(p, "serverGate")
    /\ LET c == Class(proc[p].op, proc[p].sent) IN
       \/ (proc[p].dry \/ Granted(c)) /\ Goto(p, "argv")
       \/ ~proc[p].dry /\ Blocked(c) /\ Refuse(p)
       \/ ~proc[p].dry /\ ~Blocked(c) /\ ~Granted(c) /\ Goto(p, "serverLookup")

ServerLookup(p) ==
    /\ At(p, "serverLookup")
    /\ LET j == proc[p] IN
       IF Approves(j.ref, j.op, ApprovalFieldValue(j.op, j.sent))
       THEN Becomes(p, [j EXCEPT !.pc = "argv", !.found = TRUE])
       ELSE Refuse(p)

BuildArgv(p) ==
    /\ At(p, "argv")
    /\ LET j == proc[p] IN
       IF j.sent = NoText /\ Takes[j.op] = "required"
       THEN Refuse(p)
       ELSE Becomes(p, [j EXCEPT !.pc = "cliGate", !.field = Argv(j.op, j.sent)])

(* The command line's copy of the gate.  What it refuses is recorded.      *)
CliGate(p) ==
    /\ At(p, "cliGate")
    /\ LET c == Class(proc[p].op, proc[p].field) IN
       \/ proc[p].dry /\ Pass(p, "run", "free")
       \/ ~proc[p].dry /\ Blocked(c) /\ Goto(p, "append")
       \/ ~proc[p].dry /\ Granted(c) /\ Pass(p, "run", "session")
       \/ ~proc[p].dry /\ ~Blocked(c) /\ ~Granted(c) /\ Goto(p, "cliLookup")

CliLookup(p) ==
    /\ At(p, "cliLookup")
    /\ LET j == proc[p] IN
       IF Approves(j.ref, j.op, j.field) THEN Pass(p, "run", "approval")
                                         ELSE Goto(p, "append")

(* The command, or its dry run, succeeds or fails.                         *)
Run(p) ==
    /\ At(p, "run")
    /\ \E ok \in BOOLEAN : Becomes(p, [proc[p] EXCEPT !.pc = "append", !.ok = ok])

AppendAudit(p) ==
    /\ At(p, "append")
    /\ LET j == proc[p] IN
       log' = Append(log, [op |-> j.op, field |-> Redacted(j.op, j.field), dry |-> j.dry,
                           ok |-> j.ok, ref |-> j.ref, age |-> 0, grant |-> j.grant])
    /\ proc' = [proc EXCEPT ![p] = Idle]
    /\ UNCHANGED session

(* A process dies, or append_audit raises: there is no record.             *)
Die(p) ==
    /\ p \in Busy
    /\ Becomes(p, Idle)

-------------------------------------------------------------------------------
(* The customer and the clock.                                             *)

SetSession(s) == session' = s /\ UNCHANGED <<log, proc>>

ControlStart == \E m \in Modes : SetSession(
    [active |-> TRUE, mode |-> m, kill |-> FALSE,
     left |-> IF Warning(session) THEN session.left ELSE WarningSeconds])
ControlStop == SetSession([session EXCEPT !.active = FALSE, !.left = 0])
KillSwitch  == SetSession([session EXCEPT !.active = FALSE, !.left = 0, !.kill = TRUE])

(* Variant: records go on ageing once they are too old.                    *)
OlderForEver(a) == a + 1

(* All the code asks of an old record is that it is older than MaxAge.     *)
Older(a) == IF a > MaxAge THEN a ELSE a + 1

(* A unit of time passes.                                                  *)
Tick ==
    /\ session' = [session EXCEPT !.left = IF @ > 0 THEN @ - 1 ELSE 0]
    /\ log' = [i \in DOMAIN log |-> [log[i] EXCEPT !.age = Older(@)]]
    /\ UNCHANGED proc

Next ==
    \/ \E p \in Procs :
          \/ Request(p) \/ KillCheck(p) \/ ServerGate(p) \/ ServerLookup(p) \/ BuildArgv(p)
          \/ CliGate(p) \/ CliLookup(p) \/ Run(p) \/ AppendAudit(p) \/ Die(p)
    \/ ControlStart \/ ControlStop \/ KillSwitch \/ Tick

Spec == Init /\ [][Next]_vars

-------------------------------------------------------------------------------
(* Properties.                                                             *)

(* Every action that an approval let through points, in the log alone, to
   an earlier record: a dry run that succeeded, of the same command with
   the same field.  No refusal, no failed attempt and no live action that
   the session granted ever serves as an approval, for as long as the log
   grows and whatever crashes.                                             *)
ApprovedByDryRun ==
    \A i \in DOMAIN log : log[i].grant = "approval" =>
        /\ log[i].ref \in 1..(i - 1)
        /\ IsDryRunOf(log[i].ref, log[i].op, log[i].field)

(* The argv changes nothing in what was sent.                              *)
Intact(op, v) == v = NoText \/ op \notin Normalised \/ Normal[v] = v

(* The two lookups agree, though one compares the parameters and the other
   what became of them: an approval that the connector has accepted can
   fail the command line by its age alone.  (Unless a terminal's dry run
   has logged a label that the argv would have stripped.)                  *)
GatesAgree ==
    \A p \in Procs :
        LET j == proc[p] IN
        At(p, "cliLookup") /\ j.found /\ Intact(j.op, j.sent)
          => IsDryRunOf(j.ref, j.op, j.field)

(* The three versions of the field are one: sent, parsed and logged.       *)
Ordinary(op, v) ==
    /\ ApprovalFieldValue(op, v) = Argv(op, v)
    /\ Redacted(op, Argv(op, v)) = Argv(op, v)

(* p's lookup, at either gate, turns its request down.                     *)
TurnedDown(p) ==
    \/ At(p, "serverLookup") /\ proc'[p].pc = "refused"
    \/ At(p, "cliLookup") /\ proc'[p].pc = "append"

(* The customer's promise to the agent: rerun the exact same command with
   the audit id of its dry run, within the time, and it is not turned down
   (docs/customer-mac-connector.md:268-271).  This holds for a field that
   comes through argv and redaction unchanged; the others, a secret or a
   home directory in the text, blanks around a label, an attribute left to
   its default, no dry run can approve.                                    *)
RerunIsAccepted ==
    [][\A p \in Remote :
         LET j == proc[p] IN
         /\ Ordinary(j.op, j.sent)
         /\ IsDryRunOf(j.ref, j.op, Redacted(j.op, Argv(j.op, j.sent)))
         /\ Fresh(j.ref)
         => ~TurnedDown(p)]_vars
===============================================================================
