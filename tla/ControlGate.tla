----------------------------- MODULE ControlGate -----------------------------
(***************************************************************************)
(* The control session record that the bridge keeps in                     *)
(* control-session.json, and the decision every live command of the        *)
(* customer Mac is put through.  The connector server                      *)
(* (_live_guarded_approval_error) and the command line                     *)
(* (_validate_guarded_approval) each carry a copy of that decision; both   *)
(* copies read the session file for themselves.                            *)
(*                                                                         *)
(* Timestamps are kept as what is left of them: `left' is the number of    *)
(* seconds until takeover_warning_until, 0 once it has passed or when the  *)
(* field is null, which is all the code ever asks of it.                   *)
(***************************************************************************)
EXTENDS Naturals

CONSTANT WarningSeconds   \* TAKEOVER_WARNING_SECONDS, 10 in the code

ASSUME WarningAssumption == WarningSeconds \in Nat \ {0}

Modes == {"full_access", "ask_permission"}

Session == [active: BOOLEAN, mode: Modes, kill: BOOLEAN, left: 0..WarningSeconds]

(* What a missing, empty or unparsable file reads as: not active, and with
   the kill switch off.                                                    *)
DefaultSession ==
    [active |-> FALSE, mode |-> "ask_permission", kill |-> FALSE, left |-> 0]

(* The takeover warning of a session is running.                           *)
Warning(s) == s.active /\ s.left > 0

(***************************************************************************)
(* The classes the live commands fall into:                                *)
(*   routine     CONTROLLED commands that Ask Permission lets through      *)
(*   highImpact  CONTROLLED commands for which Ask Permission wants an     *)
(*               approval (typing, sends, risky labels, unsafe hotkeys)    *)
(*   legacy      app focus and local sites: held back by the kill switch   *)
(*               and the warning, never granted by a session               *)
(*   codex       guarded Codex commands: approval only                     *)
(***************************************************************************)
Classes    == {"routine", "highImpact", "legacy", "codex"}
Controlled == {"routine", "highImpact"}
WarningGated == Controlled \cup {"legacy"}

(* The session alone is enough for a command of class c.                   *)
SessionGrants(s, c) ==
    /\ c \in Controlled
    /\ s.active
    /\ s.mode = "full_access" \/ c = "routine"

(* Variant: the takeover warning is not looked at.                         *)
GateIgnoresWarning(s, c, approved) ==
    /\ c \in WarningGated => ~s.kill
    /\ SessionGrants(s, c) \/ approved

(* The decision: `approved' says that the approval_audit_id the request
   carries names a record that passes every check.                         *)
GateAllows(s, c, approved) ==
    /\ c \in WarningGated => ~s.kill /\ ~Warning(s)
    /\ SessionGrants(s, c) \/ approved
=============================================================================
