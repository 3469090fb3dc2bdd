---------------------------- MODULE MCApprovalGate ----------------------------
(* An instance of ApprovalGate for TLC: `home' is a text with a home        *)
(* directory in it, `tilde' its redacted form, `padded' a label with blanks *)
(* around `down'.                                                           *)
EXTENDS ApprovalGate

CONSTANTS down, home, tilde, padded

FewTexts == {down, home, tilde, padded}
RedactHome == [t \in FewTexts |-> IF t = home THEN tilde ELSE t]
Strip      == [t \in FewTexts |-> IF t = padded THEN down ELSE t]
Buttons    == {tilde}

Both(op, v) == {[op |-> op, sent |-> v, dry |-> d] : d \in BOOLEAN}

FromTheVm ==
    UNION {Both("send_approved_message", v) : v \in {NoText, down, home, tilde}}
    \cup UNION {Both("desktop_click", v) : v \in {NoText, padded, down, tilde}}
    \cup UNION {Both("desktop_set_value", v) : v \in {NoText, down}}
    \cup Both("codex_send_visible_message", home) \cup Both("app_focus", NoText)

FromATerminal ==
    Both("send_approved_message", NoText) \cup Both("desktop_click", padded)
    \cup Both("app_focus", down)
===============================================================================
