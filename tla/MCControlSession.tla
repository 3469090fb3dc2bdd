--------------------------- MODULE MCControlSession ---------------------------
(* Instances of ControlSession for TLC.                                    *)
EXTENDS ControlSession

Start(m)   == [op |-> "start", mode |-> m, class |-> "codex", approved |-> FALSE]
Stop       == [op |-> "stop", mode |-> "ask_permission", class |-> "codex", approved |-> FALSE]
Kill       == [Stop EXCEPT !.op = "kill"]
Live(c, a) == [op |-> "live", mode |-> "ask_permission", class |-> c, approved |-> a]

Starts  == {Start(m) : m \in Modes}
Actions == {Live("routine", FALSE), Live("highImpact", FALSE), Live("highImpact", TRUE),
            Live("legacy", TRUE), Live("codex", TRUE)}

(* Every command from both sides.                                          *)
AllRequests == Starts \cup {Stop, Kill} \cup Actions

OnlyStart == {Start("full_access")}
OnlyKill  == {Kill}
===============================================================================
