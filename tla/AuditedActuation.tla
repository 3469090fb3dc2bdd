--------------------------- MODULE AuditedActuation ---------------------------
(***************************************************************************)
(* What the bridge promises of an action it hands to the computer-use      *)
(* helper, whatever process dies and whatever message is late: it is       *)
(* authorized in the audit log before anything is posted to the Mac, it is *)
(* posted at most once, and it is reported at most once, as done only if it *)
(* has been.  A failure may be reported of an action that has been, or will *)
(* be, posted.                                                             *)
(***************************************************************************)
EXTENDS Naturals

CONSTANT Requests

VARIABLES authorized,   \* the requests that have an authorized_dispatch record
          posted,       \* how often each has been posted to the Mac
          reported      \* what the completion record of each says

vars == <<authorized, posted, reported>>

Init ==
    /\ authorized = {}
    /\ posted = [r \in Requests |-> 0]
    /\ reported = [r \in Requests |-> "nothing"]

Authorize(r) ==
    /\ r \notin authorized
    /\ authorized' = authorized \cup {r}
    /\ UNCHANGED <<posted, reported>>

Post(r) ==
    /\ r \in authorized
    /\ posted[r] = 0
    /\ posted' = [posted EXCEPT ![r] = 1]
    /\ UNCHANGED <<authorized, reported>>

Report(r) ==
    /\ r \in authorized
    /\ reported[r] = "nothing"
    /\ \E what \in {"done", "failed"} :
          /\ what = "done" => posted[r] = 1
          /\ reported' = [reported EXCEPT ![r] = what]
    /\ UNCHANGED <<authorized, posted>>

Next == \E r \in Requests : Authorize(r) \/ Post(r) \/ Report(r)

Spec == Init /\ [][Next]_vars
===============================================================================
