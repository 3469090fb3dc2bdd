-------------------------------- MODULE Screen --------------------------------
(***************************************************************************)
(* The Mac as the adapter finds it: the app in front and the app that each *)
(* process id belongs to.  Both change at any moment, by the user's hand or *)
(* another program's.  The adapter learns of them by running osascript,    *)
(* pgrep and ps, any of which may fail.                                    *)
(*                                                                         *)
(* An app is known by one name here, be it asked for as the frontmost app, *)
(* by pgrep or by ps.  `moves' counts the changes; it bounds them, and it  *)
(* dates what a command has seen.                                          *)
(***************************************************************************)
EXTENDS Naturals, Sequences

CONSTANTS Apps,
          Sensitive,  \* SENSITIVE_APPS, the denylist
          Browsers,   \* SAFE_BROWSER_APPS
          Phone,      \* iPhone Mirroring
          Pids,
          Processes,  \* the processes there are at first
          None,
          MaxMoves    \* bound on the changes from outside

ASSUME ScreenAssumption ==
    /\ Sensitive \subseteq Apps
    /\ Browsers \subseteq Apps \ Sensitive
    /\ Phone \in Apps \ (Sensitive \cup Browsers)
    /\ None \notin Apps \cup Pids \cup Nat
    /\ Processes \in [Pids -> Apps \cup {None}]
    /\ MaxMoves \in Nat

VARIABLES front, owner, moves

screen == <<front, owner, moves>>

ScreenTypeOK ==
    /\ front \in Apps
    /\ owner \in [Pids -> Apps \cup {None}]
    /\ moves \in 0..MaxMoves

Running(a) == \E p \in Pids : owner[p] = a

ScreenInit ==
    /\ front \in Apps
    /\ owner = Processes
    /\ Running(front)
    /\ moves = 0

(* _frontmost_app: None when osascript fails or takes more than 5 seconds. *)
FrontmostApp == {front, None}

(* The identity of a process that an action is addressed to: the pid that
   pgrep finds for the app, and the name ps gives for that pid.            *)
Target   == [pid : Pids, app : Apps]
NoTarget == [pid |-> None, app |-> None]

(* _pid_for_app and _process_name_for_pid, which may both find nothing.    *)
TargetsFor(a) == {t \in Target : t.app = a /\ owner[t.pid] = a} \cup {NoTarget}

(* Another app comes to the front.                                         *)
Switch ==
    /\ moves < MaxMoves
    /\ \E a \in Apps \ {front} : Running(a) /\ front' = a
    /\ moves' = moves + 1
    /\ UNCHANGED owner

(* A process ends, or its pid is given to a process of another app.  An app
   that has no process left is not in front.                               *)
Reassign ==
    /\ moves < MaxMoves
    /\ \E p \in Pids : \E a \in (Apps \cup {None}) \ {owner[p]} :
          /\ owner' = [owner EXCEPT ![p] = a]
          /\ front' \in {b \in Apps : \E q \in Pids : owner'[q] = b}
          /\ (\E q \in Pids : owner'[q] = front) => front' = front
    /\ moves' = moves + 1

Outside == Switch \/ Reassign
===============================================================================
