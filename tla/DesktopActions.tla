---------------------------- MODULE DesktopActions ----------------------------
(***************************************************************************)
(* The customer Mac's live commands, one after another, on a screen that   *)
(* changes under them.  A command looks at the front app, asks one engine  *)
(* after another (Peekaboo, osascript, an AX script, the helper), each with *)
(* a time-out, and takes the first that answers well.  DesktopPlans says   *)
(* which commands ask whom.                                                *)
(*                                                                         *)
(* An engine acts at most once, when it pleases, before it answers; one    *)
(* that fails or runs into its time-out is killed and may have acted.  The *)
(* helper is a process of its own: the command waits two seconds for it,   *)
(* and a job that was not answered may still be done later.                *)
(***************************************************************************)
EXTENDS Screen, DesktopPlans, FiniteSets

CONSTANTS Commands,     \* the commands that are given
          MaxCommands   \* bound on their number

ASSUME CommandsAssumption == Commands \subseteq Kinds /\ MaxCommands \in Nat

VARIABLES
    snap,   \* the latest visual snapshot that was stored
    cmd,    \* the running command
    jobs    \* what the helper has been asked for and has not finished

vars == <<screen, snap, cmd, jobs>>

Snapshot ==
    [of : {"desktop", "iphone_mirroring"}, by : {"peekaboo", "ax_fallback", "region"},
     target : Target \cup {NoTarget}, fresh : BOOLEAN]
NoSnapshot == [of |-> "none"]

(* Those that a command stores: Peekaboo's, the phone's region, and a
   screenshot with an AX tree of a process that was not to be spared.      *)
Earlier ==
    {s \in Snapshot :
        /\ s.fresh
        /\ s.of = "iphone_mirroring" <=> s.by = "region"
        /\ s.by = "ax_fallback" <=> s.target # NoTarget
        /\ s.target # NoTarget => owner[s.target.pid] = s.target.app
        /\ s.target.app \notin Sensitive}

(* `stage' and `step' point into the plan.  `seen' and `phone' date what the
   command has last read to be in front, and iPhone Mirroring being there.
   `tally' counts what the engines of this stage did, `failed' says that one
   of them has failed.                                                     *)
Steps   == {"idle", "ready", "running", "asked", "waiting", "over"}
Results == {"none", "ok", "blocked", "failed", "dryRun"}
Moment  == 0..MaxMoves \cup {None}
Command ==
    [nr : 0..MaxCommands, kind : Kinds, app : Apps, stage : 1..5, step : 1..9, pc : Steps,
     result : Results, peekaboo : BOOLEAN, target : Target \cup {NoTarget},
     acted : BOOLEAN, tally : Nat, failed : BOOLEAN, shot : BOOLEAN,
     seen : Moment, phone : Moment]

(* Variant: a third label of a menu is pressed.                            *)
ThreeLabels(op) == IF op = "menu" THEN 3 ELSE 1

(* `done' counts the parts of a job that are done: a menu is pressed label
   by label, the rest is one part.                                         *)
Parts(op) == IF op = "menu" THEN 2 ELSE 1

Job == [nr : 0..MaxCommands, op : Helped, target : Target, done : 0..2]

TypeOK ==
    /\ ScreenTypeOK
    /\ snap \in Snapshot \cup {NoSnapshot}
    /\ cmd \in Command
    /\ jobs \subseteq Job

(* A command that is about to take its first step.                         *)
Given(n, k, a, p) ==
    [nr |-> n, kind |-> k, app |-> a, stage |-> 1, step |-> 1, pc |-> "ready",
     result |-> "none", peekaboo |-> p, target |-> NoTarget, acted |-> FALSE,
     tally |-> 0, failed |-> FALSE, shot |-> FALSE, seen |-> moves, phone |-> moves]

(* An earlier run of the program may have left a snapshot.                 *)
Init ==
    /\ ScreenInit
    /\ snap \in Earlier \cup {NoSnapshot}
    /\ cmd = [Given(0, "snapshot", Phone, FALSE) EXCEPT !.pc = "idle"]
    /\ jobs = {}

Stage == Plan[cmd.kind][cmd.stage]
Op    == Stage[cmd.step]
At(op)    == cmd.pc = "ready" /\ Op = op
AtOp(ops) == cmd.pc = "ready" /\ Op \in ops

(* Where a command goes.                                                   *)
Over(c, r)  == cmd' = [Given(c.nr, c.kind, c.app, FALSE) EXCEPT !.pc = "over", !.result = r]
Skip(c, n)  ==
    IF c.step + n > Len(Plan[c.kind][c.stage]) THEN Over(c, "failed")
    ELSE cmd' = [c EXCEPT !.step = @ + n, !.pc = "ready", !.acted = FALSE]
NextStep(c) == Skip(c, 1)
Failed(c)   == NextStep([c EXCEPT !.failed = TRUE])

(* The stage has succeeded.  Whether Peekaboo answers is asked once in each. *)
Succeeded(c) ==
    IF c.stage = Len(Plan[c.kind]) THEN Over(c, "ok")
    ELSE \E p \in BOOLEAN :
            cmd' = [c EXCEPT !.stage = @ + 1, !.step = 1, !.pc = "ready", !.acted = FALSE,
                             !.tally = 0, !.failed = FALSE, !.target = NoTarget,
                             !.peekaboo = p]

-------------------------------------------------------------------------------
(* A command is given.  Which click it is depends on what the snapshot that
   it names holds.                                                         *)
Applicable(k) ==
    /\ k \in {"click_seen", "iphone_tap_seen"} => snap # NoSnapshot /\ snap.by = "peekaboo"
    /\ k \in {"click_place", "iphone_tap_place"} => snap # NoSnapshot /\ snap.by # "ax_fallback"
    /\ k \in {"click_press", "iphone_tap_press", "iphone_tap_element", "desktop_set_value"} =>
          snap # NoSnapshot /\ snap.by = "ax_fallback"
    /\ k = "click_element" => snap # NoSnapshot /\ snap.by # "region"

Begin ==
    /\ cmd.pc \in {"idle", "over"}
    /\ cmd.nr < MaxCommands
    /\ \E k \in Commands, a \in Apps \ Sensitive, p \in BOOLEAN :
          /\ Applicable(k)
          /\ k \notin {"app_focus", "workbench_focus", "desktop_focus_app"} => a = Phone
          /\ cmd' = Given(cmd.nr + 1, k, a, p)
    /\ UNCHANGED <<screen, snap, jobs>>

(* A dry run returns before the first look; it may resolve its snapshot.   *)
DryRun ==
    /\ <<cmd.pc, cmd.stage, cmd.step>> = <<"ready", 1, 1>>
    /\ cmd.kind \notin SeeKinds
    /\ Over(cmd, "dryRun")
    /\ UNCHANGED <<screen, snap, jobs>>

-------------------------------------------------------------------------------
(* Checks.                                                                 *)

SeenNow(r) == IF r = None THEN None ELSE moves

(* Variant: a command that has a target does not mind the app in front.    *)
LookAtTargetInstead ==
    /\ At("look")
    /\ \E r \in FrontmostApp :
          IF r \in Sensitive /\ cmd.target = NoTarget THEN Over(cmd, "blocked")
          ELSE NextStep([cmd EXCEPT !.seen = SeenNow(r)])
    /\ UNCHANGED <<screen, snap, jobs>>

(* _sensitive_app_action_block and _sensitive_app_observation_block: an app
   that could not be read is not on the denylist.                          *)
Look ==
    /\ At("look")
    /\ \E r \in FrontmostApp :
          IF r \in Sensitive THEN Over(cmd, "blocked")
          ELSE NextStep([cmd EXCEPT !.seen = SeenNow(r)])
    /\ UNCHANGED <<screen, snap, jobs>>

(* The target of a snapshot is checked by the name it was stored with; web
   content is refused.                                                     *)
CheckTarget ==
    /\ At("checkTarget")
    /\ \/ cmd.target # NoTarget /\ Over(cmd, "blocked")
       \/ cmd.target.app \notin Sensitive /\ NextStep(cmd)
    /\ UNCHANGED <<screen, snap, jobs>>

(* local_site_action wants a browser in front, and a local URL in it.      *)
LookBrowser ==
    /\ At("lookBrowser")
    /\ \/ front \in Browsers /\ NextStep([cmd EXCEPT !.seen = moves])
       \/ Over(cmd, "failed")
    /\ UNCHANGED <<screen, snap, jobs>>

(* _resolve_snapshot_target and _resolve_snapshot_coordinates: the snapshot
   must be there, not older than SNAPSHOT_MAX_AGE_SECONDS, and have what is
   named.  A point need not lie in an element.                             *)
Resolve ==
    /\ AtOp({"resolve", "resolvePhone"})
    /\ \/ /\ snap # NoSnapshot /\ snap.fresh
          /\ Op = "resolvePhone" => snap.of = "iphone_mirroring"
          /\ \/ NextStep([cmd EXCEPT !.target = snap.target])
             \/ cmd.kind = "click_element" /\ NextStep(cmd)
       \/ Over(cmd, "failed")
    /\ UNCHANGED <<screen, snap, jobs>>

PhoneFront ==
    /\ At("phoneFront")
    /\ \/ front = Phone /\ NextStep([cmd EXCEPT !.seen = moves, !.phone = moves])
       \/ Over(cmd, "failed")
    /\ UNCHANGED <<screen, snap, jobs>>

(* snapshot and ax_tree look for themselves; desktop_see goes on without
   the one that was refused.                                               *)
LookShot ==
    /\ At("lookShot")
    /\ \E r \in FrontmostApp :
          IF r \in Sensitive THEN Skip(cmd, 2)
          ELSE NextStep([cmd EXCEPT !.seen = SeenNow(r)])
    /\ UNCHANGED <<screen, snap, jobs>>

LookTree ==
    /\ At("lookTree")
    /\ \E r \in FrontmostApp : \E t \in TargetsFor(r) :
          IF r \in Sensitive \/ t = NoTarget THEN Skip(cmd, 2)
          ELSE NextStep([cmd EXCEPT !.seen = moves, !.target = t])
    /\ UNCHANGED <<screen, snap, jobs>>

-------------------------------------------------------------------------------
(* Engines the command runs itself.                                        *)

(* pressLabel reads the front app again, and presses in its process.       *)
ProcessFor(op) ==
    CASE op = "pressLabel" -> UNION {TargetsFor(r) : r \in FrontmostApp}
      [] op = "pressPhone" -> TargetsFor(Phone)
      [] OTHER             -> {cmd.target}

Run ==
    /\ AtOp(Runs)
    /\ IF Op \in NeedPeekaboo /\ ~cmd.peekaboo THEN NextStep(cmd)
       ELSE \E t \in ProcessFor(Op) :
               IF Op \in ByPid /\ t = NoTarget THEN Failed(cmd)
               ELSE cmd' = [cmd EXCEPT !.pc = "running", !.target = t]
    /\ UNCHANGED <<screen, snap, jobs>>

(* The engine does what it was run for: to the app in front at that moment,
   to the process it was given, to the phone, or to the screen itself.     *)
Act ==
    /\ cmd.pc = "running" /\ ~cmd.acted
    /\ cmd' = [cmd EXCEPT !.acted = TRUE, !.tally = @ + 1]
    /\ Op \in ByPid => owner[cmd.target.pid] # None
    /\ Op = "peekabooPhone" => Running(Phone)
    /\ IF Op \in Raising THEN Running(cmd.app) /\ front' = cmd.app ELSE UNCHANGED front
    /\ UNCHANGED <<owner, moves, snap, jobs>>

Waits(c) == cmd' = [c EXCEPT !.pc = "waiting"]

Stored(of, by, t) == snap' = [of |-> of, by |-> by, target |-> t, fresh |-> TRUE]

(* Variant: an answer of Peekaboo does not end the stage.                  *)
AnswerNotTaken ==
    /\ cmd.pc = "running" /\ cmd.acted
    /\ IF Op = "peekaboo" THEN NextStep(cmd) ELSE Succeeded(cmd)
    /\ UNCHANGED <<screen, snap, jobs>>

(* It says that it is done, ...                                            *)
AnswersOk ==
    /\ cmd.pc = "running" /\ cmd.acted
    /\ CASE Op \in Awaited  -> Waits(cmd)
         [] Op = "capture"   -> NextStep([cmd EXCEPT !.shot = TRUE])
         [] Op = "tree"      -> NextStep(cmd)
         [] OTHER            -> Succeeded(cmd)
    /\ CASE Op = "see"    -> Stored("desktop", "peekaboo", NoTarget)
         [] Op = "region" -> Stored("iphone_mirroring", "region", NoTarget)
         [] OTHER         -> UNCHANGED snap
    /\ UNCHANGED <<screen, jobs>>

(* Variant: an engine that does not act is waited for.                     *)
NoTimeOut ==
    /\ cmd.pc = "running" /\ cmd.acted
    /\ Failed(cmd)
    /\ UNCHANGED <<screen, snap, jobs>>

(* ... or it fails or is killed, whatever it has done.  The answer of
   _activate_app is not looked at.                                         *)
AnswersBadly ==
    /\ cmd.pc = "running"
    /\ CASE Op = "activate" -> Waits(cmd)
         [] Op = "tree"     -> NextStep([cmd EXCEPT !.target = NoTarget])
         [] OTHER           -> Failed(cmd)
    /\ UNCHANGED <<screen, snap, jobs>>

(* Variant: the app is taken to be in front.                               *)
WaitTrusts ==
    /\ cmd.pc = "waiting"
    /\ Succeeded([cmd EXCEPT !.seen = moves, !.phone = moves])
    /\ UNCHANGED <<screen, snap, jobs>>

(* _wait_for_frontmost.                                                    *)
WaitSees ==
    /\ cmd.pc = "waiting"
    /\ front = cmd.app
    /\ Succeeded([cmd EXCEPT !.seen = moves, !.phone = moves])
    /\ UNCHANGED <<screen, snap, jobs>>

WaitFails ==
    /\ cmd.pc = "waiting"
    /\ Failed(cmd)
    /\ UNCHANGED <<screen, snap, jobs>>

(* Screenshot and elements are stored under one id if there are both.      *)
Keep ==
    /\ At("keep")
    /\ IF cmd.shot /\ cmd.target # NoTarget
       THEN Stored("desktop", "ax_fallback", cmd.target) ELSE UNCHANGED snap
    /\ IF cmd.shot \/ cmd.target # NoTarget THEN Succeeded(cmd) ELSE Failed(cmd)
    /\ UNCHANGED <<screen, jobs>>

-------------------------------------------------------------------------------
(* The helper.                                                             *)

(* Whom a job is addressed to: the target of the snapshot, the phone, or
   the app that is in front by another look.                               *)
Addressee(op) ==
    LET inFront == UNION {TargetsFor(r) : r \in FrontmostApp} IN
    CASE op \in {"mouseTarget", "ax"} -> {cmd.target}
      [] op = "mousePhone" -> TargetsFor(Phone) \cup inFront
      [] OTHER -> inFront

(* The blocks of _mouse_action; a point in a browser is too vague for it.
   desktop_menu and the AX actions have none of their own here.            *)
MouseBlocks(op, t) ==
    /\ op \in Mouse
    /\ t.app \in Sensitive \/ (op # "mouseTarget" /\ t.app \in Browsers)

(* Without a pid, or without a helper, a menu is left to Peekaboo; a pid
   whose name ps did not give ends it.                                     *)
Ask ==
    /\ AtOp(Helped)
    /\ \E t \in Addressee(Op) :
          \/ /\ t # NoTarget /\ ~MouseBlocks(Op, t)
             /\ jobs' = jobs \cup {[nr |-> cmd.nr, op |-> Op, target |-> t, done |-> 0]}
             /\ cmd' = [cmd EXCEPT !.pc = "asked", !.target = t]
          \/ /\ \/ Op = "menu" /\ NextStep(cmd)
                \/ (Op = "menu" => t = NoTarget) /\ Over(cmd, "failed")
             /\ UNCHANGED jobs
    /\ UNCHANGED <<screen, snap>>

Mine(j) == j.nr = cmd.nr /\ cmd.pc = "asked"

(* Variant: the helper only checks that there is such a process.           *)
IsAlive(t) == owner[t.pid] # None

(* The helper checks that the pid still is a process of that name before it
   acts; the next label of a menu of a process that ended cannot be pressed. *)
IsTarget(t) == owner[t.pid] = t.app

HelperActs ==
    /\ \E j \in jobs :
          /\ j.done < Parts(j.op)
          /\ IsTarget(j.target)
          /\ jobs' = (jobs \ {j}) \cup {[j EXCEPT !.done = @ + 1]}
          /\ cmd' = IF Mine(j) /\ j.done = 0 THEN [cmd EXCEPT !.tally = @ + 1] ELSE cmd
    /\ UNCHANGED <<screen, snap>>

HelperOk ==
    /\ \E j \in jobs :
          /\ Mine(j) /\ j.done = Parts(j.op)
          /\ jobs' = jobs \ {j}
          /\ IF j.op = "recover" THEN Waits(cmd) ELSE Succeeded(cmd)
    /\ UNCHANGED <<screen, snap>>

(* An error, which ends the job.  Only helper_ax_menu_not_found and
   helper_ax_menu_failed let desktop_menu go on.                           *)
HelperRefuses ==
    /\ \E j \in jobs :
          /\ Mine(j)
          /\ jobs' = jobs \ {j}
          /\ IF j.op = "menu" THEN Failed(cmd) \/ Over(cmd, "failed") ELSE Failed(cmd)
    /\ UNCHANGED <<screen, snap>>

(* Variant: a menu that is not answered goes on to Peekaboo.               *)
SilenceIsRefusal ==
    /\ \E j \in jobs :
          /\ Mine(j)
          /\ jobs' \in {jobs, jobs \ {j}}
          /\ Failed(cmd)
    /\ UNCHANGED <<screen, snap>>

(* No answer within two seconds, or no helper: the job may still be done.  *)
HelperSilent ==
    /\ \E j \in jobs :
          /\ Mine(j)
          /\ jobs' \in {jobs, jobs \ {j}}
          /\ IF j.op = "menu" THEN Over(cmd, "failed") ELSE Failed(cmd)
    /\ UNCHANGED <<screen, snap>>

(* A late job is done with, or its helper is gone.                         *)
JobEnds ==
    /\ \E j \in jobs : ~Mine(j) /\ jobs' = jobs \ {j}
    /\ UNCHANGED <<screen, snap, cmd>>

-------------------------------------------------------------------------------
(* A snapshot gets older than SNAPSHOT_MAX_AGE_SECONDS.                    *)
SnapshotAges ==
    /\ snap # NoSnapshot /\ snap.fresh
    /\ snap' = [snap EXCEPT !.fresh = FALSE]
    /\ UNCHANGED <<screen, cmd, jobs>>

CommandStep ==
    \/ Look \/ CheckTarget \/ LookBrowser \/ Resolve \/ PhoneFront \/ LookShot \/ LookTree
    \/ Run \/ Act \/ AnswersOk \/ AnswersBadly \/ WaitSees \/ WaitFails \/ Keep
    \/ Ask \/ HelperOk \/ HelperRefuses \/ HelperSilent

Next ==
    \/ Begin \/ DryRun \/ CommandStep \/ HelperActs \/ JobEnds \/ SnapshotAges
    \/ Outside /\ UNCHANGED <<snap, cmd, jobs>>

Spec == Init /\ [][Next]_vars

(* Whatever is run has a time-out, and waiting is bounded.                 *)
FairSpec == Spec /\ WF_vars(CommandStep)

-------------------------------------------------------------------------------
(* What happens to whom.                                                   *)

(* The running engine acts in this step; it acts on the app in front, or in
   a process.                                                              *)
Acts(ops) == cmd.pc = "running" /\ Op \in ops /\ ~cmd.acted /\ cmd'.acted

(* The helper does a part of job j in this step.                           *)
Does(j) == [j EXCEPT !.done = @ + 1] \in jobs' \ jobs /\ j \notin jobs'

(* No engine acts on or observes an app of the denylist that was in front
   when the command last looked, whatever engines failed before: if it does,
   another app has come to the front since the look, or the look read
   nothing.                                                                *)
SensitiveSpared ==
    [][Acts(InFront) /\ front \in Sensitive => cmd.seen # moves]_vars

(* What a command means for iPhone Mirroring goes there, unless another app
   has come to the front since it was seen there; the text and the clicks
   that desktop_type and desktop_click take over included.                 *)
PhoneGetsItsInput ==
    [][cmd.kind \in PhoneKinds \ SeeKinds /\ Acts(InFront) /\ front # Phone
       => cmd.phone # moves]_vars

(* What the helper does, late or not, it does in a process of the app the
   job was addressed to, though the pid may have been given away since the
   snapshot; and except for menus that app is none of the denylist.        *)
AddressedSpared ==
    [][\A j \in jobs : Does(j) =>
          /\ owner[j.target.pid] = j.target.app
          /\ j.op # "menu" => j.target.app \notin Sensitive]_vars

(* While the helper may still do what a command asked of it, the command
   asks nobody else to do the same.                                        *)
HelperHasTheLastWord ==
    \A j \in jobs : j.nr = cmd.nr => cmd.pc \in {"asked", "over"}

(* A stage is passed, or the command reported done, only when an engine has
   acted in that stage; and twice only after one has failed.  So Send is
   pressed only after the text was typed.                                  *)
Passed == cmd'.nr = cmd.nr /\ (cmd'.stage > cmd.stage \/ (cmd.pc # "over" /\ cmd'.result = "ok"))

DoneOnce ==
    [][Passed /\ cmd.kind \notin SeeKinds /\ cmd.pc # "waiting" =>
          cmd.tally >= 1 /\ (cmd.tally = 1 \/ cmd.failed)]_vars

(* Every command comes to an end, whoever does not answer.                 *)
CommandEnds == (cmd.pc \notin {"idle", "over"}) ~> (cmd.pc = "over")
===============================================================================
