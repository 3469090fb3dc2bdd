---------------------------- MODULE VisibleMessage ----------------------------
(***************************************************************************)
(* CodexDesktopObserver: the commands that look at the window of Codex     *)
(* Desktop and give it input, one at a time.                               *)
(*                                                                         *)
(* Each of them is a sequence of programs.  One reads what is in front,    *)
(* another the tree of Codex, a third clicks at coordinates or types where *)
(* the keyboard happens to be; the customer and Codex change the screen    *)
(* between any two of them.  Whatever a click or a keystroke meets is      *)
(* decided by the screen at that moment, and not when it was looked at.    *)
(*                                                                         *)
(* A thread is known by its visible id, the hash of its place in the list  *)
(* and of its title; at times the list shows no titles.  A program may     *)
(* fail, after or before it did what it was asked to do.                   *)
(***************************************************************************)
EXTENDS Naturals, Sequences, FiniteSets

CONSTANTS Threads,    \* those in the list
          Titles,
          Title,      \* their titles
          Hidden,     \* what a row without a title is called
          Current,    \* the thread_id that stands for the open thread
          Wait,       \* wait_ms, in poll intervals
          MaxMoves,   \* bound on changes of the screen during a command
          None

ASSUME VisibleAssumption ==
    /\ IsFiniteSet(Threads) /\ Threads # {}
    /\ Threads \cap {"composer", "search", "elsewhere"} = {}
    /\ Title \in [Threads -> Titles]
    /\ Hidden \notin Titles
    /\ {Wait, MaxMoves} \subseteq Nat

VARIABLES screen, cmd, moves

vars == <<screen, cmd, moves>>

Apps   == {"Codex", "other"}
Fields == {"composer", "search"}       \* text fields that can pass for the composer
Focusable(fields) == fields \cup Threads \cup {"elsewhere"}
Places == Focusable(Fields)            \* where the keyboard may be in Codex, also in a row
Orders == {f \in [1..Cardinality(Threads) -> Threads] : \A t \in Threads : \E i \in DOMAIN f : f[i] = t}
Signs  == {"none", "active", "done"}   \* of a turn, in the tree; or that it failed

Screen == [front : Apps, rows : Orders, titled : BOOLEAN, open : Threads, focus : Places,
           fields : SUBSET Fields, sign : Signs]

VisibleIds == (1..Cardinality(Threads)) \X (Titles \cup {Hidden})
Kinds      == {"snapshot", "focus", "select", "send", "continue"}

(* What the programs are, in their order.  Codex is looked at before and
   after a row was selected, and pictures are taken before and after the
   message, and in each poll.                                              *)
Programs ==
    {"match", "find", "front1", "tree1", "list", "focus", "clickRow", "verify", "front2", "tree2",
     "look1", "capture1", "clickField", "type", "return", "look2", "capture2",
     "peek", "observe", "look3", "capture3", "judge", "end"}

Results    == {"none", "ok", "failed", "submitFailed"}
Observed   == {"done", "submitted_waiting", "idle", "inconclusive"}
Facts      == {"front", "shot", "rows", "thread", "field", "click"}
Landed     == [front : Apps, open : Threads, focus : Places]

(* `at' is the program that is next; `stale' says what has changed since it
   was last looked at, and "click" that the one into the list did not meet
   the row that was found; `text' and `sent' where the text and the Return
   key went.                                                               *)
Command ==
    [kind : Kinds, id : VisibleIds \cup {Current, None}, dry : BOOLEAN,
     at : Programs, result : Results, title : Titles \cup {Hidden, None},
     slot : 0..Cardinality(Threads), field : Fields \cup {None},
     stale : SUBSET Facts,
     text : Landed \cup {None}, sent : Landed \cup {None}, shot : BOOLEAN,
     pictures : SUBSET Apps, seen : Seq(Observed), streak : Nat,
     verdict : Observed \cup {"none", "timeout"}]

ASSUME NoneAssumption == None \notin Landed \cup Titles \cup VisibleIds

-------------------------------------------------------------------------------
(* The order of the programs.                                              *)

First(kind, id) ==
    CASE kind = "snapshot" -> "look2"
      [] kind = "focus"    -> "focus"
      [] kind = "select"   -> "list"
      [] kind = "send"     -> IF id = Current THEN "front1" ELSE "find"
      [] kind = "continue" -> "match"

Following ==
    [match |-> "find", find |-> "front1", front1 |-> "tree1", tree1 |-> "list",
     list |-> "focus", focus |-> "clickRow", clickRow |-> "verify", verify |-> "front2",
     front2 |-> "tree2", tree2 |-> "look1", look1 |-> "capture1", capture1 |-> "clickField",
     clickField |-> "type", type |-> "return", return |-> "look2", look2 |-> "capture2",
     capture2 |-> "peek", peek |-> "observe", observe |-> "look3", look3 |-> "capture3",
     capture3 |-> "judge", judge |-> "peek"]

(* Variant: a dry run of select_thread goes all the way.                   *)
LastLive(c) ==
    \/ c.dry /\ c.at = "tree1"
    \/ c.kind = "focus" /\ c.at = "focus"
    \/ c.kind = "select" /\ c.at = "clickRow"
    \/ (c.kind # "send" \/ Wait = 0) /\ c.at = "capture2"

(* After these programs a command is at its end; continue does not wait.   *)
Last(c) ==
    \/ c.dry /\ c.at \in {"tree1", "list"}
    \/ c.kind = "focus" /\ c.at = "focus"
    \/ c.kind = "select" /\ c.at = "clickRow"
    \/ (c.kind # "send" \/ Wait = 0) /\ c.at = "capture2"

(* Nothing is selected for the current thread.                             *)
Then(c) ==
    IF Last(c) THEN "end"
    ELSE IF c.id = Current /\ c.at = "tree1" THEN "front2"
    ELSE Following[c.at]

(* Commands that look at anything: neither the dry run of focus nor a live
   message that is not confirmed.                                          *)
Init ==
    /\ screen \in {s \in Screen : s.focus \in Focusable(s.fields)}
    /\ \E kind \in Kinds, id \in VisibleIds \cup {Current, None},
          query \in Titles \cup {None}, dry \in BOOLEAN :
        /\ id # None <=> kind \in {"select", "send"}
        /\ id = Current => kind = "send"
        /\ query # None <=> kind = "continue"
        /\ kind \in {"snapshot", "focus"} => ~dry
        /\ cmd = [kind |-> kind, id |-> id, dry |-> dry,
                  at |-> First(kind, id), result |-> "none", title |-> query, slot |-> 0, field |-> None,
                  stale |-> {}, text |-> None, sent |-> None, shot |-> FALSE,
                  pictures |-> {}, seen |-> <<>>, streak |-> 0, verdict |-> "none"]
    /\ moves = 0

At(programs) == cmd.result = "none" /\ cmd.at \in programs

(* Variant: the last program leaves the command open.                      *)
GoOn(c) == cmd' = [c EXCEPT !.at = Then(c)]

Go(c) == cmd' = [c EXCEPT !.at = Then(c), !.result = IF Last(c) THEN "ok" ELSE @]

Fail(r) == cmd' = [cmd EXCEPT !.result = r]

Fresh(c, facts) == [c EXCEPT !.stale = @ \ facts]

-------------------------------------------------------------------------------
(* The list of threads.                                                    *)

Label(t) == IF screen.titled THEN Title[t] ELSE Hidden

(* _visible_thread_id *)
HasId(t, id) == \E i \in DOMAIN screen.rows : screen.rows[i] = t /\ id = <<i, Label(t)>>

(* continue_thread: one thread must have the title.                        *)
MatchTitle ==
    /\ At({"match"})
    /\ LET found == {t \in Threads : Label(t) = cmd.title} IN
       \/ /\ Cardinality(found) = 1
          /\ \E t \in found, id \in VisibleIds :
                HasId(t, id) /\ Go([cmd EXCEPT !.id = id])
       \/ Fail("failed")
    /\ UNCHANGED <<screen, moves>>

(* _visible_message_target_safety_error: a live message needs a title.     *)
SafeTarget(t) == cmd.dry \/ Label(t) # Hidden

FindTarget ==
    /\ At({"find"})
    /\ \/ \E t \in Threads : HasId(t, cmd.id) /\ SafeTarget(t) /\ Go([cmd EXCEPT !.title = Label(t)])
       \/ Fail("failed")
    /\ UNCHANGED <<screen, moves>>

(* select_thread lists the threads again, and keeps where the row is.      *)
FindRow ==
    /\ At({"list"})
    /\ \/ \E t \in Threads, i \in DOMAIN screen.rows :
            /\ HasId(t, cmd.id) /\ screen.rows[i] = t
            /\ Go(Fresh([cmd EXCEPT !.slot = i, !.title = Label(t)], {"rows"}))
       \/ Fail("failed")
    /\ UNCHANGED <<screen, moves>>

(* Variant: the row is there, and so it is selected.                       *)
ListedAgain(t) == TRUE

(* The row is selected, where Codex shows that, or it has the keyboard.    *)
ShownSelected(t) == screen.open = t \/ screen.focus = t

(* That it only has the keyboard says nothing of the thread that is open.  *)
Learnt(t) == IF screen.focus = t /\ screen.open # t THEN {} ELSE {"thread", "click"}

(* _verify_selected_visible_thread *)
Verify ==
    /\ At({"verify"})
    /\ \/ \E t \in Threads : HasId(t, cmd.id) /\ ShownSelected(t) /\ Go(Fresh(cmd, Learnt(t)))
       \/ Fail("failed")
    /\ UNCHANGED <<screen, moves>>

-------------------------------------------------------------------------------
(* Looking.                                                                *)

CodexSeen == screen.front = "Codex"

(* _visible_message_preflight *)
CheckFront ==
    /\ At({"front1", "front2"})
    /\ \/ CodexSeen /\ Go(Fresh(cmd, {"front"}))
       \/ Fail("failed")
    /\ UNCHANGED <<screen, moves>>

(* _find_visible_composer: the last text field of the tree whose name fits;
   a search for chats has such a name, and comes after the composer.       *)
CheckTree ==
    /\ At({"tree1", "tree2"})
    /\ \/ \E f \in screen.fields :
            /\ "search" \in screen.fields => f = "search"
            /\ Go(Fresh([cmd EXCEPT !.field = f], {"field"}))
       \/ Fail("failed")
    /\ UNCHANGED <<screen, moves>>

(* snapshot: it reads what is in front, ...                                *)
Look ==
    /\ At({"look1", "look2", "look3"})
    /\ Go(Fresh([cmd EXCEPT !.shot = CodexSeen], {"shot"}))
    /\ UNCHANGED <<screen, moves>>

(* Variant: the picture is taken in any case.                              *)
TakesAlways == TRUE

Takes == cmd.shot

(* ... and takes a picture of the screen when that was Codex.              *)
Capture ==
    /\ At({"capture1", "capture2", "capture3"})
    /\ \/ Takes /\ Go([cmd EXCEPT !.pictures = @ \cup {screen.front}])
       \/ Go(cmd)
    /\ UNCHANGED <<screen, moves>>

-------------------------------------------------------------------------------
(* Acting.  A program may do it or not, and answer well only if it did.    *)

Acts(effect, c, code) ==
    /\ \/ screen' = effect /\ (Go(c) \/ Fail(code))
       \/ screen' = screen /\ Fail(code)
    /\ UNCHANGED moves

(* Variant: it is believed that Codex came to the front.                   *)
FocusBelieved == At({"focus"}) /\ Go(Fresh(cmd, {"front"})) /\ UNCHANGED <<screen, moves>>

(* focus *)
Focus ==
    /\ At({"focus"})
    /\ \/ screen' = [screen EXCEPT !.front = "Codex"] /\ Go(Fresh(cmd, {"front"}))
       \/ screen' \in {screen, [screen EXCEPT !.front = "Codex"]} /\ Fail("failed")
    /\ UNCHANGED moves

Clicked(change) == IF screen.front = "Codex" THEN change ELSE screen

(* Does the click meet the row that was found?                             *)
Met(row) ==
    IF screen.front = "Codex" /\ HasId(row, cmd.id)
    THEN Fresh(cmd, {"thread"})
    ELSE [cmd EXCEPT !.stale = @ \cup {"click"}]

(* The click that opens the row which is now at the coordinates.           *)
ClickRow ==
    /\ At({"clickRow"})
    /\ LET row == screen.rows[cmd.slot] IN
       \E focus \in {row, "elsewhere"} :
           Acts(Clicked([screen EXCEPT !.open = row, !.focus = focus]), Met(row), "failed")

(* The click that puts the keyboard into the field, if it is still there.  *)
ClickField ==
    /\ At({"clickField"})
    /\ Acts(Clicked([screen EXCEPT !.focus = IF cmd.field \in screen.fields THEN cmd.field
                                             ELSE "elsewhere"]), cmd, "failed")

Here == [front |-> screen.front, open |-> screen.open, focus |-> screen.focus]

(* One program types the text and presses Return.                          *)
Type ==
    /\ At({"type"})
    /\ \/ Go([cmd EXCEPT !.text = Here])
       \/ cmd' = [cmd EXCEPT !.text = Here, !.result = "submitFailed"]
       \/ Fail("submitFailed")
    /\ UNCHANGED <<screen, moves>>

(* Variant: a failure is nothing to speak of.                              *)
ReturnAlwaysOk == "failed"

ReturnFailed == "submitFailed"

Return ==
    /\ At({"return"})
    /\ \/ Go([cmd EXCEPT !.sent = Here])
       \/ cmd' = [cmd EXCEPT !.sent = Here, !.result = ReturnFailed]
       \/ Fail(ReturnFailed)
    /\ UNCHANGED <<screen, moves>>

-------------------------------------------------------------------------------
(* _visible_message_post_send_status: polling after the submit.            *)

Finish(c, verdict) == cmd' = [c EXCEPT !.verdict = verdict, !.result = "ok"]

Peek ==
    /\ At({"peek"})
    /\ \/ CodexSeen /\ Go(cmd)
       \/ ~CodexSeen /\ Finish([cmd EXCEPT !.seen = Append(@, "inconclusive")], "inconclusive")
    /\ UNCHANGED <<screen, moves>>

State ==
    CASE screen.sign = "done"   -> "done"
      [] screen.sign = "active" -> "submitted_waiting"
      [] OTHER -> IF screen.fields # {} THEN "idle" ELSE "submitted_waiting"

(* Variant: the streak survives what is not idle.                          *)
StreakKept == IF State = "idle" THEN cmd.streak + 1 ELSE cmd.streak

Streak == IF State = "idle" THEN cmd.streak + 1 ELSE 0

Observe ==
    /\ At({"observe"})
    /\ \/ Go([cmd EXCEPT !.seen = Append(@, State), !.streak = Streak])
       \/ Finish([cmd EXCEPT !.seen = Append(@, "inconclusive")], "inconclusive")
    /\ UNCHANGED <<screen, moves>>

(* The last state decides, idleness only the second time in a row; if it
   does not, the next poll is an interval later, until they are used up.   *)
Judge ==
    /\ At({"judge"})
    /\ LET last == cmd.seen[Len(cmd.seen)] IN
       IF last = "done" \/ (last = "idle" /\ cmd.streak >= 2) THEN Finish(cmd, last)
       ELSE IF Len(cmd.seen) > Wait THEN Finish(cmd, "timeout")
       ELSE Go(cmd)
    /\ UNCHANGED <<screen, moves>>

-------------------------------------------------------------------------------
(* The customer and Codex change the screen, while a command is under way;
   what changes before its first program is part of the initial screen.    *)

Changes(s, facts) ==
    /\ cmd.result = "none" /\ cmd.at # First(cmd.kind, cmd.id)
    /\ moves < MaxMoves /\ s # screen
    /\ screen' = s /\ moves' = moves + 1
    /\ cmd' = [cmd EXCEPT !.stale = @ \cup facts]

Switch  == \E app \in Apps : Changes([screen EXCEPT !.front = app], {"front", "shot"})
Open    == \E t \in Threads : Changes([screen EXCEPT !.open = t], {"thread"})
Reorder == \E rows \in Orders : Changes([screen EXCEPT !.rows = rows], {"rows"})
Relabel == Changes([screen EXCEPT !.titled = ~@], {"rows"})
Refocus == \E f \in Focusable(screen.fields) : Changes([screen EXCEPT !.focus = f], {"field"})
Redraw  == \E fields \in SUBSET Fields :
              Changes([screen EXCEPT !.fields = fields,
                                     !.focus = IF @ \in Focusable(fields) THEN @ ELSE "elsewhere"], {"field"})
Signal  == \E sign \in Signs : Changes([screen EXCEPT !.sign = sign], {})

CmdStep ==
    \/ MatchTitle \/ FindTarget \/ FindRow \/ Verify \/ CheckFront \/ CheckTree \/ Look \/ Capture
    \/ Focus \/ ClickRow \/ ClickField \/ Type \/ Return \/ Peek \/ Observe \/ Judge

Move == Switch \/ Open \/ Reorder \/ Relabel \/ Refocus \/ Redraw \/ Signal

Next == CmdStep \/ Move

Spec == Init /\ [][Next]_vars

-------------------------------------------------------------------------------
TypeOK ==
    /\ screen \in Screen
    /\ cmd \in Command
    /\ cmd.at = "end" => cmd.result # "none"
    /\ moves \in 0..MaxMoves

(* The keystroke goes where it should, or where what changed has led it. *)
Reaches(l) ==
    /\ l.front = "Codex" \/ "front" \in cmd.stale
    /\ l.focus = cmd.field \/ cmd.stale \cap {"front", "field"} # {}
    /\ cmd.id = Current \/ Title[l.open] = cmd.title \/ cmd.stale \cap {"thread", "click"} # {}

(* What a command does with the keyboard, it does to Codex, in the field it
   took for the composer of a thread with the title it was given, unless
   that changed after it was last looked at.  A thread called `current' is
   not looked at.  A click that met another row, or another app, is noticed
   when the selection is verified, with one exception that the code makes:
   the row that it was for has the keyboard, and another thread is open.   *)
MessageReachesTarget ==
    [][/\ cmd'.text # cmd.text => Reaches(cmd'.text)
       /\ cmd'.sent # cmd.sent => Reaches(cmd'.sent)]_vars

(* The click that selects a thread is made with Codex in front, and meets the
   row with the visible id that was found, unless that changed since.      *)
SelectsTheRowFound ==
    [][At({"clickRow"}) /\ moves' = moves /\ cmd' # cmd =>
          /\ screen.front = "Codex" \/ "front" \in cmd.stale
          /\ HasId(screen.rows[cmd.slot], cmd.id) \/ "rows" \in cmd.stale]_vars

(* A message that is reported as submitted was typed and sent, and one that
   may have been typed is reported as failed in just that.                 *)
ReportTellsSent ==
    cmd.result # "none" =>
      /\ cmd.result = "ok" /\ cmd.kind \in {"send", "continue"} /\ ~cmd.dry => cmd.sent # None
      /\ cmd.sent # None => cmd.text # None
      /\ cmd.text # None => cmd.result \in {"ok", "submitFailed"}

(* A dry run, whichever way it ends, leaves the screen as it is.           *)
DryRunOnlyLooks == [][cmd.dry /\ screen' # screen => moves' # moves]_vars

(* No picture is taken of another app, unless it came in front after the
   look that goes before the picture.                                      *)
PicturesShowCodex ==
    [][cmd'.pictures # cmd.pictures /\ screen.front # "Codex" => "shot" \in cmd.stale]_vars

(* The turn is said to be idle only when it was seen so twice in a row, and
   to have timed out only after the whole wait.                            *)
VerdictIsEarned ==
    LET n == Len(cmd.seen) IN
    /\ cmd.verdict = "idle" => n >= 2 /\ cmd.seen[n] = "idle" /\ cmd.seen[n - 1] = "idle"
    /\ cmd.verdict = "timeout" => n = Wait + 1
===============================================================================
