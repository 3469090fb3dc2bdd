------------------------- MODULE DesktopActions_proofs -------------------------
(***************************************************************************)
(* What is proved of DesktopActions, for any apps, processes and denylist, *)
(* and any number of commands and of changes of the screen.                *)
(***************************************************************************)
EXTENDS DesktopActions, TLAPS, SequenceTheorems

(* What the proofs need to know of the plans.  Of an operation of a stage:
   the helper is the last resort, but for a menu; AX actions follow the check
   of their target; a look that lets the next operation be skipped is
   followed by it.                                                         *)
Step(s, n) ==
    /\ s[n] \in Helped \ {"menu"} => n = Len(s)
    /\ s[n] = "ax" => n > 1 /\ s[n - 1] = "checkTarget"
    /\ s[n] = "lookShot" => n < Len(s) /\ s[n + 1] = "capture"
    /\ s[n] = "lookTree" => n < Len(s) /\ s[n + 1] = "tree"

Sound(s) == Len(s) \in 1..9 /\ \A n \in 1..Len(s) : Step(s, n)

(* A look comes before the operation. *)
Looks == {"look", "lookBrowser", "phoneFront"}
Watched(s, n) ==
    (\E m \in 1..(n - 1) : s[m] \in Looks) \/ (n > 1 /\ s[n - 1] = "lookShot")

(* No operation acts on what is in front before a look. *)
Careful(s) == \A n \in 1..Len(s) : s[n] \in InFront => Watched(s, n)

(* Every operation that may succeed does something. *)
Active(s)  == \A n \in 1..Len(s) : s[n] \notin {"tree", "capture", "keep"}

(* The first stage ends with a look at the app in front. *)
Focusing(s) == \A n \in 1..Len(s) : s[n] \in Awaited /\ s[n] \notin InFront

(* ---- the invariant ---- *)

StageOf(c) == Plan[c.kind][c.stage]
OpOf(c)    == StageOf(c)[c.step]
Acting     == Kinds \ SeeKinds
ForPhone   == PhoneKinds \ SeeKinds
Focus      == {"app_focus", "workbench_focus", "desktop_focus_app"}

(* A command is at a place of its plan, it dates nothing in the future, and
   the app it is to bring to the front is not of the denylist.             *)
Fit(c) ==
    /\ c \in Command
    /\ c.stage \in 1..Len(Plan[c.kind]) /\ c.step \in 1..Len(StageOf(c))
    /\ c.seen # None => c.seen <= moves
    /\ c.phone # None => c.phone <= moves
    /\ c.app \notin Sensitive
    /\ c.kind \notin Focus => c.app = Phone
    /\ c.result = "none" \/ c.pc = "over"

(* Once it has looked, it knows when an app of the denylist is in front, *)
Spares(c) ==
    c.stage > 1 \/ Watched(StageOf(c), c.step) =>
        (front \in Sensitive => c.seen # moves)

(* and past the first stage when iPhone Mirroring is not. *)
KnowsPhone(c) ==
    c.kind \in ForPhone /\ c.stage > 1 => (front # Phone => c.phone # moves)

(* It does what its operation is, and the target of an AX action is checked. *)
InOrder(c) ==
    /\ c.pc = "ready" /\ OpOf(c) = "ax" => c.target.app \notin Sensitive
    /\ c.pc = "running" => OpOf(c) \in Runs
    /\ c.pc = "waiting" => OpOf(c) \in Awaited

(* What was done in the stage is counted; more than once only after a failure. *)
Tallies(c, once) ==
    /\ once => c.tally >= 1
    /\ c.failed \/ c.tally = IF once THEN 1 ELSE 0

Tallied(c) ==
    c.kind \in Acting =>
        /\ c.pc = "ready" => ~ c.acted /\ (c.tally = 0 \/ c.failed)
        /\ c.pc = "running" => Tallies(c, c.acted)

Good(c) == Fit(c) /\ Spares(c) /\ KnowsPhone(c) /\ InOrder(c) /\ Tallied(c)

(* The helper has at most one job of a command, what the command waits for,
   and none of a command that goes on without it.                          *)
OneJob ==
    /\ \A j \in jobs : j.nr <= cmd.nr
    /\ \A i, j \in jobs : i.nr = j.nr => i = j
JobIsAsked ==
    cmd.pc = "asked" => \A j \in jobs : j.nr = cmd.nr =>
        /\ j.op = Op
        /\ cmd.kind \in Acting => Tallies(cmd, j.done > 0)
JobsSpared == \A j \in jobs : j.op # "menu" => j.target.app \notin Sensitive

GoodJobs == HelperHasTheLastWord /\ OneJob /\ JobIsAsked /\ JobsSpared

IInv == TypeOK /\ Good(cmd) /\ GoodJobs

-------------------------------------------------------------------------------

(* The plans are what the proofs need. *)

PlanFits(k, p) ==
    /\ Len(p) \in 1..5 /\ \A i \in 1..Len(p) : Sound(p[i])
    /\ k \in Acting => \A i \in 1..Len(p) : Active(p[i])
    /\ IF Len(p) = 1 THEN Careful(p[1]) /\ k \notin ForPhone ELSE Focusing(p[1])

(* A plan of one stage, and one that brings iPhone Mirroring to the front first. *)
Whole(s) == Sound(s) /\ Active(s)
Alone(p) == Len(p) = 1 /\ Whole(p[1]) /\ Careful(p[1])
Phoning(p) == Len(p) \in 2..5 /\ p[1] = PhoneFocus /\ \A i \in 2..Len(p) : Whole(p[i])

LEMMA FocusFits == Whole(PhoneFocus) /\ Focusing(PhoneFocus)
BY DEF Whole, Sound, Step, PhoneFocus, Helped, Mouse, Active, Focusing, Awaited, InFront

LEMMA AloneFits ==
    ASSUME NEW k, NEW p, Alone(p), k \notin ForPhone
    PROVE  PlanFits(k, p)
BY DEF PlanFits, Alone, Whole

LEMMA PhoningFits ==
    ASSUME NEW k, NEW p, Phoning(p)
    PROVE  PlanFits(k, p)
<1>1. \A i \in 1..Len(p) : Whole(p[i])
  BY FocusFits DEF Phoning
<1>2. \A i \in 1..Len(p) : Sound(p[i]) /\ Active(p[i])
  BY <1>1 DEF Whole
<1>3. Len(p) \in 1..5 /\ Len(p) # 1 /\ Focusing(p[1])
  BY FocusFits DEF Phoning
<1> QED BY <1>2, <1>3 DEF PlanFits

(* Bringing an app to the front, and opening a URL. *)
LEMMA OpeningPlans ==
    /\ Alone(app_focus) /\ Alone(workbench_focus) /\ Alone(desktop_focus_app)
    /\ Alone(open_url) /\ Alone(local_site_open) /\ Alone(local_site_action)
<1> USE DEF Alone, Whole, Sound, Step, Careful, Active, InFront, Helped, Mouse, Watched, Looks
<1>1. Alone(app_focus) /\ Alone(workbench_focus) /\ Alone(desktop_focus_app)
  BY DEF app_focus, workbench_focus, desktop_focus_app
<1>2. Alone(open_url) /\ Alone(local_site_open) /\ Alone(local_site_action)
  BY DEF open_url, local_site_open, local_site_action
<1> QED BY <1>1, <1>2

LEMMA DesktopPlansAlone ==
    /\ Alone(click_label) /\ Alone(click_point) /\ Alone(click_seen) /\ Alone(click_place)
    /\ Alone(click_press) /\ Alone(click_element) /\ Alone(desktop_set_value)
    /\ Alone(desktop_type) /\ Alone(desktop_scroll) /\ Alone(desktop_drag)
    /\ Alone(desktop_hotkey) /\ Alone(desktop_window) /\ Alone(desktop_menu)
<1> USE DEF Alone, Whole, Sound, Step, Careful, Active, InFront, Helped, Mouse, Watched, Looks
<1>1. Alone(click_label) /\ Alone(click_point) /\ Alone(click_seen) /\ Alone(click_place)
  BY DEF click_label, click_point, click_seen, click_place
<1>2. Alone(click_press) /\ Alone(click_element) /\ Alone(desktop_set_value)
  BY DEF click_press, click_element, desktop_set_value
<1>3. Alone(desktop_type) /\ Alone(desktop_scroll) /\ Alone(desktop_drag)
  BY DEF desktop_type, desktop_scroll, desktop_drag
<1>4. Alone(desktop_hotkey) /\ Alone(desktop_window) /\ Alone(desktop_menu)
  BY DEF desktop_hotkey, desktop_window, desktop_menu
<1> QED BY <1>1, <1>2, <1>3, <1>4

(* What two sequences give, put together. *)
LEMMA Joined ==
    ASSUME NEW S, NEW s \in Seq(S), NEW t \in Seq(S), NEW u \in Seq(S),
           Len(u) = Len(s) + Len(t),
           \A n \in 1..Len(u) : u[n] = IF n <= Len(s) THEN s[n] ELSE t[n - Len(s)]
    PROVE  s \o t = u
<1>1. s \o t \in Seq(S) /\ Len(s \o t) = Len(u)
  BY ConcatProperties
<1>2. \A n \in 1..Len(u) : (s \o t)[n] = u[n]
  BY ConcatProperties
<1> QED BY <1>1, <1>2, SeqEqual

LEMMA TypeOnPhone ==
    <<"systemEvents">> \o desktop_type[1]
        = <<"systemEvents", "look", "peekaboo", "peekaboo", "systemEvents">>
<1> DEFINE ops == {"systemEvents", "look", "peekaboo"}
           s == <<"systemEvents">>
           t == <<"look", "peekaboo", "peekaboo", "systemEvents">>
           u == <<"systemEvents", "look", "peekaboo", "peekaboo", "systemEvents">>
<1>1. s \in Seq(ops) /\ t \in Seq(ops) /\ u \in Seq(ops)
  OBVIOUS
<1>2. Len(u) = Len(s) + Len(t)
  OBVIOUS
<1>3. \A n \in 1..Len(u) : u[n] = IF n <= Len(s) THEN s[n] ELSE t[n - Len(s)]
  OBVIOUS
<1>4. desktop_type[1] = t
  BY DEF desktop_type
<1> HIDE DEF s, t, u
<1>5. s \o t = u
  BY <1>1, <1>2, <1>3, Joined
<1> QED BY <1>4, <1>5 DEF s, u

LEMMA SeeOnPhone ==
    <<"phoneFront", "region">> \o desktop_see[1]
        = <<"phoneFront", "region", "look", "see", "lookShot", "capture", "lookTree", "tree", "keep">>
<1> DEFINE ops == {"phoneFront", "region", "look", "see", "lookShot", "capture", "lookTree", "tree", "keep"}
           s == <<"phoneFront", "region">>
           t == <<"look", "see", "lookShot", "capture", "lookTree", "tree", "keep">>
           u == <<"phoneFront", "region", "look", "see", "lookShot", "capture", "lookTree", "tree", "keep">>
<1>1. s \in Seq(ops) /\ t \in Seq(ops) /\ u \in Seq(ops)
  OBVIOUS
<1>2. Len(u) = Len(s) + Len(t)
  OBVIOUS
<1>3. \A n \in 1..Len(u) : u[n] = IF n <= Len(s) THEN s[n] ELSE t[n - Len(s)]
  OBVIOUS
<1>4. desktop_see[1] = t
  BY DEF desktop_see
<1> HIDE DEF s, t, u
<1>5. s \o t = u
  BY <1>1, <1>2, <1>3, Joined
<1> QED BY <1>4, <1>5 DEF s, u

(* iPhone Mirroring. *)
LEMMA PhonePlans ==
    /\ Phoning(iphone_tap_label) /\ Phoning(iphone_tap_xy) /\ Phoning(iphone_tap_seen)
    /\ Phoning(iphone_tap_place) /\ Phoning(iphone_tap_press) /\ Phoning(iphone_tap_element)
    /\ Phoning(iphone_tap_point)
    /\ Phoning(iphone_type) /\ Phoning(iphone_key) /\ Phoning(type_spotlight)
    /\ Phoning(open_app) /\ Phoning(tap_named_target) /\ Phoning(iphone_gesture)
    /\ Phoning(type_approved_text) /\ Phoning(send_approved_message)
<1>1. Whole(PhoneKey) /\ Whole(PhoneText) /\ Whole(<<"systemEvents">>) /\ Whole(<<"pressPhone">>)
  BY DEF Whole, Sound, Step, Active, Helped, Mouse, PhoneKey, PhoneText
<1>2. Whole(<<"peekaboo", "mousePhone">>) /\ Whole(<<"resolvePhone", "look", "peekaboo", "mouse">>)
  BY DEF Whole, Sound, Step, Active, Helped, Mouse
<1>3. Whole(<<"systemEvents">> \o desktop_type[1])
  <2>1. Whole(<<"systemEvents", "look", "peekaboo", "peekaboo", "systemEvents">>)
    BY DEF Whole, Sound, Step, Active, Helped, Mouse
  <2> QED BY <2>1, TypeOnPhone
<1>4. /\ Whole(click_label[1]) /\ Whole(click_point[1]) /\ Whole(click_seen[1])
      /\ Whole(click_place[1]) /\ Whole(click_press[1]) /\ Whole(click_element[1])
  BY DesktopPlansAlone DEF Alone
<1> HIDE DEF PhoneKey, PhoneText, Whole
<1>5. /\ Phoning(iphone_tap_label) /\ Phoning(iphone_tap_xy) /\ Phoning(iphone_tap_seen)
      /\ Phoning(iphone_tap_place) /\ Phoning(iphone_tap_press) /\ Phoning(iphone_tap_element)
      /\ Phoning(iphone_tap_point)
  <2>1. Phoning(iphone_tap_label) /\ Phoning(iphone_tap_xy) /\ Phoning(iphone_tap_seen)
    BY <1>4, FocusFits DEF Phoning, iphone_tap_label, iphone_tap_xy, iphone_tap_seen
  <2>2. Phoning(iphone_tap_place) /\ Phoning(iphone_tap_press) /\ Phoning(iphone_tap_element)
    BY <1>4, FocusFits DEF Phoning, iphone_tap_place, iphone_tap_press, iphone_tap_element
  <2>3. Phoning(iphone_tap_point)
    BY <1>2, FocusFits DEF Phoning, iphone_tap_point
  <2> QED BY <2>1, <2>2, <2>3
<1>6. Phoning(iphone_type) /\ Phoning(iphone_key) /\ Phoning(type_approved_text)
  <2> DEFINE typed == <<"systemEvents">> \o desktop_type[1]
  <2>1. iphone_type = <<PhoneFocus, typed>> /\ Whole(typed)
    BY <1>3 DEF iphone_type
  <2> HIDE DEF typed
  <2>2. Phoning(iphone_type)
    BY <2>1, FocusFits DEF Phoning
  <2> QED BY <1>1, <2>2, FocusFits DEF Phoning, iphone_key, type_approved_text
<1>7. Phoning(type_spotlight) /\ Phoning(tap_named_target) /\ Phoning(send_approved_message)
  BY <1>1, FocusFits DEF Phoning, type_spotlight, tap_named_target, send_approved_message
<1>8. Phoning(open_app) /\ Phoning(iphone_gesture)
  BY <1>1, <1>2, FocusFits DEF Phoning, open_app, iphone_gesture
<1> QED BY <1>5, <1>6, <1>7, <1>8

(* Observations, which do nothing to anyone. *)
LEMMA SeePlans ==
    /\ \A p \in {snapshot, ax_tree, desktop_see, iphone_see} :
          Len(p) = 1 /\ Sound(p[1]) /\ Careful(p[1])
    /\ Len(iphone_see_focus) = 2
    /\ iphone_see_focus[1] = PhoneFocus /\ Sound(iphone_see_focus[2])
<1>1. /\ Len(snapshot) = 1 /\ Sound(snapshot[1]) /\ Careful(snapshot[1])
      /\ Len(ax_tree) = 1 /\ Sound(ax_tree[1]) /\ Careful(ax_tree[1])
  BY DEF Sound, Step, Careful, InFront, Helped, Mouse, Watched, Looks, snapshot, ax_tree
<1>2. Len(desktop_see) = 1 /\ Sound(desktop_see[1]) /\ Careful(desktop_see[1])
  BY DEF Sound, Step, Careful, InFront, Helped, Mouse, Watched, Looks, desktop_see
<1> DEFINE s == <<"phoneFront", "region", "look", "see", "lookShot", "capture", "lookTree", "tree", "keep">>
<1>3. Sound(s) /\ Careful(s)
  BY DEF Sound, Step, Careful, InFront, Helped, Mouse, Watched, Looks
<1> HIDE DEF s
<1>4. iphone_see = <<s>>
  BY SeeOnPhone DEF iphone_see, s
<1>5. iphone_see_focus = <<PhoneFocus, s>>
  BY <1>4 DEF iphone_see_focus
<1> QED BY <1>1, <1>2, <1>3, <1>4, <1>5

(* Every plan fits. *)
LEMMA PlansFit == \A k \in Kinds : PlanFits(k, Plan[k])
<1>1. ASSUME NEW k \in Focus \cup {"open_url", "local_site_open", "local_site_action"}
      PROVE  PlanFits(k, Plan[k])
  BY <1>1, OpeningPlans, AloneFits DEF Plan, Focus, ForPhone, PhoneKinds
<1>2. ASSUME NEW k \in {"click_label", "click_point", "click_seen", "click_place", "click_press",
                        "click_element", "desktop_set_value", "desktop_type", "desktop_scroll", "desktop_drag",
                        "desktop_hotkey", "desktop_window", "desktop_menu"}
      PROVE  PlanFits(k, Plan[k])
  BY <1>2, DesktopPlansAlone, AloneFits DEF Plan, ForPhone, PhoneKinds
<1>3. ASSUME NEW k \in ForPhone
      PROVE  PlanFits(k, Plan[k])
  BY <1>3, PhonePlans, PhoningFits DEF Plan, ForPhone, PhoneKinds, SeeKinds
<1>4. ASSUME NEW k \in SeeKinds
      PROVE  PlanFits(k, Plan[k])
  <2>1. k \notin Acting /\ k \notin ForPhone
    BY DEF Acting, ForPhone
  <2>2. CASE k = "iphone_see_focus"
    <3>1. \A i \in 1..2 : Sound(iphone_see_focus[i])
      BY SeePlans, FocusFits DEF Whole
    <3>2. Plan[k] = iphone_see_focus
      BY <2>2 DEF Plan
    <3>3. Len(iphone_see_focus) = 2 /\ Focusing(iphone_see_focus[1])
      BY SeePlans, FocusFits
    <3> QED BY <2>1, <3>1, <3>2, <3>3 DEF PlanFits
  <2>3. CASE k # "iphone_see_focus"
    <3>1. Plan[k] \in {snapshot, ax_tree, desktop_see, iphone_see}
      BY <2>3 DEF Plan, SeeKinds
    <3> QED BY <2>1, <3>1, SeePlans DEF PlanFits
  <2> QED BY <2>2, <2>3
<1> QED BY <1>1, <1>2, <1>3, <1>4 DEF Kinds, Plan, Focus, ForPhone, PhoneKinds, SeeKinds

-------------------------------------------------------------------------------

(* Where a command goes. *)

LEMMA Places ==
    ASSUME NEW c, Fit(c)
    PROVE  /\ Len(Plan[c.kind]) \in 1..5 /\ Sound(StageOf(c)) /\ PlanFits(c.kind, Plan[c.kind])
           /\ c.kind \in Kinds /\ c.stage \in 1..5 /\ c.step \in 1..9
           /\ Step(StageOf(c), c.step)
<1>1. c.kind \in Kinds
  BY DEF Fit, Command
<1>2. PlanFits(c.kind, Plan[c.kind])
  BY <1>1, PlansFit
<1>3. Len(Plan[c.kind]) \in 1..5 /\ Sound(StageOf(c))
  BY <1>2 DEF Fit, PlanFits, StageOf
<1>4. c.stage \in 1..5
  <2> DEFINE most == Len(Plan[c.kind])
  <2>1. most \in 1..5 /\ c.stage \in 1..most
    BY <1>3 DEF Fit
  <2> HIDE DEF most
  <2> QED BY <2>1
<1>5. c.step \in 1..9 /\ Step(StageOf(c), c.step)
  <2> DEFINE s == StageOf(c)
  <2>1. Len(s) \in 1..9 /\ c.step \in 1..Len(s) /\ \A n \in 1..Len(s) : Step(s, n)
    BY <1>3 DEF Fit, Sound
  <2>2. Step(s, c.step)
    BY <2>1
  <2> DEFINE most == Len(s)
  <2>3. most \in 1..9 /\ c.step \in 1..most
    BY <2>1
  <2> HIDE DEF most
  <2>4. c.step \in 1..9
    BY <2>3
  <2> QED BY <2>2, <2>4
<1> QED BY <1>1, <1>2, <1>3, <1>4, <1>5

LEMMA FirstOp ==
    ASSUME NEW s, Sound(s)
    PROVE  1 \in 1..Len(s) /\ s[1] # "ax" /\ ~ Watched(s, 1)
<1>1. 1 \in 1..Len(s) /\ Step(s, 1)
  BY DEF Sound
<1>2. s[1] # "ax"
  BY <1>1 DEF Step
<1> QED BY <1>1, <1>2 DEF Watched

(* The first place of a plan asks nothing of what the command knows. *)
LEMMA FirstPlace ==
    ASSUME NEW k \in Kinds
    PROVE  /\ 1 \in 1..Len(Plan[k]) /\ 1 \in 1..Len(Plan[k][1])
           /\ ~ Watched(Plan[k][1], 1) /\ Plan[k][1][1] # "ax"
<1>1. PlanFits(k, Plan[k])
  BY PlansFit
<1>2. 1 \in 1..Len(Plan[k]) /\ Sound(Plan[k][1])
  BY <1>1 DEF PlanFits
<1> QED BY <1>2, FirstOp

LEMMA Unmoved ==
    ASSUME NEW c, Good(c), cmd' = c, UNCHANGED screen
    PROVE  Good(cmd)'
<1>1. Fit(cmd)' /\ Spares(cmd)' /\ KnowsPhone(cmd)'
  BY DEF Good, Fit, Spares, KnowsPhone, StageOf, screen
<1>2. InOrder(cmd)' /\ Tallied(cmd)'
  BY DEF Good, InOrder, Tallied, Tallies, StageOf, OpOf
<1> QED BY <1>1, <1>2 DEF Good

LEMMA FreshGood ==
    ASSUME TypeOK, NEW c \in Command, c.stage = 1, c.step = 1, c.tally = 0, ~ c.acted,
           c.seen = moves, c.phone = moves, c.app \notin Sensitive,
           c.kind \notin Focus => c.app = Phone,
           c.pc \notin {"running", "waiting"}, c.result = "none" \/ c.pc = "over"
    PROVE  Good(c)
<1>1. moves \in 0..MaxMoves /\ c.kind \in Kinds
  BY DEF TypeOK, ScreenTypeOK, Command
<1>2. Fit(c)
  BY <1>1, FirstPlace, ScreenAssumption DEF Fit, StageOf
<1>3. Spares(c) /\ KnowsPhone(c) /\ InOrder(c)
  BY <1>1, FirstPlace DEF Spares, KnowsPhone, InOrder, StageOf, OpOf
<1>4. Tallied(c)
  BY DEF Tallied
<1> QED BY <1>2, <1>3, <1>4 DEF Good

LEMMA GivenTyped ==
    ASSUME moves \in 0..MaxMoves, NEW n \in 0..MaxCommands, NEW k \in Kinds,
           NEW a \in Apps, NEW p \in BOOLEAN
    PROVE  Given(n, k, a, p) \in Command
BY DEF Given, Command, Moment, Steps, Results

LEMMA OverGood ==
    ASSUME TypeOK, NEW c, Fit(c), NEW r \in Results, Over(c, r), UNCHANGED screen
    PROVE  Good(cmd)' /\ cmd'.pc = "over" /\ cmd'.nr = c.nr /\ cmd'.result = r /\ cmd'.stage = 1
<1>1. /\ c.nr \in 0..MaxCommands /\ c.kind \in Kinds /\ c.app \in Apps \ Sensitive
      /\ c.kind \notin Focus => c.app = Phone
  BY DEF Fit, Command
<1> DEFINE g == Given(c.nr, c.kind, c.app, FALSE)
           d == [g EXCEPT !.pc = "over", !.result = r]
<1>2. g \in Command
  BY <1>1, GivenTyped DEF TypeOK, ScreenTypeOK
<1>3. /\ g.nr = c.nr /\ g.kind = c.kind /\ g.app = c.app /\ g.stage = 1 /\ g.step = 1
      /\ g.tally = 0 /\ ~ g.acted /\ g.seen = moves /\ g.phone = moves
  BY DEF Given
<1>4. cmd' = d
  BY DEF Over
<1> HIDE DEF g
<1>5. /\ d \in Command /\ d.nr = c.nr /\ d.kind = c.kind /\ d.app = c.app /\ d.stage = 1
      /\ d.step = 1 /\ d.tally = 0 /\ ~ d.acted /\ d.seen = moves /\ d.phone = moves
      /\ d.pc = "over" /\ d.result = r
  BY <1>2, <1>3 DEF Command, Steps
<1> HIDE DEF d
<1>6. Good(d)
  BY <1>1, <1>5, FreshGood
<1> QED BY <1>4, <1>5, <1>6, Unmoved

(* The next operation: what has to hold of it, and of what the command knows. *)
LEMMA SkipGood ==
    ASSUME TypeOK, NEW c, Fit(c), c.result = "none", KnowsPhone(c),
           NEW n \in {1, 2}, Skip(c, n), UNCHANGED screen,
           NEW m, m = c.step + n,
           c.stage > 1 \/ Watched(StageOf(c), m) =>
               (front \in Sensitive => c.seen # moves),
           m <= Len(StageOf(c)) /\ StageOf(c)[m] = "ax" =>
               c.target.app \notin Sensitive,
           c.kind \in Acting => c.tally = 0 \/ c.failed
    PROVE  /\ Good(cmd)' /\ cmd'.nr = c.nr /\ cmd'.pc \in {"ready", "over"}
           /\ cmd'.result # "ok" /\ cmd'.stage <= c.stage
           /\ m > Len(StageOf(c)) => cmd'.pc = "over"
<1>1. c.step \in 1..9 /\ c.stage \in 1..5 /\ Len(StageOf(c)) \in 1..9
  BY Places DEF Sound
<1>2. CASE c.step + n > Len(Plan[c.kind][c.stage])
  <2>1. Over(c, "failed")
    BY <1>2 DEF Skip
  <2> QED BY <1>1, <1>2, <2>1, OverGood DEF StageOf, Results
<1>3. CASE ~ (c.step + n > Len(Plan[c.kind][c.stage]))
  <2> DEFINE d == [c EXCEPT !.step = @ + n, !.pc = "ready", !.acted = FALSE]
  <2>1. cmd' = d
    BY <1>3 DEF Skip
  <2> DEFINE most == Len(StageOf(c))
  <2>2. c \in Command /\ c.step + n \in 1..most /\ c.step + n \in 1..9
    <3>1. most \in 1..9 /\ c.step \in 1..9 /\ ~ (c.step + n > most) /\ c \in Command
      BY <1>1, <1>3 DEF Fit, StageOf
    <3> HIDE DEF most
    <3> QED BY <3>1
  <2>3. /\ d.nr = c.nr /\ d.kind = c.kind /\ d.app = c.app /\ d.stage = c.stage /\ d.step = c.step + n
        /\ d.pc = "ready" /\ d.result = c.result /\ d.target = c.target /\ ~ d.acted
        /\ d.tally = c.tally /\ d.failed = c.failed /\ d.seen = c.seen /\ d.phone = c.phone
        /\ d \in Command
    <3> DEFINE next == c.step + n
    <3>1. next \in 1..9
      BY <2>2
    <3>2. d = [c EXCEPT !.step = next, !.pc = "ready", !.acted = FALSE]
      BY <2>2 DEF Command
    <3> HIDE DEF next
    <3> QED BY <2>2, <3>1, <3>2 DEF Command, Steps
  <2> HIDE DEF d
  <2>4. StageOf(d) = StageOf(c) /\ OpOf(d) = StageOf(c)[c.step + n]
    BY <2>3 DEF StageOf, OpOf
  <2>5. Fit(d)
    BY <2>2, <2>3, <2>4 DEF Fit
  <2>6. Spares(d) /\ KnowsPhone(d) /\ InOrder(d)
    BY <1>3, <2>2, <2>3, <2>4 DEF Spares, KnowsPhone, InOrder
  <2>7. Tallied(d)
    BY <2>3 DEF Tallied
  <2>8. Good(cmd)'
    BY <2>1, <2>5, <2>6, <2>7, Unmoved DEF Good
  <2> QED BY <2>1, <2>2, <2>3, <2>8, <1>1
<1> QED BY <1>2, <1>3

(* The stage has succeeded: what has to hold past it. *)
LEMMA SucceededGood ==
    ASSUME TypeOK, NEW c, Fit(c), c.result = "none", Succeeded(c), UNCHANGED screen,
           c.stage # Len(Plan[c.kind]) =>
               /\ front \in Sensitive => c.seen # moves
               /\ c.kind \in ForPhone /\ front # Phone => c.phone # moves
    PROVE  Good(cmd)' /\ cmd'.nr = c.nr /\ cmd'.pc \in {"ready", "over"}
<1>1. c.stage \in 1..5 /\ Len(Plan[c.kind]) \in 1..5
  BY Places
<1>2. CASE c.stage = Len(Plan[c.kind])
  BY <1>2, OverGood DEF Succeeded, Results
<1>3. CASE c.stage # Len(Plan[c.kind])
  <2> PICK p \in BOOLEAN :
         cmd' = [c EXCEPT !.stage = @ + 1, !.step = 1, !.pc = "ready", !.acted = FALSE,
                          !.tally = 0, !.failed = FALSE, !.target = NoTarget,
                          !.peekaboo = p]
    BY <1>3 DEF Succeeded
  <2> DEFINE d == [c EXCEPT !.stage = @ + 1, !.step = 1, !.pc = "ready", !.acted = FALSE,
                          !.tally = 0, !.failed = FALSE, !.target = NoTarget,
                          !.peekaboo = p]
  <2>1. cmd' = d
    OBVIOUS
  <2> DEFINE most == Len(Plan[c.kind])
  <2>2. c \in Command /\ c.stage + 1 \in 1..most /\ c.stage + 1 \in 1..5 /\ c.stage + 1 > 1
    <3>1. most \in 1..5 /\ c.stage \in 1..most /\ c.stage # most /\ c \in Command
      BY <1>1, <1>3 DEF Fit
    <3> HIDE DEF most
    <3> QED BY <3>1
  <2>3. /\ d.nr = c.nr /\ d.kind = c.kind /\ d.app = c.app /\ d.stage = c.stage + 1 /\ d.step = 1
        /\ d.pc = "ready" /\ d.result = c.result /\ ~ d.acted
        /\ d.tally = 0 /\ d.seen = c.seen /\ d.phone = c.phone
        /\ d \in Command
    <3> DEFINE next == c.stage + 1
               first == 1
               none == 0
    <3>1. c \in Command /\ next \in 1..5 /\ p \in BOOLEAN /\ first \in 1..9 /\ none \in Nat
      BY <2>2
    <3>2. d = [c EXCEPT !.stage = next, !.step = first, !.pc = "ready", !.acted = FALSE,
                        !.tally = none, !.failed = FALSE, !.target = NoTarget,
                        !.peekaboo = p]
      BY <2>2 DEF Command
    <3> HIDE DEF next, first, none, d
    <3>3. /\ d.nr = c.nr /\ d.kind = c.kind /\ d.app = c.app /\ d.stage = next /\ d.step = first
          /\ d.pc = "ready" /\ d.result = c.result /\ ~ d.acted
          /\ d.tally = none /\ d.seen = c.seen /\ d.phone = c.phone
          /\ d \in Command
      BY <3>1, <3>2 DEF Command, Steps
    <3> QED BY <3>3 DEF next, first, none
  <2> HIDE DEF d
  <2>4. PlanFits(c.kind, Plan[c.kind])
    BY Places
  <2>5. Sound(StageOf(d))
    BY <2>2, <2>3, <2>4 DEF PlanFits, StageOf
  <2>6. 1 \in 1..Len(StageOf(d)) /\ OpOf(d) # "ax"
    BY <2>3, <2>5, FirstOp DEF OpOf
  <2>7. Fit(d)
    BY <2>2, <2>3, <2>6 DEF Fit
  <2>8. Spares(d) /\ KnowsPhone(d) /\ InOrder(d) /\ Tallied(d)
    BY <1>3, <2>3, <2>6 DEF Spares, KnowsPhone, InOrder, Tallied
  <2>9. Good(cmd)'
    BY <2>1, <2>7, <2>8, Unmoved DEF Good
  <2> QED BY <2>1, <2>3, <2>9
<1> QED BY <1>2, <1>3

-------------------------------------------------------------------------------

(* What a step of a command leaves it with. *)
Alike(c) ==
    /\ c \in Command
    /\ c.nr = cmd.nr /\ c.kind = cmd.kind /\ c.app = cmd.app
    /\ c.stage = cmd.stage /\ c.step = cmd.step /\ c.result = cmd.result
Keeps == Good(cmd)' /\ cmd'.nr = cmd.nr
Stays == cmd'.stage <= cmd.stage /\ cmd'.result # "ok"

(* The next operation of a stage, and the one after it. *)
LEMMA NextOp ==
    ASSUME NEW s, Sound(s), NEW n \in 1..9
    PROVE  /\ Watched(s, n + 1) /\ s[n] \notin Looks \cup {"lookShot"} => Watched(s, n)
           /\ n + 1 <= Len(s) /\ s[n + 1] = "ax" => s[n] = "checkTarget"
<1> DEFINE m == n + 1
<1>1. m - 1 = n /\ m \in 2..10
  OBVIOUS
<1>2. \A i \in 1..n : i \in 1..(n - 1) \/ i = n
  OBVIOUS
<1> HIDE DEF m
<1>3. Watched(s, m) /\ s[n] \notin Looks \cup {"lookShot"} => Watched(s, n)
  BY <1>1, <1>2 DEF Watched
<1>4. m <= Len(s) => Step(s, m)
  BY <1>1 DEF Sound
<1>5. m <= Len(s) /\ s[m] = "ax" => s[n] = "checkTarget"
  BY <1>1, <1>4 DEF Step
<1> QED BY <1>3, <1>5 DEF m

LEMMA NextButOneOp ==
    ASSUME NEW s, Sound(s), NEW n \in 1..9, s[n] \in {"lookShot", "lookTree"}, Step(s, n)
    PROVE  /\ Watched(s, n + 2) => Watched(s, n)
           /\ ~ (n + 2 <= Len(s) /\ s[n + 2] = "ax")
<1>1. s[n + 1] \in {"capture", "tree"}
  BY DEF Step
<1>2. n + 1 \in 1..10
  OBVIOUS
<1> DEFINE l == n + 1
           m == n + 2
<1>3. m - 1 = l /\ m \in 3..11
  OBVIOUS
<1>4. \A i \in 1..l : i \in 1..(n - 1) \/ i = n \/ i = l
  OBVIOUS
<1>5. s[l] \in {"capture", "tree"}
  BY <1>1
<1> HIDE DEF l, m
<1>6. Watched(s, m) => Watched(s, n)
  BY <1>3, <1>4, <1>5 DEF Watched, Looks
<1>7. m <= Len(s) => Step(s, m)
  BY <1>3 DEF Sound
<1>8. ~ (m <= Len(s) /\ s[m] = "ax")
  BY <1>3, <1>5, <1>7 DEF Step
<1> QED BY <1>6, <1>8 DEF m

(* An operation after which another is tried; a look tells something. *)
LEMMA AdvancedGood ==
    ASSUME TypeOK, Good(cmd), cmd.pc # "over", NEW c, Alike(c), NextStep(c), UNCHANGED screen,
           Op = "checkTarget" => c.target.app \notin Sensitive,
           \/ c.seen = cmd.seen /\ Op \notin Looks \cup {"lookShot"}
           \/ c.seen \in {moves, None} /\ (front \in Sensitive => c.seen # moves),
           c.phone = cmd.phone \/ (c.phone = moves /\ front = Phone),
           c.kind \in Acting => c.tally = 0 \/ c.failed
    PROVE  /\ Keeps /\ Stays /\ cmd'.pc \in {"ready", "over"}
           /\ cmd.step = Len(Stage) => cmd'.pc = "over"
<1> DEFINE s == StageOf(c)
<1>1. StageOf(cmd) = s /\ Stage = s /\ Op = s[c.step] /\ c.result = "none" /\ Good(cmd) /\ Fit(cmd)
  BY DEF Good, Fit, Alike, StageOf, Stage, Op
<1>2. c.step \in 1..9 /\ Sound(s)
  BY <1>1, Places DEF Alike
<1>3. moves \in Nat /\ None # moves
  BY ScreenAssumption DEF TypeOK, ScreenTypeOK
<1>4. Fit(c)
  BY <1>1, <1>3 DEF Fit, Alike
<1>5. KnowsPhone(c)
  BY <1>1 DEF Good, KnowsPhone, Alike
<1>6. c.stage > 1 \/ Watched(s, c.step + 1) => (front \in Sensitive => c.seen # moves)
  <2>1. CASE c.seen = cmd.seen /\ Op \notin Looks \cup {"lookShot"}
    <3>1. Watched(s, c.step + 1) => Watched(s, c.step)
      BY <1>1, <1>2, <2>1, NextOp
    <3> QED BY <1>1, <2>1, <3>1 DEF Good, Spares, Alike
  <2> QED BY <2>1, <1>3
<1>7. c.step + 1 <= Len(s) /\ s[c.step + 1] = "ax" => c.target.app \notin Sensitive
  BY <1>1, <1>2, NextOp
<1>8. Skip(c, 1)
  BY DEF NextStep
<1> DEFINE n == 1
           m == c.step + n
<1>9. /\ n \in {1, 2} /\ Skip(c, n) /\ m = c.step + n
      /\ c.stage > 1 \/ Watched(StageOf(c), m) => (front \in Sensitive => c.seen # moves)
      /\ m <= Len(StageOf(c)) /\ StageOf(c)[m] = "ax" => c.target.app \notin Sensitive
  BY <1>6, <1>7, <1>8
<1>10. cmd.step = Len(Stage) => m > Len(StageOf(c))
  BY <1>1, <1>2 DEF Alike
<1> HIDE DEF n, m
<1>11. /\ Good(cmd)' /\ cmd'.nr = c.nr /\ cmd'.pc \in {"ready", "over"}
       /\ cmd'.result # "ok" /\ cmd'.stage <= c.stage
       /\ m > Len(StageOf(c)) => cmd'.pc = "over"
  BY <1>1, <1>4, <1>5, <1>9, SkipGood
<1> QED BY <1>10, <1>11 DEF Keeps, Stays, Alike

(* A look that lets the next operation be skipped. *)
LEMMA SkippedGood ==
    ASSUME TypeOK, Good(cmd), cmd.pc = "ready", Skip(cmd, 2), UNCHANGED screen,
           Op \in {"lookShot", "lookTree"}
    PROVE  Keeps /\ Stays /\ cmd'.pc \in {"ready", "over"}
<1> DEFINE s == StageOf(cmd)
<1>1. Op = s[cmd.step] /\ cmd.result = "none" /\ Fit(cmd) /\ cmd.kind \in Kinds
  BY DEF Good, Fit, StageOf, Stage, Op, Command
<1>2. cmd.step \in 1..9 /\ Sound(s) /\ Step(s, cmd.step)
  BY <1>1, Places
<1>4. cmd.stage > 1 \/ Watched(s, cmd.step + 2) => (front \in Sensitive => cmd.seen # moves)
  BY <1>1, <1>2, NextButOneOp DEF Good, Spares
<1>5. ~ (cmd.step + 2 <= Len(s) /\ s[cmd.step + 2] = "ax")
  BY <1>1, <1>2, NextButOneOp
<1>6. cmd.kind \in Acting => cmd.tally = 0 \/ cmd.failed
  BY DEF Good, Tallied
<1> DEFINE n == 2
<1>7. /\ n \in {1, 2} /\ Skip(cmd, n)
      /\ cmd.stage > 1 \/ Watched(StageOf(cmd), cmd.step + n) => (front \in Sensitive => cmd.seen # moves)
      /\ cmd.step + n <= Len(StageOf(cmd)) /\ StageOf(cmd)[cmd.step + n] = "ax" =>
            cmd.target.app \notin Sensitive
  BY <1>4, <1>5
<1> HIDE DEF n
<1>8. /\ Good(cmd)' /\ cmd'.nr = cmd.nr /\ cmd'.pc \in {"ready", "over"}
      /\ cmd'.result # "ok" /\ cmd'.stage <= cmd.stage
  BY <1>1, <1>6, <1>7, SkipGood DEF Good
<1> QED BY <1>8 DEF Keeps, Stays

(* The command ends without success. *)
LEMMA EndedGood ==
    ASSUME TypeOK, Good(cmd), NEW r \in Results \ {"ok"}, Over(cmd, r), UNCHANGED screen
    PROVE  Keeps /\ Stays /\ cmd'.pc = "over"
<1>1. Good(cmd)' /\ cmd'.pc = "over" /\ cmd'.nr = cmd.nr /\ cmd'.result = r /\ cmd'.stage = 1
  BY OverGood DEF Good
<1>2. cmd.stage \in 1..5
  BY Places DEF Good
<1> QED BY <1>1, <1>2 DEF Keeps, Stays

(* A stage succeeds otherwise than by a look at the app that was brought to
   the front.                                                              *)
LEMMA DoneGood ==
    ASSUME TypeOK, Good(cmd), cmd.pc # "over", NEW c, Alike(c), Succeeded(c), UNCHANGED screen,
           c.seen = cmd.seen, c.phone = cmd.phone, Op \notin Awaited
    PROVE  Keeps /\ cmd'.pc \in {"ready", "over"}
<1>1. Fit(cmd) /\ c.result = "none" /\ Fit(c)
  BY DEF Good, Fit, Alike, StageOf
<1>2. c.stage # Len(Plan[c.kind]) => c.stage > 1
  <2>1. SUFFICES ASSUME c.stage # Len(Plan[c.kind]), ~ (c.stage > 1)
                 PROVE  FALSE
    OBVIOUS
  <2>2. c.stage = 1 /\ PlanFits(c.kind, Plan[c.kind]) /\ StageOf(c) = Plan[c.kind][1]
    BY <1>1, <2>1, Places DEF StageOf
  <2>3. Focusing(Plan[c.kind][1])
    BY <2>1, <2>2 DEF PlanFits
  <2>4. Op = Plan[c.kind][1][c.step] /\ c.step \in 1..Len(Plan[c.kind][1])
    BY <1>1, <2>2 DEF Alike, Op, Stage, Fit, StageOf
  <2> QED BY <2>3, <2>4 DEF Focusing
<1>3. c.stage # Len(Plan[c.kind]) =>
         /\ front \in Sensitive => c.seen # moves
         /\ c.kind \in ForPhone /\ front # Phone => c.phone # moves
  BY <1>2 DEF Good, Spares, KnowsPhone, Alike
<1>4. Good(cmd)' /\ cmd'.nr = c.nr /\ cmd'.pc \in {"ready", "over"}
  BY <1>1, <1>3, SucceededGood
<1> QED BY <1>4 DEF Keeps, Alike

(* The checks. *)
LEMMA ChecksGood ==
    ASSUME TypeOK, Good(cmd),
           Look \/ CheckTarget \/ LookBrowser \/ Resolve \/ PhoneFront \/ LookShot \/ LookTree
    PROVE  Keeps /\ Stays /\ cmd'.pc \in {"ready", "over"}
<1>1. cmd.pc = "ready" /\ UNCHANGED screen /\ cmd \in Command
  BY DEF Good, Fit, Look, CheckTarget, LookBrowser, Resolve, PhoneFront, LookShot, LookTree, At, AtOp
<1>2. moves \in 0..MaxMoves /\ front \in Apps /\ snap \in Snapshot \cup {NoSnapshot}
  BY DEF TypeOK, ScreenTypeOK
<1>3. cmd.kind \in Acting => cmd.tally = 0 \/ cmd.failed
  BY <1>1 DEF Good, Tallied
(* What the command notes of a look. *)
<1>5. \A r \in FrontmostApp : LET c == [cmd EXCEPT !.seen = SeenNow(r)] IN
         /\ Alike(c) /\ c.phone = cmd.phone /\ c.target = cmd.target
         /\ c.tally = cmd.tally /\ c.failed = cmd.failed
         /\ c.seen \in {moves, None} /\ (r \notin Sensitive /\ front \in Sensitive => c.seen # moves)
  <2> SUFFICES ASSUME NEW r \in FrontmostApp
               PROVE  LET c == [cmd EXCEPT !.seen = SeenNow(r)] IN
         /\ Alike(c) /\ c.phone = cmd.phone /\ c.target = cmd.target
         /\ c.tally = cmd.tally /\ c.failed = cmd.failed
         /\ c.seen \in {moves, None} /\ (r \notin Sensitive /\ front \in Sensitive => c.seen # moves)
    OBVIOUS
  <2> DEFINE now == SeenNow(r)
             c == [cmd EXCEPT !.seen = now]
  <2>1. now \in Moment /\ now \in {moves, None} /\ (r \notin Sensitive /\ front \in Sensitive => now # moves)
    BY <1>2, ScreenAssumption DEF SeenNow, FrontmostApp, Moment
  <2> HIDE DEF now
  <2>2. /\ Alike(c) /\ c.phone = cmd.phone /\ c.target = cmd.target
        /\ c.tally = cmd.tally /\ c.failed = cmd.failed /\ c.seen = now
    BY <1>1, <2>1 DEF Alike, Command
  <2> QED BY <2>1, <2>2 DEF now
<1>6. CASE Look
  <2> PICK r \in FrontmostApp : IF r \in Sensitive THEN Over(cmd, "blocked")
                                ELSE NextStep([cmd EXCEPT !.seen = SeenNow(r)])
    BY <1>6 DEF Look
  <2>1. CASE r \in Sensitive
    BY <1>1, <2>1, EndedGood DEF Results
  <2>2. CASE r \notin Sensitive
    <3>1. Op # "checkTarget"
      BY <1>6 DEF Look, At
    <3> DEFINE c == [cmd EXCEPT !.seen = SeenNow(r)]
    <3>2. /\ Alike(c) /\ c.phone = cmd.phone /\ c.tally = cmd.tally /\ c.failed = cmd.failed
          /\ c.kind = cmd.kind
          /\ c.seen \in {moves, None} /\ (front \in Sensitive => c.seen # moves) /\ NextStep(c)
      BY <1>5, <2>2 DEF Alike
    <3> HIDE DEF c
    <3> QED BY <1>1, <1>3, <3>1, <3>2, AdvancedGood
  <2> QED BY <2>1, <2>2
<1>7. CASE LookShot
  <2> PICK r \in FrontmostApp : IF r \in Sensitive THEN Skip(cmd, 2)
                                ELSE NextStep([cmd EXCEPT !.seen = SeenNow(r)])
    BY <1>7 DEF LookShot
  <2>1. CASE r \in Sensitive
    BY <1>1, <1>7, <2>1, SkippedGood DEF LookShot, At
  <2>2. CASE r \notin Sensitive
    <3>1. Op # "checkTarget"
      BY <1>7 DEF LookShot, At
    <3> DEFINE c == [cmd EXCEPT !.seen = SeenNow(r)]
    <3>2. /\ Alike(c) /\ c.phone = cmd.phone /\ c.tally = cmd.tally /\ c.failed = cmd.failed
          /\ c.kind = cmd.kind
          /\ c.seen \in {moves, None} /\ (front \in Sensitive => c.seen # moves) /\ NextStep(c)
      BY <1>5, <2>2 DEF Alike
    <3> HIDE DEF c
    <3> QED BY <1>1, <1>3, <3>1, <3>2, AdvancedGood
  <2> QED BY <2>1, <2>2
<1>8. CASE LookTree
  <2> PICK r \in FrontmostApp : \E t \in TargetsFor(r) :
         IF r \in Sensitive \/ t = NoTarget THEN Skip(cmd, 2)
         ELSE NextStep([cmd EXCEPT !.seen = moves, !.target = t])
    BY <1>8 DEF LookTree
  <2> PICK t \in TargetsFor(r) :
         IF r \in Sensitive \/ t = NoTarget THEN Skip(cmd, 2)
         ELSE NextStep([cmd EXCEPT !.seen = moves, !.target = t])
    OBVIOUS
  <2>1. CASE r \in Sensitive \/ t = NoTarget
    BY <1>1, <1>8, <2>1, SkippedGood DEF LookTree, At
  <2>2. CASE ~ (r \in Sensitive \/ t = NoTarget)
    <3>1. Op # "checkTarget"
      BY <1>8 DEF LookTree, At
    <3>2. t \in Target /\ t.app = r
      BY <2>2 DEF TargetsFor
    <3>3. r = front /\ front \notin Sensitive
      BY <2>2, <3>2, ScreenAssumption DEF FrontmostApp, Target
    <3> DEFINE c == [cmd EXCEPT !.seen = moves, !.target = t]
    <3>4. /\ Alike(c) /\ c.phone = cmd.phone /\ c.tally = cmd.tally /\ c.failed = cmd.failed
          /\ c.kind = cmd.kind /\ c.seen = moves /\ NextStep(c)
      BY <1>1, <1>2, <2>2, <3>2 DEF Alike, Command, Moment
    <3> HIDE DEF c
    <3> QED BY <1>1, <1>3, <3>1, <3>3, <3>4, AdvancedGood
  <2> QED BY <2>1, <2>2
<1>9. CASE CheckTarget
  <2>1. CASE Over(cmd, "blocked")
    BY <1>1, <2>1, EndedGood DEF Results
  <2>2. CASE cmd.target.app \notin Sensitive /\ NextStep(cmd)
    <3>1. Alike(cmd) /\ Op \notin Looks \cup {"lookShot"}
      BY <1>1, <1>9 DEF Alike, CheckTarget, At, Looks
    <3> QED BY <1>1, <1>3, <2>2, <3>1, AdvancedGood
  <2> QED BY <1>9, <2>1, <2>2 DEF CheckTarget
<1>10. CASE LookBrowser
  <2>1. CASE Over(cmd, "failed")
    BY <1>1, <2>1, EndedGood DEF Results
  <2>2. CASE front \in Browsers /\ NextStep([cmd EXCEPT !.seen = moves])
    <3>1. Op # "checkTarget"
      BY <1>10 DEF LookBrowser, At
    <3>2. front \notin Sensitive
      BY <2>2, ScreenAssumption
    <3> DEFINE c == [cmd EXCEPT !.seen = moves]
    <3>3. /\ Alike(c) /\ c.phone = cmd.phone /\ c.tally = cmd.tally /\ c.failed = cmd.failed
          /\ c.kind = cmd.kind /\ c.seen = moves /\ NextStep(c)
      BY <1>1, <1>2, <2>2 DEF Alike, Command, Moment
    <3> HIDE DEF c
    <3> QED BY <1>1, <1>3, <3>1, <3>2, <3>3, AdvancedGood
  <2> QED BY <1>10, <2>1, <2>2 DEF LookBrowser
<1>11. CASE PhoneFront
  <2>1. CASE Over(cmd, "failed")
    BY <1>1, <2>1, EndedGood DEF Results
  <2>2. CASE front = Phone /\ NextStep([cmd EXCEPT !.seen = moves, !.phone = moves])
    <3>1. Op # "checkTarget"
      BY <1>11 DEF PhoneFront, At
    <3>2. front \notin Sensitive
      BY <2>2, ScreenAssumption
    <3> DEFINE c == [cmd EXCEPT !.seen = moves, !.phone = moves]
    <3>3. /\ Alike(c) /\ c.phone = moves /\ c.tally = cmd.tally /\ c.failed = cmd.failed
          /\ c.kind = cmd.kind /\ c.seen = moves /\ NextStep(c)
      BY <1>1, <1>2, <2>2 DEF Alike, Command, Moment
    <3> HIDE DEF c
    <3> QED BY <1>1, <1>3, <2>2, <3>1, <3>2, <3>3, AdvancedGood
  <2> QED BY <1>11, <2>1, <2>2 DEF PhoneFront
<1>12. CASE Resolve
  <2>1. CASE Over(cmd, "failed")
    BY <1>1, <2>1, EndedGood DEF Results
  <2>2. Op # "checkTarget" /\ Op \notin Looks \cup {"lookShot"}
    BY <1>12 DEF Resolve, AtOp, Looks
  <2>3. CASE NextStep(cmd)
    BY <1>1, <1>3, <2>2, <2>3, AdvancedGood DEF Alike
  <2>4. CASE snap # NoSnapshot /\ NextStep([cmd EXCEPT !.target = snap.target])
    <3> DEFINE t == snap.target
               c == [cmd EXCEPT !.target = t]
    <3>1. t \in Target \cup {NoTarget}
      BY <1>2, <2>4 DEF Snapshot
    <3> HIDE DEF t
    <3>2. /\ Alike(c) /\ c.phone = cmd.phone /\ c.tally = cmd.tally /\ c.failed = cmd.failed
          /\ c.kind = cmd.kind /\ c.seen = cmd.seen
      BY <1>1, <3>1 DEF Alike, Command
    <3>3. NextStep(c)
      BY <2>4 DEF t
    <3> HIDE DEF c
    <3> QED BY <1>1, <1>3, <2>2, <3>2, <3>3, AdvancedGood
  <2> QED BY <1>12, <2>1, <2>3, <2>4 DEF Resolve
<1> QED BY <1>6, <1>7, <1>8, <1>9, <1>10, <1>11, <1>12

(* What the plans say of the operation under way. *)
LEMMA OpFits ==
    ASSUME Good(cmd)
    PROVE  /\ cmd.kind \in Acting => Op \notin {"tree", "capture", "keep"}
           /\ Op \in Helped \ {"menu"} => cmd.step = Len(Stage)
           /\ Op \in InFront => cmd.stage > 1 \/ Watched(Stage, cmd.step)
           /\ Op \in InFront /\ cmd.kind \in ForPhone => cmd.stage > 1
<1>1. Fit(cmd) /\ Op = StageOf(cmd)[cmd.step] /\ Stage = StageOf(cmd)
  BY DEF Good, Op, Stage, StageOf
<1>2. /\ PlanFits(cmd.kind, Plan[cmd.kind]) /\ Step(StageOf(cmd), cmd.step)
      /\ cmd.stage \in 1..Len(Plan[cmd.kind]) /\ cmd.step \in 1..Len(StageOf(cmd))
      /\ cmd.stage \in 1..5
  BY <1>1, Places DEF Fit
<1>3. cmd.kind \in Acting => Active(StageOf(cmd))
  BY <1>2 DEF PlanFits, StageOf
<1>4. cmd.kind \in Acting => Op \notin {"tree", "capture", "keep"}
  BY <1>1, <1>2, <1>3 DEF Active
<1>5. Op \in Helped \ {"menu"} => cmd.step = Len(Stage)
  BY <1>1, <1>2 DEF Step
<1>6. ASSUME Op \in InFront, ~ (cmd.stage > 1)
      PROVE  Watched(Stage, cmd.step) /\ cmd.kind \notin ForPhone
  <2>1. cmd.stage = 1 /\ StageOf(cmd) = Plan[cmd.kind][1]
    BY <1>2, <1>6 DEF StageOf
  <2>2. ~ Focusing(StageOf(cmd))
    BY <1>1, <1>2, <1>6 DEF Focusing
  <2>3. Careful(StageOf(cmd)) /\ cmd.kind \notin ForPhone
    BY <1>2, <2>1, <2>2 DEF PlanFits
  <2> QED BY <1>1, <1>2, <1>6, <2>3 DEF Careful
<1> QED BY <1>4, <1>5, <1>6

(* A command stays where it is. *)
LEMMA SettledGood ==
    ASSUME TypeOK, Good(cmd), cmd.pc # "over", Alike(cmd'), UNCHANGED screen,
           cmd'.seen = cmd.seen, cmd'.phone = cmd.phone,
           InOrder(cmd)', Tallied(cmd)'
    PROVE  Keeps /\ Stays
<1>1. Fit(cmd) /\ cmd.result = "none" /\ StageOf(cmd)' = StageOf(cmd)
  BY DEF Good, Fit, Alike, StageOf
<1>2. Fit(cmd)'
  BY <1>1 DEF Fit, Alike, screen
<1>3. Spares(cmd)' /\ KnowsPhone(cmd)'
  BY <1>1 DEF Good, Spares, KnowsPhone, Alike, screen
<1>4. cmd.stage \in 1..5
  BY <1>1, Places
<1> QED BY <1>1, <1>2, <1>3, <1>4 DEF Good, Keeps, Stays, Alike

LEMMA WaitingGood ==
    ASSUME Alike(cmd'), \/ cmd'.pc = "waiting" /\ Op \in Awaited
                        \/ cmd'.pc = "asked"
    PROVE  InOrder(cmd)' /\ Tallied(cmd)'
<1>1. OpOf(cmd)' = Op
  BY DEF Alike, OpOf, StageOf, Op, Stage
<1> QED BY <1>1 DEF InOrder, Tallied

(* An engine has failed, or there is none. *)
LEMMA FailedGood ==
    ASSUME TypeOK, Good(cmd), cmd.pc # "over", Failed(cmd), UNCHANGED screen,
           Op \notin Looks \cup {"lookShot", "checkTarget"}
    PROVE  /\ Keeps /\ Stays /\ cmd'.pc \in {"ready", "over"}
           /\ cmd.step = Len(Stage) => cmd'.pc = "over"
<1> DEFINE c == [cmd EXCEPT !.failed = TRUE]
<1>1. /\ Alike(c) /\ NextStep(c) /\ c.seen = cmd.seen /\ c.phone = cmd.phone /\ c.failed
  BY DEF Good, Fit, Alike, Command, Failed
<1> HIDE DEF c
<1> QED BY <1>1, AdvancedGood

(* Engines the command runs itself. *)
LEMMA RunGood ==
    ASSUME TypeOK, Good(cmd), Run
    PROVE  Keeps /\ Stays /\ cmd'.pc \in {"ready", "running", "over"}
<1>1. /\ cmd.pc = "ready" /\ UNCHANGED screen /\ cmd \in Command
      /\ Op \in Runs /\ Op \notin Looks \cup {"lookShot", "checkTarget"}
  BY DEF Good, Fit, Run, AtOp, Looks, Runs, InFront, ByPid, Elsewhere, Raising
<1>2. cmd.kind \in Acting => ~ cmd.acted /\ (cmd.tally = 0 \/ cmd.failed)
  BY <1>1 DEF Good, Tallied
<1>3. CASE NextStep(cmd)
  BY <1>1, <1>2, <1>3, AdvancedGood DEF Alike
<1>4. CASE Failed(cmd)
  BY <1>1, <1>4, FailedGood
<1>5. CASE \E t \in ProcessFor(Op) : cmd' = [cmd EXCEPT !.pc = "running", !.target = t]
  <2> PICK t \in ProcessFor(Op) : cmd' = [cmd EXCEPT !.pc = "running", !.target = t]
    BY <1>5
  <2>1. t \in Target \cup {NoTarget}
    BY <1>1 DEF ProcessFor, TargetsFor, Command
  <2>2. Alike(cmd') /\ cmd'.seen = cmd.seen /\ cmd'.phone = cmd.phone /\ cmd'.pc = "running"
    BY <1>1, <2>1 DEF Alike, Command, Steps
  <2>3. /\ cmd'.kind = cmd.kind /\ cmd'.acted = cmd.acted /\ cmd'.tally = cmd.tally
        /\ cmd'.failed = cmd.failed
    BY <1>1 DEF Command
  <2>4. Tallied(cmd)'
    BY <1>2, <2>2, <2>3 DEF Tallied, Tallies
  <2>5. InOrder(cmd)'
    BY <1>1, <2>2 DEF InOrder, Alike, OpOf, StageOf, Op, Stage
  <2> QED BY <1>1, <2>2, <2>4, <2>5, SettledGood
<1> QED BY <1>3, <1>4, <1>5 DEF Run

LEMMA ActGood ==
    ASSUME TypeOK, Good(cmd), Act
    PROVE  Keeps /\ Stays /\ cmd'.pc = "running" /\ front' \in Apps
<1>1. cmd.pc = "running" /\ cmd \in Command /\ ~ cmd.acted /\ cmd.app \in Apps \ Sensitive
  BY DEF Good, Fit, Act, Command
<1> DEFINE more == cmd.tally + 1
<1>2. /\ cmd' = [cmd EXCEPT !.acted = TRUE, !.tally = more] /\ moves' = moves
      /\ cmd.tally \in Nat /\ more \in Nat
  BY <1>1 DEF Act, Command
<1> HIDE DEF more
<1>3. /\ cmd' \in Command /\ cmd'.nr = cmd.nr /\ cmd'.kind = cmd.kind /\ cmd'.app = cmd.app
      /\ cmd'.stage = cmd.stage /\ cmd'.step = cmd.step /\ cmd'.result = cmd.result
      /\ cmd'.pc = cmd.pc /\ cmd'.acted /\ cmd'.tally = more /\ cmd'.failed = cmd.failed
      /\ cmd'.seen = cmd.seen /\ cmd'.phone = cmd.phone
  BY <1>1, <1>2 DEF Command
<1>4. front' = front \/ front' = cmd.app
  BY DEF Act
<1>5. Fit(cmd) /\ cmd.result = "none" /\ StageOf(cmd)' = StageOf(cmd)
  BY <1>1, <1>3 DEF Good, Fit, StageOf
<1>6. Fit(cmd)'
  BY <1>2, <1>3, <1>5 DEF Fit
<1>7. Spares(cmd)'
  BY <1>1, <1>2, <1>3, <1>4, <1>5 DEF Good, Spares
<1>8. KnowsPhone(cmd)'
  <2>1. cmd.kind \in ForPhone => cmd.app = Phone
    BY <1>5 DEF Fit, ForPhone, PhoneKinds, Focus
  <2> QED BY <1>2, <1>3, <1>4, <2>1 DEF Good, KnowsPhone
<1>9. InOrder(cmd)' /\ Tallied(cmd)'
  <2>1. cmd.kind \in Acting => cmd.failed \/ cmd.tally = 0
    BY <1>1 DEF Good, Tallied, Tallies
  <2>2. cmd.kind \in Acting => Tallies(cmd, cmd.acted)'
    BY <1>2, <1>3, <2>1 DEF Tallies, more
  <2> QED BY <1>1, <1>3, <2>2 DEF Good, InOrder, Tallied, OpOf, StageOf
<1>10. cmd.stage \in 1..5
  BY <1>5, Places
<1> QED BY <1>1, <1>3, <1>4, <1>5, <1>6, <1>7, <1>8, <1>9, <1>10 DEF Good, Keeps, Stays, TypeOK, ScreenTypeOK

LEMMA AnswersGood ==
    ASSUME TypeOK, Good(cmd), AnswersOk \/ AnswersBadly
    PROVE  Keeps /\ cmd'.pc \in {"ready", "waiting", "over"}
<1>1. cmd.pc = "running" /\ UNCHANGED screen /\ cmd \in Command
  BY DEF Good, Fit, AnswersOk, AnswersBadly
<1>2. CASE Waits(cmd) /\ Op \in Awaited
  <2>1. Alike(cmd') /\ cmd'.seen = cmd.seen /\ cmd'.phone = cmd.phone /\ cmd'.pc = "waiting"
    BY <1>1, <1>2 DEF Alike, Command, Steps, Waits
  <2>2. InOrder(cmd)' /\ Tallied(cmd)'
    BY <1>2, <2>1, WaitingGood
  <2> QED BY <1>1, <2>1, <2>2, SettledGood
<1>3. CASE Succeeded(cmd) /\ Op \notin Awaited
  BY <1>1, <1>3, DoneGood DEF Alike
<1>4. CASE Op \in {"capture", "tree"}
  <2>1. cmd.kind \notin Acting /\ Op \notin Looks \cup {"lookShot", "checkTarget"}
    BY <1>4, OpFits DEF Looks
  <2>2. \E c \in {cmd, [cmd EXCEPT !.shot = TRUE], [cmd EXCEPT !.target = NoTarget], [cmd EXCEPT !.failed = TRUE]} :
           NextStep(c)
    BY <1>4 DEF AnswersOk, AnswersBadly, Failed, Awaited
  <2>3. PICK c \in {cmd, [cmd EXCEPT !.shot = TRUE], [cmd EXCEPT !.target = NoTarget], [cmd EXCEPT !.failed = TRUE]} :
           NextStep(c)
    BY <2>2
  <2>4. Alike(c) /\ c.seen = cmd.seen /\ c.phone = cmd.phone
    <3>1. CASE c = cmd
      BY <1>1, <3>1 DEF Alike, Command
    <3>2. CASE c = [cmd EXCEPT !.shot = TRUE]
      BY <1>1, <3>2 DEF Alike, Command
    <3>3. CASE c = [cmd EXCEPT !.target = NoTarget]
      BY <1>1, <3>3 DEF Alike, Command
    <3>4. CASE c = [cmd EXCEPT !.failed = TRUE]
      BY <1>1, <3>4 DEF Alike, Command
    <3> QED BY <2>3, <3>1, <3>2, <3>3, <3>4
  <2> QED BY <1>1, <2>1, <2>3, <2>4, AdvancedGood DEF Alike
<1>5. CASE Failed(cmd) /\ Op \notin {"capture", "tree"}
  <2>1. Op \in Runs
    BY <1>1 DEF Good, InOrder, OpOf, StageOf, Op, Stage
  <2>2. Op \notin Looks \cup {"lookShot", "checkTarget"}
    BY <2>1 DEF Looks, Runs, InFront, ByPid, Elsewhere, Raising
  <2> QED BY <1>1, <1>5, <2>2, FailedGood
<1> QED BY <1>2, <1>3, <1>4, <1>5 DEF AnswersOk, AnswersBadly, Awaited

LEMMA WaitsGood ==
    ASSUME TypeOK, Good(cmd), WaitSees \/ WaitFails
    PROVE  Keeps /\ cmd'.pc \in {"ready", "over"}
<1>1. cmd.pc = "waiting" /\ UNCHANGED screen /\ cmd \in Command /\ Fit(cmd) /\ Op \in Awaited
  BY DEF Good, Fit, WaitSees, WaitFails, InOrder, OpOf, StageOf, Op, Stage
<1>2. CASE WaitFails
  <2>1. Op \notin Looks \cup {"lookShot", "checkTarget"}
    BY <1>1 DEF Awaited, Looks
  <2> QED BY <1>1, <1>2, <2>1, FailedGood DEF WaitFails
<1>3. CASE WaitSees
  <2> DEFINE c == [cmd EXCEPT !.seen = moves, !.phone = moves]
  <2>1. moves \in 0..MaxMoves /\ moves <= moves
    BY ScreenAssumption DEF TypeOK, ScreenTypeOK
  <2>2. Alike(c) /\ c.seen = moves /\ c.phone = moves
    BY <1>1, <2>1 DEF Alike, Command, Moment
  <2>3. Succeeded(c) /\ front = cmd.app
    BY <1>3 DEF WaitSees
  <2> HIDE DEF c
  <2>4. Fit(c) /\ c.result = "none"
    BY <1>1, <2>1, <2>2 DEF Fit, Alike, StageOf
  <2>5. front \notin Sensitive /\ (c.kind \in ForPhone => front = Phone)
    BY <1>1, <2>2, <2>3 DEF Fit, Alike, ForPhone, PhoneKinds, Focus
  <2> QED BY <1>1, <2>2, <2>3, <2>4, <2>5, SucceededGood DEF Keeps, Alike
<1> QED BY <1>2, <1>3

LEMMA KeepGood ==
    ASSUME TypeOK, Good(cmd), Keep
    PROVE  Keeps /\ cmd'.pc \in {"ready", "over"}
<1>1. cmd.pc = "ready" /\ Op = "keep" /\ UNCHANGED screen /\ cmd \in Command
  BY DEF Good, Fit, Keep, At
<1>2. Op \notin Looks \cup {"lookShot", "checkTarget"} /\ Op \notin Awaited
  BY <1>1 DEF Looks, Awaited
<1>3. CASE Succeeded(cmd)
  BY <1>1, <1>2, <1>3, DoneGood DEF Alike
<1>4. CASE Failed(cmd)
  BY <1>1, <1>2, <1>4, FailedGood
<1> QED BY <1>3, <1>4 DEF Keep

LEMMA DryRunGood ==
    ASSUME TypeOK, Good(cmd), DryRun
    PROVE  Keeps /\ Stays /\ cmd'.pc = "over"
BY EndedGood DEF DryRun, Results

(* Another command is given. *)
LEMMA BeginGood ==
    ASSUME TypeOK, Good(cmd), Begin
    PROVE  Good(cmd)' /\ cmd'.nr = cmd.nr + 1 /\ cmd'.pc = "ready" /\ cmd'.stage = 1
<1> PICK k \in Commands, a \in Apps \ Sensitive, p \in BOOLEAN :
         /\ k \notin {"app_focus", "workbench_focus", "desktop_focus_app"} => a = Phone
         /\ cmd' = Given(cmd.nr + 1, k, a, p)
  BY DEF Begin
<1> DEFINE n == cmd.nr + 1
           c == Given(n, k, a, p)
<1>1. n \in 0..MaxCommands /\ k \in Kinds
  BY CommandsAssumption DEF Good, Fit, Command, Begin
<1> HIDE DEF n
<1>2. c \in Command /\ cmd' = c
  BY <1>1, GivenTyped DEF TypeOK, ScreenTypeOK, n
<1>3. /\ c.nr = n /\ c.pc = "ready" /\ c.stage = 1
      /\ Good(c)
  <2>1. /\ c.nr = n /\ c.kind = k /\ c.app = a /\ c.stage = 1 /\ c.step = 1 /\ c.tally = 0
        /\ ~ c.acted /\ c.seen = moves /\ c.phone = moves /\ c.pc = "ready" /\ c.result = "none"
    BY DEF Given
  <2> HIDE DEF c
  <2> QED BY <1>2, <2>1, FreshGood DEF Focus
<1> HIDE DEF c
<1>4. UNCHANGED screen
  BY DEF Begin
<1>5. Good(cmd)'
  BY <1>2, <1>3, <1>4, Unmoved
<1> QED BY <1>2, <1>3, <1>5 DEF n

-------------------------------------------------------------------------------

(* The helper's jobs. *)

LEMMA FewerJobs ==
    ASSUME GoodJobs, jobs' \subseteq jobs, cmd'.nr = cmd.nr, cmd'.pc # "asked",
           cmd'.pc = "over" \/ \A j \in jobs' : j.nr # cmd.nr
    PROVE  GoodJobs'
<1>1. HelperHasTheLastWord' /\ JobIsAsked'
  BY DEF HelperHasTheLastWord, JobIsAsked
<1>2. OneJob' /\ JobsSpared'
  BY DEF GoodJobs, OneJob, JobsSpared
<1> QED BY <1>1, <1>2 DEF GoodJobs

(* A command that is not waiting for the helper has no job. *)
LEMMA JobsLeft ==
    ASSUME GoodJobs, UNCHANGED jobs, cmd'.nr = cmd.nr, cmd.pc \notin {"asked", "over"},
           cmd'.pc # "asked"
    PROVE  GoodJobs'
BY FewerJobs DEF GoodJobs, HelperHasTheLastWord

LEMMA AskGood ==
    ASSUME TypeOK, Good(cmd), GoodJobs, Ask
    PROVE  Keeps /\ Stays /\ GoodJobs' /\ jobs' \subseteq Job
<1>1. /\ cmd.pc = "ready" /\ Op \in Helped /\ UNCHANGED screen /\ cmd \in Command
      /\ Op \notin Looks \cup {"lookShot", "checkTarget"}
  BY DEF Good, Fit, Ask, AtOp, Looks, Helped, Mouse
<1>2. cmd.kind \in Acting => cmd.tally = 0 \/ cmd.failed
  BY <1>1 DEF Good, Tallied
<1>3. \A j \in jobs : j.nr # cmd.nr
  BY <1>1 DEF GoodJobs, HelperHasTheLastWord
<1>4. CASE UNCHANGED jobs /\ (NextStep(cmd) \/ Over(cmd, "failed"))
  <2>1. Keeps /\ Stays /\ cmd'.pc \in {"ready", "over"}
    BY <1>1, <1>2, <1>4, AdvancedGood, EndedGood DEF Alike, Results
  <2>2. GoodJobs'
    BY <1>1, <1>4, <2>1, JobsLeft DEF Keeps
  <2> QED BY <1>4, <2>1, <2>2 DEF TypeOK
<1>5. CASE \E t \in Addressee(Op) :
             /\ t # NoTarget /\ ~ MouseBlocks(Op, t)
             /\ jobs' = jobs \cup {[nr |-> cmd.nr, op |-> Op, target |-> t, done |-> 0]}
             /\ cmd' = [cmd EXCEPT !.pc = "asked", !.target = t]
  <2> PICK t \in Addressee(Op) :
             /\ t # NoTarget /\ ~ MouseBlocks(Op, t)
             /\ jobs' = jobs \cup {[nr |-> cmd.nr, op |-> Op, target |-> t, done |-> 0]}
             /\ cmd' = [cmd EXCEPT !.pc = "asked", !.target = t]
    BY <1>5
  <2> DEFINE new == [nr |-> cmd.nr, op |-> Op, target |-> t, done |-> 0]
  <2>1. t \in Target
    <3>1. t \in {cmd.target} \cup UNION {TargetsFor(r) : r \in FrontmostApp \cup {Phone}}
      BY DEF Addressee
    <3> QED BY <1>1, <3>1 DEF TargetsFor, Command
  <2>2. /\ Alike(cmd') /\ cmd'.seen = cmd.seen /\ cmd'.phone = cmd.phone /\ cmd'.pc = "asked"
        /\ cmd'.nr = cmd.nr /\ cmd'.kind = cmd.kind /\ cmd'.tally = cmd.tally /\ cmd'.failed = cmd.failed
    BY <1>1, <2>1 DEF Alike, Command, Steps
  <2>3. Keeps /\ Stays
    <3>1. InOrder(cmd)' /\ Tallied(cmd)'
      BY <2>2, WaitingGood
    <3> QED BY <1>1, <2>2, <3>1, SettledGood
  <2>4. Op' = Op
    BY <2>2 DEF Alike, Op, Stage
  <2>5. new \in Job /\ new.nr = cmd.nr /\ new.op = Op /\ new.target = t /\ new.done = 0
    <3>1. 0 \in 0..2 /\ cmd.nr \in 0..MaxCommands
      BY <1>1 DEF Command
    <3> QED BY <1>1, <2>1, <3>1 DEF Job
  <2>6. jobs' = jobs \cup {new}
    OBVIOUS
  <2> HIDE DEF new
  <2>7. HelperHasTheLastWord' /\ JobIsAsked'
    <3>1. cmd.kind \in Acting => Tallies(cmd', FALSE)
      BY <1>2, <2>2 DEF Tallies
    <3> QED BY <1>3, <2>2, <2>4, <2>5, <2>6, <3>1 DEF HelperHasTheLastWord, JobIsAsked, Tallies
  <2>8. OneJob'
    <3>1. cmd.nr <= cmd.nr
      BY <1>1, CommandsAssumption DEF Command
    <3> QED BY <1>3, <2>2, <2>5, <2>6, <3>1 DEF GoodJobs, OneJob
  <2>9. Op # "menu" => t.app \notin Sensitive
    <3>1. CASE Op = "ax"
      BY <1>1, <3>1 DEF Good, InOrder, OpOf, StageOf, Op, Stage, Addressee, Mouse
    <3>2. CASE Op \in Mouse
      BY <3>2 DEF MouseBlocks
    <3> QED BY <1>1, <3>1, <3>2 DEF Helped
  <2>10. JobsSpared'
    BY <2>5, <2>6, <2>9 DEF GoodJobs, JobsSpared
  <2>11. jobs' \subseteq Job
    BY <2>5, <2>6 DEF TypeOK
  <2> QED BY <2>3, <2>7, <2>8, <2>10, <2>11 DEF GoodJobs
<1> QED BY <1>4, <1>5 DEF Ask

(* The command hears of its job, or hears nothing. *)
LEMMA HeardGood ==
    ASSUME TypeOK, Good(cmd), GoodJobs, HelperOk \/ HelperRefuses \/ HelperSilent
    PROVE  Keeps /\ GoodJobs' /\ jobs' \subseteq jobs
<1> PICK j \in jobs :
       /\ Mine(j) /\ jobs' \in {jobs, jobs \ {j}}
       /\ \/ HelperOk /\ jobs' = jobs \ {j} /\ IF j.op = "recover" THEN Waits(cmd) ELSE Succeeded(cmd)
          \/ jobs' = jobs \ {j} /\ (Failed(cmd) \/ Over(cmd, "failed"))
          \/ IF j.op = "menu" THEN Over(cmd, "failed") ELSE Failed(cmd)
  BY DEF HelperOk, HelperRefuses, HelperSilent
<1>1. /\ cmd.pc = "asked" /\ j.nr = cmd.nr /\ j.op = Op /\ Op \in Helped
      /\ UNCHANGED screen /\ cmd \in Command
  BY DEF TypeOK, Good, Fit, GoodJobs, JobIsAsked, Mine, Job, HelperOk, HelperRefuses, HelperSilent
<1>2. Op \notin Looks \cup {"lookShot", "checkTarget"} /\ (Op \in Awaited <=> Op = "recover")
  BY <1>1 DEF Looks, Helped, Mouse, Awaited
<1>3. jobs' = jobs \ {j} => \A i \in jobs' : i.nr # cmd.nr
  BY <1>1 DEF GoodJobs, OneJob
<1>4. CASE Waits(cmd) /\ j.op = "recover" /\ jobs' = jobs \ {j}
  <2>1. Alike(cmd') /\ cmd'.seen = cmd.seen /\ cmd'.phone = cmd.phone /\ cmd'.pc = "waiting"
    BY <1>1, <1>4 DEF Alike, Command, Steps, Waits
  <2>2. InOrder(cmd)' /\ Tallied(cmd)'
    BY <1>1, <1>2, <1>4, <2>1, WaitingGood
  <2>3. Keeps
    BY <1>1, <2>1, <2>2, SettledGood
  <2> QED BY <1>3, <1>4, <2>1, <2>3, FewerJobs DEF Keeps
<1>5. CASE Succeeded(cmd) /\ j.op # "recover" /\ jobs' = jobs \ {j}
  <2>1. Keeps /\ cmd'.pc \in {"ready", "over"}
    BY <1>1, <1>2, <1>5, DoneGood DEF Alike
  <2> QED BY <1>3, <1>5, <2>1, FewerJobs DEF Keeps
<1>6. CASE Over(cmd, "failed")
  <2>1. Keeps /\ cmd'.pc = "over"
    BY <1>1, <1>6, EndedGood DEF Results
  <2> QED BY <2>1, FewerJobs DEF Keeps
<1>7. CASE Failed(cmd) /\ (jobs' = jobs \ {j} \/ j.op # "menu")
  <2>1. /\ Keeps /\ cmd'.pc \in {"ready", "over"}
        /\ j.op # "menu" => cmd'.pc = "over"
    BY <1>1, <1>2, <1>7, FailedGood, OpFits
  <2> QED BY <1>3, <1>7, <2>1, FewerJobs DEF Keeps
<1> QED BY <1>4, <1>5, <1>6, <1>7

(* The helper does a part of a job. *)
LEMMA HelperActsGood ==
    ASSUME TypeOK, Good(cmd), GoodJobs, HelperActs
    PROVE  Good(cmd)' /\ GoodJobs' /\ jobs' \subseteq Job
<1> PICK j \in jobs :
       /\ j.done < Parts(j.op)
       /\ jobs' = (jobs \ {j}) \cup {[j EXCEPT !.done = @ + 1]}
       /\ cmd' = IF Mine(j) /\ j.done = 0 THEN [cmd EXCEPT !.tally = @ + 1] ELSE cmd
  BY DEF HelperActs
<1>1. UNCHANGED screen /\ cmd \in Command /\ j \in Job
  BY DEF TypeOK, Good, Fit, HelperActs
<1> DEFINE more == j.done + 1
           k == [j EXCEPT !.done = more]
<1>2. more \in 0..2 /\ more > 0 /\ j.done \in Nat /\ j.done >= 0
  BY <1>1 DEF Job, Parts
<1>3. jobs' = (jobs \ {j}) \cup {k}
  BY <1>1 DEF Job
<1> HIDE DEF more
<1>4. k \in Job /\ k.nr = j.nr /\ k.op = j.op /\ k.target = j.target /\ k.done = more
  BY <1>1, <1>2 DEF Job
<1> HIDE DEF k
<1>5. /\ cmd' \in Command /\ Alike(cmd') /\ cmd'.seen = cmd.seen /\ cmd'.phone = cmd.phone
      /\ cmd'.pc = cmd.pc /\ cmd'.failed = cmd.failed /\ cmd.tally \in Nat
      /\ cmd'.tally = IF Mine(j) /\ j.done = 0 THEN cmd.tally + 1 ELSE cmd.tally
  <2> DEFINE more2 == cmd.tally + 1
  <2>1. /\ cmd' = IF Mine(j) /\ j.done = 0 THEN [cmd EXCEPT !.tally = more2] ELSE cmd
        /\ more2 \in Nat
    BY <1>1 DEF Command
  <2> HIDE DEF more2
  <2>2. CASE Mine(j) /\ j.done = 0
    <3>1. cmd' = [cmd EXCEPT !.tally = more2] /\ more2 \in Nat
      BY <2>1, <2>2
    <3>2. /\ cmd' \in Command /\ Alike(cmd') /\ cmd'.seen = cmd.seen /\ cmd'.phone = cmd.phone
          /\ cmd'.pc = cmd.pc /\ cmd'.failed = cmd.failed /\ cmd.tally \in Nat
          /\ cmd'.tally = more2
      BY <1>1, <3>1 DEF Alike, Command
    <3> QED BY <2>2, <3>2 DEF more2
  <2>3. CASE ~ (Mine(j) /\ j.done = 0)
    BY <1>1, <2>1, <2>3 DEF Alike, Command
  <2> QED BY <2>2, <2>3
<1>6. Good(cmd)'
  <2>1. CASE Mine(j)
    <3>1. cmd.pc = "asked"
      BY <2>1 DEF Mine
    <3>2. InOrder(cmd)' /\ Tallied(cmd)'
      BY <1>5, <3>1, WaitingGood
    <3> QED BY <1>1, <1>5, <3>1, <3>2, SettledGood DEF Keeps
  <2>2. CASE ~ Mine(j)
    BY <1>1, <2>2, Unmoved
  <2> QED BY <2>1, <2>2
<1>7. HelperHasTheLastWord' /\ OneJob'
  BY <1>3, <1>4, <1>5 DEF GoodJobs, HelperHasTheLastWord, OneJob, Alike
<1>8. JobIsAsked'
  <2>1. Op' = Op
    BY <1>5 DEF Alike, Op, Stage
  <2>2. SUFFICES ASSUME cmd'.pc = "asked", NEW i \in jobs', i.nr = cmd'.nr
                 PROVE  /\ i.op = Op
                        /\ cmd'.kind \in Acting => Tallies(cmd', i.done > 0)
    BY <2>1 DEF JobIsAsked, Tallies
  <2>3. CASE i = k
    <3>1. Mine(j) /\ j.op = Op /\ (cmd.kind \in Acting => Tallies(cmd, j.done > 0))
      BY <1>4, <1>5, <2>2, <2>3 DEF GoodJobs, JobIsAsked, Alike, Mine
    <3>2. i.done > 0 /\ i.op = Op /\ cmd'.kind = cmd.kind
      BY <1>2, <1>4, <1>5, <2>3, <3>1 DEF Alike
    <3>3. CASE j.done = 0
      BY <1>5, <3>1, <3>2, <3>3 DEF Tallies
    <3>4. CASE j.done > 0
      BY <1>5, <3>1, <3>2, <3>4 DEF Tallies
    <3> QED BY <1>2, <3>3, <3>4
  <2>4. CASE i \in jobs \ {j}
    <3>1. i.nr = cmd.nr /\ cmd.pc = "asked" /\ ~ Mine(j)
      BY <1>5, <2>2, <2>4 DEF GoodJobs, OneJob, Alike, Mine
    <3>2. cmd' = cmd
      BY <3>1
    <3> QED BY <2>4, <3>1, <3>2 DEF GoodJobs, JobIsAsked
  <2> QED BY <1>3, <2>3, <2>4
<1>9. JobsSpared'
  BY <1>3, <1>4 DEF GoodJobs, JobsSpared
<1>10. jobs' \subseteq Job
  BY <1>3, <1>4 DEF TypeOK
<1> QED BY <1>6, <1>7, <1>8, <1>9, <1>10 DEF GoodJobs

-------------------------------------------------------------------------------

(* The screen changes under the command. *)
LEMMA OutsideGood ==
    ASSUME TypeOK, Good(cmd), Outside, UNCHANGED cmd
    PROVE  Good(cmd)' /\ ScreenTypeOK'
<1>1. moves \in 0..MaxMoves /\ moves < MaxMoves /\ moves' = moves + 1
  BY ScreenAssumption DEF TypeOK, ScreenTypeOK, Outside, Switch, Reassign
<1>2. ScreenTypeOK'
  <2>1. moves' \in 0..MaxMoves
    BY <1>1, ScreenAssumption
  <2>2. CASE Switch
    BY <2>1, <2>2 DEF TypeOK, ScreenTypeOK, Switch
  <2>3. CASE Reassign
    BY <2>1, <2>3 DEF TypeOK, ScreenTypeOK, Reassign
  <2> QED BY <2>2, <2>3 DEF Outside
(* Whatever it has seen is of an earlier date now. *)
<1>3. cmd.seen # moves' /\ cmd.phone # moves'
  <2>1. /\ cmd.seen # None => cmd.seen \in Nat /\ cmd.seen <= moves
        /\ cmd.phone # None => cmd.phone \in Nat /\ cmd.phone <= moves
    BY DEF Good, Fit, Command, Moment
  <2> QED BY <1>1, <2>1, ScreenAssumption
<1>4. Fit(cmd)'
  <2>1. /\ cmd.seen # None => cmd.seen <= moves'
        /\ cmd.phone # None => cmd.phone <= moves'
    <3>1. /\ cmd.seen # None => cmd.seen \in Nat /\ cmd.seen <= moves
          /\ cmd.phone # None => cmd.phone \in Nat /\ cmd.phone <= moves
      BY DEF Good, Fit, Command, Moment
    <3> QED BY <1>1, <3>1
  <2> QED BY <2>1 DEF Good, Fit, StageOf
<1>5. Spares(cmd)' /\ KnowsPhone(cmd)'
  BY <1>3 DEF Good, Spares, KnowsPhone
<1>6. InOrder(cmd)' /\ Tallied(cmd)'
  BY DEF Good, InOrder, Tallied, Tallies, StageOf, OpOf
<1> QED BY <1>2, <1>4, <1>5, <1>6 DEF Good

(* What is stored is a snapshot. *)
LEMMA StoredTyped ==
    ASSUME NEW of \in {"desktop", "iphone_mirroring"}, NEW by \in {"peekaboo", "ax_fallback", "region"},
           NEW t \in Target \cup {NoTarget}, Stored(of, by, t)
    PROVE  snap' \in Snapshot
BY DEF Stored, Snapshot

LEMMA SnapTyped ==
    ASSUME TypeOK, Good(cmd), [Next]_vars
    PROVE  snap' \in Snapshot \cup {NoSnapshot}
<1>1. cmd \in Command
  BY DEF Good, Fit
<1>2. CASE UNCHANGED snap
  BY <1>2 DEF TypeOK
<1>3. CASE AnswersOk
  <2>1. UNCHANGED snap \/ Stored("desktop", "peekaboo", NoTarget)
                       \/ Stored("iphone_mirroring", "region", NoTarget)
    BY <1>3 DEF AnswersOk
  <2>2. UNCHANGED snap \/ snap' \in Snapshot
    BY <2>1, StoredTyped
  <2> QED BY <2>2 DEF TypeOK
<1>4. CASE Keep
  <2>1. UNCHANGED snap \/ Stored("desktop", "ax_fallback", cmd.target)
    BY <1>4 DEF Keep
  <2>2. cmd.target \in Target \cup {NoTarget}
    BY <1>1 DEF Command
  <2>3. UNCHANGED snap \/ snap' \in Snapshot
    BY <2>1, <2>2, StoredTyped
  <2> QED BY <2>3 DEF TypeOK
<1>5. CASE SnapshotAges
  BY <1>5 DEF SnapshotAges, Snapshot, TypeOK
<1> QED
  BY <1>2, <1>3, <1>4, <1>5
     DEF Next, vars, CommandStep, Begin, DryRun, Look, CheckTarget, LookBrowser, Resolve,
         PhoneFront, LookShot, LookTree, Run, Act, AnswersBadly, WaitSees, WaitFails, Ask,
         HelperOk, HelperRefuses, HelperSilent, HelperActs, JobEnds

LEMMA InitInv == Init => IInv
<1> SUFFICES ASSUME Init PROVE IInv
  OBVIOUS
<1> DEFINE g == Given(0, "snapshot", Phone, FALSE)
<1>1. /\ moves = 0 /\ moves \in 0..MaxMoves /\ front \in Apps /\ jobs = {}
      /\ owner = Processes /\ cmd = [g EXCEPT !.pc = "idle"]
  BY ScreenAssumption DEF Init, ScreenInit
<1>2. g \in Command
  <2>1. 0 \in 0..MaxCommands /\ "snapshot" \in Kinds /\ Phone \in Apps
    BY CommandsAssumption, ScreenAssumption DEF Kinds, Plan
  <2> QED BY <1>1, <2>1, GivenTyped
<1>3. /\ g.stage = 1 /\ g.step = 1 /\ g.tally = 0 /\ ~ g.acted /\ g.seen = moves
      /\ g.phone = moves /\ g.app = Phone /\ g.result = "none"
  BY DEF Given
<1> HIDE DEF g
<1>4. /\ cmd \in Command /\ cmd.stage = 1 /\ cmd.step = 1 /\ cmd.tally = 0 /\ ~ cmd.acted
      /\ cmd.seen = moves /\ cmd.phone = moves /\ cmd.app = Phone /\ cmd.result = "none"
      /\ cmd.pc = "idle"
  BY <1>1, <1>2, <1>3 DEF Command, Steps
<1>5. TypeOK
  BY <1>1, <1>4, ScreenAssumption DEF Init, TypeOK, ScreenTypeOK, Earlier
<1>6. Good(cmd)
  BY <1>4, <1>5, FreshGood, ScreenAssumption
<1>7. GoodJobs
  BY <1>1 DEF GoodJobs, HelperHasTheLastWord, OneJob, JobIsAsked, JobsSpared
<1> QED BY <1>5, <1>6, <1>7 DEF IInv

LEMMA NextInv == IInv /\ [Next]_vars => IInv'
<1> SUFFICES ASSUME IInv, [Next]_vars PROVE IInv'
  OBVIOUS
<1>1. TypeOK /\ Good(cmd) /\ GoodJobs /\ cmd \in Command
  BY DEF IInv, Good, Fit
<1>2. snap' \in Snapshot \cup {NoSnapshot}
  BY <1>1, SnapTyped
<1> SUFFICES Good(cmd)' /\ GoodJobs' /\ jobs' \subseteq Job /\ ScreenTypeOK'
  BY <1>2 DEF IInv, TypeOK, Good, Fit
<1>3. UNCHANGED screen => ScreenTypeOK'
  BY <1>1 DEF TypeOK, ScreenTypeOK, screen
<1>4. CASE Begin
  <2>1. GoodJobs'
    <3>1. \A j \in jobs : j.nr < cmd'.nr /\ cmd'.pc = "ready"
      <4>1. \A j \in jobs : j.nr <= cmd.nr /\ j.nr \in Nat /\ cmd.nr \in Nat
        BY <1>1, CommandsAssumption DEF TypeOK, Job, Command, GoodJobs, OneJob
      <4> QED BY <1>1, <1>4, <4>1, BeginGood
    <3>2. \A j \in jobs : j.nr # cmd'.nr /\ j.nr <= cmd'.nr
      <4>1. \A j \in jobs : j.nr \in Nat
        BY <1>1, CommandsAssumption DEF TypeOK, Job
      <4>2. cmd'.nr \in Nat
        BY <1>1, <1>4, BeginGood, CommandsAssumption DEF Command
      <4> QED BY <3>1, <4>1, <4>2
    <3>3. cmd'.pc = "ready"
      BY <1>1, <1>4, BeginGood
    <3> QED BY <1>1, <1>4, <3>2, <3>3
            DEF Begin, GoodJobs, HelperHasTheLastWord, OneJob, JobIsAsked, JobsSpared
  <2> QED BY <1>1, <1>3, <1>4, <2>1, BeginGood DEF Begin, TypeOK
<1>5. CASE DryRun
  BY <1>1, <1>3, <1>5, DryRunGood, JobsLeft DEF DryRun, Keeps, TypeOK
<1>6. CASE Look \/ CheckTarget \/ LookBrowser \/ Resolve \/ PhoneFront \/ LookShot \/ LookTree
  <2>1. UNCHANGED <<screen, jobs>> /\ cmd.pc = "ready"
    BY <1>6 DEF Look, CheckTarget, LookBrowser, Resolve, PhoneFront, LookShot, LookTree, At, AtOp
  <2> QED BY <1>1, <1>3, <1>6, <2>1, ChecksGood, JobsLeft DEF Keeps, TypeOK
<1>7. CASE Run
  BY <1>1, <1>3, <1>7, RunGood, JobsLeft DEF Run, AtOp, Keeps, TypeOK
<1>8. CASE Act
  BY <1>1, <1>8, ActGood, JobsLeft DEF Act, Keeps, TypeOK, ScreenTypeOK
<1>9. CASE AnswersOk \/ AnswersBadly
  BY <1>1, <1>3, <1>9, AnswersGood, JobsLeft DEF AnswersOk, AnswersBadly, Keeps, TypeOK
<1>10. CASE WaitSees \/ WaitFails
  BY <1>1, <1>3, <1>10, WaitsGood, JobsLeft DEF WaitSees, WaitFails, Keeps, TypeOK
<1>11. CASE Keep
  BY <1>1, <1>3, <1>11, KeepGood, JobsLeft DEF Keep, At, Keeps, TypeOK
<1>12. CASE Ask
  BY <1>1, <1>3, <1>12, AskGood DEF Ask, Keeps
<1>13. CASE HelperOk \/ HelperRefuses \/ HelperSilent
  BY <1>1, <1>3, <1>13, HeardGood DEF HelperOk, HelperRefuses, HelperSilent, Keeps, TypeOK
<1>14. CASE HelperActs
  BY <1>1, <1>3, <1>14, HelperActsGood DEF HelperActs
<1>15. CASE JobEnds
  <2> PICK j \in jobs : ~ Mine(j) /\ jobs' = jobs \ {j}
    BY <1>15 DEF JobEnds
  <2>1. UNCHANGED screen /\ cmd' = cmd
    BY <1>15 DEF JobEnds
  <2>2. GoodJobs'
    BY <1>1, <2>1 DEF GoodJobs, HelperHasTheLastWord, OneJob, JobIsAsked, JobsSpared, Op, Stage, Tallies
  <2> QED BY <1>1, <1>3, <2>1, <2>2, Unmoved DEF TypeOK
<1>16. CASE SnapshotAges \/ UNCHANGED vars
  <2>1. UNCHANGED screen /\ cmd' = cmd /\ jobs' = jobs
    BY <1>16 DEF SnapshotAges, vars
  <2>2. GoodJobs'
    BY <1>1, <2>1 DEF GoodJobs, HelperHasTheLastWord, OneJob, JobIsAsked, JobsSpared, Op, Stage, Tallies
  <2> QED BY <1>1, <1>3, <2>1, <2>2, Unmoved DEF TypeOK
<1>17. CASE Outside /\ UNCHANGED <<snap, cmd, jobs>>
  <2>1. GoodJobs'
    BY <1>1, <1>17 DEF GoodJobs, HelperHasTheLastWord, OneJob, JobIsAsked, JobsSpared, Op, Stage, Tallies
  <2> QED BY <1>1, <1>17, <2>1, OutsideGood DEF TypeOK
<1> QED BY <1>4, <1>5, <1>6, <1>7, <1>8, <1>9, <1>10, <1>11, <1>12, <1>13, <1>14, <1>15, <1>16, <1>17
        DEF Next, CommandStep

(* What holds of the command, its place in its plan and the helper's jobs
   between two steps.                                                        *)
THEOREM Invariance == Spec => []IInv
BY InitInv, NextInv, PTL DEF Spec

-------------------------------------------------------------------------------

(* The variables are of their types. *)
THEOREM TypeCorrect == Spec => []TypeOK
BY Invariance, PTL DEF IInv

(* While the helper may still do what a command asked of it, the command asks
   nobody else, whoever was slow and whatever failed before.                *)
THEOREM LastWord == Spec => []HelperHasTheLastWord
<1>1. IInv => HelperHasTheLastWord
  BY DEF IInv, GoodJobs
<1> QED BY <1>1, Invariance, PTL

(* No engine acts on or observes an app of the denylist that was in front when
   the command last looked.                                                  *)
THEOREM Spared == Spec => SensitiveSpared
<1>1. IInv /\ [Next]_vars =>
         [Acts(InFront) /\ front \in Sensitive => cmd.seen # moves]_vars
  <2> SUFFICES ASSUME IInv, Acts(InFront), front \in Sensitive
               PROVE  cmd.seen # moves
    OBVIOUS
  <2>1. cmd.stage > 1 \/ Watched(StageOf(cmd), cmd.step)
    BY OpFits DEF IInv, Acts, Stage, StageOf
  <2> QED BY <2>1 DEF IInv, Good, Spares
<1> QED BY <1>1, Invariance, PTL DEF Spec, SensitiveSpared

(* What a command means for iPhone Mirroring goes there, unless another app has
   come to the front since it was seen there.                               *)
THEOREM PhoneSpared == Spec => PhoneGetsItsInput
<1>1. IInv /\ [Next]_vars =>
         [cmd.kind \in PhoneKinds \ SeeKinds /\ Acts(InFront) /\ front # Phone
             => cmd.phone # moves]_vars
  <2> SUFFICES ASSUME IInv, cmd.kind \in ForPhone, Acts(InFront), front # Phone
               PROVE  cmd.phone # moves
    BY DEF ForPhone
  <2>1. cmd.stage > 1
    BY OpFits DEF IInv, Acts
  <2> QED BY <2>1 DEF IInv, Good, KnowsPhone
<1> QED BY <1>1, Invariance, PTL DEF Spec, PhoneGetsItsInput

(* What the helper does, late or not, it does in a process of the app that the
   job was addressed to, which but for menus is none of the denylist.       *)
THEOREM Addressed == Spec => AddressedSpared
<1>1. IInv /\ [Next]_vars =>
         [\A j \in jobs : Does(j) =>
             /\ owner[j.target.pid] = j.target.app
             /\ j.op # "menu" => j.target.app \notin Sensitive]_vars
  <2> SUFFICES ASSUME IInv, Next, NEW j \in jobs, Does(j)
               PROVE  /\ owner[j.target.pid] = j.target.app
                      /\ j.op # "menu" => j.target.app \notin Sensitive
    BY DEF Does, vars
  <2>1. HelperActs
    <3>1. ~ (jobs' \subseteq jobs) /\ ~ (jobs \subseteq jobs')
      BY DEF Does
    <3> QED BY <3>1
         DEF Next, CommandStep, Begin, DryRun, Look, CheckTarget, LookBrowser, Resolve,
             PhoneFront, LookShot, LookTree, Run, Act, AnswersOk, AnswersBadly, WaitSees,
             WaitFails, Keep, Ask, HelperOk, HelperRefuses, HelperSilent, JobEnds, SnapshotAges
  <2>2. IsTarget(j.target)
    BY <2>1 DEF HelperActs, Does
  <2> QED BY <2>2 DEF IsTarget, IInv, GoodJobs, JobsSpared
<1> QED BY <1>1, Invariance, PTL DEF Spec, AddressedSpared

(* A stage is passed, or the command reported done, only when an engine has acted
   in that stage; and twice only after one has failed.                       *)
THEOREM OnlyOnce == Spec => DoneOnce
<1>1. IInv /\ [Next]_vars =>
         [Passed /\ cmd.kind \notin SeeKinds /\ cmd.pc # "waiting" =>
             cmd.tally >= 1 /\ (cmd.tally = 1 \/ cmd.failed)]_vars
  <2> SUFFICES ASSUME IInv, Next, Passed, cmd.kind \notin SeeKinds, cmd.pc # "waiting"
               PROVE  cmd.tally >= 1 /\ (cmd.tally = 1 \/ cmd.failed)
    BY DEF Passed, vars
  <2>1. /\ TypeOK /\ Good(cmd) /\ GoodJobs /\ cmd \in Command /\ cmd.kind \in Acting
        /\ cmd.stage \in 1..5
    BY DEF IInv, Good, Fit, Command, Acting
  <2>2. ~ Stays /\ ~ UNCHANGED <<cmd.stage, cmd.result>>
    <3>1. cmd'.stage \in Nat
      BY NextInv DEF IInv, Good, Fit, Command
    <3>2. cmd.pc # "over" => cmd.result = "none"
      BY <2>1 DEF Good, Fit
    <3> QED BY <2>1, <3>1, <3>2 DEF Stays, Passed
  <2>3. CASE AnswersOk \/ AnswersBadly
    <3>1. cmd.pc = "running" /\ UNCHANGED screen /\ Op \in Runs
      BY <2>1, <2>3 DEF AnswersOk, AnswersBadly, Good, InOrder, OpOf, StageOf, Op, Stage
    <3>2. ~ Waits(cmd)
      BY <2>1, <2>2 DEF Waits, Command
    <3>3. ~ Failed(cmd)
      <4>1. Op \notin Looks \cup {"lookShot", "checkTarget"}
        BY <3>1 DEF Looks, Runs, InFront, ByPid, Elsewhere, Raising
      <4> QED BY <2>1, <2>2, <3>1, <4>1, FailedGood
    <3>4. cmd.acted
      BY <2>1, <2>3, <3>2, <3>3, OpFits DEF AnswersOk, AnswersBadly
    <3> QED BY <2>1, <3>1, <3>4 DEF Good, Tallied, Tallies, Command
  <2>4. CASE HelperOk \/ HelperRefuses \/ HelperSilent
    <3> PICK j \in jobs :
           /\ Mine(j)
           /\ \/ j.done = Parts(j.op) /\ HelperOk
              \/ Failed(cmd) \/ Over(cmd, "failed")
      BY <2>4 DEF HelperOk, HelperRefuses, HelperSilent
    <3>1. /\ cmd.pc = "asked" /\ j.nr = cmd.nr /\ UNCHANGED screen /\ j \in Job
          /\ Op \in Helped /\ Tallies(cmd, j.done > 0)
      BY <2>1, <2>4 DEF TypeOK, GoodJobs, JobIsAsked, Mine, Job, HelperOk, HelperRefuses, HelperSilent
    <3>2. ~ Failed(cmd)
      <4>1. Op \notin Looks \cup {"lookShot", "checkTarget"}
        BY <3>1 DEF Looks, Helped, Mouse
      <4> QED BY <2>1, <2>2, <3>1, <4>1, FailedGood
    <3>3. ~ Over(cmd, "failed")
      BY <2>1, <2>2, <3>1, EndedGood DEF Results
    <3>4. j.done > 0
      BY <3>1, <3>2, <3>3 DEF Parts, Job
    <3> QED BY <2>1, <3>1, <3>4 DEF Tallies, Command
  <2>5. CASE Keep
    BY <2>1, <2>5, OpFits DEF Keep, At
  <2>6. CASE Begin
    <3>1. cmd'.nr # cmd.nr
      <4>1. cmd.nr \in Nat /\ cmd'.nr = cmd.nr + 1
        BY <2>1, <2>6, BeginGood, CommandsAssumption DEF Command
      <4> QED BY <4>1
    <3> QED BY <3>1 DEF Passed
  <2>7. CASE HelperActs
    <3> PICK j \in jobs : cmd' = IF Mine(j) /\ j.done = 0 THEN [cmd EXCEPT !.tally = @ + 1] ELSE cmd
      BY <2>7 DEF HelperActs
    <3> QED BY <2>1, <2>2 DEF Command
  <2>8. CASE \/ Look \/ CheckTarget \/ LookBrowser \/ Resolve \/ PhoneFront \/ LookShot \/ LookTree
             \/ Run \/ Act \/ DryRun \/ Ask
    BY <2>1, <2>2, <2>8, ChecksGood, RunGood, ActGood, DryRunGood, AskGood
  <2>9. CASE JobEnds \/ SnapshotAges \/ UNCHANGED cmd
    BY <2>2, <2>9 DEF JobEnds, SnapshotAges
  <2> QED BY <2>3, <2>4, <2>5, <2>6, <2>7, <2>8, <2>9 DEF Next, CommandStep, WaitSees, WaitFails
<1> QED BY <1>1, Invariance, PTL DEF Spec, DoneOnce
===============================================================================
