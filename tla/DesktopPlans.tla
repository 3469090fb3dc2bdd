----------------------------- MODULE DesktopPlans -----------------------------
(***************************************************************************)
(* What each command of the customer Mac does, as a table.  A command is a *)
(* sequence of stages, each of which must succeed before the next starts;  *)
(* a stage is a sequence of operations, tried in order.  DesktopActions    *)
(* gives the operations their meaning.                                     *)
(*                                                                         *)
(*   look, checkTarget, lookBrowser, resolve     checks: they refuse or    *)
(*                                               let the next one be tried *)
(*   peekaboo, peekabooPhone                     a Peekaboo run, left out  *)
(*                                               when it is not installed  *)
(*   systemEvents, pressLabel, pressPhone, url   osascript, an AX script,  *)
(*                                               open                      *)
(*   mouse, mouseTarget, mousePhone, ax, menu,   jobs for the helper       *)
(*   recover                                                               *)
(*   switch, activate, open, switchTo, openApp   bring an app to the front *)
(*                                                                         *)
(* The first operation of a stage that succeeds ends it; when the last has *)
(* failed, so has the command.                                             *)
(***************************************************************************)
EXTENDS Sequences

(* Bringing an app to the front: app_focus waits until it is seen there,
   desktop_focus_app believes the answer of whoever was asked.  Workbench
   itself is opened by its path and waited for.                            *)
app_focus         == << <<"switch", "activate", "open">> >>
workbench_focus   == << <<"open">> >>
desktop_focus_app == << <<"switchTo", "openApp">> >>

(* iphone_mirroring_focus: app_focus for iPhone Mirroring, and a click on
   the chrome of its window when that has failed.                          *)
PhoneFocus == <<"switch", "activate", "open", "recover">>

(* desktop_click, by what it is given: a label; a point; an element of a
   snapshot, by its id or its label: one that Peekaboo saw; one of which
   only the place is known; one that the AX tree has, with and without
   AXPress.                                                                *)
click_label   == << <<"look", "peekaboo", "pressLabel">> >>
click_point   == << <<"look", "peekaboo", "mouse">> >>
click_seen    == << <<"resolve", "look", "peekaboo", "peekaboo", "mouse">> >>
click_place   == << <<"resolve", "look", "peekaboo", "mouse">> >>
click_press   == << <<"resolve", "look", "checkTarget", "ax">> >>
click_element == << <<"resolve", "look", "checkTarget", "peekaboo", "mouseTarget">> >>

desktop_set_value == << <<"resolve", "look", "checkTarget", "ax">> >>
desktop_type      == << <<"look", "peekaboo", "peekaboo", "systemEvents">> >>
desktop_scroll    == << <<"look", "peekaboo", "mouse">> >>
desktop_drag      == << <<"look", "peekaboo", "mouse">> >>
desktop_hotkey    == << <<"look", "peekaboo", "systemEvents">> >>
desktop_window    == << <<"look", "peekaboo", "systemEvents">> >>
desktop_menu      == << <<"look", "menu", "peekaboo">> >>

(* desktop_browser_action opens a URL without a look; its other actions are
   hotkeys.                                                                *)
open_url          == << <<"urlPeekaboo", "url">> >>
local_site_open   == << <<"url">> >>
local_site_action == << <<"lookBrowser", "systemEvents">> >>

(* iPhone Mirroring.  A tap is a desktop_click once the phone is in front;
   text that System Events refuses is handed to desktop_type.              *)
iphone_tap_label == << PhoneFocus, click_label[1] >>
iphone_tap_xy      == << PhoneFocus, click_point[1] >>
iphone_tap_seen    == << PhoneFocus, click_seen[1] >>
iphone_tap_place   == << PhoneFocus, click_place[1] >>
iphone_tap_press   == << PhoneFocus, click_press[1] >>
iphone_tap_element == << PhoneFocus, click_element[1] >>
iphone_tap_point   == << PhoneFocus, <<"resolvePhone", "look", "peekaboo", "mouse">> >>
iphone_type      == << PhoneFocus, <<"systemEvents">> \o desktop_type[1] >>

PhoneKey  == <<"peekaboo", "systemEvents">>
PhoneText == <<"peekabooPhone", "systemEvents">>

iphone_key            == << PhoneFocus, PhoneKey >>
type_spotlight        == << PhoneFocus, PhoneKey, PhoneText >>
open_app              == << PhoneFocus, PhoneKey, PhoneKey, PhoneText, <<"systemEvents">> >>
tap_named_target      == << PhoneFocus, <<"pressPhone">> >>
iphone_gesture        == << PhoneFocus, PhoneFocus, <<"peekaboo", "mousePhone">> >>
type_approved_text    == << PhoneFocus, PhoneText >>
send_approved_message == << PhoneFocus, PhoneText, <<"pressPhone">> >>

(* Observations: Peekaboo's own, or a screenshot and an AX tree that are kept
   under one snapshot id.  iphone_see brings the phone to the front only if
   it has to, which Full Access allows.                                    *)
snapshot    == << <<"lookShot", "capture", "keep">> >>
ax_tree     == << <<"lookTree", "tree", "keep">> >>
desktop_see == << <<"look", "see", "lookShot", "capture", "lookTree", "tree", "keep">> >>
iphone_see  == << <<"phoneFront", "region">> \o desktop_see[1] >>
iphone_see_focus == << PhoneFocus, iphone_see[1] >>

Plan ==
    [app_focus |-> app_focus, workbench_focus |-> workbench_focus,
     desktop_focus_app |-> desktop_focus_app, click_label |-> click_label,
     click_point |-> click_point, click_seen |-> click_seen, click_place |-> click_place, click_press |-> click_press,
     click_element |-> click_element, desktop_set_value |-> desktop_set_value,
     desktop_type |-> desktop_type, desktop_scroll |-> desktop_scroll,
     desktop_drag |-> desktop_drag, desktop_hotkey |-> desktop_hotkey,
     desktop_window |-> desktop_window, desktop_menu |-> desktop_menu,
     open_url |-> open_url, local_site_open |-> local_site_open,
     local_site_action |-> local_site_action, iphone_tap_label |-> iphone_tap_label,
     iphone_tap_xy |-> iphone_tap_xy, iphone_tap_seen |-> iphone_tap_seen,
     iphone_tap_place |-> iphone_tap_place, iphone_tap_press |-> iphone_tap_press,
     iphone_tap_element |-> iphone_tap_element, iphone_tap_point |-> iphone_tap_point,
     iphone_type |-> iphone_type, iphone_key |-> iphone_key,
     type_spotlight |-> type_spotlight, open_app |-> open_app,
     tap_named_target |-> tap_named_target, iphone_gesture |-> iphone_gesture,
     type_approved_text |-> type_approved_text,
     send_approved_message |-> send_approved_message,
     snapshot |-> snapshot, ax_tree |-> ax_tree, desktop_see |-> desktop_see,
     iphone_see |-> iphone_see, iphone_see_focus |-> iphone_see_focus]

Kinds == DOMAIN Plan

(* The commands for iPhone Mirroring, and those that only observe.         *)
PhoneKinds ==
    {"iphone_tap_label", "iphone_tap_xy", "iphone_tap_seen", "iphone_tap_place",
     "iphone_tap_press", "iphone_tap_element", "iphone_tap_point", "iphone_type", "iphone_key", "type_spotlight", "open_app", "tap_named_target", "iphone_gesture",
     "type_approved_text", "send_approved_message", "iphone_see", "iphone_see_focus"}
SeeKinds == {"snapshot", "ax_tree", "desktop_see", "iphone_see", "iphone_see_focus"}

(* What the operations of the tables are.                                  *)
InFront   == {"peekaboo", "systemEvents", "see", "capture", "region"}  \* act on what is in front
ByPid     == {"pressLabel", "pressPhone", "tree"}                    \* act on a process
Elsewhere == {"peekabooPhone", "url", "urlPeekaboo"}
Raising   == {"switch", "activate", "open", "switchTo", "openApp"}
Awaited   == {"switch", "activate", "open", "recover"}    \* the app must be seen in front
NeedPeekaboo == {"peekaboo", "peekabooPhone", "urlPeekaboo", "see", "region", "switch", "switchTo"}
Runs   == InFront \cup ByPid \cup Elsewhere \cup Raising
Mouse  == {"mouse", "mouseTarget", "mousePhone", "recover"}
Helped == Mouse \cup {"ax", "menu"}
Seeing == {"see", "capture", "region", "tree"}
===============================================================================
