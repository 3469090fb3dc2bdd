--------------------------- MODULE MCDesktopActions ---------------------------
(* Instances of DesktopActions for TLC.                                    *)
EXTENDS DesktopActions, TLC

CONSTANTS p1, p2, p3, App, Mail

(* Each app has one process.                                               *)
OneEach == (p1 :> App) @@ (p2 :> Mail) @@ (p3 :> Phone)

(* The commands whose plans are not part of the plan of another here.      *)
AllPlans ==
    Kinds \ {"desktop_window", "desktop_drag", "desktop_scroll", "desktop_hotkey",
             "desktop_set_value", "local_site_open", "iphone_key", "type_spotlight",
             "type_approved_text", "snapshot", "ax_tree"}
===============================================================================
