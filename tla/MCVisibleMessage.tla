--------------------------- MODULE MCVisibleMessage ---------------------------
(* Instances of VisibleMessage for TLC.                                    *)
EXTENDS VisibleMessage, TLC

CONSTANTS a, b, Plans, Notes

(* Each thread has its title.                                                *)
Titled == (a :> Plans) @@ (b :> Notes)
===============================================================================
