----------------------------- MODULE MCLedStrip -----------------------------
(* Model checking of LedStrip.  An app keeps the colour mode it finds, or   *)
(* leaves one that is none; or its descriptor is bad.                      *)
EXTENDS LedStrip, TLC

CONSTANTS plain, odd, bad

SomeApps == {plain, odd, bad}
SomeModes == (plain :> Keep) @@ (odd :> 7) @@ (bad :> 7)
BadApps == {bad}
PlainApp == {plain}
PlainMode == (plain :> Keep)
NoApps == {}
FirstBoot == {Default}
LaterBoot == {[Default EXCEPT !["color_mode"] = 7]}
=============================================================================
