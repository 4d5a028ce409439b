----------------------------- MODULE MCRegistry -----------------------------
(* A phone with two ports to choose from, whose serial number listings show   *)
(* at times, plugged in twice.                                                *)
EXTENDS Registry, TLC

CONSTANTS pixel, google, left, right, sn

Models    == pixel :> google
PortsOf   == pixel :> {left, right}
SerialsOf == pixel :> {sn, None}
Plugs     == pixel :> 2
=============================================================================
