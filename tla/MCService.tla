----------------------------- MODULE MCService -----------------------------
(* Two control connections at once, to whichever daemon answers, and two    *)
(* files written through the volume.                                        *)
EXTENDS Service

CONSTANTS c1, c2, f1, f2

Connections == {c1, c2}
Files == {f1, f2}
=============================================================================
