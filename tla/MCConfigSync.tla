---------------------------- MODULE MCConfigSync ----------------------------
(* ConfigSync for TLC: two rows that may hold one camera each, the same    *)
(* camera, a camera the detector refuses or one without a detector id.     *)
EXTENDS ConfigSync

CONSTANTS h1, h2, c1, c2, u1, u2

Body(c, u, w, h) == [camera |-> c, url |-> u, window |-> w, hits |-> h]

\* A camera, one whose window is smaller than the default of the hits, one
\* without a detector id, and one the validator refuses.
MCInputs ==
    {Body(c1, u1, None, None), Body(c2, u1, 2, None),
     Body(None, u1, None, None), Body(c2, u1, 0, None)}

\* A new URL with fewer hits, another detector id.
MCChanges == {Body(None, u2, None, 2), Body(c2, None, None, None)}
=============================================================================
