--------------------------- MODULE MCAutoControl ---------------------------
(* Model-checking instances of AutoControl.                                *)
EXTENDS AutoControl
TwoBases == {400, 800}
OneBase == {400}
OneRatio == {100}
Fresh == {0}
Legacy == {7}
UpDown == {0, 2, -5}
=============================================================================
