--------------------------- MODULE MCWindowsMount ---------------------------
(* WindowsMount on two context slots.  The slots are interchangeable.        *)
EXTENDS WindowsMount, TLC

Symmetry == Permutations(Contexts)
=============================================================================
