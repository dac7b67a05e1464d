--------------------------- MODULE MCBluetoothLink ---------------------------
(* BluetoothLink on small instances: one or two overlapping attempts, at    *)
(* most one closer, one or two handles.                                     *)
EXTENDS BluetoothLink, TLC
Symmetry == Permutations(Attempts) \cup Permutations(Gatts)
=============================================================================
