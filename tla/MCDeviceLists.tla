--------------------------- MODULE MCDeviceLists ----------------------------
(***************************************************************************)
(* A port may bear the name of its driver, as p1 on p1, or another one, as *)
(* every port of src/bin/data/csi_channeltable.json.  Only safety is       *)
(* checked, and devices and ports are alike.                               *)
(***************************************************************************)
EXTENDS DeviceLists, TLC

MCSymmetry == Permutations(Devs) \cup Permutations(Ports)
=============================================================================
