---------------------------- MODULE MCDeviceLists ----------------------------
(* Instances of DeviceLists: one other user, and two rooms.                  *)
EXTENDS DeviceLists

MCUpdates == ({"device", "presence", "sign"} \X Others) \cup {<<"device", Me>>}

Symmetry == Permutations(Rooms)
=============================================================================
