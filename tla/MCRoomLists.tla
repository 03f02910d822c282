----------------------------- MODULE MCRoomLists -----------------------------
(* Instances of RoomLists: two rooms, a list of one of them and one of all.  *)
EXTENDS RoomLists, TLC

CONSTANTS r1, r2

NoFilter == [invite |-> None, wanted |-> None, unwanted |-> {}]
OneAndAll ==
  { [start |-> 0, end |-> 0, filter |-> NoFilter, awaits |-> FALSE],
    [start |-> 1, end |-> 1, filter |-> [invite |-> FALSE, wanted |-> None, unwanted |-> {"space"}], awaits |-> TRUE] }
All == {[start |-> 0, end |-> 1, filter |-> NoFilter, awaits |-> FALSE]}
Types == [r \in Rooms |-> {"room"}]
=============================================================================
