------------------------------ MODULE MCTransfers ------------------------------
(* One indexed file "a" on the watched backend and its free key "b", a key on
   another volume and a remote key. *)
EXTENDS Transfers, TLC

CONSTANTS i1, i2, i3

Symmetry == Permutations({i2, i3})

MCLocs == {"a", "b", "n", "r"}
MCDisk == [k \in MCLocs |-> IF k = "a" THEN [c |-> "c1", ino |-> i1] ELSE Absent]
MCLocations == [c \in Contents |-> IF c = "c1" THEN [Nowhere EXCEPT !["a"] = [ino |-> i1, synced |-> TRUE]] ELSE Nowhere]
MCIndex == [locs |-> MCLocations, owner |-> [k \in MCLocs |-> IF k = "a" THEN "c1" ELSE None], log |-> <<>>, floor |-> 1]
=============================================================================
