-------------------------------- MODULE MCTrash --------------------------------
(* Two files of one folder with the same content and a second content that
   writers bring in. *)
EXTENDS Trash

MCDisk == [k \in Keys |-> "c1"]
=============================================================================
