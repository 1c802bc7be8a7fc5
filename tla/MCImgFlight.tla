---------------------------- MODULE MCImgFlight ----------------------------
(* Small instances of ImgFlight: the constants are given in the .cfg files. *)
EXTENDS ImgFlight
=============================================================================
