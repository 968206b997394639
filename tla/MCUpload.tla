------------------------------ MODULE MCUpload -------------------------------
(* Upload with two ranges: as long as one frame, and one register longer.  *)
EXTENDS Upload
MCRanges == << <<0, 2>>, <<5, 3>> >>
MCChanging == {1, 6}
==============================================================================
