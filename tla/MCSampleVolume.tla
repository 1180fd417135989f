--------------------------- MODULE MCSampleVolume ---------------------------
(* Instances of SampleVolume for TLC: see the .cfg files named after it.   *)
EXTENDS SampleVolume

(* The name of the second volume is that of the first one's time stamp. *)
ClashingNames == {<<"a">>, <<"a", "create_ts">>}

(* A directory with a file in it. *)
NestedPaths == {<<"d">>, <<"d", "f">>}
=============================================================================
