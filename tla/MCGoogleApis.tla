---------------------------- MODULE MCGoogleApis ----------------------------
(* GoogleApis.tla with two sheets that share a column label.               *)
EXTENDS GoogleApis

MCCode == {-1, 200, 302, 401}

MCColumns == [s \in Sheet |-> IF s = "wide" THEN {"x", "y"} ELSE {"x"}]
=============================================================================
