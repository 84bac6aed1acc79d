-------------------------- MODULE SBQueryEngineMC --------------------------
(***************************************************************************)
(* Three server objects for two addresses, so that two objects of the list *)
(* may share one.                                                          *)
(***************************************************************************)
EXTENDS SBQueryEngine

MCAddress == "s1" :> "a" @@ "s2" :> "a" @@ "s3" :> "b"
=============================================================================
