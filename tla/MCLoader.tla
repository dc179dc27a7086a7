------------------------------ MODULE MCLoader ------------------------------
(* An instance of Loader for TLC: two files that use each other by the same *)
(* words, for each lies in its own directory, and a package that is one of  *)
(* them.                                                                    *)
EXTENDS Loader, TLC

Tree == "root" :> ("part" :> "a") @@ "lib" :> ("part" :> "b")
Where == "a" :> "lib" @@ "b" :> "root"
Installed == "root" :> ("pkg" :> {"a", "b"}) @@ "lib" :> ("pkg" :> {"b"})
=============================================================================
