-------------------------------- MODULE Maps --------------------------------
(***************************************************************************)
(* The two operators on functions the database is built with, as the       *)
(* module TLC defines them. The prover has no definition of that module's  *)
(* to expand.                                                              *)
(***************************************************************************)

d :> e == [x \in {d} |-> e]

\* Where both have a value, that of f.
f @@ g == [x \in DOMAIN f \cup DOMAIN g |-> IF x \in DOMAIN f THEN f[x] ELSE g[x]]
=============================================================================
