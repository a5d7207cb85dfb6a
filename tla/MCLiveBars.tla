------------------------------ MODULE MCLiveBars ------------------------------
(* Two strategies on one shared bar builder, their quotes on time. *)
EXTENDS LiveBars

TheRunners == <<"r1", "r2">>
===============================================================================
