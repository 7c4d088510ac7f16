------------------------- MODULE MCRegistrarManager -------------------------
(* RegistrarManager with three threads and one account: a registration, an *)
(* unregistration and one more attempt of either kind meet.                *)
EXTENDS RegistrarManager

(* Every property is about threads that do not share an entry, and holds of *)
(* itself once they do: what comes after that is not explored.              *)
Apart == ~shared
=============================================================================
