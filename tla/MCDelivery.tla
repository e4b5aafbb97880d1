------------------------------ MODULE MCDelivery ------------------------------
(* Delivery on small instances: the configurations MCDelivery_*.cfg.         *)
EXTENDS Delivery, TLC

(* Workers are interchangeable, and so are the messages this program makes.  *)
Symmetry == Permutations(Workers) \cup Permutations(Messages \ Poison)
=============================================================================
