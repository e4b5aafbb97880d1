------------------------------ MODULE MCSettings ------------------------------
(* Settings on a small instance: MCSettings.cfg.                              *)
EXTENDS Settings, TLC

(* A new minimum alone, which may cross the maximum and be refused, or both. *)
MCPatches == {[f \in {"min"} |-> 1], [f \in {"min", "max"} |-> 0]}

(* The defaults of the configuration, scaled down.                           *)
MCDefaults ==
    [k \in Keys |->
        CASE k = TypeKey        -> "pid"
          [] k = ProtocolKey    -> "inmemory"
          [] k = QueryKey       -> "q1"
          [] k = <<"pid", "min">> -> 0
          [] OTHER              -> 1]

(* The first client patches controllers and sets the queue's type and query; *)
(* the second switches controllers, also in the middle of a PATCH.           *)
MCEndpoints == [h \in Handlers |-> IF h = "h1" THEN Kinds \ {"type"} ELSE {"type"}]
=============================================================================
