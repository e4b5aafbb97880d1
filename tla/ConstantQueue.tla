----------------------------- MODULE ConstantQueue -----------------------------
(****************************************************************************)
(* The constant backend, app/repositories/queue/constant: an endless supply  *)
(* of messages that carry the configured query.  `ready` is the channel that *)
(* is closed, once, when the first query is set.                             *)
(****************************************************************************)
CONSTANTS
    Queries,
    NoQuery    \* the empty string: no query configured yet

VARIABLES
    query,
    ready,     \* TRUE once the channel is closed
    closing    \* calls of SetQuery that stored a query and have not yet closed

vars == <<query, ready, closing>>

TypeOK ==
    /\ query \in Queries \cup {NoQuery}
    /\ ready \in BOOLEAN
    /\ closing \in BOOLEAN

(* New: the query of the config, if any.                                     *)
Init ==
    /\ query \in Queries \cup {NoQuery}
    /\ ready = (query # NoQuery)
    /\ closing = FALSE

-----------------------------------------------------------------------------
(* Mutant: the channel is closed before the query is stored.                 *)
StoreQueryAfterClose(q) ==
    /\ ready' = TRUE
    /\ closing' = FALSE
    /\ query' \in {query, q}

(* SetQuery, under the lock.  Over HTTP the query is never empty.            *)
StoreQuery(q) ==
    /\ query' = q
    /\ closing' = TRUE
    /\ UNCHANGED ready

(* SetQuery, after the lock: once.Do(close(ready)).                          *)
CloseReady ==
    /\ closing
    /\ ready' = TRUE
    /\ closing' = FALSE
    /\ UNCHANGED query

(* A new process, with the query of its config.                              *)
New ==
    /\ query' \in Queries \cup {NoQuery}
    /\ ready' = (query' # NoQuery)
    /\ closing' = FALSE

=============================================================================
