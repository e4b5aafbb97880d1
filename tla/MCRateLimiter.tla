------------------------------ MODULE MCRateLimiter ------------------------------
(* RateLimiter on a small instance: MCRateLimiter.cfg.                       *)
EXTENDS RateLimiter

CONSTANTS w1, w2

MCRates == -1 .. 2

(* One worker, or two.                                                       *)
MCTeams == {{w1}, {w1, w2}}
=============================================================================
