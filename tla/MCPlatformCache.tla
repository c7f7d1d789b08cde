-------------------------- MODULE MCPlatformCache --------------------------
(* Instances of PlatformCache for TLC: lifetimes of 30, 60 and 300 seconds   *)
(* as 1, 2 and 3 ticks; the trend has 2, which keeps the run short.          *)
EXTENDS PlatformCache
MCTTL == [stats |-> 3, trend |-> 2, fleet |-> 2, agents |-> 2, overflow |-> 1]
============================================================================
