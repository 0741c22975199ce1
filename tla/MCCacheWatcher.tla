--------------------------- MODULE MCCacheWatcher ---------------------------
(* A cache that is empty at start, and one kernel compiled into it.        *)
EXTENDS CacheWatcher, TLC

CONSTANTS d, new
MCHomeOf == new :> d
=============================================================================
