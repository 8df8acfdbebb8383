-------------------------- MODULE MCWatcherHistory --------------------------
(* The promises of WatcherHistory, on the instances of MCWatcher.           *)
EXTENDS WatcherHistory, MCWatcher
==============================================================================
