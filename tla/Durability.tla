----------------------------- MODULE Durability -----------------------------
(* The registry of the store as a value that is written behind: state.json  *)
(* holds the copy, and dirty is the mark.  The counters are left out: a     *)
(* read rolls them over without marking it (CleanMeansSaved covers them).   *)
EXTENDS Store

Registry(s) == <<s.users, s.accessKeys, s.upstreamKeys, s.sessions>>

WB == INSTANCE WriteBehind WITH current <- Registry(Memory),
                                durable <- Registry(disk),
                                unsaved <- dirty

\* Timer, callbacks, failing writes, the final flush and crashes implement
\* the abstract write-behind: state.json is always one whole earlier state of
\* the registry, a restart goes back to it, and no change escapes the mark.
RegistryWrittenBehind == WB!WBSpec
=============================================================================
