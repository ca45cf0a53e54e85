---------------------------- MODULE WriteBehind ----------------------------
(* What the persistence of a process promises: a value in memory, a copy of *)
(* it on disk that lags behind, and restarts that go back to the copy.      *)
(*                                                                          *)
(* A copy is always the whole value of one moment.  While nothing is marked *)
(* unsaved the copy is the value, so that a restart can only lose what was  *)
(* changed since the last save; and nothing changes without the mark.       *)

VARIABLES current,     \* the value in memory
          durable,     \* the copy on disk
          unsaved      \* whether a change is marked

wbVars == <<current, durable, unsaved>>

WBInit == /\ durable = current
          /\ unsaved = FALSE

\* Any change, the one to the same value included.
Change == /\ unsaved' = TRUE
          /\ UNCHANGED durable

Save == /\ unsaved
        /\ durable' = current
        /\ unsaved' = FALSE
        /\ UNCHANGED current

\* The process ends, and another starts from the disk.
Reload == /\ current' = durable
          /\ unsaved' = FALSE
          /\ UNCHANGED durable

WBNext == Change \/ Save \/ Reload

WBSpec == WBInit /\ [][WBNext]_wbVars
=============================================================================
