----------------------------- MODULE EFThreads ------------------------------
(***************************************************************************)
(* The threads of a process that use the object runtime and its class      *)
(* registry.                                                               *)
(***************************************************************************)

CONSTANTS Thread,  \* threads that use the library
          Nobody   \* no thread: the owner of an unlocked mutex, of what has no owner
=============================================================================
