---------------------------- MODULE MCShellCache ----------------------------
(***************************************************************************)
(* One browser with one tab or two, and three builds.                      *)
(***************************************************************************)
EXTENDS ShellCache
=============================================================================
