---------------------------- MODULE WebConsoleMC ----------------------------
(* WebConsole for TLC. *)
EXTENDS WebConsole, TLC

CONSTANTS ann, root, here, there, today, before
=============================================================================
