-------------------------- MODULE MCTerminalStream --------------------------
(* TerminalStream for the pages and bounds of the configuration *)
EXTENDS TerminalStream
=============================================================================
