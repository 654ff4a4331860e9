--------------------------- MODULE MCTerminalText ---------------------------
EXTENDS TerminalText
=============================================================================
