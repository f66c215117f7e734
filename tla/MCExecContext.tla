--------------------------- MODULE MCExecContext ---------------------------
(* Model-checking instance of ExecContext: two sessions, one command code  *)
(* that allows sessions and one that cannot carry them.                    *)
EXTENDS ExecContext

MCSessions == {"s1", "s2"}
MCCommandCodes == {"Unseal", "FlushContext"}

=============================================================================
