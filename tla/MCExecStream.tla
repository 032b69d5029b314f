----------------------------- MODULE MCExecStream -----------------------------
EXTENDS ExecStream
MCCodes == {1, 2}
=============================================================================
