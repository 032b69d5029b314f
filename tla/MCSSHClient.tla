----------------------------- MODULE MCSSHClient ------------------------------
EXTENDS SSHClient
MCCodes == {1}
=============================================================================
