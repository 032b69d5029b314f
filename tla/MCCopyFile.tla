---------------------------- MODULE MCCopyFile ----------------------------
EXTENDS CopyFile
=============================================================================
