----------------------- MODULE MCResourceLifecycle -----------------------
EXTENDS ResourceLifecycle
=============================================================================
