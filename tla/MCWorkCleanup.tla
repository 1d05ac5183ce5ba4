---------------------------- MODULE MCWorkCleanup ----------------------------
EXTENDS WorkCleanup
=============================================================================
