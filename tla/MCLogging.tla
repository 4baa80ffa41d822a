----------------------------- MODULE MCLogging -----------------------------
EXTENDS Logging
=============================================================================
