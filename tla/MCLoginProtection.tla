------------------------ MODULE MCLoginProtection --------------------------
EXTENDS LoginProtection
=============================================================================
