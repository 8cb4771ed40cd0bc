------------------------- MODULE MCSourceConfiguration -------------------------
EXTENDS SourceConfiguration

InitialValues == {"absent", "user", "console", "1"}
===============================================================================
