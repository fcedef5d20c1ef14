--------------------------- MODULE MCTrackedFile ---------------------------
EXTENDS TrackedFile
=============================================================================
