--------------------------- MODULE MCSidecarEvents ---------------------------
EXTENDS SidecarEvents
=============================================================================
