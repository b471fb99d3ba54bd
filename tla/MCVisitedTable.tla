--------------------------- MODULE MCVisitedTable ---------------------------
EXTENDS VisitedTable
=============================================================================
