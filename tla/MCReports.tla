----------------------------- MODULE MCReports -----------------------------
EXTENDS Reports
=============================================================================
