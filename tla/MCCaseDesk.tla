------------------------------- MODULE MCCaseDesk -------------------------------
EXTENDS CaseDesk
=============================================================================
