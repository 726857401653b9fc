--------------------------- MODULE MCDomainDocuments ---------------------------
EXTENDS DomainDocuments
=============================================================================
