----------------------------- MODULE MCKeyValue -----------------------------
EXTENDS KeyValue
=============================================================================
