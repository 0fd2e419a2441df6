------------------------------ MODULE MCFleet ------------------------------
EXTENDS Fleet

=============================================================================
