------------------------------ MODULE MCServer ------------------------------
EXTENDS Server

=============================================================================
