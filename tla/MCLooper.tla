------------------------------ MODULE MCLooper ------------------------------
EXTENDS Looper

=============================================================================
