------------------------------ MODULE MCTrainer ------------------------------
EXTENDS Trainer

=============================================================================
