------------------------------ MODULE MCOwnerFence ------------------------------
\* Instances of OwnerFence for TLC.
EXTENDS OwnerFence
================================================================================
