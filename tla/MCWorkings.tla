------------------------------- MODULE MCWorkings -------------------------------
\* Instances of Workings for TLC.
EXTENDS Workings
=================================================================================
