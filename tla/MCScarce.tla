------------------------------- MODULE MCScarce -------------------------------
EXTENDS Scarce, MCServer

View == <<UpToTimerNames, spare>>

=============================================================================
