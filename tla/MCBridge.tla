------------------------------ MODULE MCBridge ------------------------------
\* The microphone alone, whose level is mirrored, monitored and half lost.
EXTENDS Bridge
=============================================================================
