---------------------------- MODULE MCTimeStamp ----------------------------
EXTENDS TimeStamp
=============================================================================
