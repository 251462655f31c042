------------------------------ MODULE MCAudioPath ------------------------------
\* Constants of the run of AudioPath: numbers, given in the .cfg file, and the
\* threads with a toggle command.
EXTENDS AudioPath

CONSTANTS keyboard, control
=============================================================================
