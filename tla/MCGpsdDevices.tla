---------------------------- MODULE MCGpsdDevices ----------------------------
\* Instances of GpsdDevices for TLC.
EXTENDS GpsdDevices

CONSTANTS Tty, Ntrip
MCArgv == <<Tty>>

=============================================================================
