----------------------------- MODULE MCDrivers -----------------------------
EXTENDS Drivers
=============================================================================
