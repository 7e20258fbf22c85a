---------------------------- MODULE MCGattClient ----------------------------
\* Model-checking instance of GattClient.
EXTENDS GattClient

=============================================================================
