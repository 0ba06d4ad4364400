---------------------------- MODULE MCNfcExchange ----------------------------
EXTENDS NfcExchange
=============================================================================
