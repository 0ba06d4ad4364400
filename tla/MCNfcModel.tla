------------------------------ MODULE MCNfcModel ------------------------------
EXTENDS NfcModel
=============================================================================
