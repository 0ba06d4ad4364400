---------------------------- MODULE MCReaderStartup ----------------------------
EXTENDS ReaderStartup
=============================================================================
