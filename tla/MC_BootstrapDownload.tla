------------------------ MODULE MC_BootstrapDownload ------------------------
EXTENDS BootstrapDownload
=============================================================================
