---------------------------- MODULE MCConnectorRun ---------------------------
EXTENDS ConnectorRun

=============================================================================
