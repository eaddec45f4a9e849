--------------------------- MODULE MCEchoSession ---------------------------
EXTENDS EchoSession

AllScenarios == {"observe", "tamper", "loss"}
MCIndices == {1, 2, 3}
=============================================================================
