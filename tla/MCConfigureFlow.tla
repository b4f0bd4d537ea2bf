--------------------------- MODULE MCConfigureFlow ---------------------------
EXTENDS ConfigureFlowProperties

CONSTANTS c1, c2, a1, a2

OneConfigure == {c1}
TwoConfigures == {c1, c2}
OneAbort == {a1}
TwoAborts == {a1, a2}
Operates == {"OPERATE", "TRACKING"}
=============================================================================
