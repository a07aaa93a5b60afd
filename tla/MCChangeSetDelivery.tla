------------------------ MODULE MCChangeSetDelivery ------------------------
\* Small change sets for TLC: which route each item takes.
EXTENDS ChangeSetDelivery

BrowserAisPerson == <<"browser", "ais", "person">>
OneAgent == <<"ais">>
=============================================================================
