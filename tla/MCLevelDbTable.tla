---------------------------- MODULE MCLevelDbTable ----------------------------
EXTENDS LevelDbTable

\* The empty key; keys that share all, some and none of the key before; 1 is
\* also the type of a live entry and a sequence number.
SomeKeys == {<<>>, <<1>>, <<1, 1>>, <<2>>}
=============================================================================
