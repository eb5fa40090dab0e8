----------------------------- MODULE MCPeArrayCg ------------------------------
EXTENDS PeArrayCg
MCAct == {<<"x">>, <<"y">>}
MCGen == {<<"g">>, <<"h">>}
===============================================================================
