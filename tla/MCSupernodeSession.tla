------------------------ MODULE MCSupernodeSession ------------------------
EXTENDS SupernodeSession

CONSTANTS a, b

MCTwo == <<a, b>>
MCNoPayload == {<<>>}
MCPayload == {<<>>, <<a>>}
=============================================================================
