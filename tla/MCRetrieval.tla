------------------------- MODULE MCRetrieval -------------------------
EXTENDS Retrieval, TLC

\* The second item is too long for the budget, the third fits with the first.
MCSize == <<2, 4, 1>>
MCFacet == <<"fact", "fact", "rule">>
MCPools == {<<>>, <<1, 2, 3>>, <<2, 2>>}
======================================================================
