------------------------------ MODULE MCParts -------------------------------
EXTENDS PartCalls
CONSTANTS n1, n2, n3, nameX, nameY
NamesUsed == [k \in Kinds |-> IF k = "packages" THEN {nameX, nameY} ELSE {nameX}]
NodeOrder == <<n1, n2, n3>>
PairOrder == <<n1, n2>>
=============================================================================
