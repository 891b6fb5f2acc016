------------------------------ MODULE MCIssues ------------------------------
EXTENDS Issues
CONSTANTS n1, n2, n3
TwoNodes == <<n1, n2>>
ThreeNodes == <<n1, n2, n3>>
=============================================================================
