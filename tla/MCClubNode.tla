----------------------------- MODULE MCClubNode ------------------------------
EXTENDS ClubNode
MCSelf == {1}
=============================================================================
