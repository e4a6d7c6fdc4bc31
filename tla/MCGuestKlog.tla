------------------------------ MODULE MCGuestKlog ------------------------------
EXTENDS GuestKlog

MCText == {<<>>, <<"a">>, <<NUL>>}
=============================================================================
