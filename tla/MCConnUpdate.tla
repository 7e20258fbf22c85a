---------------------------- MODULE MCConnUpdate ----------------------------
\* Model-checking instance of ConnUpdate.
EXTENDS ConnUpdate

MCPackets == {<<"rsp", "upd", "silent">>, <<"disc", "upd">>}

=============================================================================
