------------------------------ MODULE MCScreen ------------------------------
\* ClientScreen on small instances.
EXTENDS ClientScreen, TLC

MCLetters   == {"a", "b", "|"}
MCNames     == {<<"a">>, <<"a", "|", "b">>, <<"b">>, <<>>}
MCPasswords == {<<"b">>, <<"b", "|", "b">>}
MCTexts     == {<<"a">>, <<"|", "a">>}

\* What stands before any bar of a handshake, the empty name left out.
MCUsers == {<<"a">>, <<"a", "|", "b">>, <<"a", "|", "b", "|", "b">>,
            <<"b">>, <<"b", "|", "b">>, <<"|", "b">>}
MCHash  == [u \in MCUsers |-> IF u = <<"a">> THEN 0 ELSE 5]
=============================================================================
