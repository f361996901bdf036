--------------------------- MODULE MCRequirePath ---------------------------
EXTENDS RequirePath

\* A few characters spelled as one-character strings.
MCPathStrings == {<<"?">>, <<"a", "/", "?">>, <<"?", ";", "a", "/", "?", ";">>, <<"?", "?">>, <<>>}
MCModules == {<<"a">>, <<"a", ".", "a">>, <<"a", "?">>}
MCExts == <<<<".", "s">>>>
MCFiles == {<<"a">>, <<"a", "/", "a">>, <<"a", ".", "s">>, <<"a", "/", "a", ".", "s">>,
            <<"a", "a", "?", ".", "s">>, <<"a", "?", ".", "s">>}
MCLoadable == MCFiles \ {<<"a", "/", "a", ".", "s">>}
MCExporting == {<<"a", ".", "s">>, <<"a", "?", ".", "s">>, <<"a", "a", "?", ".", "s">>}
MCInitPath == <<<<"?">>, <<"a", "/", "?">>>>
MCInitCPath == <<<<"?", "?">>>>

=============================================================================
