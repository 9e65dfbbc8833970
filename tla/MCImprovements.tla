--------------------------- MODULE MCImprovements ---------------------------
EXTENDS Improvements, TLC
CONSTANTS t1, k1

Spelling == t1 :> "t" @@ k1 :> "k"
AllIds   == {<<"allowlist-drift", "t">>, <<"tool-failure", "t">>, <<"skill-usage", "k">>}
OnMain   == {<<"skill-usage", "k">>}
=============================================================================
