----------------------------- MODULE MCIndStocks -----------------------------
(* Two callers, two listed names and an index.                              *)
EXTENDS IndStocks

CONSTANTS one, two, infy, tcs, nifty

MCCallers == {one, two}
MCNames   == {infy, tcs, nifty}
MCListed  == {infy, tcs}
MCLists   == {MCListed}
Pair(a, b) == [c \in MCCallers |-> IF c = one THEN a ELSE b]
Apart     == {Pair("quotes", "quotes"), Pair("bars", "nothing"), Pair("status", "status")}
Together  == {Pair("quotes", "status")}
Either    == {{}, {"token"}, {"totp"}}
=============================================================================
