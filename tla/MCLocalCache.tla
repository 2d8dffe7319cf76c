---------------------------- MODULE MCLocalCache ----------------------------
(* A small instance of LocalCache for TLC: one code is the beginning of the *)
(* other up to its colon, so that a prefix matches both; user ids have none.*)
EXTENDS LocalCache

MCChars == {"bot", "beta", "ann", Colon}   \* a word stands for its letters
MCCodes == {<<"bot">>, <<"bot", Colon, "beta">>}
MCUsers == {<<"ann">>, <<"bot">>}
MCTtls  == {-1, 0, 1}
============================================================================
