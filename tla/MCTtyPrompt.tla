---------------------------- MODULE MCTtyPrompt ----------------------------
(* One worker or two, and the secret files worth telling apart, for TLC.    *)
EXTENDS TtyPrompt, TLC

CONSTANTS w1, w2

MCOne == {w1}
MCTwo == {w1, w2}

MCPassword == <<"a", "b">>

(* With MaxBytes = 3: whole, with an end of line of every kind, with two,   *)
(* empty, not UTF-8, as long as allowed and one byte longer.                *)
MCContents ==
  { <<"a", "b">>, <<"a", "b", "LF">>, <<"b", "LF">>, <<"a", "CR", "LF">>, <<"a", "LF", "LF">>,
    <<"a", "LF", "b">>, <<"SP", "a">>, <<>>, <<"LF">>, <<"a", NotUtf8>>, <<"a", "b", "b">>,
    <<"a", "b", "b", "LF">>, <<"a", "b", "LF", "LF">>, <<"a", "b", "a", "b", "a">> }

MCReplacements == { <<"a", "b", "LF">>, <<"b", "a">> }
=============================================================================
