--------------------------- MODULE MCNotifications ----------------------------
(* An instance of Notifications for TLC: values of no, one and two words, and  *)
(* two that may have changed them, one of which is not known.                 *)
EXTENDS Notifications

ValuesOfWords == {<<>>, <<"w">>, <<"x">>, <<"w", ",", "x">>}
WebUIAndOther == {"WebUI", "LM"}
==============================================================================
