----------------------------- MODULE MCRfc5424 -----------------------------
(***************************************************************************)
(* Rfc5424Parser with the tokens that tell its branches apart.             *)
(***************************************************************************)
EXTENDS Rfc5424Parser

SmallRange == [hostname |-> 1, appname |-> 1, procid |-> 1, msgid |-> 1, sdname |-> 1]

SmallConfigs == {[compliantMsg |-> FALSE, optionalPriority |-> FALSE],
                 [compliantMsg |-> TRUE, optionalPriority |-> TRUE]}

(* In a state, tokens that it tells apart. *)
SmallAlphabet ==
    [main |-> {"<", "1"}, prival |-> {"9", ">"}, version |-> {"1", " "},
     timestamp |-> {"-", "ts!", " "}, hostname |-> {"a", " ", "\n"},
     appname |-> {"-", " "}, procid |-> {"-", " "}, msgid |-> {"-", " "},
     structureddata |-> {"-", "[", "a"}, nilvalue |-> {" ", "a"},
     sdid |-> {"a", "b", " ", "]"}, sdparam |-> {"a", "b", "=", " "},
     dq |-> {"\"", "a"}, paramvalue |-> {"\"", "\\", "]", "cut"},
     escapes |-> {"]", "a"}, paramend |-> {" ", "]", "a"}, sdend |-> {" ", "[", "a"},
     msg |-> {"a", "BOM", "bad", "cut"}]

SmallTexts  == {<<"a">>, <<"-">>, <<"ts">>, <<"=">>}
SmallValues == {<<>>, <<"\\", "]">>, <<"BOM", "bad">>}
============================================================================
