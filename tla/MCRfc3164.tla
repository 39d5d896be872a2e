----------------------------- MODULE MCRfc3164 -----------------------------
(***************************************************************************)
(* Rfc3164Machine with and without the options that change its grammar.    *)
(***************************************************************************)
EXTENDS Rfc3164Machine

Plain == [bestEffort |-> FALSE, optionalPriority |-> FALSE, newline |-> FALSE,
          msgcount |-> FALSE, sequence |-> FALSE, ciscoHostname |-> FALSE,
          rfc3339 |-> FALSE, secfrac |-> FALSE, lenientDay |-> FALSE, maxBody |-> 7]

Priorityless == [Plain EXCEPT !.optionalPriority = TRUE, !.msgcount = TRUE, !.secfrac = TRUE,
                              !.maxBody = 3]

SmallConfigs ==
    {Plain, Priorityless,
     [Plain EXCEPT !.bestEffort = TRUE, !.newline = TRUE, !.rfc3339 = TRUE, !.lenientDay = TRUE,
                   !.maxBody = 6],
     [Plain EXCEPT !.ciscoHostname = TRUE, !.rfc3339 = TRUE, !.maxBody = 3],
     [Priorityless EXCEPT !.bestEffort = TRUE, !.sequence = TRUE, !.ciscoHostname = TRUE,
                          !.rfc3339 = TRUE]}

(* At a place, tokens that it tells apart. *)
Extra == {"9", "dd", "a", ":", " ", "*", "Oct", "Feb", "date", "date!"}
SmallAlphabet ==
    [main |-> {"<", "a"}, prival |-> {"9", ">"}, start |-> Extra \cup {"<"},
     pri_sp |-> Extra, counted |-> Extra, sequenced |-> Extra, named |-> Extra,
     msgcountval |-> {"9", ":", "a"}, sequenceval |-> {"9", ":", "a"},
     ciscoHostname |-> {"a", "9", ":", " "}, ciscostar |-> {"Oct", "date", "9", ":", "*"},
     datemmm |-> {" ", "9"}, datemday |-> {" ", "30", "0d", "9"}, datemday_sp |-> {"9", "dd"},
     day |-> {" ", ":"}, hour |-> {"dd", "30"}, hour_colon |-> {":"}, minute |-> {"dd", "9"},
     minute_colon |-> {":", " "}, second |-> {"dd"}, stamp |-> {" ", ":", ".", "a"},
     timesecfrac |-> {"9", " "}, stamp_secfrac |-> {" ", ":", "a"},
     year |-> {"9", "a"}, fulldate |-> {"T", " "}, fullhour |-> {"dd", "9"},
     fullhour_colon |-> {":"}, fullminute |-> {"dd"}, fullminute_colon |-> {":"},
     fullsecond |-> {"dd", "9"}, partialtime |-> {"Z", "."}, fullsecfrac |-> {"9", "Z"},
     partialtime_secfrac |-> {"Z", " "}, rfc3339 |-> {" ", ":", "a"}, ciscocolon |-> {" ", ":"},
     sp |-> {"a", ":", "[", "]", " ", "\n", "bad"}]
============================================================================
