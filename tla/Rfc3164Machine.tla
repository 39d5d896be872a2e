--------------------------- MODULE Rfc3164Machine ---------------------------
(***************************************************************************)
(* The RFC 3164 machine (rfc3164/machine.go, generated from machine.go.rl) *)
(* and a sequence of Parse calls on one machine, each on any input.        *)
(*                                                                         *)
(* A token is a byte, or a part of a timestamp, and stands for the bytes    *)
(* that the places it is offered in do not tell from it.  Behind the PRI   *)
(* the grammar is nondeterministic: Cisco's extras and the timestamp may   *)
(* begin alike, and so may host name, tag and message behind it.  The      *)
(* state is the set of the places where the alternatives stand that are    *)
(* alive.  There is one mark for all of them.                              *)
(***************************************************************************)
EXTENDS Integers, Sequences, SequencesExt, FiniteSets

CONSTANTS
    Configs,      \* the machine's options, and maxBody, a bound for its inputs
    Alphabet,     \* the tokens tried in each state, or at each place
    TagRange,     \* the longest tag
    MaxPart,      \* bound: tokens of a PRI, or of one of Cisco's extras
    MaxCalls      \* bound: Parse calls on one machine

(* "30" is the day that February lacks, "0d" a day of one digit behind a 0; *)
(* "dd" and "0d" are hours, minutes and seconds as well.  date! is the date *)
(* of an RFC 3339 timestamp that names no day.                              *)
MonthNames == {"Oct", "Feb"}
TwoDigits  == {"dd", "0d"}
Digits     == TwoDigits \cup {"9", "30"}
Dates      == {"date", "date!"}
StampParts == MonthNames \cup Digits \cup Dates \cup {"T", "Z", "."}
BodyTokens == {"<", ">", "9", "a", ":", "[", "]", "*", " ", "\n", "\r", "bad"}
Tokens     == StampParts \cup BodyTokens

ASSUME Rfc3164Assumption ==
    /\ Configs \subseteq [bestEffort : BOOLEAN, optionalPriority : BOOLEAN, newline : BOOLEAN,
                          msgcount : BOOLEAN, sequence : BOOLEAN, ciscoHostname : BOOLEAN,
                          rfc3339 : BOOLEAN, secfrac : BOOLEAN, lenientDay : BOOLEAN,
                          maxBody : Nat]
    /\ \A s \in DOMAIN Alphabet : Alphabet[s] \subseteq Tokens
    /\ Alphabet["prival"] \cup Alphabet["sp"] \subseteq BodyTokens
    /\ TagRange \in Nat \ {0} /\ MaxPart \in Nat /\ MaxCalls \in Nat

VARIABLES
    config,     \* what the options made of the machine
    m,          \* the machine
    call,       \* the Parse call
    calls

vars == <<config, m, call, calls>>

Absent == -1
NoOutput == [priority |-> Absent, msgcount |-> Absent, sequence |-> Absent, timestamp |-> "",
             hostname |-> <<>>, tag |-> <<>>, content |-> <<>>, message |-> <<>>]
NoFlags == [msgcount |-> FALSE, sequence |-> FALSE, ciscoHostname |-> FALSE]
WithoutCisco(c) == [c EXCEPT !.msgcount = FALSE, !.sequence = FALSE, !.ciscoHostname = FALSE]
Flags(c) == [msgcount |-> c.msgcount, sequence |-> c.sequence, ciscoHostname |-> c.ciscoHostname]

(* machine: its state, the places, what was read since that part of the    *)
(* input began and how much of it is before the mark.                       *)
NewMachine(c) ==
    [bestEffort |-> c.bestEffort, optionalPriority |-> c.optionalPriority,
     newline |-> c.newline, rfc3339 |-> c.rfc3339, secfrac |-> c.secfrac,
     lenientDay |-> c.lenientDay, flags |-> Flags(c),
     cs |-> "main", at |-> {}, data |-> <<>>, pb |-> 0, err |-> "nil", output |-> NoOutput]

Begin(n, start, places) ==
    [n EXCEPT !.cs = start, !.at = places, !.data = <<>>, !.pb = 0, !.err = "nil",
              !.output = NoOutput]

text(n)    == SubSeq(n.data, n.pb + 1, Len(n.data))
mark(n)    == [n EXCEPT !.pb = Len(n.data)]
Goto(n, s) == [n EXCEPT !.cs = s, !.data = <<>>, !.pb = 0]
Take(n, c) == [n EXCEPT !.data = Append(@, c)]
Fail(n, e) == [n EXCEPT !.cs = "fail", !.err = e]
Stop(n)    == [n EXCEPT !.cs = "st0"]         \* no error action: err stays nil

UnsafeUTF8DecimalCodePointsToInt(chars) == FoldLeft(LAMBDA n, c : 10 * n + 9, 0, chars)

-----------------------------------------------------------------------------
(* The PRI, and the actions of the grammar. *)

set_prival(n)   == [n EXCEPT !.output.priority = UnsafeUTF8DecimalCodePointsToInt(n.data)]
set_number(n, field) == [n EXCEPT !.output[field] = UnsafeUTF8DecimalCodePointsToInt(text(n))]
set_hostname(n) == [n EXCEPT !.output.hostname = text(n)]
Set(n, field)   == [n EXCEPT !.output[field] = text(n)]

(* Of the digits only 9 is offered in a PRI; behind a leading 9 the grammar *)
(* takes at most one more.                                                  *)
prival(n, c) ==
    LET marked == n.data # <<>>
        o == IF marked THEN set_prival(n) ELSE n
    IN  CASE marked /\ c = ">" -> [Goto(o, "header") EXCEPT !.at = {"pri_sp"}]
          [] c = "9" /\ Len(n.data) < 2 -> Take(o, c)
          [] OTHER -> Fail(o, "errPrival")

(* time.Parse of what is between the mark and here.  Year and zone are      *)
(* added to what it returns.                                                *)
NamesADay(t) == t[1] # "Feb" \/ t[3] # "30"
set_timestamp(n) == IF NamesADay(text(n)) THEN [n EXCEPT !.output.timestamp = "stamp"]
                    ELSE Fail(n, "time.Parse")
set_rfc3339(n)   == IF text(n)[1] = "date" THEN [n EXCEPT !.output.timestamp = "rfc3339"]
                    ELSE Fail(n, "time.Parse")

-----------------------------------------------------------------------------
(* The moves of the alternatives: <<from, tokens, to>>.  First              *)
(* sp* msgcount? sequence? ciscoHostname? '*'? and the timestamp.           *)

Cisco(n)    == n.flags.msgcount \/ n.flags.sequence \/ n.flags.ciscoHostname
If(cond, s) == IF cond THEN s ELSE {}
Extras      == {"pri_sp", "start", "counted", "sequenced", "named"}
HostChars   == {"<", ">", "a", "*", "[", "]", "T", "Z", "."}
               \cup MonthNames \cup Digits \cup Dates

(* <: prefers a counter to all that may follow it, at its first digit.      *)
Counter(n, from) == CASE from \in {"pri_sp", "start"} /\ n.flags.msgcount -> "msgcountval"
                      [] from \in {"pri_sp", "start", "counted"} /\ n.flags.sequence -> "sequenceval"
                      [] OTHER -> "none"
Open(n, from, tokens) == IF Counter(n, from) # "none" THEN tokens \ (Digits \cup Dates) ELSE tokens

ExtraMoves(n) ==
    (UNION { { <<from, If(from # "start", {" "}), from>>,
               <<from, If(Counter(n, from) = "msgcountval", {":"}), "counted">>,
               <<from, If(Counter(n, from) # "none", Digits), Counter(n, from)>>,
               <<from, If(Counter(n, from) # "none", Dates), "not_a_number">>,
               <<from, If(n.flags.ciscoHostname /\ from # "named", Open(n, from, HostChars)),
                 "ciscoHostname">>,
               <<from, If(Cisco(n), {"*"}), "ciscostar">> } : from \in Extras })
    \cup { <<"msgcountval", Digits, "msgcountval">>, <<"msgcountval", {":"}, "counted">>,
           <<"sequenceval", Digits, "sequenceval">>, <<"sequenceval", {":"}, "sequenced">>,
           <<"ciscoHostname", HostChars, "ciscoHostname">>, <<"ciscoHostname", {":"}, "named">> }

(* Mutant: <: prefers a host name to a timestamp, too. *)
MonthsUnlessHost(n, from) == If(~n.flags.ciscoHostname \/ from = "named", MonthNames)

Months(n, from) == MonthNames

(* hh:mm:ss, along the places before, between and behind.                  *)
Clock(q) == {<<q[i], CASE i = 1 -> TwoDigits
                       [] i \in {3, 5} -> TwoDigits \cup {"30"}
                       [] OTHER -> {":"}, q[i + 1]>> : i \in 1..5}

(* Behind the timestamp: ciscocolon? sp.                                    *)
After(n, from) == {<<from, {" "}, "sp">>, <<from, If(Cisco(n), {":"}), "ciscocolon">>,
                   <<"ciscocolon", {" "}, "sp">>}

(* datemmm sp datemday sp time *)
StampMoves(n) ==
    {<<from, Months(n, from), "datemmm">> : from \in Extras \cup {"ciscostar"}}
    \cup {<<"datemmm", {" "}, "datemday">>,
          <<"datemday", {" "}, "datemday_sp">>, <<"datemday_sp", {"9"}, "day">>,
          <<"datemday", {"dd", "30"} \cup If(n.lenientDay, {"0d"}), "day">>,
          <<"day", {" "}, "hour">>}
    \cup Clock(<<"hour", "hour_colon", "minute", "minute_colon", "second", "stamp">>)
    \cup {<<"stamp", If(n.secfrac, {"."}), "timesecfrac">>, <<"timesecfrac", Digits, "stamp_secfrac">>}
    \cup After(n, "stamp") \cup After(n, "stamp_secfrac")

(* fulldate 'T' fulltime; of the offsets from UTC only 'Z'.                 *)
FullMoves(n) ==
    (UNION {{<<from, If(n.rfc3339, Open(n, from, Digits)), "year">>,
             <<from, If(n.rfc3339, Open(n, from, Dates)), "fulldate">>}
            : from \in Extras \cup {"ciscostar"}})
    \cup {<<"year", Digits, "year">>, <<"fulldate", {"T"}, "fullhour">>}
    \cup Clock(<<"fullhour", "fullhour_colon", "fullminute", "fullminute_colon", "fullsecond",
                 "partialtime">>)
    \cup {<<"partialtime", {"."}, "fullsecfrac">>, <<"fullsecfrac", Digits, "partialtime_secfrac">>,
          <<"partialtime", {"Z"}, "rfc3339">>, <<"partialtime_secfrac", {"Z"}, "rfc3339">>}
    \cup After(n, "rfc3339")

-----------------------------------------------------------------------------
(* Then sp* (hostname sp+)? (tag content? ':' sp)? mex '\n'?.               *)

TagChars   == HostChars \ {"["}
Visible(n) == HostChars \cup {":", " ", "\r"} \cup (IF n.newline THEN {"\n"} ELSE {})

(* A '\n' that is not allowed has a code above those of all bytes, and the  *)
(* state that only the first space leads to takes every code from 128 on.   *)
FirstVisible(n) == Visible(n) \cup (IF n.at = {"sp"} THEN {"\n"} ELSE {})
InContent(n)    == Visible(n) \ {"[", "]"}

BodyMoves(n) ==
    { <<"sp", {" "}, "sp">>, <<"sp", HostChars, "hostname">>, <<"sp", TagChars, "tag">>,
      <<"sp", FirstVisible(n), "mex">>,
      <<"hostname", HostChars, "hostname">>, <<"hostname", {" "}, "hostname_sp">>,
      <<"hostname_sp", {" "}, "hostname_sp">>, <<"hostname_sp", TagChars, "tag">>,
      <<"hostname_sp", Visible(n), "mex">>,
      <<"tag", IF Len(text(n)) < TagRange THEN TagChars ELSE {}, "tag">>,
      <<"tag", {"["}, "content">>, <<"tag", {":"}, "colon">>,
      <<"content", InContent(n), "contentval">>, <<"content", {"]"}, "content_end">>,
      <<"contentval", InContent(n), "contentval">>, <<"contentval", {"]"}, "content_end">>,
      <<"content_end", {":"}, "colon">>, <<"colon", {" "}, "colon_sp">>,
      <<"colon_sp", Visible(n), "mex">>,
      <<"mex", Visible(n), "mex">>, <<"mex", {"\n"}, "end">> }

(* The rules with >mark: what begins there is what a later action sets.     *)
Marked == {"msgcountval", "sequenceval", "not_a_number", "ciscoHostname", "datemmm", "year",
           "fulldate", "hostname", "tag", "contentval", "mex"}

(* Mutant: $mark in place of >mark. *)
BeginsAlways(move) ==
    \/ move[3] \in Marked
    \/ move[3] = "counted" /\ move[1] \in {"pri_sp", "start"}
    \/ move[1] = "content"

Begins(move) ==
    \/ move[3] \in Marked /\ move[1] # move[3]
    \/ move[3] = "counted" /\ move[1] \in {"pri_sp", "start"}
    \/ move[1] = "content"

(* The error actions: the first in the order of the grammar wins.           *)
header_error(n) ==
    LET at(places) == n.at \cap places # {}
    IN  IF at({"pri_sp", "start", "counted"}) THEN Fail(n, "errSequence")
        ELSE IF at({"sequenced", "ciscoHostname"}) THEN Fail(n, "errHostname")
        ELSE IF at({"named", "ciscostar", "datemmm", "datemday", "datemday_sp", "day", "hour",
                    "hour_colon", "minute", "minute_colon", "second", "timesecfrac"})
             THEN Fail(n, "errTimestamp")
        ELSE IF at({"fullhour", "fullhour_colon", "fullminute", "fullminute_colon", "fullsecond",
                    "partialtime", "fullsecfrac", "partialtime_secfrac"})
             THEN Fail(n, "errRFC3339")
        ELSE Stop(n)

(* Mutant: the host name has no $err. *)
body_errorUnnamed(n) ==
    IF "hostname_sp" \in n.at THEN Fail(n, "errTag")
    ELSE IF n.at \cap {"content", "contentval"} # {} THEN Fail(n, "errContentStart")
    ELSE Stop(n)

body_error(n) ==
    IF n.at \cap {"sp", "hostname"} # {} THEN Fail(n, "errHostname")
    ELSE IF "hostname_sp" \in n.at THEN Fail(n, "errTag")
    ELSE IF n.at \cap {"content", "contentval"} # {} THEN Fail(n, "errContentStart")
    ELSE Stop(n)

Taken(n, c, moves) == {move \in moves : move[1] \in n.at /\ c \in move[2]}
To(moves) == {move[3] : move \in moves}
Leaves(moves, from, next) == \E move \in moves : move[1] \in from /\ move[3] \in next

(* All alternatives move at once: those that end something set it, and      *)
(* those that begin something set the mark.                                 *)
header(n, c) ==
    LET moves  == Taken(n, c, ExtraMoves(n) \cup StampMoves(n) \cup FullMoves(n))
        marked(o) == IF \E move \in moves : Begins(move) THEN mark(o) ELSE o
        behind == {"sp", "ciscocolon"}
        number == CASE Leaves(moves, {"pri_sp", "start"}, {"counted"}) -> set_number(mark(n), "msgcount")
                    [] Leaves(moves, {"msgcountval"}, {"counted"}) -> set_number(n, "msgcount")
                    [] Leaves(moves, {"sequenceval"}, {"sequenced"}) -> set_number(n, "sequence")
                    [] OTHER -> n
        host   == IF Leaves(moves, {"ciscoHostname"}, {"named"}) THEN set_hostname(number)
                  ELSE number
        stamp  == IF Leaves(moves, {"stamp", "stamp_secfrac"}, behind) THEN set_timestamp(host)
                  ELSE IF Leaves(moves, {"rfc3339"}, behind) THEN set_rfc3339(host)
                  ELSE host
    IN  IF moves = {} THEN header_error(n)
        ELSE IF stamp.cs = "fail" THEN stamp
        ELSE IF "sp" \in To(moves) THEN [Goto(stamp, "body") EXCEPT !.at = {"sp"}]
        ELSE [Take(marked(stamp), c) EXCEPT !.at = To(moves)]

(* Content and message are set only when the mark is. *)
body(n, c) ==
    LET moves   == Taken(n, c, BodyMoves(n))
        host    == IF Leaves(moves, {"hostname"}, {"hostname_sp"}) THEN set_hostname(n) ELSE n
        tag     == IF Leaves(moves, {"tag"}, {"content", "colon"}) THEN Set(host, "tag") ELSE host
        marked  == IF \E move \in moves : Begins(move) THEN mark(tag) ELSE tag
        content == IF "content_end" \in To(moves) THEN Set(marked, "content") ELSE marked
        message == IF "end" \in To(moves) THEN Set(content, "message") ELSE content
    IN  IF moves = {} THEN body_error(n) ELSE [Take(message, c) EXCEPT !.at = To(moves)]

Step(n, c) ==
    CASE n.cs = "main" -> IF c = "<" THEN Goto(n, "prival") ELSE Fail(n, "errPri")
      [] n.cs = "prival" -> prival(n, c)
      [] n.cs = "header" -> header(n, c)
      [] n.cs = "body" -> body(n, c)
      [] OTHER -> n

(* The actions at the end of the input. *)
Eof(n) ==
    CASE n.cs = "prival" -> Fail(n, "errPrival")
      [] n.cs = "header" -> header_error(n)
      [] n.cs = "body" -> IF "mex" \in n.at THEN Set(n, "message")
                          ELSE IF "end" \in n.at THEN n ELSE body_error(n)
      [] OTHER -> n

Final(n) == n.cs = "body"

minimal(n) == IF n.output.priority # Absent THEN n.output.priority \in 0..191
              ELSE n.optionalPriority /\ n.output.timestamp # "" /\ n.output.message # <<>>

Result(ok, msg, err) == [ok |-> ok, msg |-> msg, err |-> err]
Nothing == Result(FALSE, NoOutput, "nil")

(* The tail of Parse; ok tells a message from nil. *)
Answer(n) ==
    IF Final(n) THEN Result(TRUE, n.output, "nil")
    ELSE Result(n.bestEffort /\ minimal(n),
                IF n.bestEffort /\ minimal(n) THEN n.output ELSE NoOutput, n.err)

-----------------------------------------------------------------------------
(* Calls.  For the properties: the last token before the one that stopped   *)
(* the machine; a machine made for this one input; and one that has all the *)
(* options but Cisco's.                                                     *)

NoCall(c) == [pc |-> "idle", saved |-> Flags(c), before |-> "", res |-> Nothing,
              alone |-> NewMachine(c), plain |-> NewMachine(WithoutCisco(c))]

Init ==
    /\ config \in Configs
    /\ m = NewMachine(config)
    /\ call = NoCall(config) /\ calls = 0

(* The head of Parse looks at the first byte (EOF: there is none).  Without *)
(* a PRI, where one is optional, the flags for Cisco's extras are put aside.*)
Call(first) ==
    /\ call.pc = "idle" /\ calls < MaxCalls
    /\ calls' = calls + 1
    /\ LET New(n, off) == IF off THEN Begin([n EXCEPT !.flags = NoFlags], "header", {"start"})
                          ELSE Begin(n, "main", {})
           First(n, off) == IF first = "EOF" THEN New(n, off) ELSE Step(New(n, off), first)
           off == first # "<"
       IN  IF off /\ ~m.optionalPriority
           THEN /\ m' = [m EXCEPT !.err = "errPri"]
                /\ call' = [call EXCEPT !.pc = "done", !.res = Result(FALSE, NoOutput, "errPri"),
                                        !.alone.err = "errPri"]
           ELSE /\ m' = First(m, off)
                /\ call' = [call EXCEPT !.pc = IF first = "EOF" THEN "end" ELSE "read",
                                        !.saved = m.flags, !.before = first,
                                        !.alone = First(@, off), !.plain = First(@, off)]
    /\ UNCHANGED config

Stopped(n) == n.cs \in {"fail", "st0"}
Alive(n)   == n.cs \in {"prival", "header", "body"}

(* What a machine is offered, and how much of it: a timestamp as a whole.   *)
Offered(n) == CASE n.cs = "prival" -> Alphabet["prival"]
                [] n.cs = "header" -> UNION {Alphabet[place] : place \in n.at \cap DOMAIN Alphabet}
                [] n.cs = "body" -> Alphabet["sp"]
                [] OTHER -> {}
Unbounded(n) == n.cs = "header" /\ n.at \cap (Extras \cup {"msgcountval", "sequenceval",
                                                          "ciscoHostname", "year"}) = {}
Room(n) == \/ Unbounded(n)
           \/ IF n.cs = "body" THEN Len(n.data) < config.maxBody ELSE Len(text(n)) < MaxPart

Read ==
    /\ call.pc = "read"
    /\ \E n \in {m, call.plain} : Alive(n) /\ Room(n)
    /\ \E c \in Offered(m) \cup Offered(call.plain) :
          /\ m' = Step(m, c)
          /\ call' = [call EXCEPT !.before = IF Stopped(m') THEN @ ELSE c, !.alone = Step(@, c),
                                  !.plain = Step(@, c)]
    /\ UNCHANGED <<config, calls>>

(* Mutant: the flags are restored only where the message is returned. *)
FinishRestoresLate ==
    /\ call.pc \in {"read", "end"}
    /\ LET end == Eof(m)
       IN  /\ m' = [end EXCEPT !.flags = IF Final(end) THEN call.saved ELSE @]
           /\ call' = [call EXCEPT !.pc = "done", !.res = Answer(end), !.alone = Eof(@),
                                   !.plain = Eof(@)]
    /\ UNCHANGED <<config, calls>>

(* The end of the input, or what is left of it skipped; the tail of Parse   *)
(* and the deferred function, which restores the flags.                     *)
Finish ==
    /\ call.pc \in {"read", "end"}
    /\ LET end == Eof(m)
       IN  /\ m' = [end EXCEPT !.flags = call.saved]
           /\ call' = [call EXCEPT !.pc = "done", !.res = Answer(end), !.alone = Eof(@),
                                   !.plain = Eof(@)]
    /\ UNCHANGED <<config, calls>>

(* The caller has looked at the result; what the next call overwrites is    *)
(* forgotten.                                                               *)
Return ==
    /\ call.pc = "done"
    /\ call' = NoCall(config)
    /\ m' = Begin(m, "main", {})
    /\ UNCHANGED <<config, calls>>

Next == \/ \E first \in Alphabet["main"] \cup Alphabet["start"] \cup {"EOF"} : Call(first)
        \/ Read \/ Finish \/ Return

Spec == Init /\ [][Next]_vars

-----------------------------------------------------------------------------
Returned == call.pc = "done"
Accepted == Returned /\ Final(m)

(* Parse answers as a machine made for this input with the same options     *)
(* would, and Err tells of this call (machine.go:137-176): the flags that   *)
(* an input without PRI puts aside are back for the next one, whatever way  *)
(* the call ended.                                                          *)
AsFresh ==
    Returned => call.res = Answer(call.alone) /\ m.err = call.res.err

Spaces(k)   == [i \in 1..k |-> " "]
(* A '[' in the first word, which may be a host name or a tag.              *)
BracketInFirstWord ==
    \E k \in DOMAIN m.data : /\ m.data[k] = "["
                            /\ \A i, j \in 1..k : i < j /\ m.data[j] = " " => m.data[i] = " "

(* Of an accepted input nothing is lost: the message is the end of it, and  *)
(* before it are only the host name, the tag with its content, and the      *)
(* spaces and delimiters around them; where the mark was moved into what    *)
(* then was no content, the message begins there.  The one input left out   *)
(* is a host name with a '[' in it.                                         *)
NothingLost ==
    Accepted =>
        LET o      == call.res.msg
            ended  == "end" \in m.at /\ ~m.newline
            input  == IF ended THEN SubSeq(m.data, 1, Len(m.data) - 1) ELSE m.data
            before == SubSeq(input, 1, Len(input) - Len(o.message))
            tags   == {<<>>, o.tag \o <<":", " ">>, o.tag \o <<"[">>,
                       o.tag \o <<"[">> \o o.content \o <<"]", ":", " ">>}
        IN  /\ o.message # <<>> /\ IsSuffix(o.message, input)
            /\ \/ o.hostname # <<>> /\ BracketInFirstWord
               \/ \E i, j \in 0..Len(before), tag \in tags :
                     \/ before = Spaces(i) \o tag
                     \/ j > 0 /\ before = Spaces(i) \o o.hostname \o Spaces(j) \o tag

(* A refusal without an error (machine.go:140 says there is none) comes     *)
(* only from within the message, from within a number or a date that begins *)
(* something, or directly behind a timestamp; all else is named.            *)
SilentOnlyInside ==
    Returned /\ ~Accepted /\ call.res.err = "nil" =>
        LET clock(h) == {m.data[h + 1], m.data[h + 3]} = {":"} /\ m.data[h + 4] \in Digits
        IN  \/ m.at \cap {"mex", "end"} # {}
            \/ text(m) # <<>> /\ ToSet(text(m)) \subseteq Digits \cup Dates
            \/ /\ \E h \in 1..Len(m.data) - 4 : clock(h)
               /\ Last(m.data) # "." /\ ToSet(m.data) \cap (MonthNames \cup {"Z"}) # {}

(* Cisco's options only add to what is accepted (machine.go.rl:166-185): an *)
(* input that a machine without them accepts has the same answer with them. *)
(* Left out are RFC 3339 timestamps: their digits begin a counter or a host *)
(* name, too, and are refused.                                              *)
CiscoOnlyAdds ==
    Returned /\ Final(call.plain) /\ call.plain.output.timestamp = "stamp" =>
        call.res = Answer(call.plain)

(* By default newlines are message terminators: none is in a message.       *)
NewlineEndsMessage ==
    Returned /\ ~config.newline =>
        \A i \in DOMAIN call.res.msg.message : call.res.msg.message[i] \notin {"\n", "\r"}
=============================================================================
