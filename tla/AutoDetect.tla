----------------------------- MODULE AutoDetect -----------------------------
(***************************************************************************)
(* Format detection (auto/detect.go), loop by loop, on a byte string.      *)
(***************************************************************************)
EXTENDS Integers, Sequences

CONSTANT Inputs     \* the byte strings to classify

ASSUME InputsAssumption == Inputs \subseteq Seq(0..255)

VARIABLES input, pos, digitCount, dpc, format

vars == <<input, pos, digitCount, dpc, format>>

Digit    == 48..57
NonZero  == 49..57
Letter   == (65..90) \cup (97..122)
Space    == 32
Star     == 42
Dash     == 45
Colon    == 58
LT       == 60
GT       == 62
Months   == {<<74,97,110>>, <<70,101,98>>, <<77,97,114>>, <<65,112,114>>,
             <<77,97,121>>, <<74,117,110>>, <<74,117,108>>, <<65,117,103>>,
             <<83,101,112>>, <<79,99,116>>, <<78,111,118>>, <<68,101,99>>}

(* pos is the code's index, so that the byte there is input[pos + 1]. *)
Inside == pos < Len(input)
At     == input[pos + 1]

Answer(f) == dpc' = "done" /\ format' = f /\ UNCHANGED <<input, pos, digitCount>>

hasRFC3164MonthPrefix(in) ==
    Len(in) >= 4 /\ in[4] = Space /\ SubSeq(in, 1, 3) \in Months

detectWithoutPRI(in) ==
    IF \/ hasRFC3164MonthPrefix(in)
       \/ Len(in) >= 5 /\ in[5] = Dash /\ \A i \in 1..4 : in[i] \in Digit
    THEN "rfc3164" ELSE "rfc5424"

Init == /\ input \in Inputs
        /\ pos = 0 /\ digitCount = 0 /\ dpc = "start" /\ format = "none"

Start ==
    /\ dpc = "start"
    /\ IF Len(input) = 0 \/ input[1] # LT
       THEN Answer(detectWithoutPRI(input))
       ELSE dpc' = "pri" /\ UNCHANGED <<input, pos, digitCount, format>>

(* Mutant: the loop does not advance. *)
SkipPRIInPlace ==
    /\ dpc = "pri" /\ Inside /\ At # GT
    /\ UNCHANGED vars

(* The loop that looks for the '>' of PRI. *)
SkipPRI ==
    /\ dpc = "pri" /\ Inside /\ At # GT
    /\ pos' = pos + 1
    /\ UNCHANGED <<input, digitCount, dpc, format>>
NoPRIEnd ==
    /\ dpc = "pri" /\ ~Inside
    /\ Answer(detectWithoutPRI(input))
PRIEnd ==
    /\ dpc = "pri" /\ Inside /\ At = GT
    /\ pos' = pos + 1 /\ dpc' = "first"
    /\ UNCHANGED <<input, digitCount, format>>

(* Mutant: a leading zero is not told apart. *)
StampStartNoZero == Letter \cup {Space, Star}
StampStart       == Letter \cup {Space, Star, 48}

(* The byte after PRI. *)
First ==
    /\ dpc = "first"
    /\ IF ~Inside THEN Answer("rfc5424")
       ELSE IF At \in StampStart THEN Answer("rfc3164")
       ELSE IF At \in NonZero
            THEN /\ digitCount' = 1 /\ pos' = pos + 1 /\ dpc' = "digits"
                 /\ UNCHANGED <<input, format>>
       ELSE Answer("rfc5424")

(* The loop over the digits of VERSION or of a Cisco counter. *)
MoreDigits ==
    /\ dpc = "digits" /\ Inside /\ At \in Digit
    /\ digitCount' = digitCount + 1 /\ pos' = pos + 1
    /\ UNCHANGED <<input, dpc, format>>
(* Mutant: a VERSION has at most two digits. *)
DigitsEndTwo ==
    /\ dpc = "digits" /\ ~(Inside /\ At \in Digit)
    /\ Answer(IF digitCount > 2 THEN "rfc3164"
              ELSE IF Inside /\ At = Colon THEN "rfc3164"
              ELSE "rfc5424")

DigitsEnd ==
    /\ dpc = "digits" /\ ~(Inside /\ At \in Digit)
    /\ Answer(IF digitCount > 3 THEN "rfc3164"
              ELSE IF Inside /\ At = Colon THEN "rfc3164"
              ELSE "rfc5424")

Next == Start \/ SkipPRI \/ NoPRIEnd \/ PRIEnd \/ First \/ MoreDigits \/ DigitsEnd

Spec == Init /\ [][Next]_vars /\ WF_vars(Next)

-----------------------------------------------------------------------------
(* Every variable has its type and no index runs past the input. *)
TypeOK ==
    /\ input \in Seq(0..255) /\ pos \in 0..Len(input) /\ digitCount \in 0..Len(input)
    /\ dpc \in {"start", "pri", "first", "digits", "done"}
    /\ format \in {"none", "rfc3164", "rfc5424"}

(* in is '<', anything but '>', '>', then a string Rest accepts. *)
AfterPRI(in, Rest(_)) ==
    \E g \in 2..Len(in) :
        /\ in[1] = LT /\ in[g] = GT /\ \A i \in 2..(g - 1) : in[i] # GT
        /\ Rest(SubSeq(in, g + 1, Len(in)))

(* VERSION SP, as RFC 5424 begins after PRI: one to three digits, no        *)
(* leading zero.                                                            *)
Version(s) == \E k \in 1..3 : /\ Len(s) > k /\ s[1] \in NonZero /\ s[k + 1] = Space
                              /\ \A i \in 1..k : s[i] \in Digit

(* The ways a message of the RFC 3164 family may begin after PRI, by the    *)
(* machine's options (rfc3164/machine.go.rl:160-230): a letter (a month's   *)
(* or a host name's), spaces or Cisco's '*'; an RFC 3339 date; a Cisco      *)
(* counter, which may have no digits, or a sequence number, with its colon; *)
(* a Cisco host name, of up to 255 visible characters, with its colon.      *)
Stamp(s)      == Len(s) > 0 /\ s[1] \in Letter \cup {Space, Star}
FourDigits(s) == Len(s) > 3 /\ \A i \in 1..4 : s[i] \in Digit
Year(s)       == FourDigits(s) /\ Len(s) > 4 /\ s[5] = Dash
Counter(s)  == \E k \in 0..(Len(s) - 1) : s[k + 1] = Colon /\ \A i \in 1..k : s[i] \in Digit
Graph       == 33..126
HostName(s) == \E k \in 1..255 : /\ Len(s) > k /\ s[k + 1] = Colon
                                 /\ \A i \in 1..k : s[i] \in Graph \ {Colon}
Family3164(s) == Stamp(s) \/ Year(s) \/ Counter(s) \/ HostName(s)

(* What detect takes for RFC 5424 all the same: a counter without digits,   *)
(* and a host name of Cisco's whose first character is no letter, unless it *)
(* begins with a 0, with four digits, or as a counter would.                *)
NoDigits(s) == Len(s) > 0 /\ s[1] = Colon
OddName(s)  == HostName(s) /\ ~Stamp(s) /\ ~Counter(s) /\ s[1] # 48 /\ ~FourDigits(s)
Misread(s)  == NoDigits(s) \/ OddName(s)

(* Behind a PRI, detect (detect.go:6-76) sends what has a VERSION to RFC    *)
(* 5424, and what begins as the RFC 3164 family may to RFC 3164 except,     *)
(* exactly, for what Misread names.  Such a message may be well-formed; it  *)
(* is tried as RFC 5424 first and needs the fallback.                       *)
DetectsWellFormed ==
    dpc = "done" =>
        /\ AfterPRI(input, Version) => format = "rfc5424"
        /\ AfterPRI(input, Family3164) =>
              (format = "rfc5424" <=> AfterPRI(input, Misread))

(* The answer is a function of the input, the one this table gives. *)
DetectMatchesTable ==
    dpc = "done" =>
        (format = "rfc3164" <=>
            \/ AfterPRI(input, LAMBDA s : Len(s) > 0 /\ s[1] \in Letter \cup {Space, Star, 48})
            \/ AfterPRI(input, LAMBDA s : Len(s) > 3 /\ s[1] \in NonZero
                                           /\ \A i \in 1..4 : s[i] \in Digit)
            \/ AfterPRI(input, LAMBDA s : \E k \in 1..3 :
                   /\ Len(s) > k /\ s[1] \in NonZero /\ s[k + 1] = Colon
                   /\ \A i \in 1..k : s[i] \in Digit)
            \/ Len(input) > 3 /\ SubSeq(input, 1, 3) \in Months /\ input[4] = Space
            \/ Len(input) > 4 /\ input[5] = Dash /\ \A i \in 1..4 : input[i] \in Digit)

(* detect comes to an answer on every input. *)
DetectTerminates == <>(dpc = "done")
=============================================================================
