--------------------------- MODULE Rfc5424Machine ---------------------------
(***************************************************************************)
(* The RFC 5424 machine (rfc5424/machine.go, generated from machine.go.rl) *)
(* as a function: Begin, then Step for each token, then Eof and Answer.    *)
(*                                                                         *)
(* A token is a byte, or a run of bytes that the states it is offered in   *)
(* take as one.  States are named for the grammar's rules, and the ranges  *)
(* of the name fields are scaled down.  What the first error leaves of an  *)
(* input is skipped, so the model stops there (the state fail).            *)
(***************************************************************************)
EXTENDS Integers, Sequences, SequencesExt, Functions

CONSTANT NameRange    \* the longest HOSTNAME, APP-NAME, PROCID, MSGID, SD-NAME

NameFields == {"hostname", "appname", "procid", "msgid"}

ASSUME Rfc5424Assumption == NameRange \in [NameFields \cup {"sdname"} -> Nat \ {0}]

Digits == {"0", "1", "2", "3", "4", "5", "6", "7", "8", "9"}
Digit  == [c \in Digits |->
             CASE c = "0" -> 0 [] c = "1" -> 1 [] c = "2" -> 2 [] c = "3" -> 3 [] c = "4" -> 4
               [] c = "5" -> 5 [] c = "6" -> 6 [] c = "7" -> 7 [] c = "8" -> 8 [] c = "9" -> 9]
(* ts! has the form of a timestamp and names no day; cut is the first byte  *)
(* of a character without the others, bad a byte that begins none.          *)
Stamps     == {"ts", "ts!"}
Delims     == {"\"", "]", "\\"}
NotGraph   == {" ", "\n", "BOM", "cut", "bad"}
Tokens     == Digits \cup Stamps \cup Delims \cup NotGraph \cup {"<", ">", "-", "[", "=", "a", "b"}
NameTokens == Tokens \ (NotGraph \cup {"=", "]", "\""})

Absent    == -1
EmptyMap  == <<>>
(* syslogMessage; an absent text is empty. *)
NoOutput == [priority |-> Absent, version |-> 0, timestamp |-> "",
             name |-> [f \in NameFields |-> <<>>],
             structuredData |-> EmptyMap, hasElements |-> FALSE, message |-> <<>>]

(* machine: its state, the text since the last mark and the places of the   *)
(* backslashes in it.                                                       *)
NewMachine(config) ==
    [compliantMsg |-> config.compliantMsg, optionalPriority |-> config.optionalPriority,
     cs |-> "main", text |-> <<>>, backslashat |-> {}, err |-> "nil",
     currentelem |-> <<>>, currentparam |-> <<>>, output |-> NoOutput]

(* The head of Parse: currentelem and currentparam keep what they were. *)
Begin(m) == [m EXCEPT !.cs = "main", !.text = <<>>, !.backslashat = {}, !.err = "nil",
                      !.output = NoOutput]

-----------------------------------------------------------------------------
(* common/functions.go *)

UnsafeUTF8DecimalCodePointsToInt(chars) ==
    LET value[k \in 0..Len(chars)] ==
            IF k = 0 THEN 0 ELSE 10 * value[k - 1] + Digit[chars[k]]
    IN  value[Len(chars)]

RemoveBytes(data, positions) ==
    FlattenSeq([i \in DOMAIN data |-> IF i \in positions THEN <<>> ELSE <<data[i]>>])

EscapeBytes(value) ==
    FlattenSeq([i \in DOMAIN value |->
                  IF value[i] \in Delims THEN <<"\\", value[i]>> ELSE <<value[i]>>])

ValidPriority(priority) == priority \in 0..191
ValidVersion(version) == version \in 1..999

-----------------------------------------------------------------------------
(* The actions of the grammar. *)

Goto(m, s)  == [m EXCEPT !.cs = s, !.text = <<>>]
Take(m, c)  == [m EXCEPT !.text = Append(@, c)]
Fail(m, e)  == [m EXCEPT !.cs = "fail", !.err = e]
NotMarked(m) == m.text = <<>>

set_prival(m) ==
    [m EXCEPT !.output.priority = UnsafeUTF8DecimalCodePointsToInt(m.text)]
set_version(m) ==
    [m EXCEPT !.output.version = UnsafeUTF8DecimalCodePointsToInt(m.text)]
set_timestamp(m) == IF m.text = <<"ts">> THEN [m EXCEPT !.output.timestamp = "ts"]
                    ELSE Fail(m, "time.Parse")
set_name(m, f) == [m EXCEPT !.output.name[f] = m.text]
set_msg(m) == [m EXCEPT !.output.message = m.text]

(* An entry of a map. *)
Put(f, k, v) == [x \in DOMAIN f \cup {k} |-> IF x = k THEN v ELSE f[x]]

set_id(m) ==
    LET id == m.text
    IN  IF id \in DOMAIN m.output.structuredData THEN Fail(m, "ErrSdIDDuplicated")
        ELSE [m EXCEPT !.output.structuredData = Put(@, id, EmptyMap),
                       !.output.hasElements = TRUE, !.currentelem = id]

ini_sdparam(m) == [m EXCEPT !.backslashat = {}]

set_paramname(m) == [m EXCEPT !.currentparam = m.text]

(* Mutant: the backslashes stay. *)
set_paramvalueEscaped(m) ==
    [m EXCEPT !.output.structuredData[m.currentelem] = Put(@, m.currentparam, m.text)]

set_paramvalue(m) ==
    [m EXCEPT !.output.structuredData[m.currentelem] =
                  Put(@, m.currentparam, RemoveBytes(m.text, m.backslashat))]

Without(f, k) == Restrict(f, DOMAIN f \ {k})

(* Mutant: all elements go. *)
err_sdidAll(m) ==
    Fail([m EXCEPT !.output.structuredData = EmptyMap, !.output.hasElements = FALSE], "ErrSdID")

err_sdid(m) ==
    LET elements == Without(m.output.structuredData, m.currentelem)
    IN  Fail([m EXCEPT !.output.structuredData = elements,
                       !.output.hasElements = @ /\ elements # EmptyMap], "ErrSdID")

err_sdparam(m) ==
    Fail(IF m.currentelem \in DOMAIN m.output.structuredData
         THEN [m EXCEPT !.output.structuredData[m.currentelem] = Without(@, m.currentparam)]
         ELSE m, "ErrSdParam")

err_msg(m, upto) ==
    Fail([m EXCEPT !.output.message = upto], IF m.compliantMsg THEN "ErrMsgNotCompliant" ELSE "ErrMsg")

(* An action that may itself fail, then, if it did not, what comes next. *)
Then(m, next(_)) == IF m.cs = "fail" THEN m ELSE next(m)

-----------------------------------------------------------------------------
(* One operator per rule: what the rule does with token c. *)

Privals == {t \in UNION {[1..n -> Digits] : n \in 1..3} :
               /\ UnsafeUTF8DecimalCodePointsToInt(t) <= 191
               /\ Len(t) > 1 => t[1] # "0"}

prival(m, c) ==
    LET n == IF NotMarked(m) THEN m ELSE set_prival(m)
    IN  IF ~NotMarked(m) /\ c = ">" THEN Goto(n, "version")
        ELSE IF Append(m.text, c) \in Privals THEN Take(n, c)
        ELSE Fail(n, "ErrPrival")

version(m, c) ==
    IF NotMarked(m)
    THEN IF c \in Digits \ {"0"} THEN Take(m, c) ELSE Fail(m, "ErrVersion")
    ELSE LET n == set_version(m)
         IN  IF c = " " THEN Goto(n, "timestamp")
             ELSE IF c \in Digits /\ Len(m.text) < 3 THEN Take(n, c)
             ELSE Fail(n, IF Len(m.text) = 1 THEN "ErrParse" ELSE "ErrVersion")

main(m, c) == IF c = "<" THEN Goto(m, "prival")
              ELSE IF m.optionalPriority THEN version(Goto(m, "version"), c)
              ELSE Fail(m, "ErrPri")

timestamp(m, c) ==
    IF NotMarked(m) THEN IF c \in Stamps \cup {"-"} THEN Take(m, c) ELSE Fail(m, "ErrTimestamp")
    ELSE Then(IF m.text = <<"-">> THEN m ELSE set_timestamp(m),
              LAMBDA n : IF c = " " THEN Goto(n, "hostname") ELSE Fail(n, "ErrParse"))

Following == [hostname |-> "appname", appname |-> "procid", procid |-> "msgid",
              msgid |-> "structureddata"]

Fits(m, f) == Len(m.text) < NameRange[f]

nameField(m, c, f) ==
    IF c \in Tokens \ NotGraph /\ Fits(m, f) THEN Take(m, c)
    ELSE IF ~NotMarked(m) /\ c = " " THEN Goto(set_name(m, f), Following[f])
    ELSE Fail(m, f)

structureddata(m, c) ==
    IF c = "-" THEN Goto(m, "nilvalue") ELSE IF c = "[" THEN Goto(m, "sdid")
    ELSE Fail(m, "ErrStructuredData")

nilvalue(m, c) == IF c = " " THEN Goto(m, "msg") ELSE Fail(m, "ErrParse")

sdid(m, c) ==
    IF c \in NameTokens /\ Fits(m, "sdname") THEN Take(m, c)
    ELSE IF NotMarked(m) THEN err_sdid(m)
    ELSE Then(set_id(m), LAMBDA n : IF c = " " THEN Goto(n, "sdparam")
                                    ELSE IF c = "]" THEN Goto(n, "sdend")
                                    ELSE err_sdid(n))

sdparam(m, c) ==
    IF c \in NameTokens /\ Fits(m, "sdname") THEN Take(IF NotMarked(m) THEN ini_sdparam(m) ELSE m, c)
    ELSE IF c = "=" /\ ~NotMarked(m) THEN Goto(set_paramname(m), "dq")
    ELSE err_sdparam(m)

dq(m, c) == IF c = "\"" THEN Goto(m, "paramvalue") ELSE err_sdparam(m)

paramvalue(m, c) ==
    IF c = "\"" THEN Goto(set_paramvalue(m), "paramend")
    ELSE IF c = "\\"
    THEN [Take(m, c) EXCEPT !.cs = "escapes", !.backslashat = @ \cup {Len(m.text) + 1}]
    ELSE IF c \in {"]", "bad"} THEN Fail(m, "ErrEscape")
    ELSE IF c = "cut" THEN err_sdparam(m)
    ELSE Take(m, c)

escapes(m, c) == IF c \in Delims THEN [Take(m, c) EXCEPT !.cs = "paramvalue"]
                 ELSE Fail(m, "ErrEscape")

paramend(m, c) == IF c = " " THEN Goto(m, "sdparam") ELSE IF c = "]" THEN Goto(m, "sdend")
                  ELSE err_sdparam(m)

sdend(m, c) == IF c = " " THEN Goto(m, "msg") ELSE IF c = "[" THEN Goto(m, "sdid")
               ELSE Fail(m, "ErrStructuredData")

(* msg_any, or msg_compliant: after a BOM only characters. *)
msg(m, c) ==
    LET strict == m.compliantMsg /\ m.text # <<>> /\ m.text[1] = "BOM"
    IN  IF strict /\ c = "bad" THEN err_msg(m, m.text)
        ELSE IF strict /\ c = "cut" THEN err_msg(m, Append(m.text, c))
        ELSE Take(m, c)

Step(m, c) ==
    CASE m.cs = "main" -> main(m, c)
      [] m.cs = "prival" -> prival(m, c)
      [] m.cs = "version" -> version(m, c)
      [] m.cs = "timestamp" -> timestamp(m, c)
      [] m.cs \in NameFields -> nameField(m, c, m.cs)
      [] m.cs = "structureddata" -> structureddata(m, c)
      [] m.cs = "nilvalue" -> nilvalue(m, c)
      [] m.cs = "sdid" -> sdid(m, c)
      [] m.cs = "sdparam" -> sdparam(m, c)
      [] m.cs = "dq" -> dq(m, c)
      [] m.cs = "paramvalue" -> paramvalue(m, c)
      [] m.cs = "escapes" -> escapes(m, c)
      [] m.cs = "paramend" -> paramend(m, c)
      [] m.cs = "sdend" -> sdend(m, c)
      [] m.cs = "msg" -> msg(m, c)
      [] OTHER -> m

-----------------------------------------------------------------------------
final == {"nilvalue", "sdend", "msg"}

(* The actions at the end of the input.  Of a VERSION of two or three       *)
(* digits the last one has not been taken into account yet.                 *)
Eof(m) ==
    CASE m.cs = "main" -> Fail(m, IF m.optionalPriority THEN "ErrVersion" ELSE "ErrPri")
      [] m.cs = "prival" -> Fail(m, "ErrPrival")
      [] m.cs = "version" -> IF Len(m.text) = 1 THEN Fail(set_version(m), "ErrParse")
                             ELSE Fail(m, "ErrVersion")
      [] m.cs = "timestamp" ->
            IF NotMarked(m) THEN Fail(m, "ErrTimestamp")
            ELSE Then(IF m.text = <<"-">> THEN m ELSE set_timestamp(m),
                      LAMBDA n : Fail(n, "ErrParse"))
      [] m.cs \in NameFields -> Fail(m, m.cs)
      [] m.cs = "structureddata" -> Fail(m, "ErrStructuredData")
      [] m.cs = "sdid" -> IF NotMarked(m) THEN err_sdid(m) ELSE Then(set_id(m), err_sdid)
      [] m.cs \in {"sdparam", "dq", "paramend"} -> err_sdparam(m)
      [] m.cs \in {"paramvalue", "escapes"} -> Fail(m, "ErrEscape")
      [] m.cs = "msg" -> set_msg(m)
      [] OTHER -> m

minimal(m) == /\ ValidVersion(m.output.version)
              /\ IF m.output.priority # Absent THEN ValidPriority(m.output.priority)
                 ELSE m.optionalPriority

(* SyslogMessage: "-" and empty fields are nil, and so is an empty map. *)
export(o) ==
    [priority |-> o.priority, version |-> o.version, timestamp |-> o.timestamp,
     name |-> [f \in NameFields |-> IF o.name[f] = <<"-">> THEN <<>> ELSE o.name[f]],
     structuredData |-> IF o.hasElements THEN o.structuredData ELSE EmptyMap,
     message |-> o.message]

Nothing == export(NoOutput)
Result(ok, msg_, err) == [ok |-> ok, msg |-> msg_, err |-> err]

(* The tail of Parse; ok tells a message from nil. *)
Answer(m, bestEffort) ==
    IF m.cs \in final THEN Result(TRUE, export(m.output), "nil")
    ELSE IF bestEffort /\ minimal(m) THEN Result(TRUE, export(m.output), m.err)
    ELSE Result(FALSE, Nothing, m.err)

(* SyslogMessage.Valid.                                                     *)
Valid(msg_) == /\ ValidVersion(msg_.version)
               /\ msg_.priority = Absent \/ ValidPriority(msg_.priority)
=============================================================================
