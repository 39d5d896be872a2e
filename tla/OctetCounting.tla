---------------------------- MODULE OctetCounting ----------------------------
(***************************************************************************)
(* The octet-counting stream parser (octetcounting/parser.go) on top of    *)
(* its scanner: the run loop, its one-token lookahead, best effort,        *)
(* stripping of a trailing newline, and the reuse of one parser for one    *)
(* reader after another.                                                   *)
(*                                                                         *)
(* The internal machine is any syslog.Machine: its verdict on a message is *)
(* chosen among those the machine of the parser's family can give.         *)
(***************************************************************************)
EXTENDS OctetScanner

CONSTANTS
    Families,     \* the constructors in use, among "rfc5424", "rfc3164", "auto"
    MaxParses     \* bound: Parse calls made on one parser

ASSUME FamilyAssumption == Families \subseteq {"rfc5424", "rfc3164", "auto"}
ASSUME MaxParsesAssumption == MaxParses \in Nat

VARIABLES
    pc,                \* the token run() waits for, "idle" outside Parse
    stepback,          \* whether scan returns last again
    family, bestEffort, internalBE, \* constructor, parser's flag, machine's flag
    maxMessageLength,
    out,               \* the results emitted by the current (or latest) Parse
    parses             \* Parse calls so far

configVars == <<family, bestEffort, internalBE, maxMessageLength>>
parserVars == <<pc, stepback, configVars, out, parses>>
vars       == <<scannerVars, parserVars>>

stripTrailingNL == family # "rfc5424"

FramingErrors == {"InvalidLength", "TooLarge", "ExceedsIntLimit",
                  "ExpectingMSGLEN", "ExpectingWS", "ExpectingSYSLOGMSG"}

(* What internal.Parse may answer.  The RFC 3164 machine may give neither a *)
(* message nor an error; in best effort, of an input without PRI that ends  *)
(* before its message does.                                                 *)
internalParse ==
    LET answer(m, e) == [msg |-> m, err |-> e]
    IN  {answer(TRUE, "nil"), answer(FALSE, "inner")}
        \cup (IF internalBE THEN {answer(TRUE, "inner")} ELSE {})
        \cup (IF family = "rfc3164" THEN {answer(FALSE, "nil")} ELSE {})

Butlast(s) == SubSeq(s, 1, Len(s) - 1)
EndsIn(s, b) == Len(s) > 0 /\ s[Len(s)] = b

(* Mutant: a newline is cut off for every family. *)
StrippedAlways(l) ==
    IF ~EndsIn(l, lf) THEN l
    ELSE IF EndsIn(Butlast(l), cr) THEN Butlast(Butlast(l)) ELSE Butlast(l)

(* p.parse's input: without one trailing \n or \r\n. *)
Stripped(l) ==
    IF ~(stripTrailingNL /\ EndsIn(l, lf)) THEN l
    ELSE IF EndsIn(Butlast(l), cr) THEN Butlast(Butlast(l)) ELSE Butlast(l)

(* A result; lit is what the internal machine was given, span the octets of *)
(* the stream it was cut from.                                              *)
Result(r, l, s)  == [msg |-> r.msg, err |-> r.err, lit |-> l, span |-> s]
ErrorResult(e)   == [msg |-> FALSE, err |-> e, lit |-> <<>>, span |-> <<0, 0>>]
emit(r)          == out' = Append(out, r)
NoSpan           == <<0, 0>>

-----------------------------------------------------------------------------
(* NewParser, NewParserRFC3164, NewParserAuto: the flag reaches the machine *)
(* here and nowhere else.                                                   *)
Init ==
    /\ ScannerInit
    /\ pc = "idle" /\ stepback = FALSE /\ out = <<>> /\ parses = 0
    /\ family \in Families
    /\ bestEffort \in BOOLEAN /\ internalBE \in BOOLEAN
    /\ bestEffort => internalBE      \* a machine option may set it as well
    /\ maxMessageLength \in MaxLengths \cup {DefaultMaxSize}

WithBestEffort ==
    /\ pc = "idle" /\ ~bestEffort
    /\ bestEffort' = TRUE
    /\ UNCHANGED <<scannerVars, pc, stepback, family, internalBE, maxMessageLength, out, parses>>

WithMaxMessageLength(length) ==
    /\ pc = "idle" /\ length # maxMessageLength
    /\ maxMessageLength' = length
    /\ UNCHANGED <<scannerVars, pc, stepback, family, bestEffort, internalBE, out, parses>>

(* Parse: a new scanner, then run.  stepback and last are not reset. *)
Parse ==
    /\ pc = "idle" /\ parses < MaxParses
    /\ NewScanner(maxMessageLength)
    /\ pc' = "MSGLEN" /\ out' = <<>> /\ parses' = parses + 1
    /\ UNCHANGED <<stepback, configVars>>

(* Mutant: the token pushed back stays pushed back. *)
scanAgain ==
    /\ pc # "idle" /\ spc = "idle"
    /\ spc' = IF stepback THEN "token" ELSE "scan"
    /\ UNCHANGED <<readerVars, msglen, ready, maxlen, from, num, last,
                   pc, stepback, configVars, out, parses>>

(* p.scan(): the token pushed back, or a new one. *)
scan ==
    /\ pc # "idle" /\ spc = "idle"
    /\ spc' = IF stepback THEN "token" ELSE "scan"
    /\ stepback' = FALSE
    /\ UNCHANGED <<readerVars, msglen, ready, maxlen, from, num, last,
                   pc, configVars, out, parses>>

-----------------------------------------------------------------------------
(* The run loop, one action per branch taken on a token. *)

Got(expected) == pc = expected /\ spc = "token" /\ last.typ = expected
Not(expected) == pc = expected /\ spc = "token" /\ last.typ # expected

scannerRest == <<readerVars, msglen, ready, maxlen, from, num, last>>

Await(next) == pc' = next /\ spc' = "idle" /\ UNCHANGED <<scannerRest, configVars, parses>>

(* break: the deferred Release gives the reader back. *)
Break == pc' = "idle" /\ spc' = "closed" /\ UNCHANGED <<scannerRest, configVars, parses, stepback>>

GotMsgLen == Got("MSGLEN") /\ Await("WS") /\ UNCHANGED <<stepback, out>>

(* Mutant: anything else is skipped. *)
SkipToMsgLen == Not("MSGLEN") /\ Await("MSGLEN") /\ UNCHANGED <<stepback, out>>

NoMsgLen ==
    /\ Not("MSGLEN")
    /\ emit(ErrorResult(IF last.err # "" THEN last.err ELSE "ExpectingMSGLEN"))
    /\ Break

GotWS == Got("WS") /\ Await("SYSLOGMSG") /\ UNCHANGED <<stepback, out>>

(* Mutant: the run goes on after the error. *)
NoWSGoOn ==
    Not("WS") /\ emit(ErrorResult("ExpectingWS")) /\ Await("MSGLEN") /\ UNCHANGED stepback

NoWS == Not("WS") /\ emit(ErrorResult("ExpectingWS")) /\ Break

(* The octets of the frame whose message has just been read. *)
Span == <<from, pos>>

GotSyslogMsg ==
    /\ Got("SYSLOGMSG")
    /\ \E r \in internalParse :
          /\ internalBE \/ r.err = "nil"
          /\ emit(Result(r, Stripped(last.lit), Span))
    /\ Await("post") /\ UNCHANGED stepback

(* Strict, a message the machine rejects ends the run. *)
RejectedSyslogMsg ==
    /\ Got("SYSLOGMSG")
    /\ ~internalBE
    /\ \E r \in internalParse :
          /\ r.err # "nil"
          /\ emit(Result([msg |-> FALSE, err |-> r.err], Stripped(last.lit), Span))
    /\ Break

(* Underflow: in best effort whatever was read is parsed as a message.      *)
IsUnderflow == Len(last.lit) < ToInt(msglen) /\ internalBE
Underflow ==
    /\ Not("SYSLOGMSG") /\ IsUnderflow
    /\ \E r \in internalParse :
          emit(Result([msg |-> r.msg,
                       err |-> IF r.err = "nil" THEN "ExpectingSYSLOGMSG" ELSE r.err],
                      Stripped(last.lit), NoSpan))
    /\ Break

NoSyslogMsg ==
    /\ Not("SYSLOGMSG") /\ ~IsUnderflow
    /\ emit(ErrorResult("ExpectingSYSLOGMSG"))
    /\ Break

(* Mutant: whatever is no MSGLEN ends the run. *)
PostNoMsgLen == /\ pc = "post" /\ spc = "token" /\ last.typ # "MSGLEN"
                /\ Break /\ UNCHANGED out

PostEOF == /\ pc = "post" /\ spc = "token" /\ last.typ = "EOF"
           /\ Break /\ UNCHANGED out
PostLF  == /\ pc = "post" /\ spc = "token" /\ last.typ = "LF"
           /\ Await("MSGLEN") /\ UNCHANGED <<stepback, out>>
(* p.unscan() *)
PostOther == /\ pc = "post" /\ spc = "token" /\ last.typ \notin {"EOF", "LF"}
             /\ stepback' = TRUE
             /\ Await("MSGLEN") /\ UNCHANGED out

run == \/ GotMsgLen \/ NoMsgLen \/ GotWS \/ NoWS
       \/ GotSyslogMsg \/ RejectedSyslogMsg \/ Underflow \/ NoSyslogMsg
       \/ PostEOF \/ PostLF \/ PostOther

Lexer == (Fill \/ ScanStep) /\ UNCHANGED parserVars

Next == \/ Parse \/ WithBestEffort
        \/ \E m \in MaxLengths : WithMaxMessageLength(m)
        \/ scan \/ run
        \/ Lexer

(* The parser's goroutine runs on; nothing is assumed of the io.Reader      *)
(* beyond its answering.                                                    *)
Spec == Init /\ [][Next]_vars /\ WF_vars(scan) /\ WF_vars(run) /\ WF_vars(Lexer)

-----------------------------------------------------------------------------
(* Every variable has its type. *)
TypeOK ==
    /\ ScannerTypeOK
    /\ pc \in {"idle", "MSGLEN", "WS", "SYSLOGMSG", "post"}
    /\ stepback \in BOOLEAN
    /\ family \in Families /\ bestEffort \in BOOLEAN /\ internalBE \in BOOLEAN
    /\ maxMessageLength \in Int /\ maxMessageLength <= MaxInt
    /\ out \in Seq([msg : BOOLEAN, err : {"nil", "inner"} \cup FramingErrors,
                    lit : Seq(Byte), span : Nat \X Nat])
    /\ parses \in 0..MaxParses

(* The lookahead of unscan/scan (parser.go:282-301) is never stale: a token *)
(* is pushed back only while the next frame is awaited, it was read from    *)
(* the reader being parsed, and none is left when Parse returns, so that    *)
(* the next Parse begins with its own reader's first token.                 *)
NoStaleLookahead ==
    stepback => /\ pc = "MSGLEN" /\ spc = "idle"
                /\ last.typ \notin {"EOF", "LF"}
                /\ out # <<>>

(* A length never outlives its frame and none above the limit is ever used: *)
(* while the next MSGLEN is being read msglen is 0, and whenever Peek is    *)
(* about to run msglen is in 1..maxlen (scanner.go:168-199), so that the    *)
(* conversion to int cannot fail and no message exceeds the limit.          *)
LengthDiscipline ==
    /\ pc \in {"MSGLEN", "post"} /\ spc \in {"idle", "scan", "digits"} /\ ~stepback
          => msglen = 0
    /\ spc = "peek" => msglen \in 1..maxlen

(* Only a frame's own outcome may precede another result: an error of the   *)
(* framing is the last result of its Parse, and without best effort so is   *)
(* the first error of any kind ("It stops parsing when an error regarding   *)
(* RFC 5425 is found", parser.go:174).                                      *)
FirstErrorIsLast ==
    \A i \in 1..(Len(out) - 1) :
        /\ out[i].span # NoSpan /\ out[i].err \notin FramingErrors
        /\ internalBE \/ out[i].err = "nil"

Returned == pc = "idle" /\ parses > 0
Refused  == /\ out # <<>>
            /\ LET r == out[Len(out)]
               IN  r.err # "nil" /\ ~(internalBE /\ r.span # NoSpan)

(* A Parse that returns without an error of the framing has delivered at    *)
(* least one message and every octet it received, up to one final NUL.      *)
NothingDropped ==
    Returned /\ ~Refused =>
        /\ out # <<>>
        /\ LET e == out[Len(out)].span[2]
           IN  Len(input) = e \/ (Len(input) = e + 1 /\ input[e + 1] = eof)

(* The machine is given the message itself: the octets of the frame from    *)
(* its '<' on, of which parse (parser.go:261-278) may have cut one trailing *)
(* \n or \r\n, and that only for the RFC 3164 and the auto parser.         *)
ContentIntact ==
    \A i \in DOMAIN out : out[i].span # NoSpan =>
        LET a == out[i].span[1]
            b == out[i].span[2]
            l == out[i].lit
        IN  \E k \in (a + 1)..b, cut \in {<<>>, <<lf>>, <<cr, lf>>} :
               /\ input[k] = lt /\ \A j \in (a + 1)..(k - 1) : input[j] # lt
               /\ SubSeq(input, k, b) = l \o cut
               /\ cut = <<>> <=> family = "rfc5424" \/ input[b] # lf
               /\ cut = <<lf>> => ~EndsIn(l, cr)

(* Parse returns on every finite stream, however it is cut or fails. *)
ParseReturns == pc # "idle" ~> pc = "idle"
=============================================================================
