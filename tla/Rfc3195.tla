------------------------------ MODULE Rfc3195 ------------------------------
(***************************************************************************)
(* The RFC 3195 stream parsers: RAW (rfc3195/raw.go), which hands ANS      *)
(* payloads to an inner machine, and COOKED (rfc3195/cooked.go), which     *)
(* reads XML elements from ANS and MSG payloads.  One parser serves one    *)
(* exchange after another, on the same connection or on a new one.         *)
(*                                                                         *)
(* What a payload's bytes mean is chosen when it is parsed: the inner      *)
(* machine's verdict for RAW, an XML element for COOKED.                   *)
(***************************************************************************)
EXTENDS BeepScanner

CONSTANTS
    Entries,     \* the attributes of an <entry> element
    MaxParses    \* bound: Parse calls on one parser

(* Attributes of an entry.  A number that does not parse is -1.             *)
Missing == "missing"
EntryAttrs == [facility : -1..999, severity : -1..99, timestamp : {Missing, "ok", "bad"},
               fqdn : {Missing, "fqdn"}, ip : {Missing, "ip"}]

ASSUME Rfc3195Assumption == Entries \subseteq EntryAttrs /\ MaxParses \in Nat

VARIABLES
    profile,            \* "raw" or "cooked"
    reader,             \* what the caller hands to Parse: "plain" or "bufio"
    bestEffort, internalBE, maxMessageLength,
    pc,                 \* "idle" or "loop"
    out,                \* what was emitted on this connection
    ended,              \* how and where each Parse on it returned
    parses

configVars == <<profile, reader, bestEffort, internalBE, maxMessageLength>>
parserVars == <<configVars, pc, out, ended, parses>>
vars       == <<scannerVars, parserVars>>

nil   == "nil"
Absent == -1
Message(kind) == [kind |-> kind, facility |-> Absent, severity |-> Absent, priority |-> Absent,
                  timestamp |-> Missing, hostname |-> Missing]
NoMessage == Message(nil)

Frame == taken[Len(taken)]
Payload(f) == SubSeq(input, f.from + 2, f.to - 1)

(* An emitted result belongs to a frame, 0 for an error of the transport. *)
Emit(m, e) == Append(out, [msg |-> m, err |-> e, frame |-> Len(taken)])
Failure(e) == Append(out, [msg |-> NoMessage, err |-> e, frame |-> 0])

(* NewParser, NewParserRFC3164, NewCookedParser.  bestEffort reaches the    *)
(* inner machine here and nowhere else; a machine option may turn it on too.*)
Init ==
    /\ ScannerInit
    /\ profile \in {"raw", "cooked"} /\ reader \in {"plain", "bufio"}
    /\ bestEffort \in BOOLEAN /\ internalBE \in BOOLEAN
    /\ bestEffort => internalBE
    /\ profile = "cooked" => internalBE = bestEffort
    /\ maxMessageLength = 0
    /\ pc = "idle" /\ out = <<>> /\ ended = <<>> /\ parses = 0

(* The setters, called before the first Parse. *)
WithBestEffort ==
    /\ parses = 0 /\ ~bestEffort
    /\ bestEffort' = TRUE
    /\ UNCHANGED <<scannerVars, profile, reader, internalBE, maxMessageLength,
                   pc, out, ended, parses>>

WithMaxMessageLength(length) ==
    /\ parses = 0 /\ length # maxMessageLength
    /\ maxMessageLength' = length
    /\ UNCHANGED <<scannerVars, profile, reader, bestEffort, internalBE,
                   pc, out, ended, parses>>

-----------------------------------------------------------------------------
(* Parse, on a connection that is as yet unused or on which the exchange    *)
(* before ended with its NUL or ERR: after an error of the framing or at    *)
(* its end a caller gives a connection up.                                  *)
Parse ==
    /\ pc = "idle" /\ parses < MaxParses
    /\ ended # <<>> => ended[Len(ended)].how \in {"NUL", "ERR"}
    /\ NewScanner(reader, maxMessageLength)
    /\ pc' = "loop" /\ parses' = parses + 1
    /\ UNCHANGED <<configVars, out, ended>>

Return(how) ==
    /\ pc' = "idle" /\ spc' = "closed"
    /\ ended' = Append(ended, [how |-> how, at |-> pos, frames |-> Len(taken)])
Continue == pc' = "loop" /\ spc' = "header" /\ UNCHANGED ended
loopRest == <<readerVars, maxPayloadSize, start, header, taken, configVars, parses>>

(* Mutant: the loop reads on at the end of the connection. *)
OnEOFGoOn == spc = "eof" /\ Continue /\ UNCHANGED <<out, loopRest>>

OnEOF == spc = "eof" /\ Return("EOF") /\ UNCHANGED <<out, loopRest>>

OnScanError == spc = "error" /\ out' = Failure("scan") /\ Return("scan") /\ UNCHANGED loopRest

On(kws) == spc = "frame" /\ Frame.header.kw \in kws

(* Mutant: NUL is skipped like SEQ. *)
OnNULGoOn == On({"NUL"}) /\ Continue /\ UNCHANGED <<out, loopRest>>

OnNUL == On({"NUL"}) /\ Return("NUL") /\ UNCHANGED <<out, loopRest>>
OnERR == On({"ERR"}) /\ out' = Failure("ERR") /\ Return("ERR") /\ UNCHANGED loopRest

(* SEQ is flow control; what a profile does not expect is skipped. *)
Carrying == IF profile = "raw" THEN {"ANS"} ELSE {"ANS", "MSG"}
OnSkipped == /\ On(Keywords \ (Carrying \cup {"NUL", "ERR"}))
             /\ Continue /\ UNCHANGED <<out, loopRest>>

-----------------------------------------------------------------------------
(* RAW: processANS. *)

(* What internal.Parse, of either format, may answer: the RFC 3164 machine  *)
(* may give neither a message nor an error.                                 *)
internalParse ==
    LET answer(m, e) == [msg |-> Message(m), err |-> e]
    IN  {answer("whole", nil), answer(nil, "inner"), answer(nil, nil)}
        \cup (IF internalBE THEN {answer("part", "inner")} ELSE {})

Trimmed(p) == IF p # <<>> /\ p[Len(p)] = CRLF THEN SubSeq(p, 1, Len(p) - 1) ELSE p

RawResult(r) == IF ~bestEffort /\ r.err # nil THEN NoMessage ELSE r.msg

(* Mutant: an exchange ends at its first bad message. *)
processANSBreaks ==
    /\ profile = "raw" /\ On(Carrying) /\ UNCHANGED loopRest
    /\ \E r \in internalParse :
          /\ out' = IF r.err = nil THEN Emit(RawResult(r), nil) ELSE out
          /\ IF r.err = nil THEN Continue ELSE Return("EOF")

processANS ==
    /\ profile = "raw" /\ On(Carrying)
    /\ IF Trimmed(Payload(Frame)) = <<>>
       THEN UNCHANGED out
       ELSE \E r \in internalParse : out' = Emit(RawResult(r), r.err)
    /\ Continue /\ UNCHANGED loopRest

-----------------------------------------------------------------------------
(* COOKED: processPayload and processEntry. *)

uint8(n) == n % 256

(* Mutant: a priority is computed for every facility and severity. *)
PriorityAlways(e) == uint8(uint8(e.facility) * 8 + uint8(e.severity))

(* Priority, where the two encode without loss. *)
EntryPriority(e) == IF e.facility <= 23 /\ e.severity <= 7
                    THEN uint8(uint8(e.facility) * 8 + uint8(e.severity)) ELSE Absent

Coded(e, timestamp, hostname) ==
    [kind |-> "entry", facility |-> uint8(e.facility), severity |-> uint8(e.severity),
     priority |-> EntryPriority(e), timestamp |-> timestamp, hostname |-> hostname]

(* The checks in the order of the code, and what the message holds then. *)
EntryOutcome(e) ==
    IF e.facility \notin 0..255 THEN [msg |-> Message("entry"), err |-> "facility"]
    ELSE IF e.severity \notin 0..9 THEN [msg |-> Message("entry"), err |-> "severity"]
    ELSE IF e.timestamp = "bad" THEN [msg |-> Coded(e, Missing, Missing), err |-> "timestamp"]
    ELSE [msg |-> Coded(e, e.timestamp, IF e.fqdn # Missing THEN e.fqdn ELSE e.ip), err |-> nil]

processEntry(e) ==
    LET o == EntryOutcome(e)
    IN  out' = Emit(IF o.err # nil /\ ~bestEffort THEN NoMessage ELSE o.msg, o.err)

(* Metadata (<iam>, <path>, <ok/>) goes to the listener for raw elements,   *)
(* if there is one; an unknown element to nobody.                           *)
processPayload ==
    /\ profile = "cooked" /\ On(Carrying)
    /\ \/ Payload(Frame) = <<>> /\ UNCHANGED out
       \/ /\ Payload(Frame) # <<>>
          /\ \/ out' = Emit(NoMessage, "xml")
             \/ \E e \in Entries : processEntry(e)
             \/ out' = Emit(Message("metadata"), nil)
             \/ UNCHANGED out
    /\ Continue /\ UNCHANGED loopRest

loop == pc = "loop" /\ (\/ OnEOF \/ OnScanError \/ OnNUL \/ OnERR \/ OnSkipped
                        \/ processANS \/ processPayload)

Lexer == (Fill \/ ReadAhead \/ ScanStep) /\ UNCHANGED parserVars

Next == \/ Parse \/ WithBestEffort
        \/ \E n \in MaxLengths : WithMaxMessageLength(n)
        \/ loop \/ Lexer

(* The goroutine inside Parse runs on, and the connection answers. *)
Spec == Init /\ [][Next]_vars /\ WF_vars(loop) /\ WF_vars(Lexer)

-----------------------------------------------------------------------------
(* Every variable has its type. *)
Messages == [kind : {nil, "whole", "part", "metadata", "entry"},
             facility : -1..255, severity : -1..255, priority : -1..255,
             timestamp : {Missing, "ok"}, hostname : {Missing, "fqdn", "ip"}]
TypeOK ==
    /\ ScannerTypeOK
    /\ profile \in {"raw", "cooked"} /\ reader \in {"plain", "bufio"}
    /\ bestEffort \in BOOLEAN /\ internalBE \in BOOLEAN /\ maxMessageLength \in Int
    /\ pc \in {"idle", "loop"} /\ parses \in 0..MaxParses
    /\ out \in Seq([msg : Messages, frame : Nat,
                    err : {nil, "scan", "ERR", "inner", "xml",
                           "facility", "severity", "timestamp"}])
    /\ ended \in Seq([how : {"EOF", "scan", "NUL", "ERR"}, at : Nat, frames : Nat])

(* Frames are cut out of the connection as RFC 3080 delimits them           *)
(* (frame.go:110-261): each is a header, exactly the announced payload,     *)
(* whatever that looks like, and a trailer; none is made of a connection    *)
(* that ended early; and the next one begins where it ended, from one Parse *)
(* call to the next as well.  Skipped is only what a scanner had read ahead *)
(* of a plain reader when its exchange ended, less than one Read.           *)
FramesCutExactly ==
    \A i \in DOMAIN taken :
        LET f == taken[i]
            h == f.header
            b == IF i = 1 THEN 0 ELSE taken[i - 1].to
        IN  /\ input[f.from + 1] = h /\ h.ok
            /\ IF h.kw = "SEQ" THEN f.to = f.from + 1
               ELSE f.to = f.from + h.size + 2 /\ input[f.to] = END
            /\ b <= f.from
            /\ b < f.from => /\ reader = "plain" /\ f.from - b < MaxRead
                             /\ \E j \in DOMAIN ended : ended[j].frames = i - 1

(* An exchange ends with its NUL or ERR, and a Parse call with its exchange *)
(* (raw.go:99-133, cooked.go:111-147): no frame behind the end is taken or  *)
(* a byte behind it consumed; without one, Parse returns silently only when *)
(* the peer closed the connection between two frames.                       *)
ExchangeEndsOnce ==
    \A j \in DOMAIN ended :
        LET first == IF j = 1 THEN 1 ELSE ended[j - 1].frames + 1
            final == ended[j].frames
        IN  /\ \A k \in first..(final - 1) : taken[k].header.kw \notin {"NUL", "ERR"}
            /\ IF ended[j].how \in {"NUL", "ERR"}
               THEN /\ final >= first /\ taken[final].header.kw = ended[j].how
                    /\ ended[j].at = taken[final].to
               ELSE final >= first => taken[final].header.kw \notin {"NUL", "ERR"}
            /\ ended[j].how = "EOF" => rerr = "EOF" /\ ended[j].at = Len(input)

Carries(f) == f.header.kw \in Carrying /\ Trimmed(Payload(f)) # <<>>

(* Every message of a RAW exchange comes out once and in order              *)
(* (raw.go:111-155): the results are the carrying frames, one each, up to   *)
(* the one being handled; a bad message does not end the exchange.          *)
OneResultPerMessage ==
    profile = "raw" =>
        LET carriers == {k \in 1..(Len(taken) - (IF spc = "frame" THEN 1 ELSE 0)) :
                            Carries(taken[k])}
            results  == {i \in DOMAIN out : out[i].frame # 0}
        IN  /\ {out[i].frame : i \in results} = carriers
            /\ \A i, j \in results : i < j => out[i].frame < out[j].frame

(* A COOKED message's priority stands for its facility and severity without *)
(* loss (cooked.go:217-227): the DTD's wider ranges never wrap into some    *)
(* other valid priority, and within 0..191 none is missing.                 *)
PriorityWithoutLoss ==
    \A i \in DOMAIN out :
        LET m == out[i].msg
        IN  m.facility # Absent =>
               IF m.priority = Absent THEN m.facility > 23 \/ m.severity > 7
               ELSE /\ m.priority \in 0..191
                    /\ m.facility = m.priority \div 8 /\ m.severity = m.priority % 8

(* Parse returns, however the connection is cut. *)
ParseReturns == pc = "loop" ~> pc = "idle"
=============================================================================
