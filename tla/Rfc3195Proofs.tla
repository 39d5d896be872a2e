--------------------------- MODULE Rfc3195Proofs ---------------------------
(***************************************************************************)
(* The BEEP scanner and the RFC 3195 parsers, for any header lines,        *)
(* payload sizes, limits, read sizes and entries: frames are cut exactly   *)
(* where RFC 3080 ends them, an exchange ends once, every RAW message has  *)
(* one result, and a COOKED priority loses nothing.                        *)
(***************************************************************************)
EXTENDS Rfc3195, SequenceTheorems, TLAPS

-----------------------------------------------------------------------------
(* The inductive invariant. *)

(* Where the last frame ended. *)
LastEnd == IF taken = <<>> THEN 0 ELSE taken[Len(taken)].to

(* A frame may begin at p: where the last one ended, or behind what an      *)
(* earlier scanner had read ahead.                                          *)
MayBegin(p) ==
    /\ LastEnd <= p
    /\ LastEnd < p => /\ reader = "plain" /\ p - LastEnd < MaxRead
                      /\ \E j \in DOMAIN ended : ended[j].frames = Len(taken)

(* What has been consumed of the frame being read. *)
Position ==
    /\ spc = "header" => MayBegin(pos)
    /\ spc \in {"payload", "trailer"} =>
          /\ MayBegin(start) /\ start < pos
          /\ input[start + 1] = header /\ header.ok /\ header.kw # "SEQ"
          /\ pos = start + 1 + (IF spc = "trailer" THEN header.size ELSE 0)
    /\ spc = "frame" => taken # <<>> /\ LastEnd = pos
    /\ spc = "eof" => rerr = "EOF" /\ pos = Len(input)

(* What has been read and not consumed. *)
Buffered ==
    /\ spc \in {"header", "trailer"} => Avail <= MaxRead
    /\ spc = "payload" => Avail <= header.size + MaxRead
    /\ spc = "frame" => Avail < MaxRead

(* Frames lie one behind the other in what was consumed. *)
FramesBehind ==
    \A i \in DOMAIN taken : taken[i].from < taken[i].to /\ taken[i].to <= pos

(* The first frame of the exchange under way, or of the next one. *)
Begun == IF ended = <<>> THEN 1 ELSE ended[Len(ended)].frames + 1
Exchange ==
    /\ \A j \in DOMAIN ended : ended[j].frames <= Len(taken)
    /\ Begun <= Len(taken) + 1
    /\ spc = "frame" => Begun <= Len(taken)
    /\ \A k \in Begun..Len(taken) :
          taken[k].header.kw \in {"NUL", "ERR"} => spc = "frame" /\ k = Len(taken)

(* Between two Parse calls the scanner is closed. *)
BetweenCalls ==
    /\ pc = "idle" <=> spc = "closed"
    /\ pc = "idle" => Begun = Len(taken) + 1
    /\ pc = "idle" /\ ended = <<>> => input = <<>> /\ taken = <<>>
    /\ pc = "idle" /\ ended # <<>> /\ ended[Len(ended)].how \in {"NUL", "ERR"} =>
          LastEnd = pos /\ Avail < MaxRead

FramingInv == /\ Position /\ Buffered /\ FramesBehind /\ Exchange /\ BetweenCalls
              /\ FramesCutExactly /\ ExchangeEndsOnce

IInv == TypeOK /\ FramingInv /\ OneResultPerMessage /\ PriorityWithoutLoss

-----------------------------------------------------------------------------
(* Types. *)

(* What comes in over the connection. *)
Received == HeaderLines \cup {CRLF, END}

(* Every unit a peer sends is one of these, and only a header has fields. *)
LEMMA UnitType ==
    ASSUME NEW u \in Units
    PROVE  u \in Received /\ (u \in Headers => u \in HeaderLines)
  BY BeepAssumption DEF Units, Others, Received

(* What the peer sends keeps its types. *)
LEMMA SendType ==
    ASSUME ScannerTypeOK, NEW u \in Units, Send(u)
    PROVE  /\ due' \in Nat /\ faults' \in 0..MaxFaults
           /\ input' \in Seq(Received) /\ Len(input') = Len(input) + 1
           /\ \A i \in 1..Len(input) : input'[i] = input[i]
<1>1. due' \in Nat
  BY UnitType DEF Send, DueAfter, ScannerTypeOK, HeaderLines
<1>2. faults' \in 0..MaxFaults
  BY BeepAssumption DEF Send, ScannerTypeOK
<1>3. u \in Received /\ input \in Seq(Received) /\ input' = Append(input, u)
  BY UnitType DEF Send, ScannerTypeOK, Received
<1> QED
  BY <1>1, <1>2, <1>3

(* The unit that is read is one that was received. *)
LEMMA ReadUnit ==
    ASSUME ScannerTypeOK, Needs(1)
    PROVE  Unit \in Received /\ pos + 1 <= Len(input) /\ (Unit.u = "header" => Unit \in HeaderLines)
<1>1. Unit \in Received /\ pos + 1 <= Len(input)
  BY DEF ScannerTypeOK, Needs, Avail, Unit, Received
<1> QED
  BY <1>1 DEF Received, CRLF, END

(* A step of the connection only adds to what was received, or ends it. *)
LEMMA ConnectionStep ==
    ASSUME ScannerTypeOK, Fill \/ ReadAhead
    PROVE  /\ input' \in Seq(Received) /\ Len(input') \in {Len(input), Len(input) + 1}
           /\ \A i \in 1..Len(input) : input'[i] = input[i]
           /\ due' \in Nat /\ faults' \in 0..MaxFaults
           /\ rerr = "nil" /\ rerr' \in {"nil", "EOF", "cut", "err"}
           /\ UNCHANGED <<pos, maxPayloadSize, spc, start, header, taken>>
<1>1. ASSUME NEW u \in Units, Send(u), UNCHANGED rerr, Fill \/ ReadAhead
      PROVE  /\ input' \in Seq(Received) /\ Len(input') \in {Len(input), Len(input) + 1}
             /\ \A i \in 1..Len(input) : input'[i] = input[i]
             /\ due' \in Nat /\ faults' \in 0..MaxFaults
             /\ rerr = "nil" /\ rerr' \in {"nil", "EOF", "cut", "err"}
  BY <1>1, SendType DEF Fill, ReadAhead
<1>2. ASSUME UNCHANGED <<peerVars, input>>, rerr' \in {"EOF", "cut", "err"}, Fill
      PROVE  /\ input' \in Seq(Received) /\ Len(input') \in {Len(input), Len(input) + 1}
             /\ \A i \in 1..Len(input) : input'[i] = input[i]
             /\ due' \in Nat /\ faults' \in 0..MaxFaults
             /\ rerr = "nil" /\ rerr' \in {"nil", "EOF", "cut", "err"}
  BY <1>2 DEF Fill, peerVars, ScannerTypeOK, Received
<1> QED
  BY <1>1, <1>2 DEF Fill, ReadAhead

(* A frame that Scan returns is a frame. *)
LEMMA FrameType ==
    ASSUME ScannerTypeOK, NEW h \in HeaderLines, NEW a \in Nat, NEW b \in Nat,
           ScanReturns(h, a, b)
    PROVE  /\ taken' \in Seq(Frames) /\ Len(taken') = Len(taken) + 1
           /\ \A i \in 1..Len(taken) : taken'[i] = taken[i]
           /\ taken'[Len(taken) + 1] = [header |-> h, from |-> a, to |-> b]
  BY DEF ScanReturns, ScannerTypeOK, Frames

(* Scan and the connection keep the scanner's types: pos never runs past    *)
(* what was received.                                                       *)
LEMMA ScannerTypeStep ==
    ASSUME ScannerTypeOK, Fill \/ ReadAhead \/ ScanStep
    PROVE  ScannerTypeOK'
<1> USE BeepAssumption
<1>1. CASE Fill \/ ReadAhead
  BY <1>1, ConnectionStep DEF ScannerTypeOK, Received
<1>2. CASE ScanEnd
  BY <1>2 DEF ScanEnd, ScannerTypeOK, readerVars, peerVars
<1>3. CASE ScanBadHeader
  BY <1>3, ReadUnit DEF ScanBadHeader, ScanFails, ScannerTypeOK, peerVars
<1>4. CASE ScanSEQ
  <2>1. Unit \in HeaderLines /\ pos \in Nat /\ pos + 1 \in 0..Len(input)
    BY <1>4, ReadUnit DEF ScanSEQ, ScannerTypeOK
  <2>2. taken' \in Seq(Frames)
    <3>1. ScanReturns(Unit, pos, pos + 1) /\ pos + 1 \in Nat
      BY <1>4, <2>1 DEF ScanSEQ
    <3> QED
      BY <2>1, <3>1, FrameType
  <2>3. /\ pos' = pos + 1 /\ header' = Unit /\ spc' = "frame"
        /\ UNCHANGED <<due, faults, input, rerr, maxPayloadSize, start>>
    BY <1>4 DEF ScanSEQ, ScanReturns, peerVars
  <2> QED
    BY <2>1, <2>2, <2>3 DEF ScannerTypeOK
<1>5. CASE ScanHeader
  BY <1>5, ReadUnit DEF ScanHeader, ScannerTypeOK, peerVars
<1>6. CASE ScanPayload
  BY <1>6 DEF ScanPayload, Needs, Avail, ScannerTypeOK, HeaderLines, peerVars
<1>7. CASE ScanTrailer
  <2>1. pos + 1 \in 0..Len(input) /\ start \in Nat /\ pos \in Nat
    BY <1>7, ReadUnit DEF ScanTrailer, ScannerTypeOK
  <2>2. CASE Unit = END
    <3>1. header \in HeaderLines
      BY DEF ScannerTypeOK
    <3>2. taken' \in Seq(Frames)
      <4>1. ScanReturns(header, start, pos + 1) /\ pos + 1 \in Nat
        BY <1>7, <2>1, <2>2 DEF ScanTrailer
      <4> QED
        BY <2>1, <3>1, <4>1, FrameType
    <3>3. /\ pos' = pos + 1 /\ spc' = "frame"
          /\ UNCHANGED <<due, faults, input, rerr, maxPayloadSize, start, header>>
      BY <1>7, <2>2 DEF ScanTrailer, ScanReturns, peerVars
    <3> QED
      BY <2>1, <3>2, <3>3 DEF ScannerTypeOK
  <2>3. CASE Unit # END
    BY <1>7, <2>1, <2>3 DEF ScanTrailer, ScanFails, ScannerTypeOK, peerVars
  <2> QED
    BY <2>2, <2>3
<1>8. CASE ScanShort
  BY <1>8 DEF ScanShort, ScanFails, ScannerTypeOK, peerVars
<1> QED
  BY <1>1, <1>2, <1>3, <1>4, <1>5, <1>6, <1>7, <1>8 DEF ScanStep

-----------------------------------------------------------------------------
(* The types of what the parsers emit. *)

Errors == {nil, "scan", "ERR", "inner", "xml", "facility", "severity", "timestamp"}
Emitted == [msg : Messages, frame : Nat, err : Errors]
Endings == [how : {"EOF", "scan", "NUL", "ERR"}, at : Nat, frames : Nat]

(* Messages without a facility. *)
LEMMA PlainMessageType ==
    /\ NoMessage \in Messages /\ NoMessage.facility = Absent
    /\ \A k \in {nil, "whole", "part", "metadata", "entry"} :
          Message(k) \in Messages /\ Message(k).facility = Absent
<1>1. Absent \in -1..255
  BY DEF Absent
<1>2. ASSUME NEW k \in {nil, "whole", "part", "metadata", "entry"}
      PROVE  Message(k) \in Messages /\ Message(k).facility = Absent
  BY <1>1 DEF Message, Messages
<1> QED
  BY <1>2 DEF NoMessage

(* What an entry's priority is, where there is one (cooked.go:217-227).     *)
LEMMA PriorityValue ==
    ASSUME NEW f \in 0..23, NEW s \in 0..7
    PROVE  /\ uint8(uint8(f) * 8 + uint8(s)) = 8 * f + s
           /\ 8 * f + s \in 0..191
           /\ (8 * f + s) \div 8 = f /\ (8 * f + s) % 8 = s
<1>1. uint8(f) = f /\ uint8(s) = s
  BY DEF uint8
<1>2. 8 * f + s \in 0..191 /\ f * 8 + s = 8 * f + s
  OBVIOUS
<1>3. uint8(8 * f + s) = 8 * f + s
  BY <1>2 DEF uint8
<1>4. (8 * f + s) \div 8 = f /\ (8 * f + s) % 8 = s
  OBVIOUS
<1> QED
  BY <1>1, <1>2, <1>3, <1>4

(* What the priority of a message says about its facility and severity. *)
Lossless(m) ==
    m.facility # Absent =>
        IF m.priority = Absent THEN m.facility > 23 \/ m.severity > 7
        ELSE /\ m.priority \in 0..191
             /\ m.facility = m.priority \div 8 /\ m.severity = m.priority % 8

(* A byte that is small enough is not cut. *)
LEMMA uint8Value == \A n \in 0..255 : uint8(n) = n
  BY DEF uint8

(* A priority, if there is one, gives facility and severity back. *)
Decodes(p, f, s) ==
    /\ p \in -1..191
    /\ p = Absent => f > 23 \/ s > 7
    /\ p # Absent => p \in 0..191 /\ f = p \div 8 /\ s = p % 8

(* The priority of an entry that processEntry accepts. *)
LEMMA EntryPriorityValue ==
    ASSUME NEW e, e.facility \in 0..255, e.severity \in 0..9
    PROVE  Decodes(EntryPriority(e), e.facility, e.severity)
<1>1. ASSUME NEW f \in 0..23, NEW s \in 0..7
      PROVE  Decodes(8 * f + s, f, s)
  BY PriorityValue DEF Decodes, Absent
<1>2. CASE e.facility <= 23 /\ e.severity <= 7
  <2>1. e.facility \in 0..23 /\ e.severity \in 0..7
    BY <1>2
  <2>2. EntryPriority(e) = 8 * e.facility + e.severity
    BY <1>2, <2>1, PriorityValue DEF EntryPriority
  <2> QED
    BY <1>1, <2>1, <2>2
<1>3. CASE ~(e.facility <= 23 /\ e.severity <= 7)
  BY <1>3 DEF EntryPriority, Decodes, Absent
<1> QED
  BY <1>2, <1>3

(* A coded facility and severity are those of the entry, which processEntry *)
(* checked, and the priority is theirs or absent.                           *)
LEMMA CodedValue ==
    ASSUME NEW e \in EntryAttrs, e.facility \in 0..255, e.severity \in 0..9,
           NEW t \in {Missing, "ok"}, NEW h \in {Missing, "fqdn", "ip"}
    PROVE  Coded(e, t, h) \in Messages /\ Lossless(Coded(e, t, h))
<1>1. uint8(e.facility) = e.facility /\ uint8(e.severity) = e.severity
  <2>1. e.severity \in 0..255
    OBVIOUS
  <2> QED
    BY <2>1, uint8Value
<1>2. ASSUME NEW f \in 0..255, NEW s \in 0..9, NEW p, Decodes(p, f, s)
      PROVE  LET m == [kind |-> "entry", facility |-> f, severity |-> s, priority |-> p,
                       timestamp |-> t, hostname |-> h]
             IN  m \in Messages /\ Lossless(m)
  <2> DEFINE m == [kind |-> "entry", facility |-> f, severity |-> s, priority |-> p,
                   timestamp |-> t, hostname |-> h]
  <2>1. m \in Messages
    <3>1. f \in -1..255 /\ s \in -1..255
      OBVIOUS
    <3>2. p \in -1..255
      BY <1>2 DEF Decodes
    <3> QED
      BY <3>1, <3>2 DEF Messages
  <2>2. m.facility = f /\ m.severity = s /\ m.priority = p
    OBVIOUS
  <2> HIDE DEF m
  <2>3. Lossless(m)
    BY <1>2, <2>2 DEF Decodes, Lossless
  <2> QED
    BY <2>1, <2>3 DEF m
<1>3. Coded(e, t, h) = [kind |-> "entry", facility |-> e.facility, severity |-> e.severity,
                        priority |-> EntryPriority(e), timestamp |-> t, hostname |-> h]
  BY <1>1 DEF Coded
<1>4. Decodes(EntryPriority(e), e.facility, e.severity)
  BY EntryPriorityValue
<1> QED
  BY <1>2, <1>3, <1>4

(* The message an entry becomes, whatever its attributes. *)
LEMMA EntryType ==
    ASSUME NEW e \in EntryAttrs
    PROVE  /\ EntryOutcome(e).msg \in Messages /\ Lossless(EntryOutcome(e).msg)
           /\ EntryOutcome(e).err \in {nil, "facility", "severity", "timestamp"}
<1>1. CASE e.facility \notin 0..255 \/ e.severity \notin 0..9
  <2>1. EntryOutcome(e).msg = Message("entry") /\ EntryOutcome(e).err \in {"facility", "severity"}
    BY <1>1 DEF EntryOutcome
  <2>2. Message("entry") \in Messages /\ Message("entry").facility = Absent
    BY PlainMessageType
  <2> QED
    BY <2>1, <2>2 DEF Lossless
<1>2. CASE e.facility \in 0..255 /\ e.severity \in 0..9
  <2>1. e.timestamp \in {Missing, "ok", "bad"}
        /\ (IF e.fqdn # Missing THEN e.fqdn ELSE e.ip) \in {Missing, "fqdn", "ip"}
    BY DEF EntryAttrs
  <2> DEFINE h == IF e.fqdn # Missing THEN e.fqdn ELSE e.ip
  <2>2. CASE e.timestamp = "bad"
    <3>1. EntryOutcome(e) = [msg |-> Coded(e, Missing, Missing), err |-> "timestamp"]
      BY <1>2, <2>2, Zenon DEF EntryOutcome
    <3>2. Coded(e, Missing, Missing) \in Messages /\ Lossless(Coded(e, Missing, Missing))
      BY <1>2, CodedValue
    <3> QED
      BY <3>1, <3>2
  <2>3. CASE e.timestamp # "bad"
    <3>1. EntryOutcome(e) = [msg |-> Coded(e, e.timestamp, h), err |-> nil]
      BY <1>2, <2>3, Zenon DEF EntryOutcome
    <3>2. e.timestamp \in {Missing, "ok"} /\ h \in {Missing, "fqdn", "ip"}
      BY <2>1, <2>3
    <3> HIDE DEF h
    <3>3. Coded(e, e.timestamp, h) \in Messages /\ Lossless(Coded(e, e.timestamp, h))
      BY <1>2, <3>2, CodedValue
    <3> QED
      BY <3>1, <3>3
  <2> QED
    BY <2>2, <2>3
<1> QED
  BY <1>1, <1>2

-----------------------------------------------------------------------------
(* What a step of the parser adds to out. *)

(* What is emitted has the type of a result; where it is a message, nothing *)
(* is lost in its priority, and it belongs to the frame being handled.      *)
Emits ==
    \/ out' = out
    \/ \E m \in Messages, e \in Errors :
          Lossless(m) /\ out' = Append(out, [msg |-> m, err |-> e, frame |-> Len(taken)])
EmitsFailure ==
    \E e \in Errors : out' = Append(out, [msg |-> NoMessage, err |-> e, frame |-> 0])

(* A message without a facility loses nothing. *)
LEMMA PlainLossless ==
    /\ Lossless(NoMessage)
    /\ \A k \in {nil, "whole", "part", "metadata", "entry"} : Lossless(Message(k))
  BY PlainMessageType DEF Lossless

(* A RAW frame gives one result or, if it carries no message, none          *)
(* (raw.go:136-163).                                                        *)
LEMMA ProcessANSEmits ==
    ASSUME processANS
    PROVE  /\ profile = "raw" /\ On(Carrying) /\ Continue /\ UNCHANGED loopRest
           /\ Emits
           /\ IF Trimmed(Payload(Frame)) = <<>> THEN out' = out
              ELSE \E m \in Messages, e \in Errors :
                      out' = Append(out, [msg |-> m, err |-> e, frame |-> Len(taken)])
<1>1. ASSUME NEW r \in internalParse
      PROVE  /\ RawResult(r) \in Messages /\ r.err \in Errors /\ Lossless(RawResult(r))
  <2>1. /\ r.err \in {nil, "inner"}
        /\ \E k \in {nil, "whole", "part"} : r.msg = Message(k)
    <3>1. \/ r \in {[msg |-> Message("whole"), err |-> nil], [msg |-> Message(nil), err |-> "inner"],
                   [msg |-> Message(nil), err |-> nil]}
          \/ r \in {[msg |-> Message("part"), err |-> "inner"]}
      BY DEF internalParse
    <3> QED
      BY <3>1
  <2>2. r.err \in Errors
    BY <2>1 DEF Errors
  <2>3. RawResult(r) = NoMessage \/ \E k \in {nil, "whole", "part"} : RawResult(r) = Message(k)
    BY <2>1 DEF RawResult
  <2> QED
    BY <2>2, <2>3, PlainMessageType, PlainLossless
<1>2. profile = "raw" /\ On(Carrying) /\ Continue /\ UNCHANGED loopRest
  BY DEF processANS
<1>3. CASE Trimmed(Payload(Frame)) = <<>>
  BY <1>2, <1>3 DEF processANS, Emits
<1>4. CASE Trimmed(Payload(Frame)) # <<>>
  <2>1. PICK r \in internalParse : out' = Emit(RawResult(r), r.err)
    BY <1>4 DEF processANS
  <2> QED
    BY <1>1, <1>2, <1>4, <2>1 DEF Emits, Emit
<1> QED
  BY <1>3, <1>4

(* A COOKED payload gives at most one result (cooked.go:150-254). *)
LEMMA ProcessPayloadEmits ==
    ASSUME processPayload
    PROVE  profile = "cooked" /\ On(Carrying) /\ Continue /\ UNCHANGED loopRest /\ Emits
<1>1. CASE UNCHANGED out
  BY <1>1 DEF processPayload, Emits
<1>2. CASE out' = Emit(NoMessage, "xml") \/ out' = Emit(Message("metadata"), nil)
  <2>1. "xml" \in Errors /\ nil \in Errors
    BY DEF Errors
  <2> QED
    BY <1>2, <2>1, PlainMessageType, PlainLossless DEF processPayload, Emits, Emit
<1>3. ASSUME NEW e \in Entries, processEntry(e)
      PROVE  Emits
  <2> DEFINE o == EntryOutcome(e)
             m == IF o.err # nil /\ ~bestEffort THEN NoMessage ELSE o.msg
  <2>1. /\ o.msg \in Messages /\ Lossless(o.msg)
        /\ o.err \in {nil, "facility", "severity", "timestamp"}
    BY EntryType, Rfc3195Assumption
  <2>2. m \in Messages /\ Lossless(m) /\ o.err \in Errors
    BY <2>1, PlainMessageType, PlainLossless DEF Errors
  <2>3. out' = Append(out, [msg |-> m, err |-> o.err, frame |-> Len(taken)])
    BY <1>3 DEF processEntry, Emit
  <2> QED
    BY <2>2, <2>3 DEF Emits
<1> QED
  BY <1>1, <1>2, <1>3 DEF processPayload

(* The loop either goes on or returns, and emits at most one result.        *)
LEMMA LoopStep ==
    ASSUME loop
    PROVE  /\ pc = "loop" /\ spc \in {"eof", "error", "frame"} /\ UNCHANGED loopRest
           /\ Emits \/ EmitsFailure
           /\ Continue \/ \E how \in {"EOF", "scan", "NUL", "ERR"} : Return(how)
<1>1. "scan" \in Errors /\ "ERR" \in Errors
  BY DEF Errors
<1>2. CASE OnEOF
  BY <1>2 DEF OnEOF, loop, Emits
<1>3. CASE OnScanError
  BY <1>1, <1>3 DEF OnScanError, loop, Failure, EmitsFailure
<1>4. CASE OnNUL
  BY <1>4 DEF OnNUL, On, loop, Emits
<1>5. CASE OnERR
  BY <1>1, <1>5 DEF OnERR, On, loop, Failure, EmitsFailure
<1>6. CASE OnSkipped
  BY <1>6 DEF OnSkipped, On, loop, Emits
<1>7. CASE processANS
  BY <1>7, ProcessANSEmits DEF On, loop
<1>8. CASE processPayload
  BY <1>8, ProcessPayloadEmits DEF On, loop
<1> QED
  BY <1>2, <1>3, <1>4, <1>5, <1>6, <1>7, <1>8 DEF loop

-----------------------------------------------------------------------------
(* The type invariant. *)

(* What is emitted keeps out a sequence of results. *)
LEMMA OutType ==
    ASSUME TypeOK, Emits \/ EmitsFailure
    PROVE  out' \in Seq(Emitted)
<1>1. out \in Seq(Emitted) /\ Len(taken) \in Nat
  BY DEF TypeOK, ScannerTypeOK, Emitted, Errors
<1>2. ASSUME NEW m \in Messages, NEW e \in Errors, NEW n \in Nat,
             out' = Append(out, [msg |-> m, err |-> e, frame |-> n])
      PROVE  out' \in Seq(Emitted)
  <2>1. [msg |-> m, err |-> e, frame |-> n] \in Emitted
    BY DEF Emitted
  <2> QED
    BY <1>1, <1>2, <2>1
<1>3. CASE Emits
  BY <1>1, <1>2, <1>3 DEF Emits
<1>4. CASE EmitsFailure
  BY <1>1, <1>2, <1>4, PlainMessageType DEF EmitsFailure
<1> QED
  BY <1>3, <1>4

(* How a Parse call returned is recorded with its type. *)
LEMMA ReturnType ==
    ASSUME TypeOK, NEW how \in {"EOF", "scan", "NUL", "ERR"}, Return(how)
    PROVE  /\ ended' \in Seq(Endings) /\ pc' = "idle" /\ spc' = "closed"
           /\ Len(ended') = Len(ended) + 1
           /\ \A j \in 1..Len(ended) : ended'[j] = ended[j]
           /\ ended'[Len(ended) + 1] = [how |-> how, at |-> pos, frames |-> Len(taken)]
<1>1. ended \in Seq(Endings) /\ pos \in Nat /\ Len(taken) \in Nat
  BY DEF TypeOK, ScannerTypeOK, Endings
<1>2. [how |-> how, at |-> pos, frames |-> Len(taken)] \in Endings
  BY <1>1 DEF Endings
<1>3. ended' = Append(ended, [how |-> how, at |-> pos, frames |-> Len(taken)])
  BY DEF Return
<1> QED
  BY <1>1, <1>2, <1>3 DEF Return

(* The parts of the type invariant by who writes them. *)
LEMMA TypeParts ==
    TypeOK <=> /\ ScannerTypeOK
               /\ profile \in {"raw", "cooked"} /\ reader \in {"plain", "bufio"}
               /\ bestEffort \in BOOLEAN /\ internalBE \in BOOLEAN
               /\ maxMessageLength \in Int
               /\ pc \in {"idle", "loop"} /\ parses \in 0..MaxParses
               /\ out \in Seq(Emitted) /\ ended \in Seq(Endings)
  BY DEF TypeOK, Emitted, Endings, Errors

(* Every step keeps the types. *)
LEMMA TypeStep == TypeOK /\ [Next]_vars => TypeOK'
<1> SUFFICES ASSUME TypeOK, [Next]_vars PROVE TypeOK'
  OBVIOUS
<1> USE BeepAssumption, Rfc3195Assumption
<1>p. /\ ScannerTypeOK
      /\ profile \in {"raw", "cooked"} /\ reader \in {"plain", "bufio"}
      /\ bestEffort \in BOOLEAN /\ internalBE \in BOOLEAN
      /\ maxMessageLength \in Int
      /\ pc \in {"idle", "loop"} /\ parses \in 0..MaxParses
      /\ out \in Seq(Emitted) /\ ended \in Seq(Endings)
  BY TypeParts
<1>q. ASSUME /\ ScannerTypeOK'
             /\ profile' \in {"raw", "cooked"} /\ reader' \in {"plain", "bufio"}
             /\ bestEffort' \in BOOLEAN /\ internalBE' \in BOOLEAN
             /\ maxMessageLength' \in Int
             /\ pc' \in {"idle", "loop"} /\ parses' \in 0..MaxParses
             /\ out' \in Seq(Emitted) /\ ended' \in Seq(Endings)
      PROVE  TypeOK'
  BY <1>q DEF TypeOK, Emitted, Endings, Errors
<1>1. CASE Parse
  <2>1. ScannerTypeOK'
    BY <1>1, <1>p DEF Parse, NewScanner, ScannerTypeOK, peerVars
  <2> QED
    BY <1>1, <1>p, <1>q, <2>1 DEF Parse, configVars
<1>2. CASE WithBestEffort
  <2>1. ScannerTypeOK'
    BY <1>2, <1>p DEF WithBestEffort, ScannerTypeOK, scannerVars, readerVars, peerVars
  <2> QED
    BY <1>2, <1>p, <1>q, <2>1 DEF WithBestEffort
<1>3. ASSUME NEW n \in MaxLengths, WithMaxMessageLength(n) PROVE TypeOK'
  <2>1. ScannerTypeOK'
    BY <1>3, <1>p DEF WithMaxMessageLength, ScannerTypeOK, scannerVars, readerVars, peerVars
  <2> QED
    BY <1>3, <1>p, <1>q, <2>1 DEF WithMaxMessageLength
<1>4. CASE loop
  <2>1. /\ UNCHANGED loopRest /\ out' \in Seq(Emitted)
    BY <1>4, LoopStep, OutType
  <2>2. /\ ended' \in Seq(Endings) /\ pc' \in {"idle", "loop"} /\ spc' \in {"header", "closed"}
    BY <1>4, <1>p, LoopStep, ReturnType DEF Continue
  <2>3. ScannerTypeOK'
    BY <1>p, <2>1, <2>2 DEF loopRest, readerVars, peerVars, ScannerTypeOK
  <2> QED
    BY <1>p, <1>q, <2>1, <2>2, <2>3 DEF loopRest, configVars
<1>5. CASE Lexer
  <2>1. ScannerTypeOK'
    BY <1>5, <1>p, ScannerTypeStep DEF Lexer
  <2> QED
    BY <1>5, <1>p, <1>q, <2>1 DEF Lexer, parserVars, configVars
<1>6. CASE UNCHANGED vars
  BY <1>6 DEF vars, scannerVars, readerVars, peerVars, parserVars, configVars, TypeOK, ScannerTypeOK
<1> QED
  BY <1>1, <1>2, <1>3, <1>4, <1>5, <1>6 DEF Next

(* The variables have their types to begin with. *)
LEMMA InitType == Init => TypeOK
<1> SUFFICES ASSUME Init PROVE TypeOK
  OBVIOUS
<1>1. ScannerTypeOK
  BY BeepAssumption DEF Init, ScannerInit, ScannerTypeOK, NoHeader, HeaderLines, Keywords
<1> QED
  BY <1>1, Rfc3195Assumption, TypeParts DEF Init

(* No index of the scanner runs past what was received, and everything the  *)
(* parsers emit is a message or an error of theirs.                         *)
THEOREM TypeCorrect == Spec => []TypeOK
  BY InitType, TypeStep, PTL DEF Spec

-----------------------------------------------------------------------------
(* Frames and exchanges.  The lemmas below are about what later steps leave *)
(* alone; framing is about these variables only.                            *)

framing == <<input, pos, rerr, spc, start, header, taken, ended, pc, reader>>

(* The shape of what FramingInv talks about. *)
LEMMA Shape ==
    ASSUME TypeOK
    PROVE  /\ Len(taken) \in Nat /\ DOMAIN taken = 1..Len(taken)
           /\ Len(ended) \in Nat /\ DOMAIN ended = 1..Len(ended)
           /\ Len(input) \in Nat /\ pos \in 0..Len(input) /\ start \in Nat
           /\ taken = <<>> <=> Len(taken) = 0
           /\ ended = <<>> <=> Len(ended) = 0
           /\ header \in HeaderLines /\ header.size \in Nat
           /\ \A i \in 1..Len(taken) :
                 /\ taken[i].from \in Nat /\ taken[i].to \in Nat
                 /\ taken[i].header \in HeaderLines /\ taken[i].header.size \in Nat
           /\ \A j \in 1..Len(ended) : ended[j].frames \in Nat /\ ended[j].at \in Nat
<1>1. taken \in Seq(Frames) /\ ended \in Seq(Endings) /\ header \in HeaderLines
  BY TypeParts DEF ScannerTypeOK
<1>2. Len(input) \in Nat /\ pos \in 0..Len(input) /\ start \in Nat
  BY DEF TypeOK, ScannerTypeOK
<1>3. \A i \in 1..Len(taken) : taken[i] \in Frames
  BY <1>1
<1>4. \A j \in 1..Len(ended) : ended[j] \in Endings
  BY <1>1
<1>5. \A h \in HeaderLines : h.size \in Nat
  BY DEF HeaderLines
<1>6. /\ Len(taken) \in Nat /\ DOMAIN taken = 1..Len(taken)
      /\ Len(ended) \in Nat /\ DOMAIN ended = 1..Len(ended)
      /\ taken = <<>> <=> Len(taken) = 0
      /\ ended = <<>> <=> Len(ended) = 0
  BY <1>1
<1> QED
  BY <1>1, <1>2, <1>3, <1>4, <1>5, <1>6 DEF Frames, Endings

(* An exchange begins with some frame. *)
LEMMA BegunType ==
    ASSUME TypeOK
    PROVE  Begun \in Nat /\ 1 <= Begun
<1>1. CASE ended = <<>>
  BY <1>1 DEF Begun
<1>2. CASE ended # <<>>
  <2>1. Len(ended) \in 1..Len(ended)
    BY <1>2, Shape
  <2>2. ended[Len(ended)].frames \in Nat
    BY <2>1, Shape
  <2> QED
    BY <1>2, <2>2 DEF Begun
<1> QED
  BY <1>1, <1>2

(* Frame i is cut out of the connection exactly. *)
CutExactly(i) ==
    LET f == taken[i]
        h == f.header
        b == IF i = 1 THEN 0 ELSE taken[i - 1].to
    IN  /\ input[f.from + 1] = h /\ h.ok
        /\ IF h.kw = "SEQ" THEN f.to = f.from + 1
           ELSE f.to = f.from + h.size + 2 /\ input[f.to] = END
        /\ b <= f.from
        /\ b < f.from => /\ reader = "plain" /\ f.from - b < MaxRead
                         /\ \E j \in DOMAIN ended : ended[j].frames = i - 1

(* The invariant, before and after a step, frame by frame. *)
LEMMA CutExactlyAll ==
    /\ FramesCutExactly => \A i \in DOMAIN taken : CutExactly(i)
    /\ (\A i \in DOMAIN taken' : CutExactly(i)') => FramesCutExactly'
  BY Zenon DEF FramesCutExactly, CutExactly

(* Later steps append to input, taken and ended, and change none of them.   *)
Extends ==
    /\ Len(input) <= Len(input') /\ \A i \in 1..Len(input) : input'[i] = input[i]
    /\ Len(taken) <= Len(taken') /\ \A i \in 1..Len(taken) : taken'[i] = taken[i]
    /\ Len(ended) <= Len(ended') /\ \A j \in 1..Len(ended) : ended'[j] = ended[j]
    /\ reader' = reader /\ pos <= pos'

(* A frame that was cut exactly stays so. *)
LEMMA CutStable ==
    ASSUME TypeOK, TypeOK', FramesBehind, Extends, NEW i \in 1..Len(taken), CutExactly(i)
    PROVE  CutExactly(i)'
<1>1. /\ taken'[i] = taken[i] /\ reader' = reader
      /\ i # 1 => taken'[i - 1] = taken[i - 1]
  BY Shape DEF Extends
<1>2. taken[i].from + 1 \in 1..Len(input) /\ taken[i].to \in 1..Len(input)
  BY Shape DEF FramesBehind
<1>3. /\ input'[taken[i].from + 1] = input[taken[i].from + 1]
      /\ input'[taken[i].to] = input[taken[i].to]
  BY <1>2 DEF Extends
<1>4. ASSUME NEW j \in DOMAIN ended, ended[j].frames = i - 1
      PROVE  \E k \in DOMAIN ended' : ended'[k].frames = i - 1
  <2>1. j \in 1..Len(ended')
    BY <1>4, Shape DEF Extends
  <2>2. DOMAIN ended' = 1..Len(ended')
    BY DEF TypeOK
  <2>3. ended'[j] = ended[j]
    BY <1>4, Shape DEF Extends
  <2> QED
    BY <1>4, <2>1, <2>2, <2>3
<1> QED
  BY <1>1, <1>3, <1>4 DEF CutExactly

(* Parse call j returned where it had to. *)
EndsRight(j) ==
    LET first == IF j = 1 THEN 1 ELSE ended[j - 1].frames + 1
        final == ended[j].frames
    IN  /\ \A k \in first..(final - 1) : taken[k].header.kw \notin {"NUL", "ERR"}
        /\ IF ended[j].how \in {"NUL", "ERR"}
           THEN /\ final >= first /\ taken[final].header.kw = ended[j].how
                /\ ended[j].at = taken[final].to
           ELSE final >= first => taken[final].header.kw \notin {"NUL", "ERR"}
        /\ ended[j].how = "EOF" => rerr = "EOF" /\ ended[j].at = Len(input)

(* The invariant, before and after a step, call by call. *)
LEMMA EndsRightAll ==
    /\ ExchangeEndsOnce => \A j \in DOMAIN ended : EndsRight(j)
    /\ (\A j \in DOMAIN ended' : EndsRight(j)') => ExchangeEndsOnce'
  BY Zenon DEF ExchangeEndsOnce, EndsRight

(* How a call returned is not changed by what comes later: the connection's *)
(* end is its end.                                                          *)
LEMMA EndStable ==
    ASSUME TypeOK, Exchange, Extends, rerr # "nil" => UNCHANGED <<input, rerr>>,
           NEW j \in 1..Len(ended), EndsRight(j)
    PROVE  EndsRight(j)'
<1>0. j \in Nat /\ (j # 1 => j - 1 \in 1..Len(ended))
  BY Shape
<1>1. /\ ended'[j] = ended[j]
      /\ j # 1 => ended'[j - 1] = ended[j - 1] /\ ended[j - 1].frames \in Nat
      /\ ended[j].frames \in 0..Len(taken)
  <2>1. ended[j].frames \in Nat /\ ended[j].frames <= Len(taken) /\ Len(taken) \in Nat
    BY Shape DEF Exchange
  <2>2. j # 1 => ended[j - 1].frames \in Nat
    BY <1>0, Shape
  <2> QED
    BY <1>0, <2>1, <2>2 DEF Extends
<1>2. \A k \in 1..ended[j].frames : taken'[k] = taken[k]
  BY <1>1, Shape DEF Extends
<1>3. ended[j].how = "EOF" => UNCHANGED <<rerr, input>>
  BY DEF EndsRight
<1> DEFINE first == IF j = 1 THEN 1 ELSE ended[j - 1].frames + 1
           final == ended[j].frames
<1>4. first' = first /\ final' = final /\ first \in Nat \ {0}
  BY <1>1
<1>5. /\ \A k \in first..(final - 1) : taken'[k] = taken[k]
      /\ final >= first => taken'[final] = taken[final]
  BY <1>1, <1>2, <1>4
<1>6. EndsRight(j)' <=>
        /\ \A k \in first..(final - 1) : taken'[k].header.kw \notin {"NUL", "ERR"}
        /\ IF ended[j].how \in {"NUL", "ERR"}
           THEN /\ final >= first /\ taken'[final].header.kw = ended[j].how
                /\ ended[j].at = taken'[final].to
           ELSE final >= first => taken'[final].header.kw \notin {"NUL", "ERR"}
        /\ ended[j].how = "EOF" => rerr' = "EOF" /\ ended[j].at = Len(input')
  BY <1>1, <1>4, Zenon DEF EndsRight
<1>7. /\ \A k \in first..(final - 1) : taken[k].header.kw \notin {"NUL", "ERR"}
      /\ IF ended[j].how \in {"NUL", "ERR"}
         THEN /\ final >= first /\ taken[final].header.kw = ended[j].how
              /\ ended[j].at = taken[final].to
         ELSE final >= first => taken[final].header.kw \notin {"NUL", "ERR"}
      /\ ended[j].how = "EOF" => rerr = "EOF" /\ ended[j].at = Len(input)
  BY Zenon DEF EndsRight
<1> QED
  BY <1>3, <1>5, <1>6, <1>7

-----------------------------------------------------------------------------
(* Steps of the connection. *)

(* What the connection brings is behind everything that was consumed, and   *)
(* no more than one Read of it is buffered.                                 *)
LEMMA ConnectionFraming ==
    ASSUME TypeOK, TypeOK', FramingInv, Fill \/ ReadAhead, UNCHANGED parserVars
    PROVE  FramingInv'
<1> USE DEF FramingInv
<1>1. /\ Len(input') \in {Len(input), Len(input) + 1}
      /\ \A i \in 1..Len(input) : input'[i] = input[i]
      /\ rerr = "nil"
      /\ UNCHANGED <<pos, spc, start, header, taken, ended, reader, pc>>
      /\ spc \in {"header", "payload", "trailer"}
  BY ConnectionStep, TypeParts DEF parserVars, configVars, Fill, ReadAhead, Waiting
<1>2. Extends
  BY <1>1, Shape DEF Extends
<1>3. Position'
  <2>0. LastEnd' = LastEnd
    BY <1>1 DEF LastEnd
  <2>1. CASE spc = "header"
    BY <1>1, <2>0, <2>1 DEF Position, MayBegin
  <2>2. CASE spc \in {"payload", "trailer"}
    <3>1. input'[start + 1] = input[start + 1]
      BY <1>1, <2>2, Shape DEF Position
    <3> QED
      BY <1>1, <2>0, <2>2, <3>1 DEF Position, MayBegin
  <2> QED
    BY <1>1, <2>1, <2>2
<1>4. Buffered'
  <2>1. Avail' = Len(input') - pos /\ Avail \in Nat
    BY <1>1, Shape DEF Avail
  <2>2. CASE Fill
    BY <1>1, <2>1, <2>2, Shape, BeepAssumption DEF Buffered, Fill, Waiting, Needs, Avail
  <2>3. CASE ReadAhead
    BY <1>1, <2>1, <2>3, Shape, BeepAssumption DEF Buffered, ReadAhead, Needs, Avail
  <2> QED
    BY <2>2, <2>3
<1>5. FramesBehind' /\ Exchange'
  BY <1>1 DEF FramesBehind, Exchange, Begun
<1>6. BetweenCalls'
  BY <1>1 DEF BetweenCalls
<1>7. FramesCutExactly'
  BY <1>1, <1>2, CutStable, CutExactlyAll, Shape, Zenon
<1>8. ExchangeEndsOnce'
  <2>1. \A j \in 1..Len(ended) : EndsRight(j)'
    BY <1>1, <1>2, EndStable, EndsRightAll, Shape
  <2> QED
    BY <1>1, <2>1, EndsRightAll, Shape, Zenon
<1> QED
  BY <1>3, <1>4, <1>5, <1>6, <1>7, <1>8

-----------------------------------------------------------------------------
(* Steps of Scan. *)

(* A step that takes no frame leaves what is known of frames and exchanges. *)
LEMMA NoFrameFraming ==
    ASSUME TypeOK, TypeOK', FramingInv,
           UNCHANGED <<input, rerr, taken, ended, reader>>, pos <= pos'
    PROVE  FramesCutExactly' /\ ExchangeEndsOnce' /\ FramesBehind'
<1> USE DEF FramingInv
<1>1. Extends
  BY Shape DEF Extends
<1>2. FramesCutExactly'
  BY <1>1, CutStable, CutExactlyAll, Shape, Zenon
<1>3. \A j \in 1..Len(ended) : EndsRight(j)'
  BY <1>1, EndStable, EndsRightAll, Shape
<1>4. ExchangeEndsOnce'
  BY <1>3, EndsRightAll, Shape, Zenon
<1>5. FramesBehind'
  <2>1. pos \in Nat /\ pos' \in Nat
    BY DEF TypeOK, ScannerTypeOK
  <2> QED
    BY <2>1, Shape DEF FramesBehind
<1> QED
  BY <1>2, <1>4, <1>5

(* Consuming a header, a payload or nothing at all. *)
LEMMA ScanQuietFraming ==
    ASSUME TypeOK, TypeOK', FramingInv, UNCHANGED parserVars,
           \/ ScanEnd \/ ScanBadHeader \/ ScanHeader \/ ScanPayload \/ ScanShort
           \/ ScanTrailer /\ Unit # END
    PROVE  FramingInv'
<1> USE DEF FramingInv
<1>1. /\ UNCHANGED <<input, rerr, taken, ended, reader, pc>>
      /\ spc \in {"header", "payload", "trailer"} /\ pc = "loop"
      /\ spc' \in {"payload", "trailer", "eof", "error"}
  <2>1. spc \in {"header", "payload", "trailer"}
    BY DEF ScanEnd, ScanBadHeader, ScanHeader, ScanPayload, ScanShort, ScanTrailer
  <2>2. /\ UNCHANGED <<input, rerr, taken>>
        /\ spc' \in {"payload", "trailer", "eof", "error"}
    BY DEF ScanEnd, ScanBadHeader, ScanHeader, ScanPayload, ScanShort, ScanTrailer, ScanFails,
           readerVars
  <2> QED
    BY <2>1, <2>2, TypeParts DEF BetweenCalls, parserVars, configVars
<1>2. pos <= pos'
  <2>1. pos' \in {pos, pos + 1, pos + header.size, Len(input)}
    BY DEF ScanEnd, ScanBadHeader, ScanHeader, ScanPayload, ScanShort, ScanTrailer, readerVars
  <2> QED
    BY <2>1, Shape
<1>3. LastEnd' = LastEnd /\ Begun' = Begun
  BY <1>1 DEF LastEnd, Begun
<1>4. Exchange' /\ BetweenCalls'
  BY <1>1, <1>3 DEF Exchange, BetweenCalls
<1>5. FramesCutExactly' /\ ExchangeEndsOnce' /\ FramesBehind'
  BY <1>1, <1>2, NoFrameFraming
<1>6. Position' /\ Buffered'
  <2>1. CASE ScanEnd
    BY <1>1, <2>1, Shape DEF ScanEnd, Position, Buffered, readerVars, Needs, Avail
  <2>2. CASE ScanHeader
    <3>1. Unit \in HeaderLines /\ Unit.size \in Nat /\ Unit.ok /\ Unit.kw # "SEQ"
      BY <2>2, TypeParts, ReadUnit DEF ScanHeader, HeaderLines, Acceptable
    <3>2. MayBegin(pos)
      BY <2>2 DEF ScanHeader, Position
    <3>3. /\ header' = input[pos + 1] /\ start' = pos /\ pos' = pos + 1
          /\ spc' = IF header'.size > 0 THEN "payload" ELSE "trailer"
          /\ header' \in HeaderLines /\ header'.size \in Nat
          /\ header'.ok /\ header'.kw # "SEQ"
      BY <2>2, <3>1 DEF ScanHeader, Unit
    <3>4. spc' = "trailer" => header'.size = 0
      BY <3>3
    <3>5. MayBegin(start)'
      BY <1>1, <1>3, <3>2, <3>3 DEF MayBegin
    <3>6. Position'
      BY <1>1, <3>3, <3>4, <3>5, Shape DEF Position
    <3>7. Avail <= MaxRead /\ Avail' = Avail - 1 /\ Avail \in Int
      BY <1>1, <2>2, <3>3, Shape DEF ScanHeader, Buffered, Avail
    <3>8. Avail' <= MaxRead /\ Avail' <= header'.size + MaxRead
      <4> DEFINE a == Avail
                 h == header'.size
      <4>1. a <= MaxRead /\ a \in Int /\ h \in Nat /\ MaxRead \in Nat
        BY <3>3, <3>7, BeepAssumption
      <4> HIDE DEF a, h
      <4>2. a - 1 <= MaxRead /\ a - 1 <= h + MaxRead
        BY <4>1
      <4> QED
        BY <3>7, <4>2 DEF a, h
    <3>9. spc' \in {"payload", "trailer"}
      BY <3>3
    <3>10. Buffered'
      BY <3>8, <3>9 DEF Buffered
    <3> QED
      BY <3>6, <3>10
  <2>3. CASE ScanPayload
    <3>1. MayBegin(start)'
      BY <1>1, <1>3, <2>3 DEF ScanPayload, Position, MayBegin
    <3>2. Position'
      BY <1>1, <2>3, <3>1, Shape DEF ScanPayload, Position
    <3>3. Buffered'
      BY <1>1, <2>3, BeepAssumption, Shape DEF ScanPayload, Buffered, Avail
    <3> QED
      BY <3>2, <3>3
  <2>4. CASE ScanBadHeader
    BY <2>4 DEF ScanBadHeader, ScanFails, Position, Buffered
  <2>5. CASE ScanShort
    BY <2>5 DEF ScanShort, ScanFails, Position, Buffered
  <2>6. CASE ScanTrailer /\ Unit # END
    BY <2>6 DEF ScanTrailer, ScanFails, Position, Buffered
  <2> QED
    BY <2>1, <2>2, <2>3, <2>4, <2>5, <2>6
<1> QED
  BY <1>4, <1>5, <1>6

(* A frame that Scan returns begins where a frame may begin and ends at pos *)
(* with its trailer, or at once if it is a SEQ.                             *)
Completes(h, a) ==
    /\ taken' = Append(taken, [header |-> h, from |-> a, to |-> pos + 1])
    /\ spc' = "frame" /\ pos' = pos + 1 /\ pos + 1 <= Len(input)
    /\ UNCHANGED <<input, rerr, ended, reader, pc>>
    /\ MayBegin(a) /\ a <= pos /\ input[a + 1] = h /\ h.ok
    /\ IF h.kw = "SEQ" THEN a = pos ELSE pos + 1 = a + h.size + 2 /\ input[pos + 1] = END
    /\ Avail <= MaxRead /\ spc \in {"header", "trailer"}

LEMMA ScanCompletes ==
    ASSUME TypeOK, FramingInv, UNCHANGED parserVars,
           ScanSEQ \/ (ScanTrailer /\ Unit = END)
    PROVE  \E h \in HeaderLines, a \in Nat : Completes(h, a)
<1> USE DEF FramingInv
<1>1. UNCHANGED <<ended, reader, pc>> /\ ScannerTypeOK
  BY TypeParts DEF parserVars, configVars
<1>2. CASE ScanSEQ
  <2>1. /\ Unit \in HeaderLines /\ pos \in Nat /\ pos + 1 <= Len(input)
        /\ Unit.ok /\ Unit.kw = "SEQ" /\ Unit = input[pos + 1]
    BY <1>1, <1>2, ReadUnit, Shape DEF ScanSEQ, Acceptable, Unit
  <2>2. MayBegin(pos) /\ Avail <= MaxRead
    BY <1>2 DEF ScanSEQ, Position, Buffered
  <2>3. Completes(Unit, pos)
    BY <1>1, <1>2, <2>1, <2>2, Shape DEF ScanSEQ, ScanReturns, Completes
  <2> QED
    BY <2>1, <2>3
<1>3. CASE ScanTrailer /\ Unit = END
  <2>1. pos + 1 <= Len(input) /\ input[pos + 1] = END
    BY <1>1, <1>3, ReadUnit DEF ScanTrailer, Unit
  <2>2. /\ MayBegin(start) /\ start < pos /\ input[start + 1] = header /\ header.ok
        /\ header.kw # "SEQ" /\ pos = start + 1 + header.size /\ Avail <= MaxRead
    BY <1>3 DEF ScanTrailer, Position, Buffered
  <2>3. pos + 1 = start + header.size + 2 /\ start <= pos
    BY <2>2, Shape
  <2>4. Completes(header, start)
    BY <1>1, <1>3, <2>1, <2>2, <2>3 DEF ScanTrailer, ScanReturns, Completes
  <2> QED
    BY <2>4, Shape
<1> QED
  BY <1>2, <1>3

(* A frame is added behind the others, in the exchange under way. *)
LEMMA FrameFraming ==
    ASSUME TypeOK, TypeOK', FramingInv, UNCHANGED parserVars,
           ScanSEQ \/ (ScanTrailer /\ Unit = END)
    PROVE  FramingInv'
<1> USE DEF FramingInv
<1>c. PICK h \in HeaderLines, a \in Nat : Completes(h, a)
  BY ScanCompletes
<1> DEFINE n == Len(taken) + 1
           frame == [header |-> h, from |-> a, to |-> pos + 1]
<1>1. /\ Len(taken') = n /\ taken'[n] = frame /\ n \in Nat \ {0}
      /\ \A i \in 1..Len(taken) : taken'[i] = taken[i]
      /\ DOMAIN taken' = 1..n
  <2>1. taken \in Seq(Frames) /\ frame \in Frames /\ taken' = Append(taken, frame)
    BY <1>c, TypeParts, Shape DEF Completes, ScannerTypeOK, Frames
  <2> QED
    BY <2>1
<1>2. /\ UNCHANGED <<input, rerr, ended, reader, pc>>
      /\ spc' = "frame" /\ pos' = pos + 1 /\ pos + 1 <= Len(input)
      /\ spc \in {"header", "trailer"} /\ Begun' = Begun
  BY <1>c DEF Completes, Begun
<1>3. Extends
  BY <1>1, <1>2, Shape DEF Extends
<1>4. Position'
  <2>1. taken' # <<>>
    BY <1>1
  <2>2. LastEnd' = pos + 1
    BY <1>1, <2>1 DEF LastEnd
  <2> QED
    BY <1>2, <2>1, <2>2 DEF Position
<1>5. Buffered'
  BY <1>c, <1>2, Shape, BeepAssumption DEF Completes, Buffered, Avail
<1>6. FramesBehind'
  <2>1. ASSUME NEW i \in 1..n PROVE taken'[i].from < taken'[i].to /\ taken'[i].to <= pos'
    <3>1. CASE i = n
      BY <1>c, <1>1, <1>2, <3>1, Shape DEF Completes
    <3>2. CASE i # n
      <4>1. i \in 1..Len(taken)
        BY <1>1, <3>2, Shape
      <4> QED
        BY <1>1, <1>2, <4>1, Shape DEF FramesBehind
    <3> QED
      BY <3>1, <3>2
  <2> QED
    BY <1>1, <2>1 DEF FramesBehind
<1>7. Exchange'
  <2>1. Begun \in Nat /\ 1 <= Begun /\ Begun <= n
    BY BegunType DEF Exchange
  <2>2. \A k \in Begun..Len(taken) : taken[k].header.kw \notin {"NUL", "ERR"}
    BY <1>2 DEF Exchange
  <2>3. \A k \in Begun..n : k # n => k \in Begun..Len(taken) /\ k \in 1..Len(taken)
    <3>1. Len(taken) \in Nat /\ n = Len(taken) + 1
      BY Shape
    <3> DEFINE b == Begun
               l == Len(taken)
    <3> HIDE DEF b, l
    <3>2. ASSUME NEW k \in b..l + 1, k # l + 1 PROVE k \in b..l /\ k \in 1..l
      BY <2>1, <3>1, <3>2 DEF b, l
    <3> QED
      BY <3>1, <3>2 DEF b, l
  <2>4. \A j \in DOMAIN ended : ended[j].frames <= n
    <3>1. ASSUME NEW j \in 1..Len(ended) PROVE ended[j].frames <= n
      <4>1. ended[j].frames <= Len(taken) /\ ended[j].frames \in Nat
        BY Shape DEF Exchange
      <4> QED
        BY <4>1, Shape
    <3> QED
      BY <3>1, Shape
  <2> QED
    BY <1>1, <1>2, <2>1, <2>2, <2>3, <2>4 DEF Exchange
<1>8. BetweenCalls'
  BY <1>2 DEF BetweenCalls
<1>9. FramesCutExactly'
  <2>1. ASSUME NEW i \in 1..n, i = n PROVE CutExactly(i)'
    <3>1. (IF i = 1 THEN 0 ELSE taken'[i - 1].to) = LastEnd
      BY <1>1, <2>1, Shape DEF LastEnd
    <3>2. /\ LastEnd <= a
          /\ LastEnd < a => /\ reader = "plain" /\ a - LastEnd < MaxRead
                            /\ \E j \in DOMAIN ended : ended[j].frames = i - 1
      BY <1>c, <2>1, Shape DEF Completes, MayBegin
    <3>3. /\ input[a + 1] = h /\ h.ok
          /\ IF h.kw = "SEQ" THEN pos + 1 = a + 1
             ELSE pos + 1 = a + h.size + 2 /\ input[pos + 1] = END
      BY <1>c DEF Completes
    <3>4. /\ taken'[i].header = h /\ taken'[i].from = a /\ taken'[i].to = pos + 1
          /\ input' = input /\ reader' = reader /\ ended' = ended
      BY <1>1, <1>2, <2>1
    <3> QED
      BY <3>1, <3>2, <3>3, <3>4 DEF CutExactly
  <2>2. \A i \in 1..Len(taken) : CutExactly(i)'
    BY <1>3, CutStable, CutExactlyAll, Shape
  <2>3. \A i \in 1..n : i = n \/ i \in 1..Len(taken)
    BY Shape
  <2>4. ASSUME NEW i \in 1..n PROVE CutExactly(i)'
    <3>1. CASE i = n
      BY <2>1, <3>1
    <3>2. CASE i \in 1..Len(taken)
      BY <2>2, <3>2
    <3> QED
      BY <2>3, <3>1, <3>2
  <2> QED
    BY <1>1, <2>4, CutExactlyAll, Zenon
<1>10. ExchangeEndsOnce'
  <2>1. \A j \in 1..Len(ended) : EndsRight(j)'
    BY <1>2, <1>3, EndStable, EndsRightAll, Shape
  <2> QED
    BY <1>2, <2>1, EndsRightAll, Shape, Zenon
<1> QED
  BY <1>4, <1>5, <1>6, <1>7, <1>8, <1>9, <1>10

-----------------------------------------------------------------------------
(* Steps of the parsers. *)

(* The loop goes on after a frame that does not end the exchange, and       *)
(* returns on one that does, at the end or on an error of the framing.      *)
LEMMA LoopEnds ==
    ASSUME loop
    PROVE  \/ /\ spc = "frame" /\ Continue
              /\ Frame.header.kw \notin {"NUL", "ERR"}
           \/ /\ spc = "frame"
              /\ \E how \in {"NUL", "ERR"} : Frame.header.kw = how /\ Return(how)
           \/ spc = "eof" /\ Return("EOF")
           \/ spc = "error" /\ Return("scan")
<1>1. CASE processANS
  BY <1>1, ProcessANSEmits DEF On, Carrying
<1>2. CASE processPayload
  BY <1>2, ProcessPayloadEmits DEF On, Carrying
<1>3. CASE OnSkipped
  BY <1>3 DEF OnSkipped, On
<1>4. CASE OnEOF \/ OnScanError \/ OnNUL \/ OnERR
  BY <1>4 DEF OnEOF, OnScanError, OnNUL, OnERR, On
<1> QED
  BY <1>1, <1>2, <1>3, <1>4 DEF loop

(* Going on to the next frame. *)
LEMMA ContinueFraming ==
    ASSUME TypeOK, TypeOK', FramingInv, UNCHANGED loopRest, spc = "frame", Continue,
           Frame.header.kw \notin {"NUL", "ERR"}
    PROVE  FramingInv'
<1> USE DEF FramingInv
<1>1. /\ UNCHANGED <<input, rerr, taken, ended, reader, pos>>
      /\ spc' = "header" /\ pc' = "loop"
  BY DEF Continue, loopRest, readerVars, configVars
<1>2. FramesCutExactly' /\ ExchangeEndsOnce' /\ FramesBehind'
  <2>1. pos <= pos'
    BY <1>1, Shape
  <2> QED
    BY <1>1, <2>1, NoFrameFraming
<1>3. LastEnd' = LastEnd /\ Begun' = Begun /\ Avail' = Avail
  BY <1>1 DEF LastEnd, Begun, Avail
<1>4. Position'
  <2>1. LastEnd = pos
    BY DEF Position
  <2> QED
    BY <1>1, <1>3, <2>1, Shape DEF Position, MayBegin
<1>5. Buffered'
  BY <1>1, <1>3, Shape, BeepAssumption DEF Buffered, Avail
<1>6. Exchange' /\ BetweenCalls'
  BY <1>1, <1>3, Shape DEF Exchange, BetweenCalls, Frame
<1> QED
  BY <1>2, <1>4, <1>5, <1>6

(* Returning: how the call ended is recorded, and nothing of the exchange   *)
(* is left behind.                                                          *)
LEMMA ReturnFraming ==
    ASSUME TypeOK, TypeOK', FramingInv, UNCHANGED loopRest,
           NEW how \in {"EOF", "scan", "NUL", "ERR"}, Return(how),
           IF how = "EOF" THEN spc = "eof"
           ELSE IF how = "scan" THEN spc = "error"
           ELSE spc = "frame" /\ Frame.header.kw = how
    PROVE  FramingInv'
<1> USE DEF FramingInv
<1> DEFINE n == Len(ended) + 1
<1>1. /\ UNCHANGED <<input, rerr, taken, reader, pos>>
      /\ spc' = "closed" /\ pc' = "idle"
      /\ Len(ended') = n /\ \A j \in 1..Len(ended) : ended'[j] = ended[j]
      /\ ended'[n] = [how |-> how, at |-> pos, frames |-> Len(taken)]
      /\ ended' # <<>> /\ DOMAIN ended' = 1..n /\ n \in Nat
  <2>1. ended' \in Seq(Endings) /\ Len(ended') = Len(ended) + 1
    BY ReturnType
  <2>2. ended' # <<>> /\ DOMAIN ended' = 1..Len(ended')
    BY <2>1, Shape
  <2>3. UNCHANGED <<input, rerr, taken, reader, pos>>
    BY DEF loopRest, readerVars, configVars
  <2> QED
    BY <2>1, <2>2, <2>3, ReturnType, Shape
<1>2. Extends
  BY <1>1, Shape DEF Extends
<1>3. LastEnd' = LastEnd /\ Avail' = Avail /\ Begun' = Len(taken) + 1
  BY <1>1 DEF LastEnd, Avail, Begun
<1>4. Position' /\ Buffered' /\ FramesBehind'
  BY <1>1 DEF Position, Buffered, FramesBehind
<1>5. Exchange'
  <2>1. ASSUME NEW j \in 1..n PROVE ended'[j].frames <= Len(taken)
    <3>1. CASE j = n
      BY <1>1, <3>1, Shape
    <3>2. CASE j \in 1..Len(ended)
      BY <1>1, <3>2, Shape DEF Exchange
    <3> QED
      BY <3>1, <3>2, Shape
  <2>2. \A k \in (Len(taken) + 1)..Len(taken) : FALSE
    BY Shape
  <2>3. Len(taken) + 1 <= Len(taken) + 1
    BY Shape
  <2> QED
    BY <1>1, <1>3, <2>1, <2>2, <2>3 DEF Exchange
<1>6. BetweenCalls'
  <2>1. how \in {"NUL", "ERR"} => LastEnd = pos /\ Avail < MaxRead
    BY DEF Position, Buffered
  <2> QED
    BY <1>1, <1>3, <2>1, Shape DEF BetweenCalls
<1>7. FramesCutExactly'
  BY <1>1, <1>2, CutStable, CutExactlyAll, Shape, Zenon
<1>8. ExchangeEndsOnce'
  <2>1. \A j \in 1..Len(ended) : EndsRight(j)'
    BY <1>1, <1>2, EndStable, EndsRightAll, Shape
  <2>2. ASSUME NEW j \in 1..n, j = n PROVE EndsRight(j)'
    <3>1. (IF j = 1 THEN 1 ELSE ended'[j - 1].frames + 1) = Begun
      BY <1>1, <2>2, Shape DEF Begun
    <3>2. /\ ended'[j].how = how /\ ended'[j].frames = Len(taken) /\ ended'[j].at = pos
          /\ taken' = taken /\ rerr' = rerr /\ input' = input
      BY <1>1, <2>2
    <3>3. ASSUME NEW k \in Begun..(Len(taken) - 1)
          PROVE  taken[k].header.kw \notin {"NUL", "ERR"}
      <4>1. k \in Begun..Len(taken) /\ k # Len(taken)
        BY BegunType, Shape
      <4> QED
        BY <4>1 DEF Exchange
    <3>4. how \in {"NUL", "ERR"} =>
             /\ Len(taken) >= Begun /\ taken[Len(taken)].header.kw = how
             /\ pos = taken[Len(taken)].to
      BY BegunType, Shape DEF Exchange, Frame, Position, LastEnd
    <3>5. how \notin {"NUL", "ERR"} =>
             (Len(taken) >= Begun => taken[Len(taken)].header.kw \notin {"NUL", "ERR"})
      <4>1. how \notin {"NUL", "ERR"} => spc # "frame"
        OBVIOUS
      <4>2. Len(taken) >= Begun => Len(taken) \in Begun..Len(taken)
        BY BegunType, Shape
      <4> QED
        BY <4>1, <4>2 DEF Exchange
    <3>6. how = "EOF" => rerr = "EOF" /\ pos = Len(input)
      BY DEF Position
    <3>7. EndsRight(j)' <=>
            /\ \A k \in Begun..(Len(taken) - 1) : taken[k].header.kw \notin {"NUL", "ERR"}
            /\ IF how \in {"NUL", "ERR"}
               THEN /\ Len(taken) >= Begun /\ taken[Len(taken)].header.kw = how
                    /\ pos = taken[Len(taken)].to
               ELSE Len(taken) >= Begun => taken[Len(taken)].header.kw \notin {"NUL", "ERR"}
            /\ how = "EOF" => rerr = "EOF" /\ pos = Len(input)
      BY <3>1, <3>2 DEF EndsRight
    <3> QED
      BY <3>3, <3>4, <3>5, <3>6, <3>7
  <2>3. \A j \in 1..n : j = n \/ j \in 1..Len(ended)
    BY Shape
  <2>4. ASSUME NEW j \in 1..n PROVE EndsRight(j)'
    BY <2>1, <2>2, <2>3
  <2> QED
    BY <1>1, <2>4, EndsRightAll, Zenon
<1> QED
  BY <1>4, <1>5, <1>6, <1>7, <1>8

(* The next Parse begins behind the exchange before, unless the peer sent   *)
(* more and a plain reader was read ahead.                                  *)
LEMMA ParseFraming ==
    ASSUME TypeOK, TypeOK', FramingInv, Parse
    PROVE  FramingInv'
<1> USE DEF FramingInv
<1>1. /\ UNCHANGED <<input, rerr, taken, ended, reader>>
      /\ spc' = "header" /\ pc' = "loop" /\ pc = "idle"
      /\ pos' = IF reader = "bufio" THEN pos ELSE Len(input)
  BY DEF Parse, NewScanner, configVars
<1>2. pos <= pos' /\ Avail' <= Avail /\ Avail \in Nat
  BY <1>1, Shape DEF Avail
<1>3. FramesCutExactly' /\ ExchangeEndsOnce' /\ FramesBehind'
  BY <1>1, <1>2, NoFrameFraming
<1>4. LastEnd' = LastEnd /\ Begun' = Begun /\ Begun = Len(taken) + 1
  BY <1>1 DEF LastEnd, Begun, BetweenCalls
<1>5. LastEnd = pos /\ Avail < MaxRead
  <2>1. CASE ended = <<>>
    BY <1>1, <2>1, Shape, BeepAssumption DEF BetweenCalls, LastEnd, Avail
  <2>2. CASE ended # <<>>
    BY <1>1, <2>2 DEF Parse, BetweenCalls
  <2> QED
    BY <2>1, <2>2
<1>6. Position'
  <2>1. CASE ended = <<>>
    BY <1>1, <1>4, <2>1, Shape DEF BetweenCalls, LastEnd, Position, MayBegin
  <2>2. CASE ended # <<>>
    <3>1. Len(ended) \in DOMAIN ended /\ ended[Len(ended)].frames = Len(taken)
      <4>1. Len(ended) \in 1..Len(ended) /\ Begun = ended[Len(ended)].frames + 1
        BY <2>2, Shape DEF Begun
      <4> QED
        BY <1>4, <4>1, Shape
    <3>2. reader \in {"plain", "bufio"}
      BY DEF TypeOK
    <3>3. pos' = pos \/ (reader = "plain" /\ pos' = Len(input))
      BY <1>1, <3>2
    <3> QED
      BY <1>1, <1>2, <1>4, <1>5, <3>1, <3>3, Shape DEF Position, MayBegin, Avail
  <2> QED
    BY <2>1, <2>2
<1>7. Buffered'
  BY <1>1, <1>2, <1>5, Shape, BeepAssumption DEF Buffered, Avail
<1>8. Exchange' /\ BetweenCalls'
  BY <1>1, <1>4, Shape DEF Exchange, BetweenCalls
<1> QED
  BY <1>3, <1>6, <1>7, <1>8

(* Every step keeps the framing. *)
LEMMA FramingStep == TypeOK /\ FramingInv /\ [Next]_vars => FramingInv'
<1> SUFFICES ASSUME TypeOK, FramingInv, [Next]_vars PROVE FramingInv'
  OBVIOUS
<1>t. TypeOK'
  BY TypeStep
<1>1. CASE Parse
  BY <1>1, <1>t, ParseFraming
<1>2. CASE loop
  <2>1. UNCHANGED loopRest
    BY <1>2, LoopStep
  <2>2. CASE /\ spc = "frame" /\ Continue /\ Frame.header.kw \notin {"NUL", "ERR"}
    BY <1>t, <2>1, <2>2, ContinueFraming
  <2>3. ASSUME NEW how \in {"NUL", "ERR"}, spc = "frame", Frame.header.kw = how, Return(how)
        PROVE  FramingInv'
    BY <1>t, <2>1, <2>3, ReturnFraming
  <2>4. CASE \/ spc = "eof" /\ Return("EOF")
             \/ spc = "error" /\ Return("scan")
    BY <1>t, <2>1, <2>4, ReturnFraming
  <2> QED
    BY <1>2, <2>2, <2>3, <2>4, LoopEnds
<1>3. CASE Lexer
  <2>1. CASE Fill \/ ReadAhead
    BY <1>3, <1>t, <2>1, ConnectionFraming DEF Lexer
  <2>2. CASE \/ ScanEnd \/ ScanBadHeader \/ ScanHeader \/ ScanPayload \/ ScanShort
             \/ ScanTrailer /\ Unit # END
    BY <1>3, <1>t, <2>2, ScanQuietFraming DEF Lexer
  <2>3. CASE ScanSEQ \/ (ScanTrailer /\ Unit = END)
    BY <1>3, <1>t, <2>3, FrameFraming DEF Lexer
  <2> QED
    BY <1>3, <2>1, <2>2, <2>3 DEF Lexer, ScanStep
<1>4. ASSUME UNCHANGED framing PROVE FramingInv'
  <2>1. /\ UNCHANGED <<input, rerr, taken, ended, reader, pos>> /\ pos <= pos'
        /\ UNCHANGED <<spc, start, header, pc>>
    BY <1>4, Shape DEF framing
  <2>2. FramesCutExactly' /\ ExchangeEndsOnce' /\ FramesBehind'
    BY <1>t, <2>1, NoFrameFraming
  <2>3. LastEnd' = LastEnd /\ Begun' = Begun /\ Avail' = Avail
    BY <2>1 DEF LastEnd, Begun, Avail
  <2>4. Position' /\ Buffered'
    BY <2>1, <2>3 DEF FramingInv, Position, Buffered, MayBegin
  <2>5. Exchange' /\ BetweenCalls'
    BY <2>1, <2>3 DEF FramingInv, Exchange, BetweenCalls
  <2> QED
    BY <2>2, <2>4, <2>5 DEF FramingInv
<1>5. CASE WithBestEffort
  BY <1>4, <1>5 DEF WithBestEffort, scannerVars, readerVars, framing
<1>6. ASSUME NEW n \in MaxLengths, WithMaxMessageLength(n) PROVE FramingInv'
  BY <1>4, <1>6 DEF WithMaxMessageLength, scannerVars, readerVars, framing
<1>7. CASE UNCHANGED vars
  BY <1>4, <1>7 DEF vars, scannerVars, readerVars, parserVars, configVars, framing
<1> QED
  BY <1>1, <1>2, <1>3, <1>5, <1>6, <1>7 DEF Next

-----------------------------------------------------------------------------
(* Results. *)

(* The messages emitted so far lose nothing, nor does the one that a step   *)
(* may add.                                                                 *)
LEMMA PriorityStep == TypeOK /\ PriorityWithoutLoss /\ [Next]_vars => PriorityWithoutLoss'
<1> SUFFICES ASSUME TypeOK, PriorityWithoutLoss, [Next]_vars PROVE PriorityWithoutLoss'
  OBVIOUS
<1>a. \A i \in DOMAIN out : Lossless(out[i].msg)
  BY DEF PriorityWithoutLoss, Lossless
<1>b. ASSUME \A i \in DOMAIN out' : Lossless(out'[i].msg) PROVE PriorityWithoutLoss'
  BY <1>b, Zenon DEF PriorityWithoutLoss, Lossless
<1>o. out \in Seq(Emitted)
  BY TypeParts
<1>e. ASSUME NEW m, NEW e, NEW n, Lossless(m),
             out' = Append(out, [msg |-> m, err |-> e, frame |-> n])
      PROVE  PriorityWithoutLoss'
  <2>1. /\ DOMAIN out' = 1..(Len(out) + 1) /\ DOMAIN out = 1..Len(out) /\ Len(out) \in Nat
        /\ \A i \in 1..Len(out) : out'[i] = out[i]
        /\ out'[Len(out) + 1] = [msg |-> m, err |-> e, frame |-> n]
    BY <1>e, <1>o
  <2>2. ASSUME NEW i \in 1..(Len(out) + 1) PROVE Lossless(out'[i].msg)
    <3>1. CASE i = Len(out) + 1
      BY <1>e, <2>1, <3>1
    <3>2. CASE i \in 1..Len(out)
      BY <1>a, <2>1, <3>2
    <3> QED
      BY <2>1, <3>1, <3>2
  <2> QED
    BY <1>b, <2>1, <2>2
<1>u. ASSUME out' = out PROVE PriorityWithoutLoss'
  BY <1>a, <1>b, <1>u
<1>1. CASE loop
  BY <1>1, <1>e, <1>u, LoopStep, PlainLossless DEF Emits, EmitsFailure
<1>2. out' = out \/ loop
  BY DEF Next, Parse, WithBestEffort, WithMaxMessageLength, Lexer, parserVars, vars
<1> QED
  BY <1>1, <1>2, <1>u

(* The frames that are done with, and those of them that carry a message. *)
Handled  == Len(taken) - (IF spc = "frame" THEN 1 ELSE 0)
Carriers == {k \in 1..Handled : Carries(taken[k])}
InOrder  == \A i, j \in {n \in DOMAIN out : out[n].frame # 0} :
                i < j => out[i].frame < out[j].frame
OneResultEach == {out[i].frame : i \in {n \in DOMAIN out : out[n].frame # 0}} = Carriers

(* A payload is not changed by what comes in behind it. *)
LEMMA PayloadStable ==
    ASSUME TypeOK, TypeOK', Extends, FramesBehind, NEW k \in 1..Len(taken)
    PROVE  Payload(taken[k])' = Payload(taken[k])
<1> DEFINE a == taken[k].from + 2
           b == taken[k].to - 1
<1>1. a \in Int /\ b \in Int /\ 1 <= a /\ b <= Len(input) /\ Len(input) \in Nat
  BY Shape DEF FramesBehind
<1>2. input \in Seq(Received) /\ input' \in Seq(Received) /\ taken'[k] = taken[k]
  BY DEF TypeOK, ScannerTypeOK, Received, Extends
<1>3. \A i \in a..b : i \in 1..Len(input) /\ input'[i] = input[i] /\ input[i] \in Received
  BY <1>1, <1>2 DEF Extends
<1> HIDE DEF a, b
<1>4. /\ SubSeq(input, a, b) \in Seq(Received)
      /\ Len(SubSeq(input, a, b)) = IF a <= b THEN b - a + 1 ELSE 0
      /\ \A i \in 1..(b - a + 1) : SubSeq(input, a, b)[i] = input[a + i - 1]
  BY <1>1, <1>3, SubSeqProperties
<1>5. /\ SubSeq(input', a, b) \in Seq(Received)
      /\ Len(SubSeq(input', a, b)) = IF a <= b THEN b - a + 1 ELSE 0
      /\ \A i \in 1..(b - a + 1) : SubSeq(input', a, b)[i] = input'[a + i - 1]
  BY <1>1, <1>3, SubSeqProperties
<1>6. \A i \in 1..Len(SubSeq(input, a, b)) : SubSeq(input, a, b)[i] = SubSeq(input', a, b)[i]
  BY <1>1, <1>3, <1>4, <1>5
<1>7. SubSeq(input, a, b) = SubSeq(input', a, b)
  BY <1>4, <1>5, <1>6, SeqEqual
<1> QED
  BY <1>2, <1>7 DEF Payload, a, b

(* The property in its parts. *)
LEMMA OneResultParts ==
    /\ OneResultPerMessage => (profile = "raw" => OneResultEach /\ InOrder)
    /\ (profile' = "raw" => OneResultEach' /\ InOrder') => OneResultPerMessage'
  BY Zenon DEF OneResultPerMessage, OneResultEach, InOrder, Carriers, Handled

(* Whether a frame carries a message does not change. *)
LEMMA CarriesStable ==
    ASSUME TypeOK, TypeOK', Extends, FramesBehind, UNCHANGED profile,
           NEW k \in 1..Len(taken)
    PROVE  Carries(taken[k])' <=> Carries(taken[k])
<1>1. taken'[k] = taken[k] /\ Carrying' = Carrying
  BY DEF Extends, Carrying
<1>2. Payload(taken[k])' = Payload(taken[k])
  BY PayloadStable
<1>3. Trimmed(Payload(taken[k]))' = Trimmed(Payload(taken[k]))
  BY <1>2 DEF Trimmed
<1> QED
  BY <1>1, <1>3 DEF Carries

(* Nor do the carrying frames, unless one more is done with. *)
LEMMA CarriersStable ==
    ASSUME TypeOK, TypeOK', Extends, FramesBehind, UNCHANGED profile,
           Handled' = Handled, Handled <= Len(taken)
    PROVE  Carriers' = Carriers
<1>1. Handled \in Int
  BY Shape DEF Handled
<1>2. \A k \in 1..Handled : k \in 1..Len(taken)
  BY <1>1, Shape
<1>3. \A k \in 1..Handled : Carries(taken[k])' <=> Carries(taken[k])
  BY <1>2, CarriesStable
<1>4. Carriers' = {k \in 1..Handled : Carries(taken[k])'}
  BY Zenon DEF Carriers
<1> QED
  BY <1>3, <1>4 DEF Carriers

(* A result of frame 0 is an error, not a message. *)
LEMMA OneResultKept ==
    ASSUME TypeOK, OneResultPerMessage, UNCHANGED profile, Carriers' = Carriers,
           out' = out \/ EmitsFailure
    PROVE  OneResultPerMessage'
<1>1. CASE out' = out
  BY <1>1, OneResultParts DEF OneResultEach, InOrder
<1>2. CASE EmitsFailure
  <2>1. PICK e : out' = Append(out, [msg |-> NoMessage, err |-> e, frame |-> 0])
    BY <1>2 DEF EmitsFailure
  <2>2. /\ DOMAIN out' = 1..(Len(out) + 1) /\ DOMAIN out = 1..Len(out) /\ Len(out) \in Nat
        /\ \A i \in 1..Len(out) : out'[i] = out[i]
        /\ out'[Len(out) + 1].frame = 0
    <3>1. out \in Seq(Emitted)
      BY TypeParts
    <3> QED
      BY <2>1, <3>1
  <2>3. {n \in DOMAIN out' : out'[n].frame # 0} = {n \in DOMAIN out : out[n].frame # 0}
    <3>1. \A n \in 1..(Len(out) + 1) : n \in 1..Len(out) \/ n = Len(out) + 1
      BY <2>2
    <3> QED
      BY <2>2, <3>1
  <2>4. \A n \in DOMAIN out : out'[n] = out[n]
    BY <2>2
  <2> QED
    BY <2>3, <2>4, OneResultParts DEF OneResultEach, InOrder
<1> QED
  BY <1>1, <1>2

(* The result of a carrying frame, which is behind those done with. *)
LEMMA OneResultAdded ==
    ASSUME TypeOK, OneResultPerMessage, UNCHANGED profile, NEW n \in Nat \ {0},
           profile = "raw" => /\ Carriers' = Carriers \cup {n}
                              /\ \A k \in Carriers : k < n,
           NEW m, NEW e, out' = Append(out, [msg |-> m, err |-> e, frame |-> n])
    PROVE  OneResultPerMessage'
<1> SUFFICES ASSUME profile = "raw" PROVE OneResultEach' /\ InOrder'
  BY OneResultParts
<1>1. OneResultEach /\ InOrder
  BY OneResultParts
<1>2. /\ DOMAIN out' = 1..(Len(out) + 1) /\ DOMAIN out = 1..Len(out) /\ Len(out) \in Nat
      /\ \A i \in 1..Len(out) : out'[i] = out[i]
      /\ out'[Len(out) + 1].frame = n
  <2>1. out \in Seq(Emitted)
    BY TypeParts
  <2> QED
    BY <2>1
<1> DEFINE Old == {i \in DOMAIN out : out[i].frame # 0}
           last == Len(out) + 1
<1>3. {i \in DOMAIN out' : out'[i].frame # 0} = Old \cup {last}
  <2>1. \A i \in 1..(Len(out) + 1) : i \in 1..Len(out) \/ i = last
    BY <1>2
  <2>2. last \in 1..(Len(out) + 1) /\ last \notin 1..Len(out)
    BY <1>2
  <2> QED
    BY <1>2, <2>1, <2>2
<1>4. \A i \in Old : i \in 1..Len(out) /\ out'[i] = out[i] /\ out[i].frame \in Carriers
  BY <1>1, <1>2 DEF OneResultEach
<1>5. OneResultEach'
  <2>1. {out'[i].frame : i \in Old \cup {last}} = {out[i].frame : i \in Old} \cup {n}
    BY <1>2, <1>4
  <2> QED
    BY <1>1, <1>3, <2>1 DEF OneResultEach
<1>6. InOrder'
  <2>1. ASSUME NEW i \in Old \cup {last}, NEW j \in Old \cup {last}, i < j
        PROVE  out'[i].frame < out'[j].frame
    <3>1. i \in Old
      BY <1>2, <1>4, <2>1
    <3>2. CASE j \in Old
      BY <1>1, <1>4, <2>1, <3>1, <3>2 DEF InOrder
    <3>3. CASE j = last
      BY <1>2, <1>4, <3>1, <3>3
    <3> QED
      BY <2>1, <3>2, <3>3
  <2> QED
    BY <1>3, <2>1 DEF InOrder
<1> QED
  BY <1>5, <1>6

(* What the loop leaves alone. *)
LEMMA LoopExtends ==
    ASSUME TypeOK, TypeOK', loop
    PROVE  /\ Extends /\ UNCHANGED profile /\ UNCHANGED taken
           /\ spc' \in {"header", "closed"} /\ spc \in {"eof", "error", "frame"}
<1>1. UNCHANGED <<input, taken, pos, reader, profile>>
  BY LoopStep DEF loopRest, readerVars, configVars
<1>2. Len(ended) <= Len(ended') /\ \A j \in 1..Len(ended) : ended'[j] = ended[j]
  <2>1. CASE Continue
    BY <2>1, Shape DEF Continue
  <2>2. ASSUME NEW how \in {"EOF", "scan", "NUL", "ERR"}, Return(how)
        PROVE  Len(ended) <= Len(ended') /\ \A j \in 1..Len(ended) : ended'[j] = ended[j]
    BY <2>2, ReturnType, Shape
  <2> QED
    BY <2>1, <2>2, LoopStep
<1>3. spc' \in {"header", "closed"} /\ spc \in {"eof", "error", "frame"}
  BY LoopStep DEF Continue, Return
<1> QED
  BY <1>1, <1>2, <1>3, Shape DEF Extends

(* The frame being handled is done with when the loop goes on or returns. *)
LEMMA FrameDone ==
    ASSUME TypeOK, TypeOK', FramingInv, loop, spc = "frame"
    PROVE  /\ Len(taken) \in Nat \ {0} /\ \A k \in Carriers : k < Len(taken)
           /\ Carriers' = Carriers \cup (IF Carries(Frame) THEN {Len(taken)} ELSE {})
<1> USE DEF FramingInv
<1>1. Len(taken) \in Nat \ {0}
  <2>1. Begun <= Len(taken)
    BY DEF Exchange
  <2>2. Begun \in Nat /\ 1 <= Begun /\ Len(taken) \in Nat
    BY BegunType, Shape
  <2> QED
    BY <2>1, <2>2
<1>2. Handled = Len(taken) - 1 /\ Handled' = Len(taken)
  BY <1>1, LoopExtends DEF Handled
<1>3. \A k \in Carriers : k < Len(taken)
  BY <1>1, <1>2 DEF Carriers
<1>4. \A k \in 1..Len(taken) : Carries(taken[k])' <=> Carries(taken[k])
  BY LoopExtends, CarriesStable
<1>5. Carriers' = {k \in 1..Len(taken) : Carries(taken[k])}
  <2>1. Carriers' = {k \in 1..Len(taken) : Carries(taken[k])'}
    BY <1>2, Zenon DEF Carriers
  <2> QED
    BY <1>4, <2>1
<1>6. \A k \in 1..Len(taken) : k = Len(taken) \/ k \in 1..Handled
  BY <1>1, <1>2
<1>7. 1..Handled \subseteq 1..Len(taken) /\ Len(taken) \in 1..Len(taken)
  BY <1>1, <1>2
<1> QED
  BY <1>1, <1>3, <1>5, <1>6, <1>7 DEF Carriers, Frame

(* A RAW exchange keeps one result per message. *)
LEMMA OneResultStep ==
    TypeOK /\ FramingInv /\ OneResultPerMessage /\ [Next]_vars => OneResultPerMessage'
<1> SUFFICES ASSUME TypeOK, FramingInv, OneResultPerMessage, [Next]_vars
             PROVE  OneResultPerMessage'
  OBVIOUS
<1>t. TypeOK'
  BY TypeStep
<1>h. Handled <= Len(taken) /\ FramesBehind
  BY Shape DEF Handled, FramingInv
<1>1. CASE loop
  <2>1. Extends /\ UNCHANGED profile /\ UNCHANGED taken
    BY <1>1, <1>t, LoopExtends
  <2>2. CASE spc # "frame"
    <3>1. Handled' = Handled
      BY <1>1, <1>t, <2>2, LoopExtends DEF Handled
    <3>2. out' = out \/ EmitsFailure
      <4>1. OnEOF \/ OnScanError
        BY <1>1, <2>2, ProcessANSEmits, ProcessPayloadEmits
           DEF loop, OnNUL, OnERR, OnSkipped, On
      <4>2. "scan" \in Errors
        BY DEF Errors
      <4> QED
        BY <4>1, <4>2 DEF OnEOF, OnScanError, Failure, EmitsFailure
    <3> QED
      BY <1>t, <1>h, <2>1, <3>1, <3>2, CarriersStable, OneResultKept
  <2>3. CASE spc = "frame"
    <3>0. /\ Len(taken) \in Nat \ {0} /\ \A k \in Carriers : k < Len(taken)
          /\ Carriers' = Carriers \cup (IF Carries(Frame) THEN {Len(taken)} ELSE {})
      BY <1>1, <1>t, <2>3, FrameDone
    <3>1. CASE OnNUL \/ OnERR \/ OnSkipped
      <4>1. ~Carries(Frame)
        BY <3>1 DEF OnNUL, OnERR, OnSkipped, On, Carries, Carrying
      <4>2. out' = out \/ EmitsFailure
        <5>1. "ERR" \in Errors
          BY DEF Errors
        <5> QED
          BY <3>1, <5>1 DEF OnNUL, OnERR, OnSkipped, Failure, EmitsFailure
      <4> QED
        BY <2>1, <3>0, <4>1, <4>2, OneResultKept
    <3>2. CASE processPayload
      <4>1. profile = "cooked"
        BY <3>2, ProcessPayloadEmits
      <4> QED
        BY <2>1, <4>1, OneResultParts
    <3>3. CASE processANS
      <4>1. CASE Trimmed(Payload(Frame)) = <<>>
        <5>1. ~Carries(Frame) /\ out' = out
          BY <3>3, <4>1, ProcessANSEmits DEF Carries
        <5> QED
          BY <2>1, <3>0, <5>1, OneResultKept
      <4>2. CASE Trimmed(Payload(Frame)) # <<>>
        <5>1. Carries(Frame)
          BY <3>3, <4>2, ProcessANSEmits DEF Carries, On
        <5>2. PICK m \in Messages, e \in Errors :
                      out' = Append(out, [msg |-> m, err |-> e, frame |-> Len(taken)])
          BY <3>3, <4>2, ProcessANSEmits
        <5> QED
          BY <2>1, <3>0, <5>1, <5>2, OneResultAdded
      <4> QED
        BY <4>1, <4>2
    <3>4. ~OnEOF /\ ~OnScanError
      BY <2>3 DEF OnEOF, OnScanError
    <3> QED
      BY <1>1, <3>1, <3>2, <3>3, <3>4 DEF loop
  <2> QED
    BY <2>2, <2>3
<1>2. CASE Lexer
  <2>1. UNCHANGED <<profile, out, reader, ended>>
    BY <1>2 DEF Lexer, parserVars, configVars
  <2>2. Extends /\ Handled' = Handled
    <3>1. CASE Fill \/ ReadAhead
      <4>1. ScannerTypeOK
        BY TypeParts
      <4> QED
        BY <2>1, <3>1, <4>1, ConnectionStep, Shape DEF Extends, Handled
    <3>2. CASE ScanSEQ \/ (ScanTrailer /\ Unit = END)
      <4>1. PICK h \in HeaderLines, a \in Nat : Completes(h, a)
        BY <1>2, <3>2, ScanCompletes DEF Lexer
      <4>2. taken \in Seq(Frames)
        BY TypeParts DEF ScannerTypeOK
      <4> QED
        BY <2>1, <4>1, <4>2, Shape DEF Completes, Extends, Handled
    <3>3. CASE \/ ScanEnd \/ ScanBadHeader \/ ScanHeader \/ ScanPayload \/ ScanShort
               \/ ScanTrailer /\ Unit # END
      <4>1. /\ UNCHANGED <<input, taken>> /\ spc # "frame" /\ spc' # "frame"
            /\ pos' \in {pos, pos + 1, pos + header.size, Len(input)}
        BY <3>3 DEF ScanEnd, ScanBadHeader, ScanHeader, ScanPayload, ScanShort, ScanTrailer,
                    ScanFails, readerVars
      <4> QED
        BY <2>1, <4>1, Shape DEF Extends, Handled
    <3> QED
      BY <1>2, <3>1, <3>2, <3>3 DEF Lexer, ScanStep
  <2> QED
    BY <1>t, <1>h, <2>1, <2>2, CarriersStable, OneResultKept
<1>3. CASE Parse
  <2>1. /\ UNCHANGED <<profile, out, reader, ended, input, taken>>
        /\ spc # "frame" /\ spc' # "frame" /\ pos' \in {pos, Len(input)}
    BY <1>3 DEF Parse, NewScanner, configVars, FramingInv, BetweenCalls
  <2>2. Extends /\ Handled' = Handled
    BY <2>1, Shape DEF Extends, Handled
  <2> QED
    BY <1>t, <1>h, <2>1, <2>2, CarriersStable, OneResultKept
<1>4. CASE \/ WithBestEffort \/ UNCHANGED vars
           \/ \E n \in MaxLengths : WithMaxMessageLength(n)
  <2>1. UNCHANGED <<profile, out, reader, ended, input, taken, spc, pos>>
    BY <1>4 DEF WithBestEffort, WithMaxMessageLength, vars, scannerVars, readerVars, parserVars,
                configVars
  <2>2. Extends /\ Handled' = Handled
    BY <2>1, Shape DEF Extends, Handled
  <2> QED
    BY <1>t, <1>h, <2>1, <2>2, CarriersStable, OneResultKept
<1> QED
  BY <1>1, <1>2, <1>3, <1>4 DEF Next

-----------------------------------------------------------------------------
(* The invariant and the properties it was made for. *)

LEMMA InitInv == Init => IInv
<1> SUFFICES ASSUME Init PROVE IInv
  OBVIOUS
<1>1. TypeOK
  BY InitType
<1>2. /\ input = <<>> /\ pos = 0 /\ spc = "closed" /\ taken = <<>>
      /\ ended = <<>> /\ out = <<>> /\ pc = "idle"
  BY DEF Init, ScannerInit
<1>3. FramingInv
  BY <1>1, <1>2, BegunType
     DEF FramingInv, Position, Buffered, FramesBehind, Exchange, BetweenCalls,
         FramesCutExactly, ExchangeEndsOnce, Begun
<1>4. OneResultPerMessage
  BY <1>2 DEF OneResultPerMessage
<1>5. PriorityWithoutLoss
  BY <1>2 DEF PriorityWithoutLoss
<1> QED
  BY <1>1, <1>3, <1>4, <1>5 DEF IInv

(* The invariant holds in every reachable state. *)
LEMMA Invariant == Spec => []IInv
<1>1. IInv /\ [Next]_vars => IInv'
  BY TypeStep, FramingStep, OneResultStep, PriorityStep DEF IInv
<1> QED
  BY <1>1, InitInv, PTL DEF Spec

(* Frames are cut out of the connection as RFC 3080 delimits them           *)
(* (frame.go:110-261), whatever their payloads look like, wherever the      *)
(* connection ends and whoever reads ahead.                                 *)
THEOREM FramesAreCutExactly == Spec => []FramesCutExactly
<1>1. IInv => FramesCutExactly
  BY DEF IInv, FramingInv
<1> QED
  BY <1>1, Invariant, PTL

(* An exchange ends with its NUL or ERR and a Parse call with its exchange; *)
(* a silent return means that the peer closed between two frames            *)
(* (raw.go:99-133, cooked.go:111-147).                                      *)
THEOREM ExchangesEndOnce == Spec => []ExchangeEndsOnce
<1>1. IInv => ExchangeEndsOnce
  BY DEF IInv, FramingInv
<1> QED
  BY <1>1, Invariant, PTL

(* Each message of a RAW exchange has one result, in order                  *)
(* (raw.go:111-163).                                                        *)
THEOREM OneResultForEachMessage == Spec => []OneResultPerMessage
<1>1. IInv => OneResultPerMessage
  BY DEF IInv
<1> QED
  BY <1>1, Invariant, PTL

(* The priority of a COOKED message gives its facility and severity back,   *)
(* and is absent only where they do not fit (cooked.go:217-227).            *)
THEOREM PriorityLosesNothing == Spec => []PriorityWithoutLoss
<1>1. IInv => PriorityWithoutLoss
  BY DEF IInv
<1> QED
  BY <1>1, Invariant, PTL
=============================================================================
