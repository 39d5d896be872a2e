---------------------------- MODULE BeepScanner ----------------------------
(***************************************************************************)
(* The scanner of BEEP frames (rfc3195/frame.go).                          *)
(*                                                                         *)
(* A connection is a sequence of units: header lines, END trailers, and    *)
(* other bytes, here CRLF.  Sizes count units.  The peer sends frames,     *)
(* whose payloads may hold what looks like a header or a trailer, and      *)
(* MaxFaults times it sends something else than is due.  The connection    *)
(* may end or fail anywhere, also within a unit, and one Read may bring    *)
(* more units than were asked for.                                         *)
(***************************************************************************)
EXTENDS Integers, Sequences

CONSTANTS
    Headers,               \* the header lines a peer may send
    Lookalikes,            \* those of them that are sent where none is due
    MaxUnits,              \* bound: units one connection delivers
    MaxRead,               \* bound: units one Read brings
    MaxFaults,             \* bound: units sent out of place
    DefaultMaxPayloadSize, \* limit when none is configured (2 MB)
    MaxLengths             \* limits a caller may configure

Keywords == {"MSG", "RPY", "ERR", "ANS", "NUL", "SEQ"}

(* ok is FALSE for every line that is no header: too long, without CRLF,    *)
(* empty, an unknown keyword, a wrong number of fields, or a field that is  *)
(* no number in range (parseInt31, parseUint32, parseContinuation).         *)
HeaderLines == [u : {"header"}, ok : BOOLEAN, kw : Keywords, more : BOOLEAN, size : Nat]

ASSUME BeepAssumption ==
    /\ \A h \in Headers : h \in HeaderLines
    /\ Lookalikes \subseteq Headers
    /\ MaxUnits \in Nat /\ MaxFaults \in Nat /\ MaxRead \in Nat \ {0}
    /\ DefaultMaxPayloadSize \in Nat \ {0}
    /\ MaxLengths \subseteq Int

CRLF  == [u |-> "crlf"]
END   == [u |-> "END"]
Others == {CRLF, END} \cup Lookalikes
Units  == Headers \cup Others

VARIABLES
    due, faults,      \* the peer: units it owes of its frame, faults made
    input, pos, rerr, \* bufio.Reader: units received, units consumed, how it ended
    maxPayloadSize,   \* 0 stands for no limit
    spc,              \* where Scan is
    start, header,    \* the frame being read: units before it, its header
    taken             \* every frame Scan returned on this connection

peerVars    == <<due, faults>>
readerVars  == <<peerVars, input, pos, rerr>>
scannerVars == <<readerVars, maxPayloadSize, spc, start, header, taken>>

NoHeader == [u |-> "header", ok |-> FALSE, kw |-> "NUL", more |-> FALSE, size |-> 0]
Avail    == Len(input) - pos
Unit     == input[pos + 1]
Needs(n) == Avail >= n

(* The peer's next unit: 0 units due, it begins a frame; the last one due   *)
(* is the trailer.                                                          *)
InPlace(d, u) == IF d = 0 THEN u \in Headers
                 ELSE IF d = 1 THEN u = END
                 ELSE u \in Others
DueAfter(d, u) == IF d > 0 THEN d - 1
                  ELSE IF u \in Headers /\ u.kw # "SEQ" THEN u.size + 1 ELSE 0
Send(u) == /\ due' = DueAfter(due, u)
           /\ faults' = IF InPlace(due, u) THEN faults ELSE faults + 1
           /\ faults' <= MaxFaults /\ (due > 0 => u \in Others)
           /\ input' = Append(input, u)

Waiting == \/ spc \in {"header", "trailer"} /\ ~Needs(1)
           \/ spc = "payload" /\ ~Needs(header.size)

(* A Read of the connection: a unit that is waited for, the end (between    *)
(* two units, or "cut" within one), or an error.                            *)
Fill ==
    /\ Waiting /\ rerr = "nil"
    /\ \/ /\ Len(input) < MaxUnits
          /\ \E u \in Units : Send(u)
          /\ UNCHANGED rerr
       \/ /\ rerr' \in {"EOF", "cut", "err"}
          /\ UNCHANGED <<peerVars, input>>
    /\ UNCHANGED <<pos, maxPayloadSize, spc, start, header, taken>>

(* The same Read may bring more than was waited for.  When units came does  *)
(* not matter unless the scanner is given up before they are consumed, so   *)
(* it is enough to let them come just before an exchange may end.           *)
ReadAhead ==
    /\ spc = "trailer" /\ header.kw \in {"NUL", "ERR"} /\ rerr = "nil"
    /\ Needs(1) /\ ~Needs(MaxRead) /\ Len(input) < MaxUnits
    /\ \E u \in Units : Send(u)
    /\ UNCHANGED <<rerr, pos, maxPayloadSize, spc, start, header, taken>>

(* NewScanner on a reader that is a bufio.Reader already, or on a plain one *)
(* that it wraps in a new one: what an earlier scanner's bufio.Reader had   *)
(* read ahead of a plain reader is gone.                                    *)
NewScanner(reader, limit) ==
    /\ maxPayloadSize' = IF limit > 0 THEN limit ELSE DefaultMaxPayloadSize
    /\ pos' = IF reader = "bufio" THEN pos ELSE Len(input)
    /\ spc' = "header" /\ start' = pos'
    /\ UNCHANGED <<peerVars, input, rerr, header, taken>>

ScanFails == spc' = "error" /\ UNCHANGED <<peerVars, input, rerr, maxPayloadSize, start, header, taken>>

(* Frame: what Scan returns. *)
ScanReturns(h, from, to) ==
    /\ taken' = Append(taken, [header |-> h, from |-> from, to |-> to])
    /\ spc' = "frame"
    /\ UNCHANGED <<peerVars, input, rerr, maxPayloadSize, start>>

(* ReadBytes('\n') at the end of the connection.  Only an end between two   *)
(* frames is io.EOF.                                                        *)
ScanEnd ==
    /\ spc = "header" /\ ~Needs(1) /\ rerr # "nil"
    /\ spc' = IF rerr = "EOF" THEN "eof" ELSE "error"
    /\ UNCHANGED <<readerVars, maxPayloadSize, start, header, taken>>

(* The header's own rules, checked before anything else is read. *)
Acceptable(h) ==
    /\ h.ok
    /\ h.kw = "NUL" => ~h.more /\ h.size = 0
    /\ h.kw # "SEQ" /\ maxPayloadSize > 0 => h.size <= maxPayloadSize

(* A line that is no header, or a header that is refused. *)
ScanBadHeader ==
    /\ spc = "header" /\ Needs(1)
    /\ Unit.u = "header" => ~Acceptable(Unit)
    /\ pos' = pos + 1
    /\ ScanFails

(* parseSEQ: neither payload nor trailer. *)
ScanSEQ ==
    /\ spc = "header" /\ Needs(1)
    /\ Unit.u = "header" /\ Acceptable(Unit) /\ Unit.kw = "SEQ"
    /\ pos' = pos + 1
    /\ header' = Unit
    /\ ScanReturns(Unit, pos, pos + 1)

(* parseDataFrame up to the payload. *)
ScanHeader ==
    /\ spc = "header" /\ Needs(1)
    /\ Unit.u = "header" /\ Acceptable(Unit) /\ Unit.kw # "SEQ"
    /\ header' = Unit /\ start' = pos /\ pos' = pos + 1
    /\ spc' = IF Unit.size > 0 THEN "payload" ELSE "trailer"
    /\ UNCHANGED <<peerVars, input, rerr, maxPayloadSize, taken>>

(* Mutant: the payload ends at the first trailer found in it. *)
ScanPayloadToEND ==
    /\ spc = "payload" /\ Needs(header.size)
    /\ \E n \in 0..header.size :
          /\ \A i \in 1..n : input[pos + i] # END
          /\ n < header.size => input[pos + n + 1] = END
          /\ pos' = pos + n
    /\ spc' = "trailer"
    /\ UNCHANGED <<peerVars, input, rerr, maxPayloadSize, start, header, taken>>

(* io.ReadFull of the payload, whatever it holds. *)
ScanPayload ==
    /\ spc = "payload" /\ Needs(header.size)
    /\ pos' = pos + header.size
    /\ spc' = "trailer"
    /\ UNCHANGED <<peerVars, input, rerr, maxPayloadSize, start, header, taken>>

ScanTrailer ==
    /\ spc = "trailer" /\ Needs(1)
    /\ pos' = pos + 1
    /\ IF Unit = END
       THEN ScanReturns(header, start, pos + 1) /\ UNCHANGED header
       ELSE ScanFails

(* Mutant: the count that ReadFull returns is taken for the size asked for. *)
ScanShortUnchecked ==
    /\ \/ spc = "payload" /\ ~Needs(header.size)
       \/ spc = "trailer" /\ ~Needs(1)
    /\ rerr # "nil"
    /\ pos' = pos + header.size + 1
    /\ ScanReturns(header, start, pos') /\ UNCHANGED header

(* The connection ends within the payload or the trailer. *)
ScanShort ==
    /\ \/ spc = "payload" /\ ~Needs(header.size)
       \/ spc = "trailer" /\ ~Needs(1)
    /\ rerr # "nil"
    /\ pos' = Len(input)
    /\ ScanFails

ScanStep == \/ ScanEnd \/ ScanBadHeader \/ ScanSEQ \/ ScanHeader
            \/ ScanPayload \/ ScanTrailer \/ ScanShort

ScannerInit ==
    /\ due = 0 /\ faults = 0
    /\ input = <<>> /\ pos = 0 /\ rerr = "nil"
    /\ maxPayloadSize = DefaultMaxPayloadSize
    /\ spc = "closed" /\ start = 0 /\ header = NoHeader /\ taken = <<>>

Frames == [header : HeaderLines, from : Nat, to : Nat]

ScannerTypeOK ==
    /\ due \in Nat /\ faults \in 0..MaxFaults
    /\ input \in Seq(HeaderLines \cup {CRLF, END})
    /\ pos \in 0..Len(input) /\ start \in 0..Len(input)
    /\ rerr \in {"nil", "EOF", "cut", "err"}
    /\ maxPayloadSize \in Nat /\ header \in HeaderLines
    /\ spc \in {"closed", "header", "payload", "trailer", "frame", "eof", "error"}
    /\ taken \in Seq(Frames)
=============================================================================
