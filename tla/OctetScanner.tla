---------------------------- MODULE OctetScanner ----------------------------
(***************************************************************************)
(* The lexical scanner of the octet-counting transport                     *)
(* (octetcounting/scanner.go): it turns the bytes an io.Reader delivers    *)
(* into tokens MSGLEN, WS, SYSLOGMSG, LF, EOF and ILLEGAL.                  *)
(*                                                                         *)
(* Bytes keep their codes.  The reader is lazy: a byte exists only once    *)
(* bufio had to ask for it, which is also when the reader may fail or end. *)
(* Machine integers keep their widths, scaled down: int is                 *)
(* -(MaxInt+1)..MaxInt and uint64 is 0..MaxUint.                           *)
(*                                                                         *)
(* Spec at the end is the scanner on its own, driven by any client of its  *)
(* exported methods; OctetCounting composes it with the parser.            *)
(***************************************************************************)
EXTENDS Integers, Sequences

CONSTANTS
    Alphabet,        \* the byte codes the reader may deliver
    MaxStream,       \* bound: bytes one reader delivers at most
    MaxInt,          \* largest int
    DefaultMaxSize,  \* the limit used when none is configured
    HeaderSlack,     \* room for the MSGLEN digits and the space (20)
    MinBufSize,      \* bufio's smallest buffer (16)
    PooledSizes,     \* buffer sizes of the readers the pool may hand out
    MaxLengths,      \* the limits a client may ask for, any int
    ErrTextLen,      \* length of the error text an ILLEGAL token carries
    ReaderErrors     \* how a read may end the stream: "EOF", or "err" for a while

ASSUME AlphabetAssumption == Alphabet \subseteq 0..255
ASSUME SizeAssumption ==
    /\ MaxInt \in Nat /\ MaxInt >= 9      \* an int holds any one-digit length
    /\ MaxStream \in Nat /\ ErrTextLen \in Nat
    /\ DefaultMaxSize \in 1..MaxInt
    /\ HeaderSlack \in 1..MaxInt
    /\ MinBufSize \in 1..MaxInt
    /\ PooledSizes \subseteq Nat
    /\ ReaderErrors \subseteq {"err", "EOF"}
    /\ MaxLengths \subseteq Int
    /\ \A m \in MaxLengths : m <= MaxInt

VARIABLES
    input, pos, rerr,    \* bufio.Reader: bytes so far, bytes consumed, pending error
    bufsize,             \* bufio.Reader: Size()
    msglen, ready, maxlen, \* Scanner fields
    spc,                 \* where Scan is
    from, num,           \* scanMsgLen: where its digits begin, their value
    last                 \* the token Scan returned last

readerVars  == <<input, pos, rerr, bufsize>>
lexVars     == <<msglen, ready, maxlen, spc, from, num, last>>
scannerVars == <<readerVars, lexVars>>

MaxUint == 2 * MaxInt + 1

(* Conversion of a uint64 (or of an int sum) to int: it wraps. *)
ToInt(u) == IF u > MaxInt THEN u - (MaxUint + 1) ELSE u

eof == 0
lf  == 10
cr  == 13
ws  == 32
lt  == 60
isDigit(ch)        == ch \in 48..57
isNonZeroDigit(ch) == ch \in 49..57

TokenTypes == {"ILLEGAL", "EOF", "LF", "WS", "MSGLEN", "SYSLOGMSG"}
ErrTexts   == {"", "InvalidLength", "TooLarge", "ExceedsIntLimit"}
Byte       == 0..255
(* err names the error text an ILLEGAL token carries in lit. *)
Token(t, l)  == [typ |-> t, lit |-> l, err |-> ""]
Illegal(e)   == [typ |-> "ILLEGAL", lit |-> [i \in 1..ErrTextLen |-> 109], err |-> e]
NoToken      == Token("ILLEGAL", <<>>)
Tokens       == [typ : TokenTypes, lit : Seq(Byte), err : ErrTexts]

-----------------------------------------------------------------------------
(* The buffered reader (bufio, external) and the pool it comes from. *)

NewReaderSize(size) == IF size < MinBufSize THEN MinBufSize ELSE size

(* Mutant: the size of a pooled reader is not checked. *)
getReaderUnchecked(size) == {NewReaderSize(size)} \cup PooledSizes

(* Sizes a reader got from the pool may have: a pooled one that is large   *)
(* enough, or a new one.                                                    *)
getReader(size) == {NewReaderSize(size)} \cup {b \in PooledSizes : b >= size}

Avail == Len(input) - pos

(* bufio asks the io.Reader for more only while it cannot answer. *)
PeekBlocks == /\ spc = "peek" /\ msglen <= MaxInt
              /\ Avail < msglen /\ Avail < bufsize
NeedsData  == \/ spc \in {"scan", "digits"} /\ Avail = 0
              \/ PeekBlocks

Fill ==
    /\ NeedsData
    /\ rerr = "nil"
    /\ \/ /\ Len(input) < MaxStream
          /\ \E b \in Alphabet : input' = Append(input, b)
          /\ UNCHANGED rerr
       \/ /\ rerr' \in ReaderErrors
          /\ UNCHANGED input
    /\ UNCHANGED <<pos, bufsize, lexVars>>

(* bufio reports an error once; a reader at its end fails again. *)
ErrAfter == IF rerr = "err" THEN "nil" ELSE rerr

(* s.read(): the next byte; eof stands for an error as well as for NUL. *)
CanRead == Avail > 0 \/ rerr # "nil"
read    == IF Avail > 0 THEN input[pos + 1] ELSE eof
(* Mutant: a failed read moves on all the same. *)
ConsumeUnchecked == pos' = pos + 1 /\ UNCHANGED rerr
Consume == IF Avail > 0
           THEN pos' = pos + 1 /\ UNCHANGED rerr
           ELSE rerr' = ErrAfter /\ UNCHANGED pos

-----------------------------------------------------------------------------
(* NewScanner takes a reader from the pool.  last belongs to the parser and *)
(* is kept.                                                                 *)
NewScanner(maxLength) ==
    /\ maxlen' = IF maxLength <= 0 THEN DefaultMaxSize ELSE maxLength
    /\ bufsize' \in getReader(ToInt(maxlen' + HeaderSlack))
    /\ input' = <<>> /\ pos' = 0 /\ rerr' = "nil"
    /\ msglen' = 0 /\ ready' = FALSE
    /\ from' = 0 /\ num' = 0
    /\ spc' = "idle"
    /\ UNCHANGED last

Return(t) == last' = t /\ spc' = "token"

(* Scan on a digit in 1..9: the start of a MSGLEN. *)
ScanMsgLenFirst ==
    /\ spc = "scan" /\ CanRead
    /\ isNonZeroDigit(read)
    /\ ready' = FALSE
    /\ spc' = "digits" /\ from' = pos /\ num' = read - 48
    /\ Consume
    /\ UNCHANGED <<input, bufsize, msglen, maxlen, last>>

(* Scan on '<' where a message is due. *)
ScanLT ==
    /\ spc = "scan" /\ CanRead
    /\ read = lt /\ msglen > 0 /\ ready
    /\ spc' = "peek"
    /\ UNCHANGED <<readerVars, msglen, ready, maxlen, from, num, last>>

(* Scan on any other byte. *)
SingleToken(b) == IF b = eof THEN Token("EOF", <<>>)
                  ELSE Token(IF b = lf THEN "LF" ELSE IF b = ws THEN "WS" ELSE "ILLEGAL",
                             <<b>>)
ScanSingle ==
    /\ spc = "scan" /\ CanRead
    /\ ~isNonZeroDigit(read)
    /\ ~(read = lt /\ msglen > 0 /\ ready)
    /\ Consume
    /\ ready' = IF read = eof THEN FALSE ELSE ready \/ read \in {lf, ws}
    /\ Return(SingleToken(read))
    /\ UNCHANGED <<input, bufsize, msglen, maxlen, from, num>>

(* Mutant: a digit replaces the digits before it. *)
ScanLastDigitOnly ==
    /\ spc = "digits" /\ CanRead
    /\ isDigit(read)
    /\ num' = read - 48
    /\ Consume
    /\ UNCHANGED <<input, bufsize, msglen, ready, maxlen, spc, from, last>>

(* scanMsgLen reads a further digit.  A value uint64 cannot hold stays one. *)
ScanMsgLenDigit ==
    /\ spc = "digits" /\ CanRead
    /\ isDigit(read)
    /\ num' = LET n == 10 * num + (read - 48)
              IN  IF n > MaxUint THEN MaxUint + 1 ELSE n
    /\ Consume
    /\ UNCHANGED <<input, bufsize, msglen, ready, maxlen, spc, from, last>>

(* Mutant: the limit itself is refused. *)
MsgLenTokenBelowLimit ==
    IF num > MaxUint THEN Illegal("InvalidLength")
    ELSE IF num >= maxlen THEN Illegal("TooLarge")
    ELSE Token("MSGLEN", SubSeq(input, from + 1, pos))

(* scanMsgLen meets the end of the digits: NUL (and an error) is consumed,  *)
(* any other byte is unread.  An oversized length is stored all the same.   *)
MsgLenToken ==
    IF num > MaxUint THEN Illegal("InvalidLength")
    ELSE IF num > maxlen THEN Illegal("TooLarge")
    ELSE Token("MSGLEN", SubSeq(input, from + 1, pos))

(* Mutant: an oversized length is not stored. *)
LengthStoredInLimit == IF num > maxlen THEN msglen ELSE num
LengthStored == IF num > MaxUint THEN msglen ELSE num
ScanMsgLenEnd ==
    /\ spc = "digits" /\ CanRead
    /\ ~isDigit(read)
    /\ IF read = eof THEN Consume ELSE UNCHANGED <<pos, rerr>>
    /\ msglen' = LengthStored
    /\ Return(MsgLenToken)
    /\ UNCHANGED <<input, bufsize, ready, maxlen, from, num>>

(* scanSyslogMsg: the conversion check, then Peek(msglen). *)
ScanTooBigForInt ==
    /\ spc = "peek" /\ msglen > MaxInt
    /\ ready' = FALSE /\ msglen' = 0
    /\ Return(Illegal("ExceedsIntLimit"))
    /\ UNCHANGED <<readerVars, maxlen, from, num>>

(* Mutant: the length of a message that was read is not reset. *)
ScanKeepsLength ==
    /\ spc = "peek" /\ msglen <= MaxInt
    /\ msglen <= bufsize /\ Avail >= msglen
    /\ pos' = pos + msglen
    /\ ready' = FALSE
    /\ Return(Token("SYSLOGMSG", SubSeq(input, pos + 1, pos + msglen)))
    /\ UNCHANGED <<input, rerr, bufsize, msglen, maxlen, from, num>>

ScanSyslogMsg ==
    /\ spc = "peek" /\ msglen <= MaxInt
    /\ msglen <= bufsize /\ Avail >= msglen
    /\ pos' = pos + msglen
    /\ ready' = FALSE /\ msglen' = 0
    /\ Return(Token("SYSLOGMSG", SubSeq(input, pos + 1, pos + msglen)))
    /\ UNCHANGED <<input, rerr, bufsize, maxlen, from, num>>

(* Peek fails: the buffer is too small, or the reader failed or ended.      *)
PeekFails ==
    /\ msglen <= MaxInt
    /\ \/ msglen > bufsize /\ (Avail >= bufsize \/ rerr # "nil")
       \/ msglen <= bufsize /\ Avail < msglen /\ rerr # "nil"
ScanUnderflow ==
    /\ spc = "peek" /\ PeekFails
    /\ rerr' = IF msglen > bufsize THEN rerr ELSE ErrAfter
    /\ Return(Token("EOF", SubSeq(input, pos + 1, Len(input))))
    /\ UNCHANGED <<input, pos, bufsize, msglen, ready, maxlen, from, num>>

ScanStep == \/ ScanMsgLenFirst \/ ScanLT \/ ScanSingle
            \/ ScanMsgLenDigit \/ ScanMsgLenEnd
            \/ ScanTooBigForInt \/ ScanSyslogMsg \/ ScanUnderflow

-----------------------------------------------------------------------------
(* The exported methods, for a client other than the parser. *)

Scan == /\ spc \in {"idle", "token"}
        /\ spc' = "scan"
        /\ UNCHANGED <<readerVars, msglen, ready, maxlen, from, num, last>>

SetMaxLength(maxLength) ==
    /\ spc \in {"idle", "token"}
    /\ maxLength > 0
    /\ maxlen' = maxLength
    /\ UNCHANGED <<readerVars, msglen, ready, spc, from, num, last>>

Release == /\ spc \in {"idle", "token"}
           /\ spc' = "closed"
           /\ UNCHANGED <<readerVars, msglen, ready, maxlen, from, num, last>>

ScannerInit ==
    /\ input = <<>> /\ pos = 0 /\ rerr = "nil" /\ bufsize = MinBufSize
    /\ msglen = 0 /\ ready = FALSE /\ maxlen = DefaultMaxSize
    /\ spc = "closed" /\ from = 0 /\ num = 0 /\ last = NoToken

ScannerNext ==
    \/ spc = "closed" /\ \E m \in MaxLengths : NewScanner(m)
    \/ Scan
    \/ \E m \in MaxLengths : SetMaxLength(m)
    \/ Release
    \/ Fill
    \/ ScanStep

ScannerSpec == ScannerInit /\ [][ScannerNext]_scannerVars

(* Every variable of the scanner and of its reader has its type. *)
ScannerTypeOK ==
    /\ input \in Seq(Byte) /\ pos \in 0..Len(input)
    /\ rerr \in {"nil", "err", "EOF"}
    /\ bufsize \in Nat
    /\ msglen \in 0..MaxUint /\ ready \in BOOLEAN /\ maxlen \in 1..MaxInt
    /\ spc \in {"closed", "idle", "scan", "digits", "peek", "token"}
    /\ from \in 0..pos /\ num \in 0..(MaxUint + 1)
    /\ last \in Tokens

(* A message has as many octets as the numeral read last announced, however *)
(* many other tokens the client took in between (scanner.go:152-227); only  *)
(* a numeral no uint64 holds leaves the length before it in force.          *)
AnnouncedLength ==
    spc = "token" /\ last.typ = "SYSLOGMSG" =>
        /\ Len(last.lit) = num \/ num > MaxUint
        /\ last.lit = SubSeq(input, pos - Len(last.lit) + 1, pos)

(* A frame within MaxLength() fits the pooled reader's buffer               *)
(* (scanner.go:24-45, 89), so that Peek cannot refuse it for want of room.  *)
PeekFits == spc = "peek" /\ msglen <= maxlen => msglen <= bufsize
=============================================================================
