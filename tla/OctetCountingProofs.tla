------------------------ MODULE OctetCountingProofs ------------------------
(***************************************************************************)
(* The octet-counting parser, for every alphabet, stream, limit and        *)
(* configuration: its variables keep their types, its lookahead is never   *)
(* stale, no length is used beyond its frame or above the limit, every     *)
(* message is as long as announced and reaches the machine whole, no octet *)
(* is dropped, it implements OctetFraming, and it refuses no frame.        *)
(***************************************************************************)
EXTENDS MCOctetCounting, SequenceTheorems, WellFoundedInduction, TLAPS

-----------------------------------------------------------------------------
(* Typing of the helpers. *)

(* The tokens that Token and Illegal build are tokens. *)
LEMMA TokenType ==
    ASSUME NEW t \in TokenTypes, NEW l \in Seq(Byte)
    PROVE  Token(t, l) \in Tokens
  BY DEF Token, Tokens, ErrTexts

(* The token that carries an error text is a token. *)
LEMMA IllegalType ==
    ASSUME NEW e \in ErrTexts
    PROVE  Illegal(e) \in Tokens
<1>1. [i \in 1..ErrTextLen |-> 109] \in Seq(Byte)
  BY SizeAssumption DEF Byte
<1> QED
  BY <1>1 DEF Illegal, Tokens, TokenTypes

(* A part of the input is a string of bytes. *)
LEMMA PartType ==
    ASSUME NEW s \in Seq(Byte), NEW a \in 1..(Len(s) + 1), NEW b \in (a - 1)..Len(s)
    PROVE  SubSeq(s, a, b) \in Seq(Byte)
  BY SubSeqProperties

(* What parse hands to the machine (parser.go:261-278) is a string of bytes. *)
LEMMA StrippedType ==
    ASSUME NEW l \in Seq(Byte)
    PROVE  Stripped(l) \in Seq(Byte)
<1>1. ASSUME NEW s \in Seq(Byte), Len(s) > 0 PROVE Butlast(s) \in Seq(Byte)
  BY <1>1, PartType DEF Butlast
<1> QED
  BY <1>1 DEF Stripped, EndsIn

-----------------------------------------------------------------------------
(* The scanner. *)

(* Reading a byte keeps pos within the input. *)
LEMMA ConsumeType ==
    ASSUME ScannerTypeOK, Consume
    PROVE  pos' \in pos..Len(input) /\ rerr' \in {"nil", "err", "EOF"}
  BY DEF Consume, ScannerTypeOK, Avail, ErrAfter

(* A byte read is a byte. *)
LEMMA ReadType ==
    ASSUME ScannerTypeOK
    PROVE  read \in Byte
<1>1. eof \in Byte
  BY DEF eof, Byte
<1>2. Avail > 0 => input[pos + 1] \in Byte
  BY DEF ScannerTypeOK, Avail
<1> QED
  BY <1>1, <1>2 DEF read

(* The reader's part of the type invariant. *)
ReaderOK == /\ input \in Seq(Byte) /\ pos \in 0..Len(input)
            /\ rerr \in {"nil", "err", "EOF"} /\ bufsize \in Nat /\ from \in 0..pos

(* Every step of Scan and of the reader keeps the scanner's types. *)
LEMMA ScannerTypeStep ==
    ASSUME ScannerTypeOK, Fill \/ ScanStep
    PROVE  ScannerTypeOK'
<1> USE SizeAssumption, AlphabetAssumption
<1>r. ReaderOK
  BY DEF ScannerTypeOK, ReaderOK
<1>m. MaxUint \in Nat /\ 9 <= MaxUint
  BY DEF MaxUint
<1>q. ASSUME ReaderOK', last' \in Tokens, spc' \in {"scan", "digits", "peek", "token"},
             msglen' \in 0..MaxUint, ready' \in BOOLEAN, maxlen' = maxlen,
             num' \in 0..(MaxUint + 1)
      PROVE  ScannerTypeOK'
  BY <1>q DEF ScannerTypeOK, ReaderOK
<1>1. CASE Fill
  <2>1. input' \in Seq(Byte) /\ Len(input) <= Len(input') /\ Len(input') \in Nat
    <3>1. Alphabet \subseteq Byte
      BY DEF Byte
    <3>2. CASE input' = input
      BY <3>2, <1>r DEF ReaderOK
    <3>3. ASSUME NEW b \in Alphabet, input' = Append(input, b)
          PROVE  input' \in Seq(Byte) /\ Len(input) <= Len(input') /\ Len(input') \in Nat
      BY <3>1, <3>3, <1>r DEF ReaderOK
    <3> QED
      BY <1>1, <3>2, <3>3 DEF Fill
  <2>3. rerr' \in {"nil", "err", "EOF"}
    BY <1>1 DEF Fill, ScannerTypeOK
  <2>4. pos' = pos /\ bufsize' = bufsize /\ from' = from
    BY <1>1 DEF Fill, lexVars
  <2>2. ReaderOK'
    BY <1>r, <2>1, <2>3, <2>4 DEF ReaderOK
  <2> QED
    BY <1>1, <2>2 DEF Fill, ScannerTypeOK, ReaderOK, lexVars
<1>2. CASE ScanMsgLenFirst
  <2>1. ReaderOK'
    BY <1>2, <1>r, ConsumeType DEF ScanMsgLenFirst, ReaderOK
  <2>2. num' \in 1..9
    BY <1>2 DEF ScanMsgLenFirst, isNonZeroDigit
  <2>3. num' \in 0..(MaxUint + 1)
    BY <1>m, <2>2
  <2>4. /\ msglen' = msglen /\ maxlen' = maxlen /\ last' = last
        /\ spc' = "digits" /\ ready' \in BOOLEAN
    BY <1>2 DEF ScanMsgLenFirst
  <2> QED
    BY <1>q, <2>1, <2>3, <2>4 DEF ScannerTypeOK
<1>3. CASE ScanLT
  BY <1>3 DEF ScanLT, ScannerTypeOK, readerVars
<1>4. CASE ScanSingle
  <2>1. last' \in Tokens
    <3>1. <<read>> \in Seq(Byte) /\ <<>> \in Seq(Byte)
      BY ReadType
    <3> QED
      BY <1>4, <3>1, TokenType DEF ScanSingle, Return, SingleToken, TokenTypes
  <2>2. ready' \in BOOLEAN
    BY <1>4 DEF ScanSingle, ScannerTypeOK
  <2>3. ReaderOK'
    BY <1>4, <1>r, ConsumeType DEF ScanSingle, ReaderOK
  <2> QED
    BY <1>4, <1>q, <2>1, <2>2, <2>3 DEF ScanSingle, Return, ScannerTypeOK
<1>5. CASE ScanMsgLenDigit
  <2>1. ReaderOK'
    BY <1>5, <1>r, ConsumeType DEF ScanMsgLenDigit, ReaderOK
  <2>2. num' \in 0..(MaxUint + 1)
    BY <1>5, <1>m DEF ScanMsgLenDigit, isDigit, ScannerTypeOK
  <2> QED
    BY <1>5, <1>q, <2>1, <2>2 DEF ScanMsgLenDigit, ScannerTypeOK
<1>6. CASE ScanMsgLenEnd
  <2>1. last' \in Tokens
    <3>1. SubSeq(input, from + 1, pos) \in Seq(Byte)
      BY <1>r, PartType DEF ReaderOK
    <3> QED
      BY <1>6, <3>1, TokenType, IllegalType
         DEF ScanMsgLenEnd, LengthStored, Return, MsgLenToken, TokenTypes, ErrTexts
  <2>2. ReaderOK'
    BY <1>6, <1>r, ConsumeType DEF ScanMsgLenEnd, ReaderOK
  <2>3. msglen' \in 0..MaxUint
    BY <1>6, <1>m DEF ScanMsgLenEnd, LengthStored, ScannerTypeOK
  <2> QED
    BY <1>6, <1>q, <2>1, <2>2, <2>3 DEF ScanMsgLenEnd, Return, ScannerTypeOK
<1>7. CASE ScanTooBigForInt
  <2>1. last' \in Tokens
    BY <1>7, IllegalType DEF ScanTooBigForInt, Return, ErrTexts
  <2>2. ReaderOK'
    BY <1>7, <1>r DEF ScanTooBigForInt, ReaderOK, readerVars
  <2>4. msglen' \in 0..MaxUint /\ spc' = "token" /\ num' = num /\ maxlen' = maxlen
    BY <1>7, <1>m DEF ScanTooBigForInt, Return
  <2>5. ready' \in BOOLEAN
    BY <1>7 DEF ScanTooBigForInt
  <2> QED
    BY <1>q, <2>1, <2>2, <2>4, <2>5 DEF ScannerTypeOK
<1>8. CASE ScanSyslogMsg
  <2>1. msglen \in Nat /\ pos + msglen \in pos..Len(input)
    BY <1>8, <1>m, <1>r DEF ScanSyslogMsg, ScannerTypeOK, Avail, ReaderOK
  <2>2. last' \in Tokens
    <3>1. SubSeq(input, pos + 1, pos + msglen) \in Seq(Byte)
      BY <1>r, <2>1, PartType DEF ReaderOK
    <3> QED
      BY <1>8, <3>1, TokenType DEF ScanSyslogMsg, Return, TokenTypes
  <2>3. ReaderOK'
    BY <1>8, <1>r, <2>1 DEF ScanSyslogMsg, ReaderOK
  <2>4. msglen' \in 0..MaxUint /\ spc' = "token" /\ num' = num /\ maxlen' = maxlen
    BY <1>8, <1>m DEF ScanSyslogMsg, Return
  <2>5. ready' \in BOOLEAN
    BY <1>8 DEF ScanSyslogMsg
  <2> QED
    BY <1>q, <2>2, <2>3, <2>4, <2>5 DEF ScannerTypeOK
<1>9. CASE ScanUnderflow
  <2>1. last' \in Tokens
    <3>1. SubSeq(input, pos + 1, Len(input)) \in Seq(Byte)
      BY <1>r, PartType DEF ReaderOK
    <3> QED
      BY <1>9, <3>1, TokenType DEF ScanUnderflow, Return, TokenTypes
  <2>2. ReaderOK'
    BY <1>9, <1>r DEF ScanUnderflow, ReaderOK, ErrAfter
  <2> QED
    BY <1>9, <1>q, <2>1, <2>2 DEF ScanUnderflow, Return, ScannerTypeOK
<1> QED
  BY <1>1, <1>2, <1>3, <1>4, <1>5, <1>6, <1>7, <1>8, <1>9 DEF ScanStep

-----------------------------------------------------------------------------
(* The parser: what its loop knows of the length and of the lookahead. *)

Results == [msg : BOOLEAN, err : {"nil", "inner"} \cup FramingErrors,
            lit : Seq(Byte), span : Nat \X Nat]

(* Where msglen stands while run() waits for each kind of token.  This is   *)
(* the strengthening of LengthDiscipline that is inductive.                 *)
InLimit == msglen \in 1..maxlen
Lengths ==
    /\ pc = "idle" <=> spc = "closed"
    /\ spc = "digits" => num >= 1
    /\ pc \in {"WS", "SYSLOGMSG"} /\ spc \in {"idle", "scan"} => InLimit
    /\ (spc = "token" \/ stepback) /\ last.typ = "MSGLEN" => InLimit
    /\ pc = "WS" /\ spc = "token" /\ last.typ = "WS" => InLimit
    /\ spc = "token" /\ last.typ = "SYSLOGMSG" => msglen = 0 /\ pos >= 1
    /\ pc = "post" /\ spc = "token" /\ last.typ = "LF" => msglen = 0
    /\ pc = "post" => out # <<>>
    /\ pc \in {"MSGLEN", "post"} =>
          spc # "peek" /\ (spc = "token" \/ stepback => last.typ # "SYSLOGMSG")

(* A result after which the run goes on. *)
Harmless(r, be) == /\ r.span # NoSpan /\ r.err \notin FramingErrors
                   /\ be \/ r.err = "nil"

(* While Parse runs every result so far let it go on. *)
SoFarHarmless == pc # "idle" => \A i \in DOMAIN out : Harmless(out[i], internalBE)

-----------------------------------------------------------------------------
(* Typing of the parser. *)

(* Whatever the internal machine answers is the outcome of a result. *)
LEMMA AnswerType ==
    ASSUME NEW r \in internalParse
    PROVE  r.msg \in BOOLEAN /\ r.err \in {"nil", "inner"}
<1>1. \E m \in BOOLEAN, e \in {"nil", "inner"} : r = [msg |-> m, err |-> e]
  <2>1. CASE internalBE
    BY <2>1, Zenon DEF internalParse
  <2>2. CASE ~internalBE /\ family = "rfc3164"
    BY <2>2, Zenon DEF internalParse
  <2>3. CASE ~internalBE /\ family # "rfc3164"
    BY <2>3, Zenon DEF internalParse
  <2> QED
    BY <2>1, <2>2, <2>3, Zenon
<1>2. PICK m \in BOOLEAN, e \in {"nil", "inner"} : r = [msg |-> m, err |-> e]
  BY <1>1
<1>3. r.msg = m /\ r.err = e
  BY <1>2
<1> QED
  BY <1>3

(* Giving the reader back, or asking for another token, keeps the types. *)
LEMMA AwaitType ==
    ASSUME TypeOK, UNCHANGED scannerRest, UNCHANGED <<configVars, parses>>,
           pc' \in {"idle", "MSGLEN", "WS", "SYSLOGMSG", "post"},
           spc' \in {"closed", "idle", "scan", "token"},
           stepback' \in BOOLEAN, out' \in Seq(Results)
    PROVE  TypeOK'
<1>1. ScannerTypeOK'
  BY DEF TypeOK, ScannerTypeOK, scannerRest, readerVars
<1> QED
  BY <1>1 DEF TypeOK, configVars, Results

(* The handlers of run() keep the types. *)
LEMMA RunTypeStep ==
    ASSUME TypeOK, run
    PROVE  TypeOK'
<1>o. out \in Seq(Results) /\ stepback \in BOOLEAN
  BY DEF TypeOK, Results
<1>l. last.lit \in Seq(Byte) /\ last.err \in ErrTexts /\ from \in Nat /\ pos \in Nat
  BY DEF TypeOK, ScannerTypeOK, Tokens
<1>s. Stripped(last.lit) \in Seq(Byte)
  BY <1>l, StrippedType
<1>e. ASSUME NEW e \in FramingErrors PROVE ErrorResult(e) \in Results
  BY DEF ErrorResult, Results
<1>p. ASSUME NEW m \in BOOLEAN, NEW e \in {"nil", "inner"} \cup FramingErrors,
             NEW sp \in {Span, NoSpan}
      PROVE  Result([msg |-> m, err |-> e], Stripped(last.lit), sp) \in Results
  BY <1>l, <1>s DEF Result, Results, Span, NoSpan
<1>a. ASSUME NEW r \in Results, emit(r) PROVE out' \in Seq(Results)
  BY <1>a, <1>o DEF emit
<1>1. CASE GotMsgLen
  BY <1>1, <1>o, AwaitType DEF GotMsgLen, Await
<1>2. CASE NoMsgLen
  <2>1. ErrorResult(IF last.err # "" THEN last.err ELSE "ExpectingMSGLEN") \in Results
    BY <1>l, <1>e DEF ErrTexts, FramingErrors
  <2> QED
    BY <1>2, <1>o, <1>a, <2>1, AwaitType DEF NoMsgLen, Break
<1>3. CASE GotWS
  BY <1>3, <1>o, AwaitType DEF GotWS, Await
<1>4. CASE NoWS
  BY <1>4, <1>o, <1>a, <1>e, AwaitType DEF NoWS, Break, FramingErrors
<1>5. CASE GotSyslogMsg
  <2>1. PICK r \in internalParse : emit(Result(r, Stripped(last.lit), Span))
    BY <1>5 DEF GotSyslogMsg
  <2>2. Result(r, Stripped(last.lit), Span) \in Results
    BY <1>l, <1>s, AnswerType DEF Result, Results, Span
  <2> QED
    BY <1>5, <1>o, <1>a, <2>1, <2>2, AwaitType DEF GotSyslogMsg, Await
<1>6. CASE RejectedSyslogMsg
  <2>1. PICK r \in internalParse :
           emit(Result([msg |-> FALSE, err |-> r.err], Stripped(last.lit), Span))
    BY <1>6 DEF RejectedSyslogMsg
  <2>2. Result([msg |-> FALSE, err |-> r.err], Stripped(last.lit), Span) \in Results
    BY <1>p, AnswerType
  <2> QED
    BY <1>6, <1>o, <1>a, <2>1, <2>2, AwaitType DEF RejectedSyslogMsg, Break
<1>7. CASE Underflow
  <2>1. PICK r \in internalParse :
           emit(Result([msg |-> r.msg,
                        err |-> IF r.err = "nil" THEN "ExpectingSYSLOGMSG" ELSE r.err],
                       Stripped(last.lit), NoSpan))
    BY <1>7 DEF Underflow
  <2>2. Result([msg |-> r.msg,
                err |-> IF r.err = "nil" THEN "ExpectingSYSLOGMSG" ELSE r.err],
               Stripped(last.lit), NoSpan) \in Results
    BY <1>p, AnswerType DEF FramingErrors
  <2> QED
    BY <1>7, <1>o, <1>a, <2>1, <2>2, AwaitType DEF Underflow, Break
<1>8. CASE NoSyslogMsg
  BY <1>8, <1>o, <1>a, <1>e, AwaitType DEF NoSyslogMsg, Break, FramingErrors
<1>9. CASE PostEOF
  BY <1>9, <1>o, AwaitType DEF PostEOF, Break
<1>10. CASE PostLF
  BY <1>10, <1>o, AwaitType DEF PostLF, Await
<1>11. CASE PostOther
  BY <1>11, <1>o, AwaitType DEF PostOther, Await
<1> QED
  BY <1>1, <1>2, <1>3, <1>4, <1>5, <1>6, <1>7, <1>8, <1>9, <1>10, <1>11 DEF run

(* Every step keeps the types of the whole parser. *)
LEMMA TypeStep ==
    ASSUME TypeOK, [Next]_vars
    PROVE  TypeOK'
<1> USE SizeAssumption
<1>1. CASE Parse
  <2>1. maxlen' \in 1..MaxInt
    BY <1>1 DEF Parse, NewScanner, TypeOK
  <2>2. bufsize' \in Nat
    <3>1. ASSUME NEW u \in Int PROVE ToInt(u) \in Int
      BY DEF ToInt, MaxUint
    <3>2. PICK size \in Int : bufsize' \in getReader(size)
      <4>1. maxlen' + HeaderSlack \in Int
        BY <2>1
      <4>2. ToInt(maxlen' + HeaderSlack) \in Int
        BY <3>1, <4>1
      <4> QED
        BY <1>1, <4>2 DEF Parse, NewScanner
    <3> QED
      BY <3>2 DEF getReader, NewReaderSize
  <2>3. ScannerTypeOK'
    <3>1. input' = <<>> /\ pos' = 0 /\ from' = 0 /\ num' = 0 /\ msglen' = 0
      BY <1>1 DEF Parse, NewScanner
    <3>2. rerr' = "nil" /\ spc' = "idle" /\ last' = last /\ ready' = FALSE
      BY <1>1 DEF Parse, NewScanner
    <3>3. input' \in Seq(Byte) /\ pos' \in 0..Len(input') /\ from' \in 0..pos'
      BY <3>1
    <3>4. msglen' \in 0..MaxUint /\ num' \in 0..(MaxUint + 1)
      BY <3>1 DEF MaxUint
    <3>5. last \in Tokens
      BY DEF TypeOK, ScannerTypeOK
    <3> QED
      BY <2>1, <2>2, <3>2, <3>3, <3>4, <3>5 DEF ScannerTypeOK
  <2>4. parses' \in 0..MaxParses
    BY <1>1, MaxParsesAssumption DEF Parse, TypeOK
  <2> QED
    BY <1>1, <2>3, <2>4 DEF Parse, TypeOK, configVars
<1>2. CASE WithBestEffort
  BY <1>2 DEF WithBestEffort, TypeOK, ScannerTypeOK, scannerVars, readerVars, lexVars
<1>3. ASSUME NEW m \in MaxLengths, WithMaxMessageLength(m) PROVE TypeOK'
  BY <1>3 DEF WithMaxMessageLength, TypeOK, ScannerTypeOK, scannerVars, readerVars, lexVars
<1>4. CASE scan
  BY <1>4, AwaitType DEF scan, scannerRest, TypeOK, Results, configVars
<1>5. CASE run
  BY <1>5, RunTypeStep
<1>6. CASE Lexer
  BY <1>6, ScannerTypeStep DEF Lexer, TypeOK, parserVars, configVars
<1>7. CASE UNCHANGED vars
  BY <1>7 DEF vars, TypeOK, ScannerTypeOK, scannerVars, readerVars, lexVars,
              parserVars, configVars
<1> QED
  BY <1>1, <1>2, <1>3, <1>4, <1>5, <1>6, <1>7 DEF Next

(* The parser's first state is typed. *)
LEMMA TypeInit == Init => TypeOK
<1> SUFFICES ASSUME Init PROVE TypeOK
  OBVIOUS
<1> USE SizeAssumption, MaxParsesAssumption
<1>0. <<>> \in Seq(Byte) /\ Len(<<>>) = 0
  OBVIOUS
<1>1. NoToken \in Tokens
  BY <1>0, TokenType DEF NoToken, TokenTypes
<1>2. ScannerTypeOK
  <2>1. input \in Seq(Byte) /\ pos \in 0..Len(input) /\ from \in 0..pos
    BY <1>0 DEF Init, ScannerInit
  <2>2. msglen \in 0..MaxUint /\ num \in 0..(MaxUint + 1) /\ bufsize \in Nat
    BY DEF Init, ScannerInit, MaxUint
  <2>3. ready \in BOOLEAN /\ last \in Tokens /\ maxlen \in 1..MaxInt
    BY <1>1 DEF Init, ScannerInit
  <2>4. rerr = "nil" /\ spc = "closed"
    BY DEF Init, ScannerInit
  <2> QED
    BY <2>1, <2>2, <2>3, <2>4 DEF ScannerTypeOK
<1>3. maxMessageLength \in Int /\ maxMessageLength <= MaxInt
  BY DEF Init
<1>4. parses \in 0..MaxParses
  BY DEF Init
<1>5. out = <<>> /\ pc = "idle"
  BY DEF Init
<1>6. stepback \in BOOLEAN /\ bestEffort \in BOOLEAN /\ internalBE \in BOOLEAN /\ family \in Families
  BY Zenon DEF Init
<1> QED
  BY <1>2, <1>3, <1>4, <1>5, <1>6 DEF TypeOK

(* The parser of octetcounting/parser.go is type correct: in particular no  *)
(* index into the stream runs past it and every length stays a uint64.      *)
THEOREM TypeCorrect == Spec => []TypeOK
<1>1. TypeOK /\ [Next]_vars => TypeOK'
  BY TypeStep
<1> QED
  BY <1>1, TypeInit, PTL DEF Spec

-----------------------------------------------------------------------------
(* The length and the lookahead. *)

Discipline == Lengths /\ NoStaleLookahead /\ LengthDiscipline

(* The scanner and its reader keep the discipline: while a frame's length   *)
(* is awaited msglen is 0, so that '<' cannot start a message, and a MSGLEN *)
(* token leaves a length within the limit.                                  *)
LEMMA LexerDiscipline ==
    ASSUME TypeOK, Discipline, Lexer
    PROVE  Discipline'
<1> USE SizeAssumption DEF Discipline, Lengths, NoStaleLookahead, LengthDiscipline, InLimit,
        parserVars
<1>t. /\ msglen \in Nat /\ maxlen \in Nat /\ num \in Nat /\ pos \in Nat
      /\ MaxUint \in Nat /\ maxlen <= MaxUint
      /\ pc \in {"idle", "MSGLEN", "WS", "SYSLOGMSG", "post"}
  BY DEF TypeOK, ScannerTypeOK, MaxUint
<1>0. CASE Fill
  BY <1>0 DEF Fill, lexVars, Lexer
<1>1. CASE ScanMsgLenFirst
  BY <1>1, <1>t DEF ScanMsgLenFirst, isNonZeroDigit, Lexer
<1>2. CASE ScanLT
  BY <1>2, <1>t DEF ScanLT, readerVars, Lexer
<1>3. CASE ScanSingle
  BY <1>3, <1>t DEF ScanSingle, Return, SingleToken, Token, Consume, Lexer
<1>4. CASE ScanMsgLenDigit
  BY <1>4, <1>t DEF ScanMsgLenDigit, isDigit, Lexer
<1>5. CASE ScanMsgLenEnd
  <2>1. last'.typ = "ILLEGAL" \/ (last'.typ = "MSGLEN" /\ msglen' \in 1..maxlen')
    <3>1. num >= 1 /\ maxlen' = maxlen /\ last' = MsgLenToken
      BY <1>5 DEF ScanMsgLenEnd, Return
    <3>2. CASE num > MaxUint \/ num > maxlen
      <4>1. MsgLenToken.typ = "ILLEGAL"
        BY <3>2, Zenon DEF MsgLenToken, Illegal
      <4> QED
        BY <3>1, <4>1
    <3>3. CASE ~(num > MaxUint \/ num > maxlen)
      <4>1. MsgLenToken.typ = "MSGLEN"
        BY <3>3, Zenon DEF MsgLenToken, Token
      <4>2. msglen' = num
        BY <1>5, <3>3 DEF ScanMsgLenEnd, LengthStored
      <4> QED
        BY <1>t, <3>1, <3>3, <4>1, <4>2
    <3> QED
      BY <3>2, <3>3
  <2> QED
    BY <1>5, <2>1 DEF ScanMsgLenEnd, Return, Lexer
<1>6. CASE ScanTooBigForInt
  BY <1>6, <1>t DEF ScanTooBigForInt, Return, Illegal, readerVars, Lexer
<1>7. CASE ScanSyslogMsg
  <2>1. last'.typ = "SYSLOGMSG" /\ msglen' = 0 /\ pos' >= 1 /\ spc' = "token"
    <3>1. msglen >= 1 /\ pos' = pos + msglen /\ msglen' = 0 /\ spc' = "token"
      BY <1>7, <1>t DEF ScanSyslogMsg, Return
    <3>2. last' = Token("SYSLOGMSG", SubSeq(input, pos + 1, pos + msglen))
      BY <1>7 DEF ScanSyslogMsg, Return
    <3>3. last'.typ = "SYSLOGMSG"
      BY <3>2 DEF Token
    <3> QED
      BY <1>t, <3>1, <3>3
  <2> QED
    BY <1>7, <2>1 DEF ScanSyslogMsg, Lexer
<1>8. CASE ScanUnderflow
  BY <1>8, <1>t DEF ScanUnderflow, Return, Token, Lexer
<1> QED
  BY <1>0, <1>1, <1>2, <1>3, <1>4, <1>5, <1>6, <1>7, <1>8 DEF Lexer, ScanStep

(* The handlers of run() keep it: they hand on a length only after MSGLEN   *)
(* and WS, and push back a token only where one is about to be asked for.   *)
LEMMA RunDiscipline ==
    ASSUME TypeOK, Discipline, run
    PROVE  Discipline'
<1> USE DEF Discipline, Lengths, NoStaleLookahead, LengthDiscipline, InLimit, scannerRest
<1>o. out \in Seq(Results)
  BY DEF TypeOK, Results
<1>e. ASSUME NEW r, emit(r) PROVE out' # <<>>
  BY <1>e, <1>o DEF emit
<1>b. ASSUME Break, ~stepback PROVE Discipline'
  BY <1>b DEF Break
<1>s. spc = "token" => ~stepback
  OBVIOUS
<1>1. CASE GotMsgLen
  BY <1>1 DEF GotMsgLen, Got, Await
<1>2. CASE NoMsgLen \/ NoWS \/ RejectedSyslogMsg \/ Underflow \/ NoSyslogMsg \/ PostEOF
  BY <1>2, <1>b, <1>s DEF NoMsgLen, NoWS, RejectedSyslogMsg, Underflow, NoSyslogMsg, PostEOF,
                          Got, Not
<1>3. CASE GotWS
  BY <1>3 DEF GotWS, Got, Await
<1>4. CASE GotSyslogMsg
  <2>1. out' # <<>>
    BY <1>4, <1>e DEF GotSyslogMsg
  <2> QED
    BY <1>4, <2>1 DEF GotSyslogMsg, Got, Await
<1>5. CASE PostLF
  BY <1>5 DEF PostLF, Await
<1>6. CASE PostOther
  BY <1>6 DEF PostOther, Await
<1> QED
  BY <1>1, <1>2, <1>3, <1>4, <1>5, <1>6 DEF run

(* Every step keeps the discipline. *)
LEMMA DisciplineStep ==
    ASSUME TypeOK, Discipline, [Next]_vars
    PROVE  Discipline'
<1>1. CASE Parse
  BY <1>1 DEF Parse, NewScanner, configVars,
              Discipline, Lengths, NoStaleLookahead, LengthDiscipline, InLimit
<1>2. CASE WithBestEffort \/ \E m \in MaxLengths : WithMaxMessageLength(m)
  BY <1>2 DEF WithBestEffort, WithMaxMessageLength, scannerVars, readerVars, lexVars,
              Discipline, Lengths, NoStaleLookahead, LengthDiscipline, InLimit
<1>3. CASE scan
  <2> USE DEF Discipline, Lengths, NoStaleLookahead, LengthDiscipline, InLimit
  <2>1. /\ stepback' = FALSE /\ pc # "idle" /\ spc = "idle"
        /\ UNCHANGED <<pc, out, msglen, maxlen, num, pos, last>>
    BY <1>3 DEF scan, readerVars
  <2>2. CASE stepback
    <3>1. spc' = "token" /\ pc = "MSGLEN" /\ last.typ \notin {"EOF", "LF"}
      BY <1>3, <2>2 DEF scan
    <3>2. last.typ # "SYSLOGMSG"
      BY <2>2
    <3> QED
      BY <2>1, <2>2, <3>1, <3>2
  <2>3. CASE ~stepback
    <3>1. spc' = "scan"
      BY <1>3, <2>3 DEF scan
    <3> QED
      BY <2>1, <2>3, <3>1
  <2> QED
    BY <2>2, <2>3
<1>4. CASE run
  BY <1>4, RunDiscipline
<1>5. CASE Lexer
  BY <1>5, LexerDiscipline
<1>6. CASE UNCHANGED vars
  BY <1>6 DEF vars, scannerVars, readerVars, lexVars, parserVars, configVars,
              Discipline, Lengths, NoStaleLookahead, LengthDiscipline, InLimit
<1> QED
  BY <1>1, <1>2, <1>3, <1>4, <1>5, <1>6 DEF Next

-----------------------------------------------------------------------------
(* Errors end the run. *)

ErrorsEnd == SoFarHarmless /\ FirstErrorIsLast

(* A run that emits one more result and stops, or one more harmless result  *)
(* and goes on, has only harmless results before its last.                  *)
LEMMA EmitStep ==
    ASSUME TypeOK, ErrorsEnd, pc # "idle", NEW r, emit(r), internalBE' = internalBE,
           pc' = "idle" \/ Harmless(r, internalBE)
    PROVE  ErrorsEnd'
<1>o. out \in Seq(Results)
  BY DEF TypeOK, Results
<1>1. out' = Append(out, r)
  BY DEF emit
<1>2. Len(out') = Len(out) + 1 /\ Len(out) \in Nat /\ out'[Len(out')] = r
      /\ \A i \in 1..Len(out) : out'[i] = out[i]
  BY <1>o, <1>1
<1>3. DOMAIN out = 1..Len(out) /\ DOMAIN out' = 1..Len(out')
  BY <1>o, <1>1
<1>4. \A i \in 1..Len(out) : Harmless(out[i], internalBE)
  BY <1>3 DEF ErrorsEnd, SoFarHarmless
<1>5. \A i \in 1..Len(out) : Harmless(out'[i], internalBE')
  BY <1>2, <1>4 DEF Harmless
<1>6. FirstErrorIsLast'
  BY <1>2, <1>5 DEF FirstErrorIsLast, Harmless
<1>7. SoFarHarmless'
  <2>1. CASE pc' = "idle"
    BY <2>1 DEF SoFarHarmless
  <2>2. CASE Harmless(r, internalBE)
    <3>1. \A i \in 1..Len(out') : i \in 1..Len(out) \/ i = Len(out')
      BY <1>2
    <3>2. Harmless(out'[Len(out')], internalBE')
      BY <1>2, <2>2 DEF Harmless
    <3> QED
      BY <1>3, <1>5, <3>1, <3>2 DEF SoFarHarmless
  <2> QED
    BY <2>1, <2>2
<1> QED
  BY <1>6, <1>7 DEF ErrorsEnd

(* The handlers of run(): each that emits a framing error, or strict an     *)
(* error of the machine, stops.                                             *)
LEMMA RunErrorsEnd ==
    ASSUME TypeOK, Discipline, ErrorsEnd, run
    PROVE  ErrorsEnd'
<1>k. ASSUME UNCHANGED <<out, internalBE>>, pc # "idle" PROVE ErrorsEnd'
  BY <1>k DEF ErrorsEnd, SoFarHarmless, FirstErrorIsLast, Harmless
<1>1. CASE GotMsgLen
  BY <1>1, <1>k DEF GotMsgLen, Got, Await, configVars
<1>2. CASE NoMsgLen
  BY <1>2, EmitStep DEF NoMsgLen, Not, Break, configVars
<1>3. CASE GotWS
  BY <1>3, <1>k DEF GotWS, Got, Await, configVars
<1>4. CASE NoWS
  BY <1>4, EmitStep DEF NoWS, Not, Break, configVars
<1>5. CASE GotSyslogMsg
  <2>1. PICK r \in internalParse : /\ internalBE \/ r.err = "nil"
                                   /\ emit(Result(r, Stripped(last.lit), Span))
    BY <1>5 DEF GotSyslogMsg
  <2>2. r.err \notin FramingErrors
    BY AnswerType DEF FramingErrors
  <2>3. Span # NoSpan
    BY <1>5 DEF GotSyslogMsg, Got, Discipline, Lengths, Span, NoSpan
  <2>4. Harmless(Result(r, Stripped(last.lit), Span), internalBE)
    BY <2>1, <2>2, <2>3 DEF Harmless, Result
  <2> QED
    BY <1>5, <2>1, <2>4, EmitStep DEF GotSyslogMsg, Got, Await, configVars
<1>6. CASE RejectedSyslogMsg
  BY <1>6, EmitStep DEF RejectedSyslogMsg, Got, Break, configVars
<1>7. CASE Underflow
  BY <1>7, EmitStep DEF Underflow, Not, Break, configVars
<1>8. CASE NoSyslogMsg
  BY <1>8, EmitStep DEF NoSyslogMsg, Not, Break, configVars
<1>9. CASE PostEOF
  BY <1>9, <1>k DEF PostEOF, Break, configVars
<1>10. CASE PostLF
  BY <1>10, <1>k DEF PostLF, Await, configVars
<1>11. CASE PostOther
  BY <1>11, <1>k DEF PostOther, Await, configVars
<1> QED
  BY <1>1, <1>2, <1>3, <1>4, <1>5, <1>6, <1>7, <1>8, <1>9, <1>10, <1>11 DEF run

(* Every step keeps the results harmless up to the last. *)
LEMMA ErrorsEndStep ==
    ASSUME TypeOK, Discipline, ErrorsEnd, [Next]_vars
    PROVE  ErrorsEnd'
<1>k. ASSUME UNCHANGED <<pc, out, internalBE>> PROVE ErrorsEnd'
  BY <1>k DEF ErrorsEnd, SoFarHarmless, FirstErrorIsLast, Harmless
<1>1. CASE Parse
  BY <1>1 DEF Parse, ErrorsEnd, SoFarHarmless, FirstErrorIsLast
<1>2. CASE WithBestEffort \/ \E m \in MaxLengths : WithMaxMessageLength(m)
  BY <1>2, <1>k DEF WithBestEffort, WithMaxMessageLength
<1>3. CASE scan
  BY <1>3, <1>k DEF scan, configVars
<1>4. CASE run
  BY <1>4, RunErrorsEnd
<1>5. CASE Lexer
  BY <1>5, <1>k DEF Lexer, parserVars, configVars
<1>6. CASE UNCHANGED vars
  BY <1>6, <1>k DEF vars, parserVars, configVars
<1> QED
  BY <1>1, <1>2, <1>3, <1>4, <1>5, <1>6 DEF Next

-----------------------------------------------------------------------------
(* The three parts together hold in every reachable state. *)
LEMMA ParserInvariant == Spec => [](TypeOK /\ Discipline /\ ErrorsEnd)
<1>1. Init => Discipline /\ ErrorsEnd
  BY DEF Init, ScannerInit, Discipline, Lengths, NoStaleLookahead, LengthDiscipline, InLimit,
         ErrorsEnd, SoFarHarmless, FirstErrorIsLast
<1>2. TypeOK /\ Discipline /\ ErrorsEnd /\ [Next]_vars
          => (TypeOK /\ Discipline /\ ErrorsEnd)'
  BY TypeStep, DisciplineStep, ErrorsEndStep
<1> QED
  BY <1>1, <1>2, TypeInit, PTL DEF Spec

(* A token pushed back by unscan is always taken by the next scan of the    *)
(* same Parse: reusing a parser never starts with an old reader's token.    *)
THEOREM LookaheadNeverStale == Spec => []NoStaleLookahead
  BY ParserInvariant, PTL DEF Discipline

(* A length neither outlives its frame nor exceeds the limit when used, for *)
(* every limit and stream: scanSyslogMsg's conversion to int cannot wrap    *)
(* and ErrMsgExceedsIntLimit is never emitted by the parser.                *)
THEOREM LengthsDisciplined == Spec => []LengthDiscipline
  BY ParserInvariant, PTL DEF Discipline

(* Nothing is emitted after an error of the framing, nor, without best      *)
(* effort, after any error (parser.go:174, 180-259).                        *)
THEOREM ErrorsStopTheRun == Spec => []FirstErrorIsLast
  BY ParserInvariant, PTL DEF ErrorsEnd

-----------------------------------------------------------------------------
(* The scanner on its own: what a message's length comes from. *)

(* While no digits are being read the length in force is none, that of the  *)
(* numeral read last, or the one before a numeral no uint64 holds; a        *)
(* message is begun only with a length.                                     *)
LengthSource ==
    /\ spc # "digits" => msglen = 0 \/ msglen = num \/ num > MaxUint
    /\ spc = "peek" => msglen > 0

Announced == ScannerTypeOK /\ LengthSource /\ AnnouncedLength

(* The type invariant of the bare scanner holds at first. *)
LEMMA ScannerTypeInit == ScannerInit => ScannerTypeOK
<1> SUFFICES ASSUME ScannerInit PROVE ScannerTypeOK
  OBVIOUS
<1> USE SizeAssumption
<1>0. <<>> \in Seq(Byte) /\ Len(<<>>) = 0
  OBVIOUS
<1>1. input \in Seq(Byte) /\ pos \in 0..Len(input) /\ from \in 0..pos
  BY <1>0 DEF ScannerInit
<1>2. msglen \in 0..MaxUint /\ num \in 0..(MaxUint + 1) /\ bufsize \in Nat
  BY DEF ScannerInit, MaxUint
<1>3. last \in Tokens
  BY <1>0, TokenType DEF ScannerInit, NoToken, TokenTypes
<1>4. ready \in BOOLEAN /\ maxlen \in 1..MaxInt /\ rerr = "nil" /\ spc = "closed"
  BY DEF ScannerInit
<1> QED
  BY <1>1, <1>2, <1>3, <1>4 DEF ScannerTypeOK

(* A scanner that NewScanner (scanner.go:82-92) builds is typed, whatever   *)
(* limit it is asked for: a limit of 0 or less is the default's.            *)
LEMMA NewScannerType ==
    ASSUME ScannerTypeOK, NEW m \in Int, m <= MaxInt, NewScanner(m)
    PROVE  ScannerTypeOK'
<1> USE SizeAssumption
<1>1. maxlen' \in 1..MaxInt
  BY DEF NewScanner
<1>2. bufsize' \in Nat
  <2>0. ASSUME NEW u \in Int PROVE ToInt(u) \in Int
    BY DEF ToInt, MaxUint
  <2>1. ToInt(maxlen' + HeaderSlack) \in Int
    <3>1. maxlen' + HeaderSlack \in Int
      BY <1>1
    <3> QED
      BY <2>0, <3>1
  <2>2. PICK size \in Int : bufsize' \in getReader(size)
    BY <2>1 DEF NewScanner
  <2> QED
    BY <2>2 DEF getReader, NewReaderSize
<1>3. /\ input' = <<>> /\ pos' = 0 /\ from' = 0 /\ num' = 0 /\ msglen' = 0
      /\ rerr' = "nil" /\ spc' = "idle" /\ last' = last /\ ready' = FALSE
  BY DEF NewScanner
<1>4. input' \in Seq(Byte) /\ pos' \in 0..Len(input') /\ from' \in 0..pos'
  BY <1>3
<1>5. msglen' \in 0..MaxUint /\ num' \in 0..(MaxUint + 1)
  BY <1>3 DEF MaxUint
<1> QED
  BY <1>1, <1>2, <1>3, <1>4, <1>5 DEF ScannerTypeOK

(* Scan and the reader keep the source of the length. *)
LEMMA AnnouncedScan ==
    ASSUME Announced, Fill \/ ScanStep
    PROVE  LengthSource' /\ AnnouncedLength'
<1> USE SizeAssumption
<1>t. /\ msglen \in Nat /\ num \in Nat /\ pos \in Nat /\ MaxUint \in Nat
      /\ input \in Seq(Byte) /\ pos <= Len(input)
  BY DEF Announced, ScannerTypeOK, MaxUint
<1>i. LengthSource /\ AnnouncedLength
  BY DEF Announced
<1>0. CASE Fill
  BY <1>0, <1>i DEF Fill, NeedsData, PeekBlocks, lexVars, LengthSource, AnnouncedLength
<1>1. CASE ScanMsgLenFirst
  BY <1>1 DEF ScanMsgLenFirst, LengthSource, AnnouncedLength
<1>2. CASE ScanLT
  BY <1>2, <1>i DEF ScanLT, readerVars, LengthSource, AnnouncedLength
<1>3. CASE ScanSingle
  <2>1. SingleToken(read).typ # "SYSLOGMSG"
    BY DEF SingleToken, Token
  <2>2. LengthSource'
    BY <1>3, <1>i DEF ScanSingle, Return, LengthSource
  <2> QED
    BY <1>3, <2>1, <2>2 DEF ScanSingle, Return, AnnouncedLength
<1>4. CASE ScanMsgLenDigit
  BY <1>4 DEF ScanMsgLenDigit, LengthSource, AnnouncedLength
<1>5. CASE ScanMsgLenEnd
  <2>1. MsgLenToken.typ # "SYSLOGMSG"
    BY DEF MsgLenToken, Illegal, Token
  <2>2. msglen' = num \/ num > MaxUint
    BY <1>5 DEF ScanMsgLenEnd, LengthStored
  <2> QED
    BY <1>5, <2>1, <2>2 DEF ScanMsgLenEnd, Return, LengthSource, AnnouncedLength
<1>6. CASE ScanTooBigForInt
  BY <1>6 DEF ScanTooBigForInt, Return, Illegal, readerVars, LengthSource, AnnouncedLength
<1>7. CASE ScanSyslogMsg
  <2>1. msglen > 0 /\ (msglen = num \/ num > MaxUint) /\ pos + msglen <= Len(input)
    BY <1>7, <1>t, <1>i DEF ScanSyslogMsg, LengthSource, Avail
  <2>2. /\ last'.lit = SubSeq(input, pos + 1, pos + msglen)
        /\ pos' = pos + msglen /\ msglen' = 0 /\ num' = num /\ input' = input /\ spc' = "token"
    BY <1>7 DEF ScanSyslogMsg, Return, Token
  <2>3. Len(last'.lit) = msglen
    BY <1>t, <2>1, <2>2, SubSeqProperties
  <2>4. pos' - Len(last'.lit) + 1 = pos + 1
    BY <1>t, <2>1, <2>2, <2>3
  <2> QED
    BY <2>1, <2>2, <2>3, <2>4 DEF LengthSource, AnnouncedLength
<1>8. CASE ScanUnderflow
  BY <1>8, <1>i DEF ScanUnderflow, Return, Token, LengthSource, AnnouncedLength
<1> QED
  BY <1>0, <1>1, <1>2, <1>3, <1>4, <1>5, <1>6, <1>7, <1>8 DEF ScanStep

(* Every step of a scanner that any client drives keeps it. *)
LEMMA AnnouncedStep ==
    ASSUME Announced, [ScannerNext]_scannerVars
    PROVE  Announced'
<1> USE SizeAssumption
<1>i. ScannerTypeOK /\ LengthSource /\ AnnouncedLength
  BY DEF Announced
<1>1. ASSUME NEW m \in MaxLengths, NewScanner(m) PROVE Announced'
  BY <1>1, <1>i, NewScannerType DEF NewScanner, Announced, LengthSource, AnnouncedLength
<1>2. CASE Scan
  BY <1>2, <1>i DEF Scan, readerVars, Announced, ScannerTypeOK, LengthSource, AnnouncedLength
<1>3. ASSUME NEW m \in MaxLengths, SetMaxLength(m) PROVE Announced'
  <2>1. maxlen' \in 1..MaxInt
    BY <1>3 DEF SetMaxLength
  <2>2. UNCHANGED <<input, pos, rerr, bufsize, msglen, ready, spc, from, num, last>>
    BY <1>3 DEF SetMaxLength, readerVars
  <2> QED
    BY <1>i, <2>1, <2>2 DEF Announced, ScannerTypeOK, LengthSource, AnnouncedLength
<1>4. CASE Release
  BY <1>4, <1>i DEF Release, readerVars, Announced, ScannerTypeOK, LengthSource, AnnouncedLength
<1>5. CASE Fill \/ ScanStep
  BY <1>5, <1>i, ScannerTypeStep, AnnouncedScan DEF Announced
<1>6. CASE UNCHANGED scannerVars
  BY <1>6, <1>i DEF scannerVars, readerVars, lexVars, Announced, ScannerTypeOK, LengthSource,
                    AnnouncedLength
<1> QED
  BY <1>1, <1>2, <1>3, <1>4, <1>5, <1>6 DEF ScannerNext

(* The message a Scanner returns has as many octets as the last numeral     *)
(* announced, in whatever order a client calls Scan, SetMaxLength, Release  *)
(* and NewScanner and whatever other tokens came between                    *)
(* (scanner.go:109-227).                                                    *)
THEOREM MessagesAsAnnounced == ScannerSpec => []AnnouncedLength
<1>1. ScannerInit => Announced
  BY ScannerTypeInit DEF ScannerInit, Announced, LengthSource, AnnouncedLength
<1>2. Announced /\ [ScannerNext]_scannerVars => Announced'
  BY AnnouncedStep
<1>3. Announced => AnnouncedLength
  BY DEF Announced
<1> QED
  BY <1>1, <1>2, <1>3, PTL DEF ScannerSpec

-----------------------------------------------------------------------------
(* The room in the buffer. *)

(* No limit is so close to the largest int that adding the header's room to *)
(* it wraps (see the hazard at scanner.go:89).                              *)
NoLimitWraps == \A m \in MaxLengths \cup {DefaultMaxSize} : m + HeaderSlack <= MaxInt

HasRoom == spc # "closed" => bufsize >= maxlen

(* The parser asks for its reader once the limit is known, and its limit    *)
(* stays what it was while a scanner is in use.                             *)
Roomy == maxMessageLength \in MaxLengths \cup {DefaultMaxSize} /\ HasRoom

(* A reader taken for a limit has room for a message of that length. *)
LEMMA ReaderRoom ==
    ASSUME NEW m \in 1..MaxInt, m + HeaderSlack <= MaxInt,
           NEW b \in getReader(ToInt(m + HeaderSlack))
    PROVE  b >= m
<1> USE SizeAssumption
<1>1. m + HeaderSlack \in Int /\ m + HeaderSlack >= m
  OBVIOUS
<1>2. ToInt(m + HeaderSlack) = m + HeaderSlack
  BY <1>1 DEF ToInt
<1>3. ASSUME NEW u \in Int, NEW c \in getReader(u) PROVE c \in Int /\ c >= u
  BY <1>3 DEF getReader, NewReaderSize
<1>4. b \in Int /\ b >= m + HeaderSlack
  BY <1>1, <1>2, <1>3
<1> QED
  BY <1>1, <1>4

(* Every step keeps the room. *)
LEMMA RoomStep ==
    ASSUME NoLimitWraps, TypeOK, Roomy, [Next]_vars
    PROVE  Roomy'
<1> USE SizeAssumption
<1>k. ASSUME UNCHANGED <<maxlen, bufsize>>, spc # "closed" \/ spc' = spc,
             UNCHANGED maxMessageLength
      PROVE  Roomy'
  BY <1>k DEF Roomy, HasRoom
<1>1. CASE Parse
  <2>1. NewScanner(maxMessageLength) /\ UNCHANGED maxMessageLength
    BY <1>1 DEF Parse, configVars
  <2>2. maxlen' \in MaxLengths \cup {DefaultMaxSize}
    BY <2>1 DEF NewScanner, Roomy
  <2>3. maxlen' \in 1..MaxInt
    BY <2>1 DEF NewScanner, TypeOK
  <2>4. maxlen' + HeaderSlack <= MaxInt
    BY <2>2, Zenon DEF NoLimitWraps
  <2>5. bufsize' \in getReader(ToInt(maxlen' + HeaderSlack))
    BY <2>1 DEF NewScanner
  <2>6. bufsize' >= maxlen'
    BY <2>3, <2>4, <2>5, ReaderRoom
  <2> QED
    BY <2>1, <2>6 DEF Roomy, HasRoom
<1>2. CASE WithBestEffort
  BY <1>2, <1>k DEF WithBestEffort, scannerVars, readerVars, lexVars
<1>3. ASSUME NEW m \in MaxLengths, WithMaxMessageLength(m) PROVE Roomy'
  BY <1>3 DEF WithMaxMessageLength, scannerVars, readerVars, lexVars, Roomy, HasRoom
<1>4. CASE scan
  BY <1>4, <1>k DEF scan, readerVars, configVars
<1>5. CASE run
  <2>1. UNCHANGED <<maxlen, bufsize, maxMessageLength>> /\ spc = "token"
    BY <1>5 DEF run, GotMsgLen, NoMsgLen, GotWS, NoWS, GotSyslogMsg, RejectedSyslogMsg,
                Underflow, NoSyslogMsg, PostEOF, PostLF, PostOther, Got, Not, Await, Break,
                scannerRest, readerVars, configVars
  <2> QED
    BY <1>k, <2>1
<1>6. CASE Lexer
  <2>1. UNCHANGED <<maxlen, bufsize, maxMessageLength>>
    BY <1>6 DEF Lexer, Fill, ScanStep, ScanMsgLenFirst, ScanLT, ScanSingle, ScanMsgLenDigit,
                ScanMsgLenEnd, ScanTooBigForInt, ScanSyslogMsg, ScanUnderflow, readerVars,
                lexVars, parserVars, configVars
  <2>2. spc # "closed"
    BY <1>6 DEF Lexer, Fill, NeedsData, PeekBlocks, ScanStep, ScanMsgLenFirst, ScanLT,
                ScanSingle, ScanMsgLenDigit, ScanMsgLenEnd, ScanTooBigForInt, ScanSyslogMsg,
                ScanUnderflow
  <2> QED
    BY <1>k, <2>1, <2>2
<1>7. CASE UNCHANGED vars
  BY <1>7, <1>k DEF vars, scannerVars, readerVars, lexVars, parserVars, configVars
<1> QED
  BY <1>1, <1>2, <1>3, <1>4, <1>5, <1>6, <1>7 DEF Next

(* Peek is never refused for want of room while the parser reads a frame    *)
(* within its limit, for every limit that leaves room for the header in an  *)
(* int (scanner.go:82-92, 207).                                             *)
THEOREM FramesFit == ASSUME NoLimitWraps PROVE Spec => []PeekFits
<1>1. Init => Roomy
  BY DEF Init, ScannerInit, Roomy, HasRoom
<1>2. TypeOK /\ Roomy /\ [Next]_vars => Roomy'
  BY RoomStep
<1>3. TypeOK /\ Roomy => PeekFits
  BY SizeAssumption DEF TypeOK, ScannerTypeOK, Roomy, HasRoom, PeekFits, MaxUint
<1> QED
  BY <1>1, <1>2, <1>3, TypeCorrect, PTL DEF Spec

-----------------------------------------------------------------------------
(* The end of a run. *)

(* The scanner asks for a byte only when it has none, and for a message     *)
(* only up to its length.                                                   *)
Lazy ==
    /\ spc \in {"idle", "scan", "digits"} => Avail <= 1
    /\ spc = "token" /\ last.typ # "EOF" => Avail <= 1
    /\ spc = "peek" => Avail <= msglen

(* The last result ends where the reader ends, up to one final NUL. *)
Delivered ==
    /\ out # <<>>
    /\ LET e == out[Len(out)].span[2]
       IN  Len(input) = e \/ (Len(input) = e + 1 /\ input[e + 1] = eof)

(* Between a message and the token after it nothing has been consumed. *)
Accounted ==
    /\ pc = "post" /\ spc \in {"idle", "scan"} => out # <<>> /\ out[Len(out)].span[2] = pos
    /\ pc = "post" /\ spc = "token" /\ last.typ = "EOF" => Delivered
    /\ NothingDropped

(* The reader and the scanner keep the last message's end in sight. *)
LEMMA LexerAccounts ==
    ASSUME TypeOK, Discipline, Lazy, Accounted, Lexer
    PROVE  Lazy' /\ Accounted'
<1> USE SizeAssumption
<1>t. /\ msglen \in Nat /\ maxlen \in Nat /\ pos \in Nat /\ input \in Seq(Byte)
      /\ Len(input) \in Nat /\ pos <= Len(input)
  BY DEF TypeOK, ScannerTypeOK
<1>p. UNCHANGED <<pc, out, internalBE, parses, stepback>>
  BY DEF Lexer, parserVars, configVars
<1>r. /\ pc # "idle"
      /\ spc = "peek" => pc # "post" /\ msglen >= 1
  <2>1. spc # "closed"
    BY DEF Lexer, Fill, NeedsData, PeekBlocks, ScanStep, ScanMsgLenFirst, ScanLT, ScanSingle,
           ScanMsgLenDigit, ScanMsgLenEnd, ScanTooBigForInt, ScanSyslogMsg, ScanUnderflow
  <2>2. spc = "peek" => msglen \in 1..maxlen
    BY DEF Discipline, LengthDiscipline
  <2> QED
    BY <1>t, <2>1, <2>2 DEF Discipline, Lengths
<1>n. NothingDropped'
  BY <1>p, <1>r DEF NothingDropped, Returned
(* A step to a state that is not an EOF token while nothing moves. *)
<1>k. ASSUME pc # "post" \/ ~(spc' = "token" /\ last'.typ = "EOF"),
             pc # "post" \/ spc' \notin {"idle", "scan"}
      PROVE  Accounted'
  BY <1>k, <1>n, <1>p DEF Accounted
<1>c. ASSUME Consume
      PROVE  /\ pos' \in Nat /\ pos' >= pos /\ pos' <= Len(input)
             /\ Avail > 0 => pos' = pos + 1
             /\ Avail <= 0 => pos' = pos
  BY <1>c, <1>t DEF Consume, Avail
<1>0. CASE Fill
  <2>1. UNCHANGED <<pos, msglen, spc, last>>
    BY <1>0 DEF Fill, lexVars
  <2>2. \/ input' = input
        \/ Len(input') = Len(input) + 1 /\ \A j \in 1..Len(input) : input'[j] = input[j]
    <3>1. ASSUME NEW b \in Alphabet, input' = Append(input, b)
          PROVE  Len(input') = Len(input) + 1 /\ \A j \in 1..Len(input) : input'[j] = input[j]
      BY <1>t, <3>1
    <3> QED
      BY <1>0, <3>1 DEF Fill
  <2>3. \/ spc \in {"scan", "digits"} /\ Avail = 0
        \/ spc = "peek" /\ Avail < msglen
    BY <1>0 DEF Fill, NeedsData, PeekBlocks
  <2>4. Lazy'
    BY <1>t, <2>1, <2>2, <2>3 DEF Lazy, Avail
  <2>5. Accounted'
    BY <1>n, <1>p, <2>1, <2>3 DEF Accounted
  <2> QED
    BY <2>4, <2>5
<1>1. CASE ScanMsgLenFirst
  <2>1. Consume /\ input' = input /\ spc' = "digits" /\ spc = "scan"
    BY <1>1 DEF ScanMsgLenFirst
  <2>2. Lazy'
    BY <1>t, <1>c, <2>1 DEF Lazy, Avail
  <2> QED
    BY <1>k, <2>1, <2>2
<1>2. CASE ScanLT
  <2>1. spc = "scan" /\ spc' = "peek" /\ UNCHANGED <<input, pos, msglen>> /\ msglen >= 1
    BY <1>2, <1>t DEF ScanLT, readerVars
  <2>2. Lazy'
    BY <1>t, <2>1 DEF Lazy, Avail
  <2> QED
    BY <1>k, <2>1, <2>2
<1>3. CASE ScanSingle
  <2>1. Consume /\ input' = input /\ spc' = "token" /\ spc = "scan" /\ last' = SingleToken(read)
    BY <1>3 DEF ScanSingle, Return
  <2>2. Lazy'
    BY <1>t, <1>c, <2>1 DEF Lazy, Avail
  <2>3. ASSUME pc = "post", last'.typ = "EOF" PROVE Delivered'
    <3>1. read = eof
      BY <2>1, <2>3 DEF SingleToken, Token
    <3>2. out # <<>> /\ out[Len(out)].span[2] = pos /\ Avail <= 1
      BY <2>1, <2>3 DEF Accounted, Lazy
    <3>3. Len(input) = pos \/ (Len(input) = pos + 1 /\ input[pos + 1] = eof)
      BY <1>t, <3>1, <3>2 DEF read, Avail
    <3> QED
      BY <1>p, <2>1, <3>2, <3>3 DEF Delivered
  <2>4. Accounted'
    BY <1>n, <1>p, <2>1, <2>3 DEF Accounted
  <2> QED
    BY <2>2, <2>4
<1>4. CASE ScanMsgLenDigit
  <2>1. Consume /\ input' = input /\ spc' = "digits" /\ spc = "digits"
    BY <1>4 DEF ScanMsgLenDigit
  <2>2. Lazy'
    BY <1>t, <1>c, <2>1 DEF Lazy, Avail
  <2> QED
    BY <1>k, <2>1, <2>2
<1>5. CASE ScanMsgLenEnd
  <2>1. /\ Consume \/ UNCHANGED pos
        /\ input' = input /\ spc' = "token" /\ spc = "digits" /\ last' = MsgLenToken
    BY <1>5 DEF ScanMsgLenEnd, Return
  <2>2. Lazy'
    BY <1>t, <1>c, <2>1 DEF Lazy, Avail
  <2>3. last'.typ # "EOF"
    BY <2>1 DEF MsgLenToken, Illegal, Token
  <2> QED
    BY <1>k, <2>1, <2>2, <2>3
<1>6. CASE ScanTooBigForInt
  <2>1. msglen > MaxInt /\ spc = "peek"
    BY <1>6 DEF ScanTooBigForInt
  <2>2. msglen \in 1..maxlen /\ maxlen \in 1..MaxInt
    BY <2>1 DEF Discipline, LengthDiscipline, TypeOK, ScannerTypeOK
  <2> QED
    BY <2>1, <2>2
<1>7. CASE ScanSyslogMsg
  <2>1. /\ spc = "peek" /\ spc' = "token" /\ input' = input /\ pos' = pos + msglen
        /\ Avail >= msglen /\ last'.typ = "SYSLOGMSG"
    BY <1>7 DEF ScanSyslogMsg, Return, Token
  <2>2. Lazy'
    BY <1>t, <2>1 DEF Lazy, Avail
  <2> QED
    BY <1>k, <2>1, <2>2
<1>8. CASE ScanUnderflow
  <2>1. spc = "peek" /\ spc' = "token" /\ last'.typ = "EOF"
    BY <1>8 DEF ScanUnderflow, Return, Token
  <2> QED
    BY <1>k, <1>r, <2>1 DEF Lazy
<1> QED
  BY <1>0, <1>1, <1>2, <1>3, <1>4, <1>5, <1>6, <1>7, <1>8 DEF Lexer, ScanStep

(* The handlers of run(): each emits a result that refuses the stream, or   *)
(* stops at the end of it.                                                  *)
LEMMA RunAccounts ==
    ASSUME TypeOK, Discipline, Lazy, Accounted, run
    PROVE  Lazy' /\ Accounted'
<1>o. out \in Seq(Results)
  BY DEF TypeOK, Results
<1>u. UNCHANGED <<input, pos, last, msglen, internalBE, parses>> /\ spc = "token"
  BY DEF run, GotMsgLen, NoMsgLen, GotWS, NoWS, GotSyslogMsg, RejectedSyslogMsg, Underflow,
         NoSyslogMsg, PostEOF, PostLF, PostOther, Got, Not, Await, Break, scannerRest,
         readerVars, configVars
<1>a. ASSUME NEW r, emit(r) PROVE out' # <<>> /\ out'[Len(out')] = r
  BY <1>a, <1>o DEF emit
<1>b. ASSUME Break, NEW r, emit(r), r.err # "nil", ~internalBE \/ r.span = NoSpan
      PROVE  Lazy' /\ Accounted'
  <2>1. out' # <<>> /\ out'[Len(out')] = r
    BY <1>a, <1>b
  <2>2. Refused'
    BY <1>b, <1>u, <2>1 DEF Refused
  <2>3. pc' = "idle" /\ spc' = "closed"
    BY <1>b DEF Break
  <2> QED
    BY <2>2, <2>3 DEF Lazy, Accounted, NothingDropped
<1>w. ASSUME NEW next \in {"MSGLEN", "WS", "SYSLOGMSG"}, Await(next), last.typ # "EOF"
      PROVE  Lazy' /\ Accounted'
  <2>1. pc' = next /\ spc' = "idle"
    BY <1>w DEF Await
  <2>2. Avail' = Avail /\ Avail <= 1
    BY <1>u, <1>w DEF Lazy, Avail
  <2> QED
    BY <2>1, <2>2 DEF Lazy, Accounted, NothingDropped, Returned
<1>1. CASE GotMsgLen
  BY <1>1, <1>w DEF GotMsgLen, Got
<1>2. CASE NoMsgLen
  <2>1. PICK e : e # "nil" /\ emit(ErrorResult(e))
    <3>1. last.err # "nil"
      BY DEF TypeOK, ScannerTypeOK, Tokens, ErrTexts
    <3> QED
      BY <1>2, <3>1 DEF NoMsgLen
  <2> QED
    BY <1>2, <1>b, <2>1 DEF NoMsgLen, ErrorResult, NoSpan
<1>3. CASE GotWS
  BY <1>3, <1>w DEF GotWS, Got
<1>4. CASE NoWS
  BY <1>4, <1>b DEF NoWS, ErrorResult, NoSpan
<1>5. CASE GotSyslogMsg
  <2>1. PICK r \in internalParse : emit(Result(r, Stripped(last.lit), Span))
    BY <1>5 DEF GotSyslogMsg
  <2>2. out' # <<>> /\ out'[Len(out')].span[2] = pos
    BY <1>a, <2>1 DEF Result, Span
  <2>3. pc' = "post" /\ spc' = "idle" /\ last.typ = "SYSLOGMSG"
    BY <1>5 DEF GotSyslogMsg, Await, Got
  <2>4. Avail' = Avail /\ Avail <= 1
    BY <1>u, <2>3 DEF Lazy, Avail
  <2> QED
    BY <1>u, <2>2, <2>3, <2>4 DEF Lazy, Accounted, NothingDropped, Returned
<1>6. CASE RejectedSyslogMsg
  <2>1. PICK r \in internalParse :
           /\ r.err # "nil"
           /\ emit(Result([msg |-> FALSE, err |-> r.err], Stripped(last.lit), Span))
    BY <1>6 DEF RejectedSyslogMsg
  <2>2. Result([msg |-> FALSE, err |-> r.err], Stripped(last.lit), Span).err # "nil"
    BY <2>1 DEF Result
  <2> QED
    BY <1>6, <1>b, <2>1, <2>2 DEF RejectedSyslogMsg
<1>7. CASE Underflow
  <2> DEFINE u(r) == Result([msg |-> r.msg,
                             err |-> IF r.err = "nil" THEN "ExpectingSYSLOGMSG" ELSE r.err],
                            Stripped(last.lit), NoSpan)
  <2>1. PICK r \in internalParse : emit(u(r))
    BY <1>7 DEF Underflow
  <2>2. u(r).err # "nil" /\ u(r).span = NoSpan
    BY DEF Result
  <2> QED
    BY <1>7, <1>b, <2>1, <2>2 DEF Underflow
<1>8. CASE NoSyslogMsg
  BY <1>8, <1>b DEF NoSyslogMsg, ErrorResult, NoSpan
<1>9. CASE PostEOF
  <2>1. Delivered /\ UNCHANGED out /\ pc' = "idle" /\ spc' = "closed"
    BY <1>9 DEF PostEOF, Break, Accounted
  <2> QED
    BY <1>u, <2>1 DEF Lazy, Accounted, NothingDropped, Delivered
<1>10. CASE PostLF
  BY <1>10, <1>w DEF PostLF
<1>11. CASE PostOther
  BY <1>11, <1>w DEF PostOther
<1> QED
  BY <1>1, <1>2, <1>3, <1>4, <1>5, <1>6, <1>7, <1>8, <1>9, <1>10, <1>11 DEF run

(* Every step accounts for what the reader gave. *)
LEMMA AccountStep ==
    ASSUME TypeOK, Discipline, Lazy, Accounted, [Next]_vars
    PROVE  Lazy' /\ Accounted'
<1>k. ASSUME UNCHANGED <<input, pos, last, msglen, internalBE, parses, pc, spc, out>>
      PROVE  Lazy' /\ Accounted'
  BY <1>k DEF Lazy, Accounted, NothingDropped, Returned, Refused, Delivered, Avail
<1>1. CASE Parse
  <2>1. input' = <<>> /\ pos' = 0 /\ spc' = "idle" /\ pc' = "MSGLEN"
    BY <1>1 DEF Parse, NewScanner
  <2>2. Avail' = 0
    BY <2>1 DEF Avail
  <2> QED
    BY <2>1, <2>2 DEF Lazy, Accounted, NothingDropped, Returned
<1>2. CASE WithBestEffort \/ \E m \in MaxLengths : WithMaxMessageLength(m)
  BY <1>2, <1>k DEF WithBestEffort, WithMaxMessageLength, scannerVars, readerVars, lexVars
<1>3. CASE scan
  <2>1. /\ pc # "idle" /\ spc = "idle"
        /\ UNCHANGED <<input, pos, last, msglen, internalBE, parses, pc, out>>
        /\ spc' = IF stepback THEN "token" ELSE "scan"
    BY <1>3 DEF scan, readerVars, configVars
  <2>2. stepback => pc = "MSGLEN" /\ last.typ # "EOF"
    BY DEF Discipline, NoStaleLookahead
  <2>3. Avail' = Avail /\ Avail <= 1
    BY <2>1 DEF Lazy, Avail
  <2> QED
    BY <2>1, <2>2, <2>3 DEF Lazy, Accounted, NothingDropped, Returned
<1>4. CASE run
  BY <1>4, RunAccounts
<1>5. CASE Lexer
  BY <1>5, LexerAccounts
<1>6. CASE UNCHANGED vars
  BY <1>6, <1>k DEF vars, scannerVars, readerVars, lexVars, parserVars, configVars
<1> QED
  BY <1>1, <1>2, <1>3, <1>4, <1>5, <1>6 DEF Next

(* When Parse returns without a framing error every octet it received       *)
(* before the token that ended the run is in a result, up to one final NUL: *)
(* nothing between two messages is read and dropped (parser.go:180-259,     *)
(* scanner.go:94-107).                                                      *)
THEOREM EveryOctetDelivered == Spec => []NothingDropped
<1>1. Init => Lazy /\ Accounted
  BY DEF Init, ScannerInit, Lazy, Accounted, NothingDropped, Returned
<1>2. TypeOK /\ Discipline /\ Lazy /\ Accounted /\ [Next]_vars => (Lazy /\ Accounted)'
  BY AccountStep
<1>3. Accounted => NothingDropped
  BY DEF Accounted
<1> QED
  BY <1>1, <1>2, <1>3, ParserInvariant, PTL DEF Spec

-----------------------------------------------------------------------------
(* What reaches the machine. *)

(* No '<' among the octets after the a-th up to the b-th. *)
NoLt(s, a, b) == \A j \in (a + 1)..b : s[j] # lt

(* l is what stands between the first '<' after the a-th octet and the b-th. *)
Framed(s, a, b, l) ==
    \E k \in (a + 1)..b : s[k] = lt /\ NoLt(s, a, k - 1) /\ l = SubSeq(s, k, b)

(* What ContentIntact says of one result. *)
IntactAt(s, a, b, l, strips) ==
    \E k \in (a + 1)..b, cut \in {<<>>, <<lf>>, <<cr, lf>>} :
       /\ s[k] = lt /\ \A j \in (a + 1)..(k - 1) : s[j] # lt
       /\ SubSeq(s, k, b) = l \o cut
       /\ cut = <<>> <=> ~strips \/ s[b] # lf
       /\ cut = <<lf>> => ~EndsIn(l, cr)
Intact(s, r, strips) == r.span # NoSpan =>
    /\ r.span[1] \in Nat /\ r.span[2] \in 1..Len(s)
    /\ IntactAt(s, r.span[1], r.span[2], r.lit, strips)

AllIntact == \A i \in DOMAIN out : Intact(input, out[i], stripTrailingNL)

(* From the numeral of a frame on, the first '<' is where its message       *)
(* begins.                                                                  *)
Begun ==
    /\ spc = "digits" => NoLt(input, from, pos)
    /\ (spc = "token" \/ stepback) /\ last.typ = "MSGLEN" => NoLt(input, from, pos)
    /\ pc \in {"WS", "SYSLOGMSG"} /\ spc \in {"idle", "scan"} => NoLt(input, from, pos)
    /\ pc = "WS" /\ spc = "token" /\ last.typ = "WS" => NoLt(input, from, pos)
    /\ spc = "peek" => NoLt(input, from, pos) /\ Avail >= 1 /\ input[pos + 1] = lt
    /\ spc = "token" /\ last.typ = "SYSLOGMSG" => Framed(input, from, pos, last.lit)

(* An octet that is no '<' may be consumed. *)
LEMMA NoLtMore ==
    ASSUME NEW s, NEW a \in Nat, NEW b \in Nat, NEW c, c = b + 1, NoLt(s, a, b), s[b + 1] # lt
    PROVE  NoLt(s, a, c)
  BY DEF NoLt

(* What was read stays what it is when the reader gives more. *)
LEMMA PartStays ==
    ASSUME NEW s \in Seq(Byte), NEW x \in Byte, NEW k \in Nat \ {0}, NEW b \in k..Len(s)
    PROVE  SubSeq(Append(s, x), k, b) = SubSeq(s, k, b)
<1>1. /\ Append(s, x) \in Seq(Byte) /\ Len(Append(s, x)) = Len(s) + 1
      /\ \A j \in 1..Len(s) : Append(s, x)[j] = s[j]
      /\ Len(s) \in Nat
  OBVIOUS
<1> DEFINE t == Append(s, x)
           u == SubSeq(s, k, b)
           v == SubSeq(t, k, b)
<1>2. u \in Seq(Byte) /\ Len(u) = b - k + 1 /\ \A i \in 1..(b - k + 1) : u[i] = s[k + i - 1]
  BY <1>1, SubSeqProperties
<1>3. b \in (k - 1)..Len(t) /\ k \in 1..(Len(t) + 1)
  BY <1>1
<1> HIDE DEF t
<1>4. v \in Seq(Byte) /\ Len(v) = b - k + 1 /\ \A i \in 1..(b - k + 1) : v[i] = t[k + i - 1]
  <2>1. t \in Seq(Byte)
    BY <1>1 DEF t
  <2> QED
    BY <1>3, <2>1, SubSeqProperties
<1>5. \A i \in 1..(b - k + 1) : t[k + i - 1] = s[k + i - 1]
  BY <1>1 DEF t
<1> HIDE DEF u, v
<1>6. u = v
  BY <1>2, <1>4, <1>5, SeqEqual
<1> QED
  BY <1>6 DEF u, v, t

(* Fill keeps the invariant's parts: they speak of octets already read. *)
LEMMA NoLtStays ==
    ASSUME NEW s \in Seq(Byte), NEW x \in Byte, NEW a \in Nat, NEW b \in 0..Len(s), NoLt(s, a, b)
    PROVE  NoLt(Append(s, x), a, b)
  BY DEF NoLt

LEMMA IntactStays ==
    ASSUME NEW s \in Seq(Byte), NEW x \in Byte, NEW r, NEW strips, Intact(s, r, strips)
    PROVE  Intact(Append(s, x), r, strips)
<1> SUFFICES ASSUME r.span # NoSpan
             PROVE  /\ r.span[1] \in Nat /\ r.span[2] \in 1..Len(Append(s, x))
                    /\ IntactAt(Append(s, x), r.span[1], r.span[2], r.lit, strips)
  BY DEF Intact
<1> DEFINE a == r.span[1]
           b == r.span[2]
           l == r.lit
           t == Append(s, x)
<1>1. a \in Nat /\ b \in 1..Len(s) /\ IntactAt(s, a, b, l, strips)
  BY DEF Intact
<1>2. Len(t) = Len(s) + 1 /\ \A j \in 1..Len(s) : t[j] = s[j]
  OBVIOUS
<1>3. \A k \in 1..b : SubSeq(t, k, b) = SubSeq(s, k, b)
  BY <1>1, PartStays
<1> HIDE DEF a, b, l, t
<1>4. PICK k \in (a + 1)..b, cut \in {<<>>, <<lf>>, <<cr, lf>>} :
         /\ s[k] = lt /\ \A j \in (a + 1)..(k - 1) : s[j] # lt
         /\ SubSeq(s, k, b) = l \o cut
         /\ cut = <<>> <=> ~strips \/ s[b] # lf
         /\ cut = <<lf>> => ~EndsIn(l, cr)
  BY <1>1, Zenon DEF IntactAt
<1>5. k \in 1..b /\ k \in Nat /\ b \in 1..Len(s)
  BY <1>1, <1>4
<1>6. t[k] = lt /\ t[b] = s[b] /\ \A j \in (a + 1)..(k - 1) : t[j] # lt
  <2>1. s[k] = lt /\ \A j \in (a + 1)..(k - 1) : s[j] # lt
    BY <1>4, Zenon
  <2>2. k \in 1..Len(s) /\ b \in 1..Len(s) /\ \A j \in (a + 1)..(k - 1) : j \in 1..Len(s)
    BY <1>1, <1>5
  <2> QED
    BY <1>2, <2>1, <2>2
<1>7. SubSeq(t, k, b) = l \o cut
  BY <1>3, <1>4, <1>5
<1>8. IntactAt(t, a, b, l, strips)
  BY <1>4, <1>6, <1>7, Zenon DEF IntactAt
<1>9. b \in 1..Len(t)
  BY <1>1, <1>2
<1> QED
  BY <1>1, <1>8, <1>9 DEF a, b, l, t

(* What Stripped cuts off is one newline, with the carriage return before   *)
(* it, and nothing else (parser.go:261-271).                                *)
LEMMA StrippedCut ==
    ASSUME NEW l \in Seq(Byte), Len(l) >= 1
    PROVE  \E cut \in {<<>>, <<lf>>, <<cr, lf>>} :
              /\ l = Stripped(l) \o cut
              /\ cut = <<>> <=> ~stripTrailingNL \/ l[Len(l)] # lf
              /\ cut = <<lf>> => ~EndsIn(Stripped(l), cr)
<1>1. ASSUME NEW s \in Seq(Byte), Len(s) >= 1
      PROVE  /\ Butlast(s) \in Seq(Byte) /\ Len(Butlast(s)) = Len(s) - 1
             /\ \A i \in 1..(Len(s) - 1) : Butlast(s)[i] = s[i]
  <2> DEFINE n == Len(s) - 1
  <2>1. n \in 0..Len(s) /\ 1 \in 1..(Len(s) + 1) /\ n \in Nat
    BY <1>1
  <2>2. Butlast(s) = SubSeq(s, 1, n)
    BY DEF Butlast
  <2> HIDE DEF n
  <2>3. /\ SubSeq(s, 1, n) \in Seq(Byte) /\ Len(SubSeq(s, 1, n)) = n
        /\ \A i \in 1..n : SubSeq(s, 1, n)[i] = s[i]
    BY <1>1, <2>1, SubSeqProperties
  <2>4. /\ Butlast(s) \in Seq(Byte) /\ Len(Butlast(s)) = n
        /\ \A i \in 1..n : Butlast(s)[i] = s[i]
    BY <2>2, <2>3
  <2> QED
    BY <2>4 DEF n
<1>b. lf \in Byte /\ cr \in Byte /\ lf # cr
  BY DEF lf, cr, Byte
<1>2. ASSUME NEW s \in Seq(Byte), Len(s) >= 1
      PROVE  s = Butlast(s) \o <<s[Len(s)]>>
  <2> DEFINE u == Butlast(s)
             v == Butlast(s) \o <<s[Len(s)]>>
  <2>1. u \in Seq(Byte) /\ Len(u) = Len(s) - 1 /\ \A i \in 1..(Len(s) - 1) : u[i] = s[i]
    BY <1>1, <1>2
  <2> HIDE DEF u
  <2>2. s[Len(s)] \in Byte
    BY <1>2
  <2>3. u \o <<s[Len(s)]>> \in Seq(Byte) /\ Len(u \o <<s[Len(s)]>>) = Len(s)
    BY <1>2, <2>1, <2>2
  <2>4. \A i \in 1..Len(s) : (u \o <<s[Len(s)]>>)[i] = s[i]
    BY <1>2, <2>1, <2>2
  <2> QED
    BY <2>3, <2>4, SeqEqual DEF u
<1>3. CASE ~(stripTrailingNL /\ EndsIn(l, lf))
  <2>1. Stripped(l) = l
    BY <1>3 DEF Stripped
  <2>2. l = Stripped(l) \o <<>>
    BY <2>1
  <2>3. ~stripTrailingNL \/ l[Len(l)] # lf
    BY <1>3 DEF EndsIn
  <2>4. <<>> # <<lf>>
    OBVIOUS
  <2> QED
    BY <2>2, <2>3, <2>4
<1>4. CASE stripTrailingNL /\ EndsIn(l, lf)
  <2> DEFINE m == Butlast(l)
  <2>0. m \in Seq(Byte) /\ l = m \o <<lf>>
    BY <1>1, <1>2, <1>4 DEF EndsIn
  <2>l. l[Len(l)] = lf
    BY <1>4 DEF EndsIn
  <2>1. CASE EndsIn(m, cr)
    <3> DEFINE n == Butlast(m)
    <3>1. Stripped(l) = n
      BY <1>4, <2>1, Zenon DEF Stripped
    <3> HIDE DEF m
    <3>2. n \in Seq(Byte) /\ m = n \o <<cr>>
      BY <1>1, <1>2, <2>0, <2>1 DEF EndsIn
    <3> HIDE DEF n
    <3>3. n \o <<cr, lf>> = (n \o <<cr>>) \o <<lf>>
      <4> DEFINE q == n \o <<cr>>
                 u == n \o <<cr, lf>>
                 v == q \o <<lf>>
      <4>1. /\ q \in Seq(Byte) /\ Len(q) = Len(n) + 1
            /\ \A i \in 1..Len(n) : q[i] = n[i]
            /\ q[Len(n) + 1] = cr /\ Len(n) \in Nat
        BY <1>b, <3>2
      <4>2. /\ u \in Seq(Byte) /\ Len(u) = Len(n) + 2
            /\ \A i \in 1..Len(n) : u[i] = n[i]
            /\ u[Len(n) + 1] = cr /\ u[Len(n) + 2] = lf
        BY <1>b, <3>2
      <4> HIDE DEF q
      <4>3. /\ v \in Seq(Byte) /\ Len(v) = Len(q) + 1
            /\ \A i \in 1..Len(q) : v[i] = q[i]
            /\ v[Len(q) + 1] = lf
        BY <1>b, <4>1
      <4> HIDE DEF u, v
      <4>4. \A i \in 1..Len(u) : u[i] = v[i]
        BY <4>1, <4>2, <4>3
      <4>5. u = v
        BY <4>1, <4>2, <4>3, <4>4, SeqEqual
      <4> QED
        BY <4>5 DEF u, v, q
    <3>4. l = n \o <<cr, lf>>
      BY <2>0, <3>2, <3>3
    <3>5. <<cr, lf>> # <<>> /\ <<cr, lf>> # <<lf>>
      OBVIOUS
    <3> QED
      BY <1>4, <2>l, <3>1, <3>4, <3>5
  <2>2. CASE ~EndsIn(m, cr)
    <3>1. Stripped(l) = m
      BY <1>4, <2>2, Zenon DEF Stripped
    <3> HIDE DEF m
    <3>2. <<lf>> # <<>>
      OBVIOUS
    <3> QED
      BY <1>4, <2>0, <2>l, <2>2, <3>1, <3>2
  <2> QED
    BY <2>1, <2>2
<1> QED
  BY <1>3, <1>4

(* Between the numeral and the message only octets other than '<' are read. *)
LEMMA LexerBegins ==
    ASSUME TypeOK, Discipline, Lazy, Begun, Lexer
    PROVE  Begun'
<1> USE SizeAssumption
<1>t. /\ msglen \in Nat /\ pos \in Nat /\ from \in Nat /\ from <= pos /\ input \in Seq(Byte)
      /\ Len(input) \in Nat /\ pos <= Len(input)
  BY DEF TypeOK, ScannerTypeOK
<1>p. UNCHANGED <<pc, stepback>>
  BY DEF Lexer, parserVars
<1>c. ASSUME Consume
      PROVE  /\ Avail > 0 => pos' = pos + 1 /\ read = input[pos + 1]
             /\ Avail <= 0 => pos' = pos /\ read = eof
  BY <1>c, <1>t DEF Consume, Avail, read
(* An octet other than '<' is consumed. *)
<1>m. ASSUME Consume, read # lt, NoLt(input, from, pos) PROVE NoLt(input, from, pos')
  BY <1>c, <1>m, <1>t, NoLtMore DEF Avail
<1>s. spc # "idle" => ~stepback
  BY DEF Discipline, NoStaleLookahead
<1>e. eof # lt /\ ws # lt /\ (\A ch : isDigit(ch) => ch # lt)
      /\ (\A ch : isNonZeroDigit(ch) => ch # lt)
  BY DEF eof, lt, ws, isDigit, isNonZeroDigit
<1>0. CASE Fill
  <2>1. UNCHANGED <<pos, from, msglen, spc, last>> /\ spc \in {"scan", "digits", "peek"}
    BY <1>0 DEF Fill, NeedsData, PeekBlocks, lexVars
  <2>2. CASE input' = input
    BY <1>p, <2>1, <2>2 DEF Begun, Avail
  <2>3. ASSUME NEW b \in Byte, input' = Append(input, b) PROVE Begun'
    <3>1. NoLt(input, from, pos) => NoLt(input', from, pos)
      BY <1>t, <2>3, NoLtStays
    <3>2. spc = "peek" => Avail' >= 1 /\ input'[pos + 1] = lt
      BY <1>t, <2>1, <2>3 DEF Begun, Avail
    <3> QED
      BY <1>p, <1>s, <2>1, <3>1, <3>2 DEF Begun
  <2>4. Alphabet \subseteq Byte
    BY AlphabetAssumption DEF Byte
  <2> QED
    BY <1>0, <2>2, <2>3, <2>4 DEF Fill
<1>1. CASE ScanMsgLenFirst
  <2>1. /\ Consume /\ spc' = "digits" /\ from' = pos /\ input' = input /\ read # lt
        /\ spc = "scan"
    BY <1>1, <1>e DEF ScanMsgLenFirst
  <2>2. NoLt(input, pos, pos)
    BY <1>t DEF NoLt
  <2>3. NoLt(input, pos, pos')
    BY <1>c, <1>t, <2>1, <2>2, NoLtMore DEF Avail
  <2> QED
    BY <1>p, <1>s, <2>1, <2>3 DEF Begun
<1>2. CASE ScanLT
  <2>1. /\ spc = "scan" /\ spc' = "peek" /\ read = lt /\ msglen > 0
        /\ UNCHANGED <<input, pos, from, last>>
    BY <1>2 DEF ScanLT, readerVars
  <2>2. Avail >= 1 /\ input[pos + 1] = lt
    BY <1>t, <1>e, <2>1 DEF read, Avail
  <2>3. NoLt(input, from, pos)
    <3>1. pc \in {"MSGLEN", "post"} => msglen = 0
      BY <1>s, <2>1 DEF Discipline, LengthDiscipline
    <3>2. pc \in {"WS", "SYSLOGMSG"}
      BY <1>t, <2>1, <3>1 DEF TypeOK, Discipline, Lengths
    <3> QED
      BY <2>1, <3>2 DEF Begun
  <2> QED
    BY <1>p, <1>s, <2>1, <2>2, <2>3 DEF Begun, Avail
<1>3. CASE ScanSingle
  <2>1. /\ Consume /\ spc = "scan" /\ spc' = "token" /\ last' = SingleToken(read)
        /\ UNCHANGED <<input, from>>
    BY <1>3 DEF ScanSingle, Return
  <2>2. last'.typ \notin {"MSGLEN", "SYSLOGMSG"} /\ (last'.typ = "WS" => read = ws)
    BY <2>1 DEF SingleToken, Token
  <2>3. ASSUME pc = "WS", last'.typ = "WS" PROVE NoLt(input, from, pos')
    BY <1>e, <1>m, <2>1, <2>2, <2>3 DEF Begun
  <2> QED
    BY <1>p, <1>s, <2>1, <2>2, <2>3 DEF Begun
<1>4. CASE ScanMsgLenDigit
  <2>1. Consume /\ spc = "digits" /\ spc' = "digits" /\ UNCHANGED <<input, from>> /\ read # lt
    BY <1>4, <1>e DEF ScanMsgLenDigit
  <2>2. NoLt(input, from, pos')
    BY <1>m, <2>1 DEF Begun
  <2> QED
    BY <1>p, <1>s, <2>1, <2>2 DEF Begun
<1>5. CASE ScanMsgLenEnd
  <2>1. /\ spc = "digits" /\ spc' = "token" /\ UNCHANGED <<input, from>>
        /\ (read = eof /\ Consume) \/ UNCHANGED pos
        /\ last' = MsgLenToken
    BY <1>5 DEF ScanMsgLenEnd, Return
  <2>2. NoLt(input, from, pos')
    BY <1>e, <1>m, <2>1 DEF Begun
  <2>3. last'.typ \notin {"WS", "SYSLOGMSG"}
    BY <2>1 DEF MsgLenToken, Illegal, Token
  <2> QED
    BY <1>p, <1>s, <2>1, <2>2, <2>3 DEF Begun
<1>6. CASE ScanTooBigForInt
  <2>1. spc' = "token" /\ last'.typ = "ILLEGAL" /\ ~stepback
    BY <1>6, <1>s DEF ScanTooBigForInt, Return, Illegal
  <2> QED
    BY <1>p, <2>1 DEF Begun
<1>7. CASE ScanSyslogMsg
  <2>1. /\ spc = "peek" /\ spc' = "token" /\ UNCHANGED <<input, from>>
        /\ pos' = pos + msglen /\ last' = Token("SYSLOGMSG", SubSeq(input, pos + 1, pos + msglen))
        /\ Avail >= msglen
    BY <1>7 DEF ScanSyslogMsg, Return
  <2>2. msglen >= 1
    BY <1>t, <2>1 DEF Discipline, LengthDiscipline
  <2>3. last'.typ = "SYSLOGMSG" /\ last'.lit = SubSeq(input, pos + 1, pos')
    BY <2>1 DEF Token
  <2>4. pos + 1 \in (from + 1)..pos' /\ input[pos + 1] = lt /\ NoLt(input, from, (pos + 1) - 1)
    BY <1>t, <2>1, <2>2 DEF Begun
  <2>5. Framed(input, from, pos', last'.lit)
    BY <2>3, <2>4, Zenon DEF Framed
  <2> QED
    BY <1>p, <1>s, <2>1, <2>3, <2>5 DEF Begun
<1>8. CASE ScanUnderflow
  <2>1. spc' = "token" /\ last'.typ = "EOF" /\ ~stepback
    BY <1>8, <1>s DEF ScanUnderflow, Return, Token
  <2> QED
    BY <1>p, <2>1 DEF Begun
<1> QED
  BY <1>0, <1>1, <1>2, <1>3, <1>4, <1>5, <1>6, <1>7, <1>8 DEF Lexer, ScanStep

(* Outside the scanner nothing moves in the stream. *)
LEMMA ParserBegins ==
    ASSUME TypeOK, Discipline, Begun, Parse \/ scan \/ run \/ UNCHANGED <<scannerVars, pc, stepback>>
    PROVE  Begun'
<1>1. CASE Parse
  <2>1. spc' = "idle" /\ pc' = "MSGLEN" /\ UNCHANGED stepback /\ ~stepback
    BY <1>1 DEF Parse, NewScanner, Discipline, NoStaleLookahead
  <2> QED
    BY <2>1 DEF Begun
<1>2. CASE scan
  <2>1. /\ pc # "idle" /\ spc = "idle" /\ stepback' = FALSE
        /\ UNCHANGED <<input, pos, from, last, pc>>
        /\ spc' = IF stepback THEN "token" ELSE "scan"
    BY <1>2 DEF scan, readerVars
  <2>2. stepback => pc = "MSGLEN" /\ last.typ # "SYSLOGMSG"
    BY DEF Discipline, NoStaleLookahead, Lengths
  <2> QED
    BY <2>1, <2>2 DEF Begun
<1>3. CASE run
  <2>1. UNCHANGED <<input, pos, from, last>> /\ spc = "token" /\ spc' \in {"idle", "closed"}
    BY <1>3 DEF run, GotMsgLen, NoMsgLen, GotWS, NoWS, GotSyslogMsg, RejectedSyslogMsg,
                Underflow, NoSyslogMsg, PostEOF, PostLF, PostOther, Got, Not, Await, Break,
                scannerRest, readerVars
  <2>2. pc' = "WS" => last.typ = "MSGLEN"
    BY <1>3 DEF run, GotMsgLen, NoMsgLen, GotWS, NoWS, GotSyslogMsg, RejectedSyslogMsg,
                Underflow, NoSyslogMsg, PostEOF, PostLF, PostOther, Got, Not, Await, Break
  <2>3. pc' = "SYSLOGMSG" => pc = "WS" /\ last.typ = "WS"
    BY <1>3 DEF run, GotMsgLen, NoMsgLen, GotWS, NoWS, GotSyslogMsg, RejectedSyslogMsg,
                Underflow, NoSyslogMsg, PostEOF, PostLF, PostOther, Got, Not, Await, Break
  <2> QED
    BY <2>1, <2>2, <2>3 DEF Begun
<1>4. CASE UNCHANGED <<scannerVars, pc, stepback>>
  BY <1>4 DEF scannerVars, readerVars, lexVars, Begun, Avail
<1> QED
  BY <1>1, <1>2, <1>3, <1>4

(* One more intact result. *)
LEMMA EmitIntact ==
    ASSUME TypeOK, AllIntact, NEW r, emit(r), Intact(input, r, stripTrailingNL),
           UNCHANGED <<input, family>>
    PROVE  AllIntact'
<1>1. out \in Seq(Results)
  BY DEF TypeOK, Results
<1>2. /\ DOMAIN out' = 1..(Len(out) + 1) /\ DOMAIN out = 1..Len(out) /\ Len(out) \in Nat
      /\ out'[Len(out) + 1] = r /\ \A i \in 1..Len(out) : out'[i] = out[i]
  BY <1>1 DEF emit
<1>3. \A i \in 1..(Len(out) + 1) : i \in 1..Len(out) \/ i = Len(out) + 1
  BY <1>2
<1>4. stripTrailingNL' <=> stripTrailingNL
  BY DEF stripTrailingNL
<1>5. \A i \in DOMAIN out' : Intact(input, out'[i], stripTrailingNL)
  BY <1>2, <1>3, Zenon DEF AllIntact
<1>6. \A i \in DOMAIN out' : Intact(input', out'[i], stripTrailingNL')
  BY <1>4, <1>5 DEF Intact, IntactAt
<1> QED
  BY <1>6 DEF AllIntact

(* The message of a SYSLOGMSG token reaches the machine intact. *)
LEMMA TokenIntact ==
    ASSUME TypeOK, Discipline, Begun, Got("SYSLOGMSG"), NEW r
    PROVE  Intact(input, Result(r, Stripped(last.lit), Span), stripTrailingNL)
<1> DEFINE l == last.lit
<1>t. pos \in Nat /\ from \in Nat /\ from <= pos /\ input \in Seq(Byte) /\ pos <= Len(input)
      /\ Len(input) \in Nat /\ l \in Seq(Byte)
  BY DEF TypeOK, ScannerTypeOK, Tokens
<1>1. Framed(input, from, pos, l)
  BY DEF Got, Begun
<1> HIDE DEF l
<1>2. PICK k \in (from + 1)..pos :
         input[k] = lt /\ NoLt(input, from, k - 1) /\ l = SubSeq(input, k, pos)
  BY <1>1, Zenon DEF Framed
<1>3. k \in 1..(Len(input) + 1) /\ pos \in (k - 1)..Len(input) /\ k <= pos /\ k \in Nat
  BY <1>t
<1>4. Len(l) = pos - k + 1 /\ \A i \in 1..(pos - k + 1) : l[i] = input[k + i - 1]
  BY <1>t, <1>2, <1>3, SubSeqProperties
<1>5. Len(l) >= 1 /\ l[Len(l)] = input[pos]
  BY <1>t, <1>3, <1>4
<1>6. PICK cut \in {<<>>, <<lf>>, <<cr, lf>>} :
         /\ l = Stripped(l) \o cut
         /\ cut = <<>> <=> ~stripTrailingNL \/ l[Len(l)] # lf
         /\ cut = <<lf>> => ~EndsIn(Stripped(l), cr)
  BY <1>t, <1>5, StrippedCut, Zenon
<1>7. IntactAt(input, from, pos, Stripped(l), stripTrailingNL)
  <2>1. \A j \in (from + 1)..(k - 1) : input[j] # lt
    BY <1>2 DEF NoLt
  <2> QED
    BY <1>2, <1>5, <1>6, <2>1, Zenon DEF IntactAt
<1>8. Span[1] = from /\ Span[2] = pos /\ pos \in 1..Len(input)
  BY <1>t, <1>3 DEF Span
<1>9. \A s : Result(r, s, Span).span = Span /\ Result(r, s, Span).lit = s
  BY DEF Result
<1> QED
  BY <1>t, <1>7, <1>8, <1>9, Zenon DEF Intact, l

(* Every step keeps every result intact. *)
LEMMA IntactStep ==
    ASSUME TypeOK, Discipline, Lazy, Begun, AllIntact, [Next]_vars
    PROVE  Begun' /\ AllIntact'
<1>k. ASSUME UNCHANGED <<input, out, family>> PROVE AllIntact'
  <2>1. stripTrailingNL' = stripTrailingNL
    BY <1>k DEF stripTrailingNL
  <2> QED
    BY <1>k, <2>1, Zenon DEF AllIntact
<1>n. \A r : r.span = NoSpan => Intact(input, r, stripTrailingNL)
  BY Zenon DEF Intact
<1>1. CASE Parse
  <2>1. AllIntact'
    BY <1>1 DEF Parse, AllIntact
  <2> QED
    BY <1>1, <2>1, ParserBegins
<1>2. CASE WithBestEffort \/ \E m \in MaxLengths : WithMaxMessageLength(m)
  <2>1. UNCHANGED <<scannerVars, pc, stepback, out, family>>
    BY <1>2 DEF WithBestEffort, WithMaxMessageLength
  <2> QED
    BY <1>k, <2>1, ParserBegins DEF scannerVars, readerVars
<1>3. CASE scan
  BY <1>3, <1>k, ParserBegins DEF scan, readerVars, configVars
<1>4. CASE run
  <2>1. UNCHANGED <<input, family>>
    BY <1>4 DEF run, GotMsgLen, NoMsgLen, GotWS, NoWS, GotSyslogMsg, RejectedSyslogMsg,
                Underflow, NoSyslogMsg, PostEOF, PostLF, PostOther, Got, Not, Await, Break,
                scannerRest, readerVars, configVars
  <2>2. ASSUME GotSyslogMsg \/ RejectedSyslogMsg PROVE AllIntact'
    <3>1. Got("SYSLOGMSG") /\ \E r : emit(Result(r, Stripped(last.lit), Span))
      BY <2>2 DEF GotSyslogMsg, RejectedSyslogMsg
    <3> QED
      BY <2>1, <3>1, TokenIntact, EmitIntact
  <2>3. ASSUME NoMsgLen \/ NoWS \/ NoSyslogMsg \/ Underflow PROVE AllIntact'
    <3>1. \E r : r.span = NoSpan /\ emit(r)
      <4>1. \A e : ErrorResult(e).span = NoSpan
        BY DEF ErrorResult, NoSpan
      <4>2. \A r, l : Result(r, l, NoSpan).span = NoSpan
        BY DEF Result
      <4>3. CASE NoMsgLen \/ NoWS \/ NoSyslogMsg
        BY <4>1, <4>3, Zenon DEF NoMsgLen, NoWS, NoSyslogMsg
      <4>4. CASE Underflow
        BY <4>2, <4>4, Zenon DEF Underflow
      <4> QED
        BY <2>3, <4>3, <4>4
    <3> QED
      BY <1>n, <2>1, <3>1, EmitIntact
  <2>4. ASSUME GotMsgLen \/ GotWS \/ PostEOF \/ PostLF \/ PostOther PROVE AllIntact'
    BY <1>k, <2>1, <2>4 DEF GotMsgLen, GotWS, PostEOF, PostLF, PostOther
  <2>5. AllIntact'
    BY <1>4, <2>2, <2>3, <2>4 DEF run
  <2> QED
    BY <1>4, <2>5, ParserBegins
<1>5. CASE Lexer
  <2>1. UNCHANGED <<out, family>>
    BY <1>5 DEF Lexer, parserVars, configVars
  <2>2. ASSUME input' = input PROVE AllIntact'
    BY <1>k, <2>1, <2>2
  <2>3. ASSUME NEW b \in Byte, input' = Append(input, b) PROVE AllIntact'
    <3>1. input \in Seq(Byte)
      BY DEF TypeOK, ScannerTypeOK
    <3>2. \A i \in DOMAIN out : Intact(Append(input, b), out[i], stripTrailingNL)
      BY <3>1, IntactStays DEF AllIntact
    <3> QED
      BY <2>1, <2>3, <3>2, Zenon DEF AllIntact, stripTrailingNL
  <2>4. input' = input \/ \E b \in Byte : input' = Append(input, b)
    <3>1. Alphabet \subseteq Byte
      BY AlphabetAssumption DEF Byte
    <3>2. CASE Fill
      BY <3>1, <3>2 DEF Fill
    <3>3. CASE ScanStep
      BY <3>3 DEF ScanStep, ScanMsgLenFirst, ScanLT, ScanSingle, ScanMsgLenDigit, ScanMsgLenEnd,
                  ScanTooBigForInt, ScanSyslogMsg, ScanUnderflow, readerVars
    <3> QED
      BY <1>5, <3>2, <3>3 DEF Lexer
  <2> QED
    BY <1>5, <2>2, <2>3, <2>4, LexerBegins
<1>6. CASE UNCHANGED vars
  BY <1>6, <1>k, ParserBegins DEF vars, scannerVars, readerVars, parserVars, configVars
<1> QED
  BY <1>1, <1>2, <1>3, <1>4, <1>5, <1>6 DEF Next

(* The machine is given exactly the octets from the '<' of a frame to its   *)
(* announced end, without one trailing newline where the parser strips it:  *)
(* no octet of a message is lost, added or taken from its neighbour.        *)
THEOREM MessagesReachTheMachineIntact == Spec => []ContentIntact
<1>1. Init => Begun /\ AllIntact
  <2> SUFFICES ASSUME Init PROVE Begun /\ AllIntact
    OBVIOUS
  <2>1. out = <<>> /\ spc = "closed" /\ ~stepback /\ pc = "idle"
    BY DEF Init, ScannerInit
  <2>2. Begun
    BY <2>1 DEF Begun
  <2>3. AllIntact
    BY <2>1 DEF AllIntact
  <2> QED
    BY <2>2, <2>3
<1>2. Init => Lazy /\ Accounted
  BY DEF Init, ScannerInit, Lazy, Accounted, NothingDropped, Returned
<1>3. TypeOK /\ Discipline /\ Lazy /\ Accounted /\ [Next]_vars => (Lazy /\ Accounted)'
  BY AccountStep
<1>4. TypeOK /\ Discipline /\ Lazy /\ Begun /\ AllIntact /\ [Next]_vars => (Begun /\ AllIntact)'
  BY IntactStep
<1>5. AllIntact => ContentIntact
  <2> SUFFICES ASSUME AllIntact, NEW i \in DOMAIN out, out[i].span # NoSpan
               PROVE  LET a == out[i].span[1]
                          b == out[i].span[2]
                          l == out[i].lit
                      IN  \E k \in (a + 1)..b, cut \in {<<>>, <<lf>>, <<cr, lf>>} :
                             /\ input[k] = lt /\ \A j \in (a + 1)..(k - 1) : input[j] # lt
                             /\ SubSeq(input, k, b) = l \o cut
                             /\ cut = <<>> <=> family = "rfc5424" \/ input[b] # lf
                             /\ cut = <<lf>> => ~EndsIn(l, cr)
    BY Zenon DEF ContentIntact
  <2>1. IntactAt(input, out[i].span[1], out[i].span[2], out[i].lit, stripTrailingNL)
    BY Zenon DEF AllIntact, Intact
  <2>2. stripTrailingNL <=> ~(family = "rfc5424")
    BY DEF stripTrailingNL
  <2> QED
    BY <2>1, <2>2, Zenon DEF IntactAt
<1> QED
  BY <1>1, <1>2, <1>3, <1>4, <1>5, ParserInvariant, PTL DEF Spec

-----------------------------------------------------------------------------
(* Numerals. *)

(* What holds at 0 and is handed on holds for all natural numbers: the set  *)
(* of those it does not hold for would have a least one.                    *)
LEMMA LeastOf ==
    ASSUME NEW T, T \subseteq Nat, T # {}
    PROVE  \E x \in T : \A y \in T : x <= y
<1> DEFINE R == {r \in Nat \X Nat : r[1] < r[2]}
<1>1. R = OpToRel(<, Nat)
  BY DEF OpToRel
<1>2. IsWellFoundedOn(R, Nat)
  BY <1>1, NatLessThanWellFounded
<1>3. PICK x \in T : \A y \in T : ~(<<y, x>> \in R)
  <2> HIDE DEF R
  <2> QED
    BY <1>2, WFMin
<1>4. ASSUME NEW y \in T PROVE x <= y
  <2>1. x \in Nat /\ y \in Nat
    OBVIOUS
  <2>2. y < x => <<y, x>> \in R
    BY <2>1
  <2> QED
    BY <1>3, <2>1, <2>2
<1> QED
  BY <1>4

(* The values of the first digits of a numeral, one more at a time.         *)
IsValues(v, ds, n) ==
    /\ v \in [0..n -> Nat] /\ v[0] = 0
    /\ \A k \in 1..n : v[k] = 10 * v[k - 1] + (ds[k] - 48)

DigitsOf(ds) == ds \in Seq(Byte) /\ \A i \in DOMAIN ds : ds[i] \in 48..57

(* The digits of any string of digits have such values. *)
LEMMA ValuesExist ==
    ASSUME NEW ds, DigitsOf(ds)
    PROVE  \A n \in 0..Len(ds) : \E v : IsValues(v, ds, n)
<1> DEFINE T == {n \in 0..Len(ds) : ~ \E v : IsValues(v, ds, n)}
<1>0. Len(ds) \in Nat /\ DOMAIN ds = 1..Len(ds)
  BY DEF DigitsOf
<1>1. SUFFICES ASSUME T # {} PROVE FALSE
  OBVIOUS
<1>2. PICK n \in T : \A k \in T : n <= k
  <2>1. T \subseteq Nat
    BY <1>0
  <2> HIDE DEF T
  <2> QED
    BY <1>1, <2>1, LeastOf
<1>3. n \in 0..Len(ds) /\ ~ \E v : IsValues(v, ds, n)
  OBVIOUS
<1>4. CASE n = 0
  <2> DEFINE v == [i \in 0..0 |-> 0]
  <2>1. IsValues(v, ds, 0)
    BY DEF IsValues
  <2> QED
    BY <1>3, <1>4, <2>1
<1>5. CASE n # 0
  <2>1. n - 1 \in 0..Len(ds) /\ n - 1 \notin T /\ n \in 1..Len(ds)
    BY <1>0, <1>2, <1>3, <1>5
  <2>2. PICK u : IsValues(u, ds, n - 1)
    BY <2>1
  <2> DEFINE v == [i \in 0..n |-> IF i = n THEN 10 * u[n - 1] + (ds[n] - 48) ELSE u[i]]
  <2>3. ds[n] \in 48..57
    BY <1>0, <2>1 DEF DigitsOf
  <2>4. \A i \in 0..(n - 1) : u[i] \in Nat
    BY <2>2 DEF IsValues
  <2>5. v \in [0..n -> Nat]
    <3>1. 10 * u[n - 1] + (ds[n] - 48) \in Nat
      <4>1. u[n - 1] \in Nat
        BY <2>1, <2>4
      <4>2. ASSUME NEW x \in Nat, NEW d \in 48..57 PROVE 10 * x + (d - 48) \in Nat
        OBVIOUS
      <4> HIDE DEF v
      <4> QED
        BY <2>3, <4>1, <4>2
    <3>2. \A i \in 0..n : i = n \/ i \in 0..(n - 1)
      BY <2>1
    <3>3. ASSUME NEW i \in 0..n PROVE v[i] \in Nat
      BY <2>4, <3>1, <3>2
    <3> QED
      BY <3>3
  <2>6. v[0] = 0
    BY <1>5, <2>1, <2>2 DEF IsValues
  <2>7. ASSUME NEW k \in 1..n PROVE v[k] = 10 * v[k - 1] + (ds[k] - 48)
    <3>1. CASE k = n
      BY <2>1, <3>1
    <3>2. CASE k # n
      <4>1. k \in 1..(n - 1) /\ k - 1 \in 0..n /\ k - 1 # n /\ k \in 0..n
        BY <2>1, <3>2
      <4>2. u[k] = 10 * u[k - 1] + (ds[k] - 48)
        BY <2>2, <4>1 DEF IsValues
      <4> QED
        BY <3>2, <4>1, <4>2
    <3> QED
      BY <3>1, <3>2
  <2> HIDE DEF v
  <2>8. IsValues(v, ds, n)
    BY <2>5, <2>6, <2>7 DEF IsValues
  <2> QED
    BY <1>3, <2>8
<1> QED
  BY <1>4, <1>5

(* Digits that begin alike have the same values.                            *)
Alike(ds, es, n) == \A k \in 1..n : ds[k] = es[k]

(* Where two strings of digits begin alike, their values are the same. *)
LEMMA ValuesAgree ==
    ASSUME NEW ds, NEW es, NEW n \in Nat, Alike(ds, es, n),
           NEW v, NEW w, IsValues(v, ds, n), NEW l \in Nat, n <= l, IsValues(w, es, l)
    PROVE  \A k \in 0..n : v[k] = w[k]
<1> DEFINE T == {k \in 0..n : v[k] # w[k]}
<1>1. SUFFICES ASSUME T # {} PROVE FALSE
  OBVIOUS
<1>2. PICK k \in T : \A i \in T : k <= i
  <2>1. T \subseteq Nat
    OBVIOUS
  <2> HIDE DEF T
  <2> QED
    BY <1>1, <2>1, LeastOf
<1>3. k \in 0..n /\ v[k] # w[k]
  OBVIOUS
<1>4. k # 0
  BY <1>3 DEF IsValues
<1>5. k - 1 \in 0..n /\ k - 1 \notin T /\ k \in 1..n /\ k \in 1..l
  BY <1>2, <1>3, <1>4
<1>6. v[k - 1] = w[k - 1]
  BY <1>5
<1>7. v[k] = 10 * v[k - 1] + (ds[k] - 48) /\ w[k] = 10 * w[k - 1] + (es[k] - 48)
  BY <1>5 DEF IsValues
<1>8. ds[k] = es[k]
  BY <1>5 DEF Alike
<1> QED
  BY <1>3, <1>6, <1>7, <1>8

(* The value of a numeral is the last of them.                              *)
LEMMA ValueOf ==
    ASSUME NEW ds, DigitsOf(ds), NEW v, IsValues(v, ds, Len(ds))
    PROVE  Framing!NumeralValue(ds) = v[Len(ds)]
<1> DEFINE E(f) == [k \in 0..Len(ds) |-> IF k = 0 THEN 0 ELSE 10 * f[k - 1] + (ds[k] - 48)]
           f == CHOOSE g : g = E(g)
<1>0. Len(ds) \in Nat /\ DOMAIN ds = 1..Len(ds)
  BY DEF DigitsOf
<1>1. Framing!NumeralValue(ds) = f[Len(ds)]
  BY DEF Framing!NumeralValue
<1>2. v = E(v)
  <2>1. v = [k \in 0..Len(ds) |-> v[k]]
    BY DEF IsValues
  <2>2. \A k \in 0..Len(ds) : v[k] = IF k = 0 THEN 0 ELSE 10 * v[k - 1] + (ds[k] - 48)
    BY <1>0 DEF IsValues
  <2> QED
    BY <2>1, <2>2
<1>3. f = E(f)
  <2> HIDE DEF E
  <2> QED
    BY <1>2
<1> HIDE DEF f
<1>4. \A k \in 0..Len(ds) : f[k] = IF k = 0 THEN 0 ELSE 10 * f[k - 1] + (ds[k] - 48)
  BY <1>3
<1> DEFINE T == {k \in 0..Len(ds) : f[k] # v[k]}
<1>5. T = {}
  <2> SUFFICES ASSUME T # {} PROVE FALSE
    OBVIOUS
  <2>1. PICK k \in T : \A i \in T : k <= i
    <3>1. T \subseteq Nat
      OBVIOUS
    <3> HIDE DEF T
    <3> QED
      BY <3>1, LeastOf
  <2>2. k \in 0..Len(ds) /\ f[k] # v[k]
    OBVIOUS
  <2>3. k # 0
    BY <1>0, <1>4, <2>2 DEF IsValues
  <2>4. k - 1 \in 0..Len(ds) /\ k - 1 \notin T /\ k \in 1..Len(ds)
    BY <1>0, <2>1, <2>2, <2>3
  <2>5. f[k - 1] = v[k - 1]
    BY <2>4
  <2>6. f[k] = 10 * f[k - 1] + (ds[k] - 48)
    BY <1>4, <2>2, <2>3
  <2>7. v[k] = 10 * v[k - 1] + (ds[k] - 48)
    BY <2>4 DEF IsValues
  <2> QED
    BY <2>2, <2>5, <2>6, <2>7
<1>6. Len(ds) \in 0..Len(ds)
  BY <1>0
<1> QED
  BY <1>1, <1>5, <1>6

(* What a numeral of one digit says.                                        *)
LEMMA FirstDigit ==
    ASSUME NEW d \in 49..57
    PROVE  Framing!IsNumeral(<<d>>) /\ Framing!NumeralValue(<<d>>) = d - 48
<1>1. DigitsOf(<<d>>) /\ Len(<<d>>) = 1
  BY DEF DigitsOf, Byte
<1> DEFINE v == [k \in 0..1 |-> IF k = 0 THEN 0 ELSE d - 48]
<1>2. IsValues(v, <<d>>, 1)
  BY DEF IsValues
<1>3. Framing!NumeralValue(<<d>>) = v[1]
  <2> HIDE DEF v
  <2> QED
    BY <1>1, <1>2, ValueOf
<1> QED
  BY <1>3 DEF Framing!IsNumeral

(* A numeral is one or more digits and its value a natural number. *)
LEMMA NumeralDigits ==
    ASSUME NEW ds \in Seq(Byte), Framing!IsNumeral(ds)
    PROVE  DigitsOf(ds) /\ Len(ds) \in Nat \ {0} /\ Framing!NumeralValue(ds) \in Nat
<1>1. DigitsOf(ds) /\ Len(ds) \in Nat \ {0}
  BY DEF Framing!IsNumeral, DigitsOf
<1>2. PICK v : IsValues(v, ds, Len(ds))
  BY <1>1, ValuesExist
<1>3. Framing!NumeralValue(ds) = v[Len(ds)]
  BY <1>1, <1>2, ValueOf
<1> QED
  BY <1>1, <1>2, <1>3 DEF IsValues

(* One digit more makes the value ten times as large and adds the digit, as *)
(* scanMsgLen's strconv.ParseUint does.                                     *)
LEMMA NextDigit ==
    ASSUME NEW ds \in Seq(Byte), Framing!IsNumeral(ds), NEW d \in 48..57
    PROVE  /\ Framing!IsNumeral(Append(ds, d))
           /\ Framing!NumeralValue(Append(ds, d)) = 10 * Framing!NumeralValue(ds) + (d - 48)
<1> DEFINE es == Append(ds, d)
           n == Len(ds)
<1>1. DigitsOf(ds) /\ n \in Nat \ {0}
  BY NumeralDigits
<1>2. /\ es \in Seq(Byte) /\ Len(es) = n + 1 /\ DOMAIN es = 1..(n + 1) /\ es[n + 1] = d
      /\ \A k \in 1..n : es[k] = ds[k]
  <2>1. d \in Byte
    BY DEF Byte
  <2> QED
    BY <2>1
<1>3. \A k \in 1..(n + 1) : k \in 1..n \/ k = n + 1
  BY <1>1
<1>4. DigitsOf(es) /\ Framing!IsNumeral(es)
  <2>1. \A i \in 1..(n + 1) : es[i] \in 48..57
    BY <1>1, <1>2, <1>3 DEF DigitsOf
  <2>2. es[1] \in 49..57 /\ es # <<>>
    BY <1>1, <1>2 DEF Framing!IsNumeral
  <2> HIDE DEF es
  <2> QED
    BY <1>2, <2>1, <2>2 DEF DigitsOf, Framing!IsNumeral
<1> HIDE DEF es
<1>5. PICK w : IsValues(w, es, n + 1)
  BY <1>1, <1>2, <1>4, ValuesExist
<1>6. PICK v : IsValues(v, ds, n)
  BY <1>1, ValuesExist
<1>7. v[n] = w[n]
  <2> DEFINE l == n + 1
  <2>1. n \in Nat /\ l \in Nat /\ n <= l /\ \A k \in 1..n : ds[k] = es[k]
    BY <1>1, <1>2
  <2>3. IsValues(w, es, l)
    BY <1>5
  <2>4. IsValues(v, ds, n)
    BY <1>6
  <2> HIDE DEF n, l
  <2>2. n \in Nat /\ l \in Nat /\ n <= l
    BY <2>1
  <2>5. Alike(ds, es, n)
    BY <2>1 DEF Alike
  <2>6. \A k \in 0..n : v[k] = w[k]
    BY <2>2, <2>3, <2>4, <2>5, ValuesAgree
  <2> QED
    BY <2>2, <2>6
<1>8. Framing!NumeralValue(ds) = v[n] /\ Framing!NumeralValue(es) = w[n + 1]
  BY <1>1, <1>2, <1>4, <1>5, <1>6, ValueOf
<1>9. w[n + 1] = 10 * w[n] + (d - 48)
  BY <1>1, <1>2, <1>5 DEF IsValues
<1> QED
  BY <1>4, <1>7, <1>8, <1>9 DEF es

-----------------------------------------------------------------------------
(* The octets after the a-th up to the b-th, one by one. *)
LEMMA PartOf ==
    ASSUME NEW s \in Seq(Byte), NEW a \in Nat, NEW b \in a..Len(s)
    PROVE  /\ SubSeq(s, a + 1, b) \in Seq(Byte) /\ Len(SubSeq(s, a + 1, b)) = b - a
           /\ \A i \in 1..(b - a) : SubSeq(s, a + 1, b)[i] = s[a + i]
<1>1. a + 1 \in 1..(Len(s) + 1) /\ b \in (a + 1 - 1)..Len(s)
  OBVIOUS
<1>2. /\ SubSeq(s, a + 1, b) \in Seq(Byte)
      /\ Len(SubSeq(s, a + 1, b)) = b - (a + 1) + 1
      /\ \A i \in 1..(b - (a + 1) + 1) : SubSeq(s, a + 1, b)[i] = s[(a + 1) + i - 1]
  BY <1>1, SubSeqProperties
<1> DEFINE u == SubSeq(s, a + 1, b)
<1> HIDE DEF u
<1>3. /\ u \in Seq(Byte) /\ Len(u) = b - (a + 1) + 1
      /\ \A i \in 1..(b - (a + 1) + 1) : u[i] = s[(a + 1) + i - 1]
  BY <1>2 DEF u
<1>4. b - (a + 1) + 1 = b - a /\ \A i \in 1..(b - a) : (a + 1) + i - 1 = a + i
  OBVIOUS
<1>5. /\ u \in Seq(Byte) /\ Len(u) = b - a
      /\ \A i \in 1..(b - a) : u[i] = s[a + i]
  BY <1>3, <1>4
<1> QED
  BY <1>5 DEF u

(* The octets after the a-th up to the b-th are the numeral of n. *)
DigitsIn(s, a, b) == \A j \in (a + 1)..b : s[j] \in 48..57
Numbered(s, a, b, n) ==
    /\ a < b /\ b <= Len(s)
    /\ s[a + 1] \in 49..57 /\ DigitsIn(s, a, b)
    /\ Framing!NumeralValue(SubSeq(s, a + 1, b)) = n

(* A part of the input is a numeral when it begins with a digit other than  *)
(* 0 and goes on with digits.                                               *)
LEMMA NumeralPart ==
    ASSUME NEW s \in Seq(Byte), NEW a \in Nat, NEW b \in a..Len(s)
    PROVE  Framing!IsNumeral(SubSeq(s, a + 1, b))
              <=> a < b /\ s[a + 1] \in 49..57 /\ DigitsIn(s, a, b)
<1> DEFINE u == SubSeq(s, a + 1, b)
<1>1. /\ u \in Seq(Byte) /\ Len(u) = b - a
      /\ \A i \in 1..(b - a) : u[i] = s[a + i]
  BY PartOf
<1> HIDE DEF u
<1>2. Framing!IsNumeral(u)
         <=> a < b /\ u[1] \in 49..57 /\ \A i \in 1..(b - a) : u[i] \in 48..57
  BY <1>1 DEF Framing!IsNumeral
<1>3. (\A i \in 1..(b - a) : u[i] \in 48..57) <=> DigitsIn(s, a, b)
  <2>1. ASSUME DigitsIn(s, a, b), NEW i \in 1..(b - a) PROVE u[i] \in 48..57
    <3>1. a + i \in (a + 1)..b
      OBVIOUS
    <3> QED
      BY <1>1, <2>1, <3>1 DEF DigitsIn
  <2>2. ASSUME \A i \in 1..(b - a) : u[i] \in 48..57, NEW j \in (a + 1)..b
        PROVE  s[j] \in 48..57
    <3>1. j - a \in 1..(b - a) /\ a + (j - a) = j
      OBVIOUS
    <3> QED
      BY <1>1, <2>2, <3>1
  <2> QED
    BY <2>1, <2>2 DEF DigitsIn
<1>4. a < b => u[1] = s[a + 1]
  BY <1>1
<1> QED
  BY <1>2, <1>3, <1>4 DEF u

(* What a numeral says is a natural number. *)
LEMMA NumberIsNat ==
    ASSUME NEW s \in Seq(Byte), NEW a \in Nat, NEW b \in Nat, NEW n, Numbered(s, a, b, n)
    PROVE  n \in Nat
<1>1. b \in a..Len(s) /\ Framing!IsNumeral(SubSeq(s, a + 1, b))
  BY NumeralPart DEF Numbered
<1>2. SubSeq(s, a + 1, b) \in Seq(Byte)
  BY <1>1, PartOf
<1> QED
  BY <1>1, <1>2, NumeralDigits DEF Numbered

(* A numeral that was read says the same when the reader gives another      *)
(* octet.                                                                   *)
LEMMA NumberStays ==
    ASSUME NEW s \in Seq(Byte), NEW x \in Byte, NEW a \in Nat, NEW b \in Nat, NEW n,
           Numbered(s, a, b, n)
    PROVE  Numbered(Append(s, x), a, b, n)
<1>1. /\ a < b /\ b <= Len(s) /\ s[a + 1] \in 49..57 /\ DigitsIn(s, a, b)
      /\ Framing!NumeralValue(SubSeq(s, a + 1, b)) = n
  BY DEF Numbered
<1>2. SubSeq(Append(s, x), a + 1, b) = SubSeq(s, a + 1, b)
  BY <1>1, PartStays
<1>3. Len(Append(s, x)) = Len(s) + 1 /\ \A j \in 1..Len(s) : Append(s, x)[j] = s[j]
  OBVIOUS
<1> DEFINE t == Append(s, x)
<1> HIDE DEF t
<1>4. DigitsIn(t, a, b)
  BY <1>1, <1>3 DEF DigitsIn, t
<1>5. b <= Len(t) /\ t[a + 1] = s[a + 1] /\ SubSeq(t, a + 1, b) = SubSeq(s, a + 1, b)
  BY <1>1, <1>2, <1>3 DEF t
<1>6. Numbered(t, a, b, n)
  BY <1>1, <1>4, <1>5 DEF Numbered
<1> QED
  BY <1>6 DEF t

(* A digit other than 0 is a numeral (scanMsgLen's first octet). *)
LEMMA NumberBegins ==
    ASSUME NEW s \in Seq(Byte), NEW a \in Nat, a < Len(s), s[a + 1] \in 49..57
    PROVE  Numbered(s, a, a + 1, s[a + 1] - 48)
<1> DEFINE u == SubSeq(s, a + 1, a + 1)
<1>1. u \in Seq(Byte) /\ Len(u) = 1 /\ u[1] = s[a + 1]
  <2>1. a + 1 \in a..Len(s) /\ (a + 1) - a = 1
    OBVIOUS
  <2> QED
    BY <2>1, PartOf
<1>2. u = <<s[a + 1]>>
  <2> HIDE DEF u
  <2> QED
    BY <1>1
<1>3. Framing!NumeralValue(u) = s[a + 1] - 48
  <2> HIDE DEF u
  <2> QED
    BY <1>2, FirstDigit
<1> QED
  BY <1>3 DEF Numbered, DigitsIn

(* A numeral goes on with the digit that follows it (the loop of            *)
(* scanMsgLen).                                                             *)
LEMMA NumberGoesOn ==
    ASSUME NEW s \in Seq(Byte), NEW a \in Nat, NEW b \in Nat, NEW n, Numbered(s, a, b, n),
           b < Len(s), s[b + 1] \in 48..57
    PROVE  Numbered(s, a, b + 1, 10 * n + (s[b + 1] - 48))
<1> DEFINE u == SubSeq(s, a + 1, b)
           v == SubSeq(s, a + 1, b + 1)
<1>0. /\ a < b /\ b <= Len(s) /\ s[a + 1] \in 49..57 /\ DigitsIn(s, a, b)
      /\ Framing!NumeralValue(u) = n
  BY DEF Numbered
<1>1. /\ u \in Seq(Byte) /\ Len(u) = b - a /\ \A i \in 1..(b - a) : u[i] = s[a + i]
      /\ Framing!IsNumeral(u)
  <2>1. b \in a..Len(s)
    BY <1>0
  <2>2. Framing!IsNumeral(u)
    BY <1>0, <2>1, NumeralPart
  <2>3. u \in Seq(Byte) /\ Len(u) = b - a /\ \A i \in 1..(b - a) : u[i] = s[a + i]
    BY <2>1, PartOf
  <2> QED
    BY <2>2, <2>3
<1>2. v \in Seq(Byte) /\ Len(v) = (b + 1) - a /\ \A i \in 1..((b + 1) - a) : v[i] = s[a + i]
  <2>1. b + 1 \in a..Len(s)
    BY <1>0
  <2> QED
    BY <2>1, PartOf
<1>3. v = Append(u, s[b + 1])
  <2> HIDE DEF u, v
  <2>1. s[b + 1] \in Byte /\ (b + 1) - a = (b - a) + 1 /\ b - a \in Nat
    BY <1>0
  <2>2. /\ Append(u, s[b + 1]) \in Seq(Byte) /\ Len(Append(u, s[b + 1])) = (b - a) + 1
        /\ Append(u, s[b + 1])[(b - a) + 1] = s[b + 1]
        /\ \A i \in 1..(b - a) : Append(u, s[b + 1])[i] = u[i]
    BY <1>1, <2>1
  <2>3. \A i \in 1..((b - a) + 1) : Append(u, s[b + 1])[i] = v[i]
    <3>1. TAKE i \in 1..((b - a) + 1)
    <3>2. CASE i = (b - a) + 1
      <4>1. a + i = b + 1
        BY <3>2, <1>0
      <4> QED
        BY <1>2, <2>1, <2>2, <3>2, <4>1
    <3>3. CASE i # (b - a) + 1
      <4>1. i \in 1..(b - a) /\ i \in 1..((b + 1) - a)
        BY <2>1, <3>3
      <4> QED
        BY <1>1, <1>2, <2>2, <4>1
    <3> QED
      BY <3>2, <3>3
  <2> QED
    BY <1>2, <2>1, <2>2, <2>3, SeqEqual
<1>4. Framing!NumeralValue(v) = 10 * n + (s[b + 1] - 48)
  <2> HIDE DEF u, v
  <2> QED
    BY <1>0, <1>1, <1>3, NextDigit
<1>5. DigitsIn(s, a, b + 1)
  BY <1>0 DEF DigitsIn
<1> QED
  BY <1>0, <1>4, <1>5 DEF Numbered

-----------------------------------------------------------------------------
(* Frames. *)

(* The octets after the a-th up to the p-th are the numeral of n, and maybe *)
(* a NUL after it; or that and the space.                                   *)
Headed(s, a, p, n) ==
    \/ Numbered(s, a, p, n)
    \/ p <= Len(s) /\ s[p] = eof /\ Numbered(s, a, p - 1, n)
Separated(s, a, p, n) == p <= Len(s) /\ s[p] = ws /\ Headed(s, a, p - 1, n)

(* One octet of the input, and two of them, as parts of it. *)
LEMMA OneOrTwo ==
    ASSUME NEW s \in Seq(Byte), NEW i \in 1..Len(s)
    PROVE  /\ SubSeq(s, i, i) = <<s[i]>>
           /\ i < Len(s) => SubSeq(s, i, i + 1) = <<s[i], s[i + 1]>>
<1>0. Len(s) \in Nat
  OBVIOUS
<1>1. SubSeq(s, i, i) = <<s[i]>>
  <2> DEFINE u == SubSeq(s, i, i)
  <2>1. u \in Seq(Byte) /\ Len(u) = 1 /\ u[1] = s[i]
    <3>1. i - 1 \in Nat /\ i \in (i - 1)..Len(s) /\ (i - 1) + 1 = i /\ i - (i - 1) = 1
      BY <1>0
    <3> QED
      BY <3>1, PartOf
  <2> HIDE DEF u
  <2>2. u = <<s[i]>>
    BY <2>1
  <2> QED
    BY <2>2 DEF u
<1>2. ASSUME i < Len(s) PROVE SubSeq(s, i, i + 1) = <<s[i], s[i + 1]>>
  <2> DEFINE u == SubSeq(s, i, i + 1)
             l == i - 1
  <2>0. l \in Nat /\ i + 1 \in l..Len(s) /\ l + 1 = i /\ (i + 1) - l = 2 /\ l + 2 = i + 1
    BY <1>0, <1>2
  <2>1. u \in Seq(Byte) /\ Len(u) = 2 /\ u[1] = s[i] /\ u[2] = s[i + 1]
    <3> HIDE DEF l
    <3> QED
      BY <2>0, PartOf
  <2> HIDE DEF u
  <2>2. u = <<s[i], s[i + 1]>>
    BY <2>1
  <2> QED
    BY <2>2 DEF u
<1> QED
  BY <1>1, <1>2

(* A numeral, a space, a '<' and as many octets as the numeral says are a   *)
(* frame.                                                                   *)
LEMMA FrameMade ==
    ASSUME NEW s \in Seq(Byte), NEW a \in Nat, NEW p \in Nat, NEW n, NEW max,
           Separated(s, a, p, n), p < Len(s), s[p + 1] = lt, n \in Nat \ {0}, n <= max,
           NEW b \in Nat, b = p + n, b <= Len(s)
    PROVE  Framing!IsFrame(s, a, b, max)
<1>0. Len(s) \in Nat /\ p >= 1 /\ s[p] = 32 /\ s[p + 1] = 60 /\ p < b /\ b - p = n
  BY DEF Separated, ws, lt, Headed, Numbered
<1>1. CASE Numbered(s, a, p - 1, n)
  <2> DEFINE k == p - 1 - a
  <2>1. /\ a < p - 1 /\ p - 1 \in a..Len(s) /\ k \in 1..(b - a - 2) /\ a + k = p - 1
        /\ a + k + 1 = p /\ p \in 1..Len(s)
    BY <1>0, <1>1 DEF Numbered
  <2>2. /\ Framing!IsNumeral(SubSeq(s, a + 1, p - 1))
        /\ Framing!NumeralValue(SubSeq(s, a + 1, p - 1)) = n
    BY <1>1, <2>1, NumeralPart DEF Numbered
  <2>3. Len(<<32>>) = 1 /\ SubSeq(s, p, p) = <<32>>
    BY <1>0, <2>1, OneOrTwo
  <2> HIDE DEF k
  <2>4. a + k + Len(<<32>>) = p
    BY <2>1, <2>3
  <2>5. /\ a + k + Len(<<32>>) < b
        /\ Framing!IsNumeral(SubSeq(s, a + 1, a + k))
        /\ SubSeq(s, a + k + 1, a + k + Len(<<32>>)) = <<32>>
        /\ s[a + k + Len(<<32>>) + 1] = 60
        /\ Framing!NumeralValue(SubSeq(s, a + 1, a + k)) = b - (a + k + Len(<<32>>))
        /\ b - (a + k + Len(<<32>>)) <= max
    BY <1>0, <2>1, <2>2, <2>3, <2>4
  <2>6. <<32>> \in {<<32>>, <<0, 32>>}
    OBVIOUS
  <2> QED
    BY <2>1, <2>5, <2>6, Zenon DEF Framing!IsFrame
<1>2. CASE p - 1 <= Len(s) /\ s[p - 1] = eof /\ Numbered(s, a, p - 1 - 1, n)
  <2> DEFINE k == p - 2 - a
  <2>0. p - 1 - 1 = p - 2 /\ s[p - 1] = 0
    BY <1>2 DEF eof
  <2>1. /\ a < p - 2 /\ p - 2 \in a..Len(s) /\ k \in 1..(b - a - 2) /\ a + k = p - 2
        /\ a + k + 1 = p - 1 /\ p - 1 \in 1..Len(s) /\ p - 1 < Len(s) /\ (p - 1) + 1 = p
    BY <1>0, <1>2, <2>0 DEF Numbered
  <2>2. /\ Framing!IsNumeral(SubSeq(s, a + 1, p - 2))
        /\ Framing!NumeralValue(SubSeq(s, a + 1, p - 2)) = n
    BY <1>2, <2>0, <2>1, NumeralPart DEF Numbered
  <2>3. Len(<<0, 32>>) = 2 /\ SubSeq(s, p - 1, p) = <<0, 32>>
    BY <1>0, <2>0, <2>1, OneOrTwo
  <2> HIDE DEF k
  <2>4. a + k + Len(<<0, 32>>) = p
    BY <2>1, <2>3
  <2>5. /\ a + k + Len(<<0, 32>>) < b
        /\ Framing!IsNumeral(SubSeq(s, a + 1, a + k))
        /\ SubSeq(s, a + k + 1, a + k + Len(<<0, 32>>)) = <<0, 32>>
        /\ s[a + k + Len(<<0, 32>>) + 1] = 60
        /\ Framing!NumeralValue(SubSeq(s, a + 1, a + k)) = b - (a + k + Len(<<0, 32>>))
        /\ b - (a + k + Len(<<0, 32>>)) <= max
    BY <1>0, <2>1, <2>2, <2>3, <2>4
  <2>6. <<0, 32>> \in {<<32>>, <<0, 32>>}
    OBVIOUS
  <2> QED
    BY <2>1, <2>5, <2>6, Zenon DEF Framing!IsFrame
<1> QED
  BY <1>1, <1>2 DEF Separated, Headed

(* And every frame is of this shape. *)
LEMMA FrameParts ==
    ASSUME NEW s \in Seq(Byte), NEW a \in Nat, NEW b \in 1..Len(s), NEW max,
           Framing!IsFrame(s, a, b, max)
    PROVE  \E p \in (a + 2)..(b - 1) : /\ Separated(s, a, p, b - p)
                                       /\ s[p + 1] = lt /\ b - p <= max
<1>1. PICK k \in 1..(b - a - 2), sep \in {<<32>>, <<0, 32>>} :
        LET digits == SubSeq(s, a + 1, a + k)
            body   == a + k + Len(sep)
        IN  /\ body < b
            /\ Framing!IsNumeral(digits)
            /\ SubSeq(s, a + k + 1, body) = sep
            /\ s[body + 1] = 60
            /\ Framing!NumeralValue(digits) = b - body
            /\ b - body <= max
  BY Zenon DEF Framing!IsFrame
<1> DEFINE e == a + k
           p == e + Len(sep)
<1>2. /\ p < b /\ Framing!IsNumeral(SubSeq(s, a + 1, e)) /\ SubSeq(s, e + 1, p) = sep
      /\ s[p + 1] = lt /\ Framing!NumeralValue(SubSeq(s, a + 1, e)) = b - p /\ b - p <= max
  BY <1>1 DEF lt
<1>3. e \in (a + 1)..(b - 2) /\ e \in a..Len(s) /\ e \in Nat /\ Len(s) \in Nat
  BY <1>1
<1> HIDE DEF e
<1>4. Numbered(s, a, e, b - p)
  <2> HIDE DEF p
  <2> QED
    BY <1>2, <1>3, NumeralPart DEF Numbered
<1>5. CASE sep = <<32>>
  <2>1. p = e + 1 /\ e + 1 \in 1..Len(s)
    BY <1>3, <1>5
  <2>2. SubSeq(s, e + 1, e + 1) = <<s[e + 1]>>
    BY <2>1, OneOrTwo
  <2>3. <<s[e + 1]>> = <<32>>
    BY <1>2, <1>5, <2>1, <2>2
  <2>4. s[e + 1] = ws
    BY <2>3 DEF ws
  <2> HIDE DEF p
  <2>5. p - 1 = e /\ p \in (a + 2)..(b - 1) /\ p <= Len(s)
    BY <1>2, <1>3, <2>1
  <2>6. Separated(s, a, p, b - p)
    BY <1>4, <2>1, <2>4, <2>5 DEF Separated, Headed
  <2> QED
    BY <1>2, <2>5, <2>6
<1>6. CASE sep = <<0, 32>>
  <2>1. p = e + 2 /\ e + 1 \in 1..Len(s) /\ e + 1 < Len(s) /\ (e + 1) + 1 = e + 2
    <3>1. p = e + 2
      BY <1>3, <1>6
    <3> HIDE DEF p
    <3> QED
      BY <1>2, <1>3, <3>1
  <2>2. SubSeq(s, e + 1, e + 2) = <<s[e + 1], s[e + 2]>>
    BY <2>1, OneOrTwo
  <2>3. <<s[e + 1], s[e + 2]>> = <<0, 32>>
    BY <1>2, <1>6, <2>1, <2>2
  <2>4. s[e + 1] = eof /\ s[e + 2] = ws
    BY <2>3 DEF ws, eof
  <2> HIDE DEF p
  <2>5. p - 1 = e + 1 /\ (p - 1) - 1 = e /\ p \in (a + 2)..(b - 1) /\ p <= Len(s) /\ p - 1 <= Len(s)
    BY <1>2, <1>3, <2>1
  <2>6. Separated(s, a, p, b - p)
    BY <1>4, <2>1, <2>4, <2>5 DEF Separated, Headed
  <2> QED
    BY <1>2, <2>5, <2>6
<1> QED
  BY <1>5, <1>6

-----------------------------------------------------------------------------
(* A part of what follows the a-th octet. *)
LEMMA PartOfRest ==
    ASSUME NEW s \in Seq(Byte), NEW a \in 0..Len(s), NEW i \in Nat, NEW j \in i..(Len(s) - a)
    PROVE  SubSeq(SubSeq(s, a + 1, Len(s)), i + 1, j) = SubSeq(s, a + i + 1, a + j)
<1> DEFINE t == SubSeq(s, a + 1, Len(s))
           l == a + i
           m == a + j
<1>0. /\ Len(s) \in Nat /\ Len(s) \in a..Len(s) /\ a \in Nat /\ l \in Nat
      /\ m \in l..Len(s) /\ m - l = j - i /\ j - i \in Nat
  OBVIOUS
<1>1. /\ t \in Seq(Byte) /\ Len(t) = Len(s) - a
      /\ \A h \in 1..(Len(s) - a) : t[h] = s[a + h]
  BY <1>0, PartOf
<1> HIDE DEF t, m
<1> DEFINE u == SubSeq(t, i + 1, j)
           v == SubSeq(s, l + 1, m)
<1>2. u \in Seq(Byte) /\ Len(u) = j - i /\ \A h \in 1..(j - i) : u[h] = t[i + h]
  <2>1. j \in i..Len(t)
    BY <1>1
  <2> QED
    BY <1>1, <2>1, PartOf
<1>3. v \in Seq(Byte) /\ Len(v) = j - i /\ \A h \in 1..(j - i) : v[h] = s[l + h]
  <2> HIDE DEF l
  <2>1. v \in Seq(Byte) /\ Len(v) = m - l /\ \A h \in 1..(m - l) : v[h] = s[l + h]
    BY <1>0, PartOf
  <2> QED
    BY <1>0, <2>1
<1> HIDE DEF u, v
<1>4. \A h \in 1..(j - i) : u[h] = v[h]
  <2>1. TAKE h \in 1..(j - i)
  <2>2. i + h \in 1..(Len(s) - a) /\ a + (i + h) = l + h
    OBVIOUS
  <2> QED
    BY <1>1, <1>2, <1>3, <2>2
<1>5. u = v
  BY <1>2, <1>3, <1>4, SeqEqual
<1> QED
  BY <1>5 DEF u, v, t, m

(* What may still become a frame is a beginning of this shape. *)
LEMMA GrowthParts ==
    ASSUME NEW s \in Seq(Byte), NEW a \in Nat, a < Len(s), NEW max,
           Framing!MayBecomeFrame(s, a, max)
    PROVE  \E n : /\ n <= max
                  /\ \/ Headed(s, a, Len(s), n)
                     \/ \E p \in (a + 2)..Len(s) :
                           Separated(s, a, p, n) /\ (p = Len(s) \/ s[p + 1] = lt)
<1> DEFINE m == Len(s) - a
           t == SubSeq(s, a + 1, Len(s))
<1>0. /\ Len(s) \in Nat /\ m \in Nat /\ m >= 1 /\ Len(s) \in a..Len(s) /\ a + m = Len(s)
      /\ a \in 0..Len(s)
  OBVIOUS
<1>1. /\ t \in Seq(Byte) /\ Len(t) = m
      /\ \A h \in 1..m : t[h] = s[a + h]
  BY <1>0, PartOf
<1>2. \A i \in 0..m : \A j \in i..m : SubSeq(t, i + 1, j) = SubSeq(s, a + i + 1, a + j)
  BY <1>0, PartOfRest
<1>a. ASSUME NEW x \in (a + 1)..Len(s), NEW y \in x..Len(s)
      PROVE  /\ y = x + 1 => y - 1 = x /\ y \in (a + 2)..Len(s) /\ x + 1 \in 1..Len(s)
             /\ y = x + 2 => /\ y - 1 = x + 1 /\ (y - 1) - 1 = x
                            /\ y \in (a + 2)..Len(s) /\ y - 1 <= Len(s)
                            /\ x + 1 \in 1..Len(s) /\ x + 1 < Len(s) /\ (x + 1) + 1 = x + 2
  BY <1>0
<1>3. PICK k \in 1..Len(t), sep \in {<<>>, <<0>>, <<32>>, <<0, 32>>} :
         LET digits == SubSeq(t, 1, k)
             body   == SubSeq(t, k + Len(sep) + 1, Len(t))
         IN  /\ Framing!IsNumeral(digits) /\ Framing!NumeralValue(digits) <= max
             /\ k + Len(sep) <= Len(t) /\ SubSeq(t, k + 1, k + Len(sep)) = sep
             /\ \/ body = <<>>
                \/ /\ sep \in {<<32>>, <<0, 32>>} /\ body[1] = 60
                   /\ Len(body) < Framing!NumeralValue(digits)
  <2>1. t # <<>>
    <3> HIDE DEF t, m
    <3> QED
      BY <1>0, <1>1
  <2> QED
    BY <2>1, Zenon DEF Framing!MayBecomeFrame
<1> HIDE DEF t
<1> DEFINE e == a + k
           n == Framing!NumeralValue(SubSeq(s, a + 1, e))
<1>4. e \in (a + 1)..Len(s) /\ k \in 1..m /\ e \in a..Len(s)
  BY <1>0, <1>1, <1>3
<1>5. SubSeq(t, 1, k) = SubSeq(s, a + 1, e)
  <2>1. 0 \in 0..m /\ k \in 0..m /\ 0 + 1 = 1 /\ a + 0 + 1 = a + 1
    BY <1>0, <1>4
  <2> QED
    BY <1>2, <2>1
<1>6. Numbered(s, a, e, n) /\ n <= max
  <2>1. Framing!IsNumeral(SubSeq(s, a + 1, e)) /\ n <= max
    BY <1>3, <1>5
  <2> HIDE DEF e
  <2> QED
    BY <1>4, <2>1, NumeralPart DEF Numbered
<1> DEFINE q == k + Len(sep)
<1>7. /\ q <= m /\ SubSeq(t, k + 1, q) = sep
      /\ \/ SubSeq(t, q + 1, m) = <<>>
         \/ sep \in {<<32>>, <<0, 32>>} /\ SubSeq(t, q + 1, m)[1] = 60
  BY <1>1, <1>3
<1>8. Len(sep) \in 0..2 /\ q \in 0..m /\ q \in k..m
  <2>1. Len(sep) \in 0..2
    OBVIOUS
  <2> QED
    BY <1>0, <1>4, <1>7, <2>1
<1>17. q = k + Len(sep)
  OBVIOUS
<1> HIDE DEF q
<1>9. sep = SubSeq(s, e + 1, a + q)
  <2>1. k \in 0..m
    BY <1>0, <1>4
  <2>2. SubSeq(t, k + 1, q) = SubSeq(s, a + k + 1, a + q)
    BY <1>2, <1>8, <2>1
  <2> QED
    BY <1>7, <2>2
<1>10. ASSUME q < m
       PROVE  sep \in {<<32>>, <<0, 32>>} /\ s[a + q + 1] = 60
  <2>1. q + 1 \in 1..m /\ m - q \in Nat /\ 1 \in 1..(m - q) /\ m \in q..Len(t) /\ q \in Nat
    BY <1>0, <1>1, <1>8, <1>10
  <2> HIDE DEF q, m
  <2>2. Len(SubSeq(t, q + 1, m)) = m - q /\ SubSeq(t, q + 1, m)[1] = t[q + 1]
    BY <1>1, <2>1, PartOf
  <2>3. SubSeq(t, q + 1, m) # <<>>
    BY <1>10, <2>1, <2>2
  <2> DEFINE h == q + 1
  <2>4. t[h] = s[a + h] /\ a + h = a + q + 1
    <3>1. h \in 1..m /\ a + h = a + q + 1
      BY <2>1
    <3> HIDE DEF h
    <3> QED
      BY <1>1, <3>1
  <2> QED
    BY <1>7, <2>2, <2>3, <2>4
<1>11. SUFFICES \/ Headed(s, a, Len(s), n)
                \/ \E p \in (a + 2)..Len(s) :
                      Separated(s, a, p, n) /\ (p = Len(s) \/ s[p + 1] = lt)
  BY <1>6
<1> DEFINE p == a + q
<1>12. p \in e..Len(s) /\ (p # Len(s) => q < m) /\ p + 1 = a + q + 1
  <2>1. k \in Nat /\ q \in Nat /\ k <= q /\ q <= m /\ k >= 1
    BY <1>4, <1>8
  <2>2. p \in Nat /\ e \in Nat /\ e <= p
    BY <2>1
  <2>3. p <= Len(s)
    BY <1>0, <2>1
  <2>4. q = m => p = Len(s)
    BY <1>0
  <2>5. p + 1 = a + q + 1
    BY <2>1
  <2>6. m \in Nat
    BY <1>0
  <2> HIDE DEF p, e, m
  <2>7. p # Len(s) => q < m
    BY <2>1, <2>4, <2>6
  <2>8. p \in e..Len(s)
    BY <1>0, <2>2, <2>3
  <2> QED
    BY <2>5, <2>7, <2>8
<1>13. CASE sep = <<>>
  <2>1. Len(sep) = 0 /\ sep \notin {<<32>>, <<0, 32>>}
    BY <1>13
  <2>2. p = e
    BY <1>4, <1>17, <2>1
  <2>3. p = Len(s)
    BY <1>10, <1>12, <2>1
  <2> HIDE DEF p, e, n
  <2>4. Headed(s, a, p, n)
    BY <1>6, <2>2 DEF Headed
  <2>5. Headed(s, a, Len(s), n)
    BY <2>3, <2>4
  <2> QED
    BY <2>5
<1>14. CASE sep = <<0>>
  <2>1. Len(sep) = 1 /\ sep \notin {<<32>>, <<0, 32>>}
    BY <1>14
  <2>2. p = e + 1 /\ p - 1 = e
    BY <1>4, <1>17, <2>1
  <2>3. p = Len(s)
    BY <1>10, <1>12, <2>1
  <2>4. s[p] = eof
    <3>1. e + 1 \in 1..Len(s)
      BY <1>4, <1>12, <2>2
    <3> HIDE DEF p, e
    <3>2. SubSeq(s, e + 1, e + 1) = <<s[e + 1]>>
      BY <3>1, OneOrTwo
    <3>3. <<s[e + 1]>> = <<0>>
      BY <1>9, <1>14, <2>2, <3>2 DEF p
    <3> QED
      BY <2>2, <3>3 DEF eof
  <2> HIDE DEF p, e, n
  <2>5. p <= Len(s)
    BY <1>0, <2>3
  <2>6. Headed(s, a, p, n)
    BY <1>6, <2>2, <2>4, <2>5 DEF Headed
  <2>7. Headed(s, a, Len(s), n)
    BY <2>3, <2>6
  <2> QED
    BY <2>7
<1>15. CASE sep = <<32>>
  <2>1. Len(sep) = 1
    BY <1>15
  <2>2. p = e + 1 /\ p - 1 = e /\ p \in (a + 2)..Len(s)
    <3>1. p = e + 1
      BY <1>4, <1>17, <2>1
    <3> HIDE DEF p, e
    <3> QED
      BY <1>a, <1>4, <1>12, <3>1
  <2>4. s[p] = ws
    <3>1. e + 1 \in 1..Len(s)
      BY <1>4, <1>12, <2>2
    <3> HIDE DEF p, e
    <3>2. SubSeq(s, e + 1, e + 1) = <<s[e + 1]>>
      BY <3>1, OneOrTwo
    <3>3. <<s[e + 1]>> = <<32>>
      BY <1>9, <1>15, <2>2, <3>2 DEF p
    <3> QED
      BY <2>2, <3>3 DEF ws
  <2>5. p = Len(s) \/ s[p + 1] = lt
    BY <1>10, <1>12 DEF lt
  <2> HIDE DEF p, e, n
  <2>6. Separated(s, a, p, n)
    BY <1>0, <1>6, <2>2, <2>4 DEF Headed, Separated
  <2> QED
    BY <2>2, <2>5, <2>6
<1>16. CASE sep = <<0, 32>>
  <2>1. Len(sep) = 2
    BY <1>16
  <2>2. p = e + 2 /\ p - 1 = e + 1 /\ (p - 1) - 1 = e /\ p \in (a + 2)..Len(s) /\ p - 1 <= Len(s)
    <3>1. p = e + 2
      BY <1>4, <1>17, <2>1
    <3> HIDE DEF p, e
    <3> QED
      BY <1>a, <1>4, <1>12, <3>1
  <2>4. s[p - 1] = eof /\ s[p] = ws
    <3>1. e + 1 \in 1..Len(s) /\ e + 1 < Len(s) /\ (e + 1) + 1 = e + 2
      <4> HIDE DEF p, e
      <4> QED
        BY <1>a, <1>4, <1>12, <2>2
    <3> HIDE DEF p, e
    <3>2. SubSeq(s, e + 1, e + 2) = <<s[e + 1], s[e + 2]>>
      BY <3>1, OneOrTwo
    <3>3. <<s[e + 1], s[e + 2]>> = <<0, 32>>
      BY <1>9, <1>16, <2>2, <3>2 DEF p
    <3> QED
      BY <2>2, <3>3 DEF ws, eof
  <2>5. p = Len(s) \/ s[p + 1] = lt
    BY <1>10, <1>12 DEF lt
  <2> HIDE DEF p, e, n
  <2>6. Separated(s, a, p, n)
    BY <1>0, <1>6, <2>2, <2>4 DEF Headed, Separated
  <2> QED
    BY <2>2, <2>5, <2>6
<1> QED
  BY <1>13, <1>14, <1>15, <1>16

-----------------------------------------------------------------------------
(* What is no beginning of a frame. *)

(* The numeral of a frame ends where its digits end. *)
Over(s, e) == e = Len(s) \/ s[e + 1] \notin 48..57

(* The numeral that begins at a place is one only, with one value. *)
LEMMA OneNumeral ==
    ASSUME NEW s \in Seq(Byte), NEW a \in Nat,
           NEW e \in Int, NEW n, Numbered(s, a, e, n), Over(s, e),
           NEW f \in Int, NEW m, Numbered(s, a, f, m), Over(s, f)
    PROVE  e = f /\ n = m
<1>0. Len(s) \in Nat /\ a < e /\ e <= Len(s) /\ a < f /\ f <= Len(s)
  BY DEF Numbered
<1>1. ~(e < f)
  <2> SUFFICES ASSUME e < f PROVE FALSE
    OBVIOUS
  <2>1. e + 1 \in (a + 1)..f /\ e # Len(s)
    BY <1>0
  <2> QED
    BY <2>1 DEF Numbered, DigitsIn, Over
<1>2. ~(f < e)
  <2> SUFFICES ASSUME f < e PROVE FALSE
    OBVIOUS
  <2>1. f + 1 \in (a + 1)..e /\ f # Len(s)
    BY <1>0
  <2> QED
    BY <2>1 DEF Numbered, DigitsIn, Over
<1>3. e = f
  BY <1>0, <1>1, <1>2
<1> QED
  BY <1>3 DEF Numbered

(* What is headed by a numeral is so in one way. *)
LEMMA HeadOver ==
    ASSUME NEW s \in Seq(Byte), NEW a \in Nat, NEW p \in Int, NEW n, Headed(s, a, p, n),
           p <= Len(s), Over(s, p) \/ s[p] = eof
    PROVE  \E e \in Int : /\ Numbered(s, a, e, n) /\ Over(s, e)
                          /\ p = e \/ (p = e + 1 /\ s[e + 1] = eof)
<1>0. Len(s) \in Nat
  OBVIOUS
<1>1. CASE Numbered(s, a, p, n)
  <2>1. p \in (a + 1)..p
    BY <1>1 DEF Numbered
  <2>2. s[p] # eof
    BY <1>1, <2>1 DEF Numbered, DigitsIn, eof
  <2> QED
    BY <1>1, <2>2
<1>2. CASE p <= Len(s) /\ s[p] = eof /\ Numbered(s, a, p - 1, n)
  <2> DEFINE e == p - 1
  <2>1. e \in Int /\ p = e + 1
    OBVIOUS
  <2> HIDE DEF e
  <2>2. Numbered(s, a, e, n) /\ s[e + 1] = eof
    BY <1>2, <2>1 DEF e
  <2>3. Over(s, e)
    BY <2>2 DEF Over, eof
  <2> QED
    BY <2>1, <2>2, <2>3
<1> QED
  BY <1>1, <1>2 DEF Headed

(* In front of the space the numeral is over, but for a NUL that Scan takes *)
(* for the end.                                                             *)
LEMMA SpaceOver ==
    ASSUME NEW s \in Seq(Byte), NEW a \in Nat, NEW p \in Int, NEW n, Separated(s, a, p, n)
    PROVE  \E e \in Int : /\ Numbered(s, a, e, n) /\ Over(s, e) /\ e < Len(s)
                          /\ \/ p = e + 1 /\ s[e + 1] = ws
                             \/ p = e + 2 /\ s[e + 1] = eof /\ s[e + 2] = ws
<1>0. Len(s) \in Nat /\ p <= Len(s) /\ s[p] = ws /\ Headed(s, a, p - 1, n)
  BY DEF Separated
<1> DEFINE q == p - 1
<1>1. q \in Int /\ q + 1 = p /\ q <= Len(s) /\ Headed(s, a, q, n)
  BY <1>0
<1> HIDE DEF q
<1>2. Over(s, q)
  BY <1>0, <1>1 DEF Over, ws
<1>3. PICK e \in Int : /\ Numbered(s, a, e, n) /\ Over(s, e)
                       /\ q = e \/ (q = e + 1 /\ s[e + 1] = eof)
  BY <1>1, <1>2, HeadOver
<1>4. CASE q = e
  BY <1>0, <1>1, <1>3, <1>4
<1>5. CASE q = e + 1 /\ s[e + 1] = eof
  <2>1. p = e + 2
    BY <1>1, <1>3, <1>5
  <2> QED
    BY <1>0, <1>3, <1>5, <2>1
<1> QED
  BY <1>3, <1>4, <1>5

(* The space after a numeral is at one place only. *)
LEMMA OneSpace ==
    ASSUME NEW s \in Seq(Byte), NEW a \in Nat,
           NEW p \in Int, NEW n, Separated(s, a, p, n),
           NEW q \in Int, NEW m, Separated(s, a, q, m)
    PROVE  p = q /\ n = m
<1>1. PICK e \in Int : /\ Numbered(s, a, e, n) /\ Over(s, e) /\ e < Len(s)
                       /\ \/ p = e + 1 /\ s[e + 1] = ws
                          \/ p = e + 2 /\ s[e + 1] = eof /\ s[e + 2] = ws
  BY SpaceOver
<1>2. PICK f \in Int : /\ Numbered(s, a, f, m) /\ Over(s, f) /\ f < Len(s)
                       /\ \/ q = f + 1 /\ s[f + 1] = ws
                          \/ q = f + 2 /\ s[f + 1] = eof /\ s[f + 2] = ws
  BY SpaceOver
<1>3. e = f /\ n = m
  BY <1>1, <1>2, OneNumeral
<1>4. ws # eof
  BY DEF ws, eof
<1> QED
  BY <1>1, <1>2, <1>3, <1>4

(* The octets that follow a head and no space may follow. *)
LEMMA HeadNoSpace ==
    ASSUME NEW s \in Seq(Byte), NEW a \in Nat, NEW p \in Int, NEW n, Headed(s, a, p, n),
           p <= Len(s), Over(s, p) \/ s[p] = eof,
           p < Len(s) => s[p + 1] # ws /\ (s[p + 1] # eof \/ s[p] = eof),
           NEW q \in Int, NEW m, Separated(s, a, q, m)
    PROVE  FALSE
<1>0. ws # eof /\ Len(s) \in Nat
  BY DEF ws, eof
<1>1. PICK e \in Int : /\ Numbered(s, a, e, n) /\ Over(s, e)
                       /\ p = e \/ (p = e + 1 /\ s[e + 1] = eof)
  BY HeadOver
<1>2. PICK f \in Int : /\ Numbered(s, a, f, m) /\ Over(s, f) /\ f < Len(s)
                       /\ \/ q = f + 1 /\ s[f + 1] = ws
                          \/ q = f + 2 /\ s[f + 1] = eof /\ s[f + 2] = ws
  BY SpaceOver
<1>3. e = f
  BY <1>1, <1>2, OneNumeral
<1>4. q <= Len(s)
  BY DEF Separated
<1>5. CASE p = e
  <2>1. p < Len(s) /\ (s[p + 1] = ws \/ s[p + 1] = eof)
    BY <1>2, <1>3, <1>5
  <2>2. s[p] # eof
    <3>1. e \in (a + 1)..e
      BY <1>1 DEF Numbered
    <3> QED
      BY <1>1, <1>5, <3>1 DEF Numbered, DigitsIn, eof
  <2> QED
    BY <2>1, <2>2
<1>6. CASE p = e + 1 /\ s[e + 1] = eof
  <2>1. q = e + 2 /\ s[e + 2] = ws
    BY <1>0, <1>2, <1>3, <1>6
  <2>2. p + 1 = e + 2 /\ p < Len(s)
    BY <1>0, <1>1, <1>4, <1>6, <2>1
  <2> QED
    BY <2>1, <2>2
<1> QED
  BY <1>1, <1>5, <1>6

(* What follows the a-th octet cannot begin a frame: it begins with no      *)
(* numeral, or with one too large, or what follows the numeral is neither   *)
(* the space nor a NUL and the space, or what follows the space is no '<'.  *)
Wrong(s, a, max) ==
    /\ a < Len(s)
    /\ \/ s[a + 1] \notin 49..57
       \/ \E p \in Int, n \in Nat :
             /\ p < Len(s)
             /\ \/ Numbered(s, a, p, n) /\ Over(s, p) /\ n > max
                \/ /\ Headed(s, a, p, n) /\ s[p + 1] # ws
                   /\ \/ s[p] = eof
                      \/ Over(s, p) /\ s[p + 1] # eof
                \/ Separated(s, a, p, n) /\ s[p + 1] # lt

(* Such octets hold no frame. *)
LEMMA WrongHoldsNone ==
    ASSUME NEW s \in Seq(Byte), NEW a \in Nat, NEW max \in Int, Wrong(s, a, max),
           NEW q \in Int, NEW m, Separated(s, a, q, m)
    PROVE  m > max \/ (q < Len(s) /\ s[q + 1] # lt)
<1>1. s[a + 1] \in 49..57
  BY SpaceOver DEF Numbered
<1>2. PICK p \in Int, n \in Nat :
             /\ p < Len(s)
             /\ \/ Numbered(s, a, p, n) /\ Over(s, p) /\ n > max
                \/ /\ Headed(s, a, p, n) /\ s[p + 1] # ws
                   /\ \/ s[p] = eof
                      \/ Over(s, p) /\ s[p + 1] # eof
                \/ Separated(s, a, p, n) /\ s[p + 1] # lt
  BY <1>1 DEF Wrong
<1>3. CASE Numbered(s, a, p, n) /\ Over(s, p) /\ n > max
  <2>1. PICK f \in Int : Numbered(s, a, f, m) /\ Over(s, f)
    BY SpaceOver
  <2>2. n = m
    BY <1>3, <2>1, OneNumeral
  <2> QED
    BY <1>3, <2>2
<1>4. CASE Headed(s, a, p, n) /\ s[p + 1] # ws /\ (s[p] = eof \/ (Over(s, p) /\ s[p + 1] # eof))
  <2>1. p <= Len(s)
    BY <1>2
  <2> QED
    BY <1>4, <2>1, HeadNoSpace
<1>5. CASE Separated(s, a, p, n) /\ s[p + 1] # lt
  <2>1. p = q
    BY <1>5, OneSpace
  <2> QED
    BY <1>2, <1>5, <2>1
<1> QED
  BY <1>2, <1>3, <1>4, <1>5

(* Octets of that kind hold no frame, wherever it were to end. *)
LEMMA WrongNoFrame ==
    ASSUME NEW s \in Seq(Byte), NEW a \in Nat, NEW max \in Int, Wrong(s, a, max)
    PROVE  \A b \in 1..Len(s) : ~Framing!IsFrame(s, a, b, max)
<1> SUFFICES ASSUME NEW b \in 1..Len(s), Framing!IsFrame(s, a, b, max) PROVE FALSE
  OBVIOUS
<1>1. PICK p \in (a + 2)..(b - 1) : /\ Separated(s, a, p, b - p)
                                    /\ s[p + 1] = lt /\ b - p <= max
  BY FrameParts
<1>2. b - p > max \/ s[p + 1] # lt
  BY <1>1, WrongHoldsNone
<1> QED
  BY <1>1, <1>2

(* Nor can octets of that kind become a frame, whatever follows. *)
LEMMA WrongNoGrowth ==
    ASSUME NEW s \in Seq(Byte), NEW a \in Nat, NEW max \in Int, Wrong(s, a, max)
    PROVE  ~Framing!MayBecomeFrame(s, a, max)
<1> SUFFICES ASSUME Framing!MayBecomeFrame(s, a, max) PROVE FALSE
  OBVIOUS
<1>0. a < Len(s) /\ Len(s) \in Nat
  BY DEF Wrong
<1>1. PICK n : /\ n <= max
               /\ \/ Headed(s, a, Len(s), n)
                  \/ \E p \in (a + 2)..Len(s) :
                        Separated(s, a, p, n) /\ (p = Len(s) \/ s[p + 1] = lt)
  BY <1>0, GrowthParts
<1>2. CASE \E p \in (a + 2)..Len(s) : Separated(s, a, p, n) /\ (p = Len(s) \/ s[p + 1] = lt)
  <2>1. PICK p \in (a + 2)..Len(s) : Separated(s, a, p, n) /\ (p = Len(s) \/ s[p + 1] = lt)
    BY <1>2
  <2>2. n > max \/ (p < Len(s) /\ s[p + 1] # lt)
    BY <2>1, WrongHoldsNone
  <2>3. n \in Nat
    BY <2>1, SpaceOver, NumberIsNat DEF Numbered
  <2> QED
    BY <1>0, <1>1, <2>1, <2>2, <2>3
<1>3. CASE Headed(s, a, Len(s), n)
  <2>1. Over(s, Len(s))
    BY DEF Over
  <2>2. PICK e \in Int : /\ Numbered(s, a, e, n) /\ Over(s, e)
                         /\ Len(s) = e \/ (Len(s) = e + 1 /\ s[e + 1] = eof)
    BY <1>0, <1>3, <2>1, HeadOver
  <2>3. s[a + 1] \in 49..57 /\ n \in Nat
    <3>1. e \in Nat
      BY <2>2 DEF Numbered
    <3> QED
      BY <2>2, <3>1, NumberIsNat DEF Numbered
  <2>4. PICK p \in Int, k \in Nat :
             /\ p < Len(s)
             /\ \/ Numbered(s, a, p, k) /\ Over(s, p) /\ k > max
                \/ /\ Headed(s, a, p, k) /\ s[p + 1] # ws
                   /\ \/ s[p] = eof
                      \/ Over(s, p) /\ s[p + 1] # eof
                \/ Separated(s, a, p, k) /\ s[p + 1] # lt
    BY <2>3 DEF Wrong
  <2>5. CASE Numbered(s, a, p, k) /\ Over(s, p) /\ k > max
    <3>1. k = n
      BY <2>2, <2>5, OneNumeral
    <3> QED
      BY <1>1, <2>3, <2>5, <3>1
  <2>6. CASE Headed(s, a, p, k) /\ s[p + 1] # ws /\ (s[p] = eof \/ (Over(s, p) /\ s[p + 1] # eof))
    <3>1. p <= Len(s)
      BY <1>0, <2>4
    <3>2. PICK f \in Int : /\ Numbered(s, a, f, k) /\ Over(s, f)
                           /\ p = f \/ (p = f + 1 /\ s[f + 1] = eof)
      BY <2>6, <3>1, HeadOver
    <3>3. e = f
      BY <2>2, <3>2, OneNumeral
    <3>4. CASE p = f
      <4>1. Len(s) = e + 1 /\ s[p + 1] = eof /\ s[p] # eof
        <5>1. f \in (a + 1)..f /\ DigitsIn(s, a, f)
          BY <3>2 DEF Numbered
        <5>2. s[f] \in 48..57
          BY <5>1, Zenon DEF DigitsIn
        <5>3. s[f] # eof
          BY <5>2 DEF eof
        <5> QED
          BY <2>2, <2>4, <3>3, <3>4, <5>3
      <4> QED
        BY <2>6, <4>1
    <3>5. CASE p = f + 1
      BY <1>0, <2>2, <2>4, <3>3, <3>5
    <3> QED
      BY <3>2, <3>4, <3>5
  <2>7. CASE Separated(s, a, p, k) /\ s[p + 1] # lt
    <3>1. PICK f \in Int : /\ Numbered(s, a, f, k) /\ Over(s, f) /\ f < Len(s)
                           /\ \/ p = f + 1 /\ s[f + 1] = ws
                              \/ p = f + 2 /\ s[f + 1] = eof /\ s[f + 2] = ws
      BY <2>7, SpaceOver
    <3>2. e = f
      BY <2>2, <3>1, OneNumeral
    <3> QED
      BY <1>0, <2>2, <2>4, <3>1, <3>2
  <2> QED
    BY <2>4, <2>5, <2>6, <2>7
<1> QED
  BY <1>1, <1>2, <1>3

(* Nor do octets that end within the head, or before the message's end.     *)
LEMMA HeadNoFrame ==
    ASSUME NEW s \in Seq(Byte), NEW a \in Nat, NEW max \in Int, NEW n,
           Headed(s, a, Len(s), n)
    PROVE  \A b \in 1..Len(s) : ~Framing!IsFrame(s, a, b, max)
<1> SUFFICES ASSUME NEW b \in 1..Len(s), Framing!IsFrame(s, a, b, max) PROVE FALSE
  OBVIOUS
<1>1. PICK p \in (a + 2)..(b - 1) : Separated(s, a, p, b - p)
  BY FrameParts
<1>2. a < Len(s) /\ Len(s) \in Int /\ Over(s, Len(s))
  BY <1>1 DEF Over
<1> QED
  BY <1>1, <1>2, HeadNoSpace

(* Where no octet is left there is no frame. *)
LEMMA NothingNoFrame ==
    ASSUME NEW s \in Seq(Byte), NEW a \in Nat, NEW max \in Int, a >= Len(s)
    PROVE  \A b \in 1..Len(s) : ~Framing!IsFrame(s, a, b, max)
<1> SUFFICES ASSUME NEW b \in 1..Len(s), Framing!IsFrame(s, a, b, max) PROVE FALSE
  OBVIOUS
<1>1. PICK p \in (a + 2)..(b - 1) : Separated(s, a, p, b - p)
  BY FrameParts
<1> QED
  BY <1>1

(* A message shorter than announced is no frame (ErrUnexpectedEOF of the    *)
(* Peek).                                                                   *)
LEMMA ShortNoFrame ==
    ASSUME NEW s \in Seq(Byte), NEW a \in Nat, NEW max \in Int, NEW n \in Nat,
           NEW p \in Int, Separated(s, a, p, n), p + n > Len(s)
    PROVE  \A b \in 1..Len(s) : ~Framing!IsFrame(s, a, b, max)
<1> SUFFICES ASSUME NEW b \in 1..Len(s), Framing!IsFrame(s, a, b, max) PROVE FALSE
  OBVIOUS
<1>1. PICK q \in (a + 2)..(b - 1) : Separated(s, a, q, b - q)
  BY FrameParts
<1>2. p = q /\ n = b - q
  BY <1>1, OneSpace
<1> QED
  BY <1>1, <1>2

-----------------------------------------------------------------------------
(* Where a frame may begin, said of the results. *)
SpansOf(o) == [i \in 1..(IF o # <<>> /\ o[Len(o)].span = NoSpan THEN Len(o) - 1 ELSE Len(o))
                 |-> o[i].span]
StartsAfter(s, o) ==
    IF o = <<>> THEN {0}
    ELSE LET e == o[Len(o)].span[2]
         IN  IF Len(s) > e /\ s[e + 1] = lf THEN {e + 1} ELSE {e}

AllFrames(o) == o \in Seq(Results) /\ \A i \in DOMAIN o : o[i].span # NoSpan

(* The frames of the results are their spans, and the next may start after  *)
(* the last.                                                                *)
LEMMA SpansAre ==
    ASSUME NEW o, AllFrames(o)
    PROVE  /\ SpansOf(o) = [i \in 1..Len(o) |-> o[i].span]
           /\ \A s : Framing!Starts(s, SpansOf(o)) = StartsAfter(s, o)
<1>0. Len(o) \in Nat /\ DOMAIN o = 1..Len(o) /\ (o # <<>> => Len(o) >= 1) /\ (o = <<>> => Len(o) = 0)
  BY DEF AllFrames
<1>1. ~(o # <<>> /\ o[Len(o)].span = NoSpan)
  BY <1>0 DEF AllFrames
<1>2. SpansOf(o) = [i \in 1..Len(o) |-> o[i].span]
  BY <1>1 DEF SpansOf
<1> DEFINE f == SpansOf(o)
<1> HIDE DEF f
<1>3. f = [i \in 1..Len(o) |-> o[i].span]
  BY <1>2 DEF f
<1>4. Len(f) = Len(o)
  <2>1. f \in Seq({o[i].span : i \in 1..Len(o)})
    BY <1>0, <1>3
  <2> QED
    BY <1>0, <1>3
<1>5. f = <<>> <=> o = <<>>
  BY <1>0, <1>3, <1>4
<1>6. o # <<>> => f[Len(f)] = o[Len(o)].span
  BY <1>0, <1>3, <1>4
<1>7. ASSUME NEW s PROVE Framing!Starts(s, f) = StartsAfter(s, o)
  <2>1. CASE o = <<>>
    BY <1>5, <2>1 DEF Framing!Starts, StartsAfter
  <2>2. CASE o # <<>>
    BY <1>5, <1>6, <2>2 DEF Framing!Starts, StartsAfter, lf
  <2> QED
    BY <2>1, <2>2
<1> QED
  BY <1>2, <1>7 DEF f

(* A result of the framing adds no frame, any other adds its own. *)
LEMMA SpansGrow ==
    ASSUME NEW o, AllFrames(o), NEW r \in Results, NEW q, q = Append(o, r)
    PROVE  SpansOf(q) = IF r.span = NoSpan THEN SpansOf(o) ELSE Append(SpansOf(o), r.span)
<1>0. /\ Len(o) \in Nat /\ DOMAIN o = 1..Len(o) /\ Len(q) = Len(o) + 1 /\ q # <<>>
      /\ q[Len(o) + 1] = r /\ \A i \in 1..Len(o) : q[i] = o[i]
  <2>1. o \in Seq(Results)
    BY DEF AllFrames
  <2>2. Len(q) = Len(o) + 1 /\ q \in Seq(Results)
    BY <2>1
  <2> QED
    BY <2>1, <2>2
<1>1. SpansOf(o) = [i \in 1..Len(o) |-> o[i].span]
  BY SpansAre
<1>2. CASE r.span = NoSpan
  <2>1. SpansOf(q) = [i \in 1..((Len(o) + 1) - 1) |-> q[i].span]
    BY <1>0, <1>2 DEF SpansOf
  <2>2. (Len(o) + 1) - 1 = Len(o)
    BY <1>0
  <2>3. \A i \in 1..Len(o) : q[i].span = o[i].span
    BY <1>0
  <2> QED
    BY <1>1, <1>2, <2>1, <2>2, <2>3
<1>3. CASE r.span # NoSpan
  <2>1. SpansOf(q) = [i \in 1..(Len(o) + 1) |-> q[i].span]
    BY <1>0, <1>3 DEF SpansOf
  <2> DEFINE f == [i \in 1..Len(o) |-> o[i].span]
             g == [i \in 1..(Len(o) + 1) |-> q[i].span]
  <2>2. \A i \in 1..Len(o) : o[i].span \in Nat \X Nat
    <3>1. \A i \in 1..Len(o) : o[i] \in Results
      BY DEF AllFrames
    <3> QED
      BY <3>1 DEF Results
  <2>3. r.span \in Nat \X Nat
    BY DEF Results
  <2>4. f \in Seq(Nat \X Nat) /\ Len(f) = Len(o)
    BY <1>0, <2>2
  <2>5. \A i \in 1..(Len(o) + 1) : g[i] = IF i = Len(o) + 1 THEN r.span ELSE f[i]
    <3>1. TAKE i \in 1..(Len(o) + 1)
    <3>2. CASE i = Len(o) + 1
      BY <1>0, <3>2
    <3>3. CASE i # Len(o) + 1
      <4>1. i \in 1..Len(o)
        BY <1>0, <3>3
      <4> QED
        BY <1>0, <3>3, <4>1
    <3> QED
      BY <3>2, <3>3
  <2> HIDE DEF f
  <2>6. Append(f, r.span) \in Seq(Nat \X Nat) /\ Len(Append(f, r.span)) = Len(o) + 1
    BY <2>3, <2>4
  <2>7. \A i \in 1..(Len(o) + 1) : Append(f, r.span)[i] = IF i = Len(o) + 1 THEN r.span ELSE f[i]
    BY <1>0, <2>3, <2>4
  <2>8. g = Append(f, r.span)
    <3>1. g \in Seq(Nat \X Nat) /\ Len(g) = Len(o) + 1
      <4>1. \A i \in 1..(Len(o) + 1) : q[i].span \in Nat \X Nat
        <5>1. TAKE i \in 1..(Len(o) + 1)
        <5>2. i = Len(o) + 1 \/ i \in 1..Len(o)
          BY <1>0
        <5> QED
          BY <1>0, <2>2, <2>3, <5>2
      <4> QED
        BY <1>0, <4>1
    <3> HIDE DEF g
    <3>2. \A i \in 1..(Len(o) + 1) : g[i] = Append(f, r.span)[i]
      BY <2>5, <2>7
    <3> QED
      BY <2>6, <3>1, <3>2, SeqEqual
  <2> QED
    BY <1>1, <1>3, <2>1, <2>8 DEF f
<1> QED
  BY <1>2, <1>3

(* While there is an octet after it, the start of a frame stays the start.  *)
LEMMA StartsStay ==
    ASSUME NEW s \in Seq(Byte), NEW x \in Byte, NEW o, o \in Seq(Results),
           NEW a, a \in StartsAfter(s, o), a < Len(s)
    PROVE  StartsAfter(Append(s, x), o) = StartsAfter(s, o)
<1> DEFINE t == Append(s, x)
<1>0. Len(s) \in Nat /\ Len(t) = Len(s) + 1 /\ \A j \in 1..Len(s) : t[j] = s[j]
  OBVIOUS
<1> HIDE DEF t
<1>1. CASE o = <<>>
  BY <1>1 DEF StartsAfter, t
<1>2. CASE o # <<>>
  <2> DEFINE e == o[Len(o)].span[2]
  <2>1. e \in Nat
    <3>1. Len(o) \in 1..Len(o) /\ o[Len(o)] \in Results
      BY <1>2
    <3> QED
      BY <3>1 DEF Results
  <2> HIDE DEF e
  <2>2. \A u : StartsAfter(u, o) = IF Len(u) > e /\ u[e + 1] = lf THEN {e + 1} ELSE {e}
    BY <1>2 DEF StartsAfter, e
  <2>3. e < Len(s)
    BY <1>0, <2>1, <2>2
  <2>4. e + 1 \in 1..Len(s) /\ Len(t) > e /\ Len(s) > e
    BY <1>0, <2>1, <2>3
  <2>5. t[e + 1] = s[e + 1]
    BY <1>0, <2>4
  <2>6. StartsAfter(t, o) = StartsAfter(s, o)
    BY <2>2, <2>4, <2>5
  <2> QED
    BY <2>6 DEF t
<1> QED
  BY <1>1, <1>2

(* A head is a head still when the reader gives more.                       *)
LEMMA HeadStays ==
    ASSUME NEW s \in Seq(Byte), NEW x \in Byte, NEW a \in Nat, NEW p \in Int, NEW n
    PROVE  /\ Numbered(s, a, p, n) => Numbered(Append(s, x), a, p, n)
           /\ Headed(s, a, p, n) => Headed(Append(s, x), a, p, n)
           /\ Separated(s, a, p, n) => Separated(Append(s, x), a, p, n)
<1> DEFINE t == Append(s, x)
<1>0. /\ Len(s) \in Nat /\ Len(t) \in Nat /\ Len(s) <= Len(t)
      /\ \A j \in 1..Len(s) : t[j] = s[j]
  OBVIOUS
<1>1. ASSUME NEW e \in Int, Numbered(s, a, e, n) PROVE Numbered(t, a, e, n)
  <2>1. e \in Nat
    BY <1>1 DEF Numbered
  <2> QED
    BY <1>1, <2>1, NumberStays
<1> HIDE DEF t
<1>2. ASSUME NEW q \in Int, Headed(s, a, q, n) PROVE Headed(t, a, q, n) /\ q >= 1
  <2>1. CASE Numbered(s, a, q, n)
    BY <1>1, <2>1 DEF Headed, Numbered
  <2>2. CASE q <= Len(s) /\ s[q] = eof /\ Numbered(s, a, q - 1, n)
    <3>1. q \in 1..Len(s)
      BY <1>0, <2>2 DEF Numbered
    <3>2. Numbered(t, a, q - 1, n)
      BY <1>1, <2>2
    <3>3. q <= Len(t) /\ t[q] = eof
      BY <1>0, <2>2, <3>1
    <3> QED
      BY <3>1, <3>2, <3>3 DEF Headed
  <2> QED
    BY <1>2, <2>1, <2>2 DEF Headed
<1>3. ASSUME Separated(s, a, p, n) PROVE Separated(t, a, p, n)
  <2>1. p <= Len(s) /\ s[p] = ws /\ Headed(s, a, p - 1, n)
    BY <1>3 DEF Separated
  <2>2. Headed(t, a, p - 1, n) /\ p - 1 >= 1
    BY <1>2, <2>1
  <2>3. p \in 1..Len(s)
    BY <1>0, <2>1, <2>2
  <2>4. p <= Len(t) /\ t[p] = ws
    BY <1>0, <2>1, <2>3
  <2> QED
    BY <2>2, <2>4 DEF Separated
<1> QED
  BY <1>1, <1>2, <1>3 DEF t

-----------------------------------------------------------------------------
(* Where the parser stands in the stream. *)

(* At the beginning, or behind the newline after the frame before. *)
AtStart == IF out = <<>> THEN pos = 0
           ELSE pos = out[Len(out)].span[2] + 1 /\ pos <= Len(input) /\ input[pos] = lf
(* The numeral read last begins where a frame may begin. *)
InFrame == from \in StartsAfter(input, out) /\ from < Len(input)
(* The digits read so far say num, or more than num can hold. *)
Reading == \E n \in Nat : /\ Numbered(input, from, pos, n)
                          /\ num = IF n > MaxUint THEN MaxUint + 1 ELSE n

(* What the tokens taken so far say of the octets read, wherever run() is.  *)
Placed ==
    /\ pc # "idle" => parses > 0
    /\ pc = "MSGLEN" /\ spc \in {"idle", "scan"} /\ ~stepback => AtStart
    /\ pc = "post" /\ spc = "token" /\ last.typ = "LF" => AtStart
    /\ pc \in {"MSGLEN", "post"} /\ spc = "digits" => InFrame /\ Reading
    /\ pc \in {"MSGLEN", "post"} /\ (spc = "token" \/ stepback) /\ last.typ = "MSGLEN"
          => InFrame /\ Headed(input, from, pos, msglen)
    /\ pc = "WS" /\ spc \in {"idle", "scan"}
          => InFrame /\ Headed(input, from, pos, msglen)
    /\ pc = "WS" /\ spc = "token" /\ last.typ = "WS"
          => InFrame /\ Separated(input, from, pos, msglen)
    /\ pc = "SYSLOGMSG" /\ spc \in {"idle", "scan", "peek"}
          => InFrame /\ Separated(input, from, pos, msglen)
    /\ pc = "SYSLOGMSG" /\ spc = "token" /\ last.typ = "SYSLOGMSG"
          => InFrame /\ Framing!IsFrame(input, from, pos, maxlen)

(* Where the parser expects the next MSGLEN a frame may begin. *)
LEMMA AtStartStarts ==
    ASSUME TypeOK, AtStart
    PROVE  pos \in StartsAfter(input, out)
<1>1. CASE out = <<>>
  BY <1>1 DEF AtStart, StartsAfter
<1>2. CASE out # <<>>
  <2> DEFINE e == out[Len(out)].span[2]
  <2>1. e \in Nat /\ Len(input) \in Nat /\ pos \in Nat
    <3>1. out \in Seq(Results) /\ Len(input) \in Nat /\ pos \in Nat
      BY DEF TypeOK, ScannerTypeOK, Results
    <3>2. out[Len(out)] \in Results
      BY <1>2, <3>1
    <3> QED
      BY <3>1, <3>2 DEF Results
  <2>2. pos = e + 1 /\ pos <= Len(input) /\ input[pos] = lf
    BY <1>2 DEF AtStart
  <2> HIDE DEF e
  <2>3. Len(input) > e /\ input[e + 1] = lf
    BY <2>1, <2>2
  <2>4. StartsAfter(input, out) = {e + 1}
    BY <1>2, <2>3 DEF StartsAfter, e
  <2> QED
    BY <2>2, <2>4
<1> QED
  BY <1>1, <1>2

(* The reader and the scanner.                                              *)
LEMMA LexerPlaces ==
    ASSUME TypeOK, Discipline, Lazy, Accounted, Begun, Placed, Lexer
    PROVE  Placed'
<1> USE SizeAssumption
<1>t. /\ msglen \in Nat /\ pos \in Nat /\ from \in Nat /\ from <= pos /\ input \in Seq(Byte)
      /\ Len(input) \in Nat /\ pos <= Len(input) /\ out \in Seq(Results)
      /\ pc \in {"idle", "MSGLEN", "WS", "SYSLOGMSG", "post"} /\ maxlen \in Nat
      /\ num \in Nat /\ MaxUint \in Nat /\ 9 <= MaxUint /\ maxlen <= MaxUint
  BY DEF TypeOK, ScannerTypeOK, Results, MaxUint
<1>p. UNCHANGED <<pc, stepback, out, parses>>
  BY DEF Lexer, parserVars
<1>g. parses > 0
  <2>1. spc # "closed"
    BY DEF Lexer, Fill, NeedsData, PeekBlocks, ScanStep, ScanMsgLenFirst, ScanLT, ScanSingle,
           ScanMsgLenDigit, ScanMsgLenEnd, ScanTooBigForInt, ScanSyslogMsg, ScanUnderflow
  <2> QED
    BY <2>1 DEF Placed, Discipline, Lengths
<1>c. ASSUME Consume
      PROVE  /\ Avail > 0 => pos' = pos + 1 /\ read = input[pos + 1] /\ pos < Len(input)
             /\ Avail <= 0 => pos' = pos /\ read = eof
  BY <1>c, <1>t DEF Consume, Avail, read
<1>s. spc # "idle" => ~stepback
  BY DEF Discipline, NoStaleLookahead
<1>0. CASE Fill
  <2>1. UNCHANGED <<pos, from, num, maxlen, msglen, spc, last>> /\ spc \in {"scan", "digits", "peek"}
    BY <1>0 DEF Fill, NeedsData, PeekBlocks, lexVars
  <2>2. CASE input' = input
    BY <1>p, <2>1, <2>2 DEF Placed, InFrame, Reading, AtStart
  <2>3. ASSUME NEW b \in Byte, input' = Append(input, b) PROVE Placed'
    <3>1. /\ Len(input') \in Nat /\ Len(input) <= Len(input')
          /\ \A j \in 1..Len(input) : input'[j] = input[j]
      BY <1>t, <2>3
    <3>2. AtStart => AtStart'
      <4>1. CASE out = <<>>
        BY <1>p, <2>1, <4>1 DEF AtStart
      <4>2. CASE out # <<>>
        <5> DEFINE e == out[Len(out)].span[2]
        <5>1. e \in Nat
          <6>1. out[Len(out)] \in Results
            BY <1>t, <4>2
          <6> QED
            BY <6>1 DEF Results
        <5>2. ASSUME AtStart PROVE pos' = e + 1 /\ pos' <= Len(input') /\ input'[pos'] = lf
          <6>1. pos = e + 1 /\ pos <= Len(input) /\ input[pos] = lf
            BY <4>2, <5>2 DEF AtStart
          <6> HIDE DEF e
          <6>2. pos \in 1..Len(input)
            BY <1>t, <5>1, <6>1
          <6> QED
            BY <1>t, <2>1, <3>1, <6>1, <6>2
        <5> QED
          BY <1>p, <4>2, <5>2 DEF AtStart
      <4> QED
        BY <4>1, <4>2
    <3>3. InFrame => InFrame'
      <4>1. InFrame => StartsAfter(input', out) = StartsAfter(input, out)
        BY <1>t, <2>3, StartsStay DEF InFrame
      <4> QED
        BY <1>p, <1>t, <2>1, <3>1, <4>1 DEF InFrame
    <3>4. Reading => Reading'
      <4>1. ASSUME NEW n \in Nat, Numbered(input, from, pos, n) PROVE Numbered(input', from, pos, n)
        BY <1>t, <2>3, <4>1, HeadStays
      <4> QED
        BY <2>1, <4>1 DEF Reading
    <3>5. /\ Headed(input, from, pos, msglen) => Headed(input', from, pos, msglen)
          /\ Separated(input, from, pos, msglen) => Separated(input', from, pos, msglen)
      BY <1>t, <2>3, HeadStays
    <3> QED
      BY <1>p, <1>s, <2>1, <3>2, <3>3, <3>4, <3>5 DEF Placed
  <2>4. Alphabet \subseteq Byte
    BY AlphabetAssumption DEF Byte
  <2> QED
    BY <1>0, <2>2, <2>3, <2>4 DEF Fill
<1>1. CASE ScanMsgLenFirst
  <2>1. /\ Consume /\ spc' = "digits" /\ from' = pos /\ input' = input /\ spc = "scan"
        /\ read \in 49..57 /\ num' = read - 48
    BY <1>1 DEF ScanMsgLenFirst, isNonZeroDigit
  <2>2. Avail > 0
    BY <1>c, <1>t, <2>1 DEF eof, Avail
  <2>3. pos' = pos + 1 /\ input[pos + 1] = read /\ pos < Len(input)
    BY <1>c, <2>1, <2>2
  <2>4. ASSUME pc \in {"MSGLEN", "post"} PROVE InFrame' /\ Reading'
    <3>1. pos \in StartsAfter(input, out)
      <4>1. CASE pc = "MSGLEN"
        BY <1>s, <2>1, <4>1, AtStartStarts DEF Placed
      <4>2. CASE pc = "post"
        <5>1. out # <<>> /\ out[Len(out)].span[2] = pos
          BY <2>1, <4>2 DEF Accounted
        <5>2. input[pos + 1] # lf
          BY <2>1, <2>3 DEF lf
        <5> QED
          BY <5>1, <5>2 DEF StartsAfter
      <4> QED
        BY <2>4, <4>1, <4>2
    <3>2. InFrame'
      BY <1>p, <2>1, <2>3, <3>1 DEF InFrame
    <3>3. Numbered(input, pos, pos + 1, read - 48)
      BY <1>t, <2>1, <2>3, NumberBegins
    <3>4. read - 48 \in Nat /\ ~(read - 48 > MaxUint)
      BY <1>t, <2>1
    <3> QED
      BY <2>1, <2>3, <3>2, <3>3, <3>4 DEF Reading
  <2> QED
    BY <1>g, <1>p, <1>s, <2>1, <2>4 DEF Placed
<1>2. CASE ScanLT
  <2>1. /\ spc = "scan" /\ spc' = "peek"
        /\ UNCHANGED <<input, pos, from, msglen, maxlen, last>>
    BY <1>2 DEF ScanLT, readerVars
  <2>2. InFrame => InFrame'
    BY <1>p, <2>1 DEF InFrame
  <2> QED
    BY <1>g, <1>p, <1>s, <2>1, <2>2 DEF Placed
<1>3. CASE ScanSingle
  <2>1. /\ Consume /\ spc = "scan" /\ spc' = "token" /\ last' = SingleToken(read)
        /\ UNCHANGED <<input, from, msglen, maxlen>>
    BY <1>3 DEF ScanSingle, Return
  <2>2. /\ last'.typ \notin {"MSGLEN", "SYSLOGMSG"} /\ (last'.typ = "WS" => read = ws)
        /\ (last'.typ = "LF" => read = lf)
    BY <2>1 DEF SingleToken, Token
  <2>3. read # eof => pos' = pos + 1 /\ input[pos + 1] = read /\ pos < Len(input)
    BY <1>c, <1>t, <2>1 DEF Avail
  <2>4. ASSUME pc = "post", last'.typ = "LF" PROVE AtStart'
    <3>1. out # <<>> /\ out[Len(out)].span[2] = pos
      BY <2>1, <2>4 DEF Accounted
    <3>2. pos' = pos + 1 /\ input[pos + 1] = lf /\ pos < Len(input)
      BY <2>2, <2>3, <2>4 DEF lf, eof
    <3> QED
      BY <1>p, <1>t, <2>1, <3>1, <3>2 DEF AtStart
  <2>5. ASSUME pc = "WS", last'.typ = "WS"
        PROVE  InFrame' /\ Separated(input, from, pos', msglen)
    <3>1. InFrame /\ Headed(input, from, pos, msglen)
      BY <2>1, <2>5 DEF Placed
    <3>2. pos' = pos + 1 /\ input[pos + 1] = ws /\ pos < Len(input)
      BY <2>2, <2>3, <2>5 DEF ws, eof
    <3>3. pos' - 1 = pos /\ pos' <= Len(input)
      BY <1>t, <3>2
    <3> QED
      BY <1>p, <2>1, <3>1, <3>2, <3>3 DEF InFrame, Separated
  <2> QED
    BY <1>g, <1>p, <1>s, <2>1, <2>2, <2>4, <2>5 DEF Placed
<1>4. CASE ScanMsgLenDigit
  <2>1. /\ Consume /\ spc = "digits" /\ spc' = "digits" /\ UNCHANGED <<input, from>>
        /\ read \in 48..57
        /\ num' = IF 10 * num + (read - 48) > MaxUint THEN MaxUint + 1 ELSE 10 * num + (read - 48)
    BY <1>4 DEF ScanMsgLenDigit, isDigit
  <2>2. Avail > 0
    BY <1>c, <1>t, <2>1 DEF eof, Avail
  <2>3. pos' = pos + 1 /\ input[pos + 1] = read /\ pos < Len(input)
    BY <1>c, <2>1, <2>2
  <2>4. ASSUME pc \in {"MSGLEN", "post"} PROVE InFrame' /\ Reading'
    <3>1. InFrame
      BY <2>1, <2>4 DEF Placed
    <3>2. PICK n \in Nat : /\ Numbered(input, from, pos, n)
                           /\ num = IF n > MaxUint THEN MaxUint + 1 ELSE n
      BY <2>1, <2>4 DEF Placed, Reading
    <3>3. Numbered(input, from, pos + 1, 10 * n + (read - 48))
      BY <1>t, <2>1, <2>3, <3>2, NumberGoesOn
    <3> DEFINE m == 10 * n + (read - 48)
    <3>4. m \in Nat
      BY <2>1
    <3>5. num' = IF m > MaxUint THEN MaxUint + 1 ELSE m
      <4>1. CASE n > MaxUint
        <5>1. num = MaxUint + 1 /\ 10 * num + (read - 48) > MaxUint /\ m > MaxUint
          BY <1>t, <2>1, <3>2, <4>1
        <5> QED
          BY <2>1, <5>1
      <4>2. CASE ~(n > MaxUint)
        BY <2>1, <3>2, <4>2
      <4> QED
        BY <4>1, <4>2
    <3> HIDE DEF m
    <3>6. Numbered(input, from, pos + 1, m)
      BY <3>3 DEF m
    <3>7. Reading'
      BY <2>1, <2>3, <3>4, <3>5, <3>6 DEF Reading
    <3> QED
      BY <1>p, <2>1, <3>1, <3>7 DEF InFrame
  <2> QED
    BY <1>g, <1>p, <1>s, <2>1, <2>4 DEF Placed
<1>5. CASE ScanMsgLenEnd
  <2>1. /\ spc = "digits" /\ spc' = "token" /\ UNCHANGED <<input, from, maxlen>>
        /\ (read = eof /\ Consume) \/ UNCHANGED pos
        /\ last' = MsgLenToken /\ msglen' = LengthStored
    BY <1>5 DEF ScanMsgLenEnd, Return
  <2>2. last'.typ \notin {"WS", "SYSLOGMSG", "LF"}
    BY <2>1 DEF MsgLenToken, Illegal, Token
  <2>3. ASSUME pc \in {"MSGLEN", "post"}, last'.typ = "MSGLEN"
        PROVE  InFrame' /\ Headed(input, from, pos', msglen')
    <3>1. InFrame
      BY <2>1, <2>3 DEF Placed
    <3>2. PICK n \in Nat : /\ Numbered(input, from, pos, n)
                           /\ num = IF n > MaxUint THEN MaxUint + 1 ELSE n
      BY <2>1, <2>3 DEF Placed, Reading
    <3>3. ~(num > MaxUint)
      BY <2>1, <2>3 DEF MsgLenToken, Illegal
    <3>4. msglen' = n
      BY <1>t, <2>1, <3>2, <3>3 DEF LengthStored
    <3>5. Headed(input, from, pos', n)
      <4>1. CASE UNCHANGED pos
        BY <3>2, <4>1 DEF Headed
      <4>2. CASE read = eof /\ Consume /\ pos' # pos
        <5>1. pos' = pos + 1 /\ input[pos + 1] = eof /\ pos < Len(input)
          BY <1>c, <1>t, <4>2 DEF Avail
        <5>2. pos' - 1 = pos /\ pos' <= Len(input)
          BY <1>t, <5>1
        <5> QED
          BY <3>2, <5>1, <5>2 DEF Headed
      <4> QED
        BY <2>1, <4>1, <4>2
    <3> QED
      BY <1>p, <2>1, <3>1, <3>4, <3>5 DEF InFrame
  <2> QED
    BY <1>g, <1>p, <1>s, <2>1, <2>2, <2>3 DEF Placed
<1>6. CASE ScanTooBigForInt
  <2>1. spc' = "token" /\ last'.typ = "ILLEGAL" /\ ~stepback
    BY <1>6, <1>s DEF ScanTooBigForInt, Return, Illegal
  <2> QED
    BY <1>g, <1>p, <2>1 DEF Placed
<1>7. CASE ScanSyslogMsg
  <2>1. /\ spc = "peek" /\ spc' = "token" /\ UNCHANGED <<input, from, maxlen>>
        /\ pos' = pos + msglen /\ last'.typ = "SYSLOGMSG" /\ Avail >= msglen
    BY <1>7 DEF ScanSyslogMsg, Return, Token
  <2>2. msglen \in 1..maxlen
    BY <2>1 DEF Discipline, LengthDiscipline
  <2>3. ASSUME pc = "SYSLOGMSG" PROVE InFrame' /\ Framing!IsFrame(input, from, pos', maxlen)
    <3>1. InFrame /\ Separated(input, from, pos, msglen)
      BY <2>1, <2>3 DEF Placed
    <3>2. Avail >= 1 /\ input[pos + 1] = lt
      BY <2>1 DEF Begun
    <3>3. /\ pos < Len(input) /\ msglen \in Nat \ {0} /\ msglen <= maxlen
          /\ pos' \in Nat /\ pos' <= Len(input)
      BY <1>t, <2>1, <2>2, <3>2 DEF Avail
    <3>4. Framing!IsFrame(input, from, pos', maxlen)
      BY <1>t, <2>1, <3>1, <3>2, <3>3, FrameMade
    <3> QED
      BY <1>p, <2>1, <3>1, <3>4 DEF InFrame
  <2> QED
    BY <1>g, <1>p, <1>s, <2>1, <2>3 DEF Placed
<1>8. CASE ScanUnderflow
  <2>1. spc' = "token" /\ last'.typ = "EOF" /\ ~stepback
    BY <1>8, <1>s DEF ScanUnderflow, Return, Token
  <2> QED
    BY <1>g, <1>p, <2>1 DEF Placed
<1> QED
  BY <1>0, <1>1, <1>2, <1>3, <1>4, <1>5, <1>6, <1>7, <1>8 DEF Lexer, ScanStep

(* The parser.                                                              *)
LEMMA PlaceStep ==
    ASSUME TypeOK, Discipline, Lazy, Accounted, Begun, Placed, [Next]_vars
    PROVE  Placed'
<1>k. ASSUME UNCHANGED <<input, pos, from, num, msglen, maxlen, last, pc, spc, stepback,
                         out, parses>>
      PROVE  Placed'
  BY <1>k DEF Placed, InFrame, Reading, AtStart
<1>s. stepback => pc = "MSGLEN" /\ spc = "idle"
  BY DEF Discipline, NoStaleLookahead
<1>1. CASE Parse
  <2>1. /\ pos' = 0 /\ spc' = "idle" /\ pc' = "MSGLEN" /\ out' = <<>> /\ parses' = parses + 1
        /\ UNCHANGED stepback /\ ~stepback
    BY <1>1, <1>s DEF Parse, NewScanner
  <2>2. parses' > 0
    BY <2>1, MaxParsesAssumption DEF TypeOK
  <2> QED
    BY <2>1, <2>2 DEF Placed, AtStart
<1>2. CASE WithBestEffort \/ \E m \in MaxLengths : WithMaxMessageLength(m)
  BY <1>2, <1>k DEF WithBestEffort, WithMaxMessageLength, scannerVars, readerVars, lexVars
<1>3. CASE scan
  <2>1. /\ pc # "idle" /\ spc = "idle" /\ stepback' = FALSE
        /\ UNCHANGED <<input, pos, from, num, msglen, maxlen, last, pc, out, parses>>
        /\ spc' = IF stepback THEN "token" ELSE "scan"
    BY <1>3 DEF scan, readerVars
  <2>2. (InFrame => InFrame') /\ (AtStart => AtStart')
    BY <2>1 DEF InFrame, AtStart
  <2>3. stepback => pc = "MSGLEN" /\ last.typ # "SYSLOGMSG"
    BY <1>s DEF Discipline, Lengths
  <2> QED
    BY <2>1, <2>2, <2>3 DEF Placed
<1>4. CASE run
  <2>1. /\ UNCHANGED <<input, pos, from, num, msglen, maxlen, last, parses>>
        /\ spc = "token" /\ spc' \in {"idle", "closed"} /\ ~stepback
    BY <1>4, <1>s DEF run, GotMsgLen, NoMsgLen, GotWS, NoWS, GotSyslogMsg, RejectedSyslogMsg,
                Underflow, NoSyslogMsg, PostEOF, PostLF, PostOther, Got, Not, Await, Break,
                scannerRest, readerVars
  <2>2. /\ pc' = "WS" => pc = "MSGLEN" /\ last.typ = "MSGLEN" /\ out' = out
        /\ pc' = "SYSLOGMSG" => pc = "WS" /\ last.typ = "WS" /\ out' = out
        /\ pc' = "MSGLEN" => /\ pc = "post" /\ out' = out
                             /\ stepback' \/ last.typ = "LF"
        /\ pc' # "idle" => pc # "idle"
    BY <1>4, <2>1 DEF run, GotMsgLen, NoMsgLen, GotWS, NoWS, GotSyslogMsg, RejectedSyslogMsg,
                Underflow, NoSyslogMsg, PostEOF, PostLF, PostOther, Got, Not, Await, Break
  <2>3. stepback' => pc' = "MSGLEN"
    BY <1>4, <2>1 DEF run, GotMsgLen, NoMsgLen, GotWS, NoWS, GotSyslogMsg, RejectedSyslogMsg,
                Underflow, NoSyslogMsg, PostEOF, PostLF, PostOther, Got, Not, Await, Break
  <2>4. out' = out => (InFrame => InFrame') /\ (AtStart => AtStart')
    BY <2>1 DEF InFrame, AtStart
  <2> QED
    BY <2>1, <2>2, <2>3, <2>4 DEF Placed
<1>5. CASE Lexer
  BY <1>5, LexerPlaces
<1>6. CASE UNCHANGED vars
  BY <1>6, <1>k DEF vars, scannerVars, readerVars, lexVars, parserVars, configVars
<1> QED
  BY <1>1, <1>2, <1>3, <1>4, <1>5, <1>6 DEF Next

(* While Parse runs the frames delivered are the results' spans.            *)
LEMMA RunningFrames ==
    ASSUME TypeOK, SoFarHarmless, pc # "idle"
    PROVE  AllFrames(out)
  BY DEF TypeOK, Results, SoFarHarmless, Harmless, AllFrames

Standing == IF pc # "idle" THEN "open"
            ELSE IF parses > 0 /\ Refused THEN "refused" ELSE "closed"

(* Each action of the parser is one of OctetFraming or changes nothing it   *)
(* speaks of.                                                               *)
LEMMA FramingStep ==
    ASSUME TypeOK, TypeOK', Discipline, ErrorsEnd, Lazy, Accounted, Begun, Placed, [Next]_vars
    PROVE  [Framing!FramingNext]_(Framing!frameVars)
<1>d. /\ Framing!frameVars = <<input, maxlen, Spans, Standing>>
      /\ Framing!frameVars' = <<input', maxlen', Spans', Standing'>>
  BY DEF Framing!frameVars, Standing
<1>o. Spans = SpansOf(out) /\ Spans' = SpansOf(out')
  BY DEF Spans, SpansOf, Delivering
<1>t. /\ pos \in Nat /\ from \in Nat /\ from <= pos /\ input \in Seq(Byte)
      /\ Len(input) \in Nat /\ pos <= Len(input) /\ out \in Seq(Results)
  BY DEF TypeOK, ScannerTypeOK, Results
(* Nothing framing speaks of changes. *)
<1>k. ASSUME UNCHANGED <<input, maxlen, out, Standing>>
      PROVE  [Framing!FramingNext]_(Framing!frameVars)
  BY <1>d, <1>o, <1>k
<1>1. CASE Parse
  <2>1. Framing!Open
    <3>1. Standing \in {"closed", "refused"} /\ Standing' = "open"
      BY <1>1 DEF Parse, Standing
    <3>2. input' = <<>> /\ out' = <<>>
      BY <1>1 DEF Parse, NewScanner
    <3>3. Spans' = <<>>
      BY <1>o, <3>2 DEF SpansOf
    <3>4. maxlen' \in Nat
      BY DEF TypeOK, ScannerTypeOK
    <3> QED
      BY <3>1, <3>2, <3>3, <3>4 DEF Framing!Open, Standing
  <2> QED
    BY <2>1 DEF Framing!FramingNext
<1>2. CASE WithBestEffort \/ \E m \in MaxLengths : WithMaxMessageLength(m)
  <2>1. UNCHANGED <<input, maxlen, out, pc, parses, internalBE>>
    BY <1>2 DEF WithBestEffort, WithMaxMessageLength, scannerVars, readerVars, lexVars
  <2> QED
    BY <1>k, <2>1 DEF Standing, Refused
<1>3. CASE scan
  <2>1. UNCHANGED <<input, maxlen, out, pc, parses, internalBE>>
    BY <1>3 DEF scan, readerVars, configVars
  <2> QED
    BY <1>k, <2>1 DEF Standing, Refused
<1>4. CASE run
  <2>1. /\ UNCHANGED <<input, maxlen, from, pos, parses, internalBE, last>>
        /\ pc # "idle" /\ spc = "token"
    BY <1>4 DEF run, GotMsgLen, NoMsgLen, GotWS, NoWS, GotSyslogMsg, RejectedSyslogMsg,
                Underflow, NoSyslogMsg, PostEOF, PostLF, PostOther, Got, Not, Await, Break,
                scannerRest, readerVars, configVars
  <2>2. AllFrames(out) /\ parses > 0 /\ Standing = "open"
    BY <2>1, RunningFrames DEF ErrorsEnd, Placed, Standing
  <2>3. \A s : Framing!Starts(s, Spans) = StartsAfter(s, out)
    BY <1>o, <2>2, SpansAre
  (* An error of the framing ends the run. *)
  <2>4. ASSUME NEW r \in Results, emit(r), r.span = NoSpan, r.err # "nil", pc' = "idle"
        PROVE  Framing!Refuse
    <3>1. Spans' = Spans
      BY <1>o, <2>2, <2>4, SpansGrow DEF emit
    <3>2. out' # <<>> /\ out'[Len(out')] = r
      BY <1>t, <2>4 DEF emit
    <3>3. Standing' = "refused"
      BY <2>1, <2>2, <2>4, <3>2 DEF Standing, Refused
    <3> QED
      BY <2>1, <2>2, <3>1, <3>3 DEF Framing!Refuse, Standing
  (* A message is delivered. *)
  <2>5. ASSUME NEW r \in Results, emit(r), r.span = Span, Got("SYSLOGMSG"),
               Standing' \in {"open", "refused"}
        PROVE  Framing!Deliver
    <3>1. InFrame /\ Framing!IsFrame(input, from, pos, maxlen) /\ pos >= 1
      BY <2>5 DEF Got, Placed, Discipline, Lengths
    <3>2. r.span # NoSpan
      BY <2>5, <3>1 DEF Span, NoSpan
    <3>3. Spans' = Append(Spans, <<from, pos>>)
      BY <1>o, <2>2, <2>5, <3>2, SpansGrow DEF emit, Span
    <3>4. from \in Framing!Starts(input, Spans) /\ pos \in 1..Len(input)
      BY <1>t, <2>3, <3>1 DEF InFrame
    <3> QED
      BY <2>1, <2>2, <2>5, <3>1, <3>3, <3>4 DEF Framing!Deliver, Standing
  <2>6. ASSUME UNCHANGED out, pc' # "idle" PROVE UNCHANGED <<input, maxlen, out, Standing>>
    BY <2>1, <2>2, <2>6 DEF Standing
  <2>e. out' \in Seq(Results)
    BY DEF TypeOK, Results
  <2>a. ASSUME NEW r, emit(r) PROVE r \in Results
    <3>1. out' = Append(out, r)
      BY <2>a DEF emit
    <3>2. Len(out') = Len(out) + 1 /\ out'[Len(out) + 1] = r /\ Len(out) \in Nat
      BY <1>t, <3>1
    <3>3. Len(out) + 1 \in 1..Len(out')
      BY <3>2
    <3> QED
      BY <2>e, <3>2, <3>3
  <2>7. CASE GotMsgLen \/ GotWS \/ PostLF \/ PostOther
    <3>1. UNCHANGED out /\ pc' # "idle"
      BY <2>7 DEF GotMsgLen, GotWS, PostLF, PostOther, Await
    <3> QED
      BY <1>k, <2>6, <3>1
  <2>8. CASE NoMsgLen
    <3> DEFINE r == ErrorResult(IF last.err # "" THEN last.err ELSE "ExpectingMSGLEN")
    <3>1. emit(r) /\ pc' = "idle"
      BY <2>8 DEF NoMsgLen, Break
    <3>2. r \in Results
      BY <2>a, <3>1
    <3>3. r.span = NoSpan
      BY DEF ErrorResult, NoSpan
    <3>4. last.err \in ErrTexts
      BY DEF TypeOK, ScannerTypeOK, Tokens
    <3>5. r.err # "nil"
      BY <3>4 DEF ErrorResult, ErrTexts
    <3> HIDE DEF r
    <3> QED
      BY <2>4, <3>1, <3>2, <3>3, <3>5 DEF Framing!FramingNext
  <2>9. CASE NoWS \/ NoSyslogMsg
    <3>1. PICK e \in {"ExpectingWS", "ExpectingSYSLOGMSG"} : emit(ErrorResult(e)) /\ pc' = "idle"
      BY <2>9 DEF NoWS, NoSyslogMsg, Break
    <3> DEFINE r == ErrorResult(e)
    <3>2. r \in Results
      BY <2>a, <3>1
    <3>3. r.span = NoSpan /\ r.err # "nil"
      BY DEF ErrorResult, NoSpan
    <3> HIDE DEF r
    <3>4. emit(r)
      BY <3>1 DEF r
    <3> QED
      BY <2>4, <3>1, <3>2, <3>3, <3>4 DEF Framing!FramingNext
  <2>10. CASE Underflow
    <3>1. PICK a \in internalParse :
             emit(Result([msg |-> a.msg,
                          err |-> IF a.err = "nil" THEN "ExpectingSYSLOGMSG" ELSE a.err],
                         Stripped(last.lit), NoSpan))
      BY <2>10 DEF Underflow
    <3> DEFINE r == Result([msg |-> a.msg,
                            err |-> IF a.err = "nil" THEN "ExpectingSYSLOGMSG" ELSE a.err],
                           Stripped(last.lit), NoSpan)
    <3>2. r \in Results
      BY <2>a, <3>1
    <3>3. r.span = NoSpan /\ r.err # "nil"
      BY DEF Result, NoSpan
    <3> HIDE DEF r
    <3>4. emit(r) /\ pc' = "idle"
      BY <2>10, <3>1 DEF Underflow, Break, r
    <3> QED
      BY <2>4, <3>2, <3>3, <3>4 DEF Framing!FramingNext
  <2>11. CASE GotSyslogMsg
    <3>1. PICK a \in internalParse : emit(Result(a, Stripped(last.lit), Span))
      BY <2>11 DEF GotSyslogMsg
    <3> DEFINE r == Result(a, Stripped(last.lit), Span)
    <3>2. r \in Results
      BY <2>a, <3>1
    <3>3. r.span = Span
      BY DEF Result
    <3> HIDE DEF r
    <3>4. emit(r) /\ Got("SYSLOGMSG") /\ Standing' = "open"
      BY <2>11, <3>1 DEF GotSyslogMsg, Await, Standing, r
    <3> QED
      BY <2>5, <3>2, <3>3, <3>4 DEF Framing!FramingNext
  <2>12. CASE RejectedSyslogMsg
    <3>1. PICK a \in internalParse :
             /\ a.err # "nil"
             /\ emit(Result([msg |-> FALSE, err |-> a.err], Stripped(last.lit), Span))
      BY <2>12 DEF RejectedSyslogMsg
    <3> DEFINE r == Result([msg |-> FALSE, err |-> a.err], Stripped(last.lit), Span)
    <3>2. r \in Results
      BY <2>a, <3>1
    <3>3. r.span = Span /\ r.err # "nil"
      BY <3>1 DEF Result
    <3> HIDE DEF r
    <3>4. emit(r) /\ Got("SYSLOGMSG") /\ pc' = "idle" /\ ~internalBE
      BY <2>12, <3>1 DEF RejectedSyslogMsg, Break, r
    <3>5. out' # <<>> /\ out'[Len(out')] = r
      BY <1>t, <3>2, <3>4 DEF emit
    <3>6. Standing' = "refused"
      BY <2>1, <2>2, <3>3, <3>4, <3>5 DEF Standing, Refused
    <3> QED
      BY <2>5, <3>2, <3>3, <3>4, <3>6 DEF Framing!FramingNext
  <2>13. CASE PostEOF
    <3>1. pc = "post" /\ UNCHANGED out /\ pc' = "idle"
      BY <2>13 DEF PostEOF, Break
    <3>2. out # <<>>
      BY <3>1 DEF Discipline, Lengths
    <3>3. Harmless(out[Len(out)], internalBE)
      <4>1. Len(out) \in DOMAIN out
        BY <1>t, <3>2
      <4> QED
        BY <3>1, <4>1 DEF ErrorsEnd, SoFarHarmless
    <3>4. Standing' = "closed"
      BY <2>1, <3>1, <3>3 DEF Standing, Refused, Harmless
    <3>5. Spans # <<>> /\ Spans' = Spans
      <4>1. Spans = [i \in 1..Len(out) |-> out[i].span]
        BY <1>o, <2>2, SpansAre
      <4>2. 1 \in DOMAIN Spans
        BY <1>t, <3>2, <4>1
      <4> QED
        BY <1>o, <3>1, <4>2
    <3>6. Framing!Close
      BY <2>1, <2>2, <3>4, <3>5 DEF Framing!Close, Standing
    <3> QED
      BY <3>6 DEF Framing!FramingNext
  <2> QED
    BY <1>4, <2>7, <2>8, <2>9, <2>10, <2>11, <2>12, <2>13 DEF run
<1>5. CASE Lexer
  <2>1. UNCHANGED <<out, pc, parses, internalBE>> /\ maxlen' = maxlen
    BY <1>5 DEF Lexer, parserVars, configVars, Fill, lexVars, ScanStep, ScanMsgLenFirst, ScanLT,
           ScanSingle, ScanMsgLenDigit, ScanMsgLenEnd, ScanTooBigForInt, ScanSyslogMsg,
           ScanUnderflow
  <2>2. Standing' = Standing /\ Spans' = Spans
    BY <1>o, <2>1 DEF Standing, Refused
  <2>3. CASE input' = input
    BY <1>k, <2>1, <2>2, <2>3
  <2>4. ASSUME NEW b \in Alphabet, input' = Append(input, b), NeedsData
        PROVE  [Framing!FramingNext]_(Framing!frameVars)
    <3>1. Standing = "open"
      <4>1. spc # "closed"
        BY <2>4 DEF NeedsData, PeekBlocks
      <4> QED
        BY <4>1 DEF Discipline, Lengths, Standing
    <3>2. Framing!Receive
      BY <2>1, <2>2, <2>4, <3>1 DEF Framing!Receive, Standing
    <3> QED
      BY <3>2 DEF Framing!FramingNext
  <2>5. input' = input \/ (NeedsData /\ \E b \in Alphabet : input' = Append(input, b))
    BY <1>5 DEF Lexer, Fill, ScanStep, ScanMsgLenFirst, ScanLT, readerVars,
           ScanSingle, ScanMsgLenDigit, ScanMsgLenEnd, ScanTooBigForInt, ScanSyslogMsg,
           ScanUnderflow
  <2> QED
    BY <2>3, <2>4, <2>5
<1>6. CASE UNCHANGED vars
  <2>1. UNCHANGED <<input, maxlen, out, pc, parses, internalBE>>
    BY <1>6 DEF vars, scannerVars, readerVars, lexVars, parserVars, configVars
  <2> QED
    BY <1>k, <2>1 DEF Standing, Refused
<1> QED
  BY <1>1, <1>2, <1>3, <1>4, <1>5, <1>6 DEF Next

(* All along, the parser stands where the octets read say it does. *)
LEMMA PlacedInvariant == Spec => [](Lazy /\ Accounted /\ Begun /\ Placed)
<1>1. Init => Lazy /\ Accounted /\ Begun /\ Placed
  BY DEF Init, ScannerInit, Lazy, Accounted, NothingDropped, Returned, Begun, Placed
<1>2. TypeOK /\ Discipline /\ Lazy /\ Accounted /\ Begun /\ Placed /\ [Next]_vars
          => (Lazy /\ Accounted /\ Begun /\ Placed)'
  <2> SUFFICES ASSUME TypeOK, Discipline, Lazy, Accounted, Begun, Placed, [Next]_vars
               PROVE  (Lazy /\ Accounted /\ Begun /\ Placed)'
    OBVIOUS
  <2>1. Lazy' /\ Accounted'
    BY AccountStep
  <2>2. Placed'
    BY PlaceStep
  <2>3. Begun'
    <3>1. CASE Lexer
      BY <3>1, LexerBegins
    <3>2. CASE Parse \/ scan \/ run \/ UNCHANGED <<scannerVars, pc, stepback>>
      BY <3>2, ParserBegins
    <3>3. (WithBestEffort \/ \E m \in MaxLengths : WithMaxMessageLength(m))
             => UNCHANGED <<scannerVars, pc, stepback>>
      BY DEF WithBestEffort, WithMaxMessageLength
    <3>4. UNCHANGED vars => UNCHANGED <<scannerVars, pc, stepback>>
      BY DEF vars, parserVars
    <3> QED
      BY <3>1, <3>2, <3>3, <3>4 DEF Next
  <2> QED
    BY <2>1, <2>2, <2>3
<1> QED
  BY <1>1, <1>2, ParserInvariant, PTL DEF Spec

(* Implements OctetFraming: whatever the reader gives and whenever, the     *)
(* results of the run loop of Parse (parser.go:180-259) are frames of the   *)
(* stream, each where the one before it ends, of the length its numeral     *)
(* announces and of no more than the limit, and a run that ends has nothing *)
(* but a refusal after them.                                                *)
THEOREM FramingImplemented == Spec => ImplementsFraming
<1>1. Init => Framing!FramingInit
  <2> SUFFICES ASSUME Init PROVE Framing!FramingInit
    OBVIOUS
  <2>1. /\ input = <<>> /\ out = <<>> /\ pc = "idle" /\ parses = 0 /\ maxlen = DefaultMaxSize
    BY DEF Init, ScannerInit
  <2>2. Spans = <<>>
    BY <2>1 DEF Spans, Delivering
  <2>3. maxlen \in Nat
    BY <2>1, SizeAssumption
  <2> QED
    BY <2>1, <2>2, <2>3 DEF Framing!FramingInit
<1>2. TypeOK /\ TypeOK' /\ Discipline /\ ErrorsEnd
      /\ Lazy /\ Accounted /\ Begun /\ Placed /\ [Next]_vars
          => [Framing!FramingNext]_(Framing!frameVars)
  BY FramingStep
<1> QED
  BY <1>1, <1>2, ParserInvariant, PlacedInvariant, PTL DEF Spec, ImplementsFraming, Framing!FramingSpec

-----------------------------------------------------------------------------
(* What is refused. *)

(* The reader fails with nothing but its end. *)
OnlyEnds == ReaderErrors \subseteq {"EOF"}

(* At no place where a frame may begin does one, nor can one any more.      *)
NoFrameAt(s, r, max, a) ==
    Wrong(s, a, max) \/ (r = "EOF" /\ \A b \in 1..Len(s) : ~Framing!IsFrame(s, a, b, max))
Hopeless(starts) == \A a \in starts : NoFrameAt(input, rerr, maxlen, a)
HopelessHere == Hopeless(StartsAfter(input, out))

(* The numeral is over, and no NUL left behind it that could still be read. *)
HeadDone ==
    \/ input[pos] = eof
    \/ pos < Len(input) /\ input[pos + 1] \notin 48..57 /\ input[pos + 1] # eof
    \/ pos = Len(input) /\ rerr = "EOF"

(* What run() knows when it refuses. *)
Judged ==
    /\ rerr # "err"
    /\ pc \in {"MSGLEN", "post"} /\ (spc = "token" \/ stepback) /\ last.typ = "MSGLEN" => HeadDone
    /\ pc = "WS" /\ spc \in {"idle", "scan"} => HeadDone
    /\ pc = "WS" /\ spc = "token" /\ last.typ = "WS" => ready
    /\ pc = "SYSLOGMSG" /\ spc \in {"idle", "scan"} => ready
    /\ pc = "MSGLEN" /\ (spc = "token" \/ stepback) /\ last.typ # "MSGLEN" => HopelessHere
    /\ pc = "post" /\ spc = "token" /\ last.typ \notin {"MSGLEN", "EOF", "LF"} => HopelessHere
    /\ pc = "WS" /\ (spc \in {"digits", "peek"} \/ (spc = "token" /\ last.typ # "WS"))
          => HopelessHere
    /\ pc = "SYSLOGMSG" /\ (spc = "digits" \/ (spc = "token" /\ last.typ # "SYSLOGMSG"))
          => HopelessHere
    /\ Returned /\ Refused /\ out[Len(out)].span = NoSpan
          => Hopeless(Framing!Starts(input, Spans))

(* Octets that are no beginning of a frame are none when the reader gives   *)
(* more.                                                                    *)
LEMMA WrongStays ==
    ASSUME NEW s \in Seq(Byte), NEW x \in Byte, NEW a \in Nat, NEW max, Wrong(s, a, max)
    PROVE  Wrong(Append(s, x), a, max)
<1> DEFINE t == Append(s, x)
<1>0. /\ Len(s) \in Nat /\ Len(t) \in Nat /\ Len(s) < Len(t)
      /\ \A j \in 1..Len(s) : t[j] = s[j]
  OBVIOUS
<1>h. ASSUME NEW p \in Int, NEW n
      PROVE  /\ Numbered(s, a, p, n) => Numbered(t, a, p, n)
             /\ Headed(s, a, p, n) => Headed(t, a, p, n)
             /\ Separated(s, a, p, n) => Separated(t, a, p, n)
  BY HeadStays
<1> HIDE DEF t
<1>1. a < Len(s) /\ a < Len(t)
  BY <1>0 DEF Wrong
<1>2. CASE s[a + 1] \notin 49..57
  <2>1. a + 1 \in 1..Len(s)
    BY <1>0, <1>1
  <2>2. t[a + 1] \notin 49..57
    BY <1>0, <1>2, <2>1
  <2>3. Wrong(t, a, max)
    BY <1>1, <2>2 DEF Wrong
  <2> QED
    BY <2>3 DEF t
<1>3. CASE s[a + 1] \in 49..57
  <2>1. PICK p \in Int, n \in Nat :
             /\ p < Len(s)
             /\ \/ Numbered(s, a, p, n) /\ Over(s, p) /\ n > max
                \/ /\ Headed(s, a, p, n) /\ s[p + 1] # ws
                   /\ \/ s[p] = eof
                      \/ Over(s, p) /\ s[p + 1] # eof
                \/ Separated(s, a, p, n) /\ s[p + 1] # lt
    BY <1>3 DEF Wrong
  <2>2. p < Len(t) /\ p # Len(s) /\ p # Len(t)
    BY <1>0, <2>1
  <2>3. p \in 1..Len(s) /\ p + 1 \in 1..Len(s)
    <3>1. p >= 1
      BY <2>1 DEF Separated, Headed, Numbered
    <3> QED
      BY <1>0, <2>1, <3>1
  <2>4. t[p] = s[p] /\ t[p + 1] = s[p + 1]
    BY <1>0, <2>3
  <2>5. Over(s, p) => Over(t, p)
    BY <2>2, <2>4 DEF Over
  <2>6. \/ Numbered(t, a, p, n) /\ Over(t, p) /\ n > max
        \/ /\ Headed(t, a, p, n) /\ t[p + 1] # ws
           /\ \/ t[p] = eof
              \/ Over(t, p) /\ t[p + 1] # eof
        \/ Separated(t, a, p, n) /\ t[p + 1] # lt
    BY <1>h, <2>1, <2>4, <2>5
  <2>7. Wrong(t, a, max)
    BY <1>1, <2>2, <2>6 DEF Wrong
  <2> QED
    BY <2>7 DEF t
<1> QED
  BY <1>2, <1>3

(* More octets do not help. *)
LEMMA HopelessStays ==
    ASSUME TypeOK, HopelessHere, NEW x \in Byte, input' = Append(input, x), rerr = "nil",
           UNCHANGED <<out, maxlen>>
    PROVE  HopelessHere'
<1>1. input \in Seq(Byte) /\ out \in Seq(Results)
  BY DEF TypeOK, ScannerTypeOK, Results
<1>2. PICK a : StartsAfter(input, out) = {a} /\ a \in Nat
  <2>1. CASE out = <<>>
    BY <2>1 DEF StartsAfter
  <2>2. CASE out # <<>>
    <3>1. out[Len(out)] \in Results
      BY <1>1, <2>2
    <3> DEFINE e == out[Len(out)].span[2]
    <3>2. e \in Nat
      BY <3>1 DEF Results
    <3>3. StartsAfter(input, out) = IF Len(input) > e /\ input[e + 1] = lf THEN {e + 1} ELSE {e}
      BY <2>2 DEF StartsAfter
    <3> HIDE DEF e
    <3>4. StartsAfter(input, out) = {e + 1} \/ StartsAfter(input, out) = {e}
      BY <3>3
    <3>5. e + 1 \in Nat
      BY <3>2
    <3> QED
      BY <3>2, <3>4, <3>5
  <2> QED
    BY <2>1, <2>2
<1>3. Wrong(input, a, maxlen) /\ a < Len(input)
  BY <1>2 DEF HopelessHere, Hopeless, NoFrameAt, Wrong
<1>4. Wrong(input', a, maxlen)
  BY <1>1, <1>2, <1>3, WrongStays
<1>5. StartsAfter(input', out) = {a}
  <2>1. a \in StartsAfter(input, out)
    BY <1>2
  <2> QED
    BY <1>1, <1>2, <1>3, <2>1, StartsStay
<1> QED
  BY <1>4, <1>5 DEF HopelessHere, Hopeless, NoFrameAt

(* The only place a frame may begin. *)
LEMMA OnlyStart ==
    ASSUME NEW s, NEW o, NEW a, a \in StartsAfter(s, o)
    PROVE  StartsAfter(s, o) = {a}
  BY DEF StartsAfter

(* One place where no frame may begin is enough: there is no other. *)
LEMMA HopelessAt ==
    ASSUME NEW a, a \in StartsAfter(input, out), NoFrameAt(input, rerr, maxlen, a)
    PROVE  HopelessHere
<1>1. StartsAfter(input, out) = {a}
  BY OnlyStart
<1> QED
  BY <1>1 DEF HopelessHere, Hopeless

(* The reader and the scanner.                                              *)
LEMMA LexerJudges ==
    ASSUME OnlyEnds, TypeOK, Discipline, Lazy, Accounted, Begun, Placed, HasRoom, Judged, Lexer
    PROVE  Judged'
<1> USE SizeAssumption
<1>t. /\ msglen \in Nat /\ pos \in Nat /\ from \in Nat /\ from <= pos /\ input \in Seq(Byte)
      /\ Len(input) \in Nat /\ pos <= Len(input) /\ out \in Seq(Results)
      /\ pc \in {"idle", "MSGLEN", "WS", "SYSLOGMSG", "post"} /\ maxlen \in Nat
      /\ num \in Nat /\ MaxUint \in Nat /\ maxlen <= MaxInt /\ maxlen <= MaxUint
      /\ bufsize \in Nat /\ rerr \in {"nil", "EOF"}
  BY DEF TypeOK, ScannerTypeOK, Results, MaxUint, Judged
<1>p. UNCHANGED <<pc, stepback, out, parses, internalBE>>
  BY DEF Lexer, parserVars, configVars
<1>r. pc # "idle" /\ spc # "closed" /\ spc # "idle" /\ spc # "token"
  <2>1. spc \notin {"closed", "idle", "token"}
    BY DEF Lexer, Fill, NeedsData, PeekBlocks, ScanStep, ScanMsgLenFirst, ScanLT, ScanSingle,
           ScanMsgLenDigit, ScanMsgLenEnd, ScanTooBigForInt, ScanSyslogMsg, ScanUnderflow
  <2> QED
    BY <2>1 DEF Discipline, Lengths
<1>n. ~Returned'
  BY <1>p, <1>r DEF Returned
<1>e. ErrAfter = rerr
  BY <1>t DEF ErrAfter
<1>c. ASSUME CanRead
      PROVE  /\ Avail > 0 => read = input[pos + 1] /\ pos < Len(input)
             /\ ~(Avail > 0) => read = eof /\ pos = Len(input) /\ rerr = "EOF"
             /\ Consume => rerr' = rerr
             /\ Consume /\ Avail > 0 => pos' = pos + 1
             /\ Consume /\ ~(Avail > 0) => pos' = pos
  BY <1>c, <1>e, <1>t DEF Consume, CanRead, Avail, read
<1>s. ~stepback
  BY <1>r DEF Discipline, NoStaleLookahead
<1>h. ASSUME HopelessHere, UNCHANGED <<input, rerr, maxlen>> PROVE HopelessHere'
  BY <1>h, <1>p DEF HopelessHere, Hopeless, NoFrameAt
<1>0. CASE Fill
  <2>1. /\ UNCHANGED <<pos, from, num, maxlen, msglen, spc, last, ready>>
        /\ spc \in {"scan", "digits", "peek"} /\ rerr = "nil"
    BY <1>0 DEF Fill, NeedsData, PeekBlocks, lexVars
  <2>2. CASE input' = input /\ rerr' \in ReaderErrors
    <3>1. rerr' = "EOF"
      BY <2>2 DEF OnlyEnds
    <3>2. HopelessHere => HopelessHere'
      BY <1>p, <2>1, <2>2 DEF HopelessHere, Hopeless, NoFrameAt
    <3>3. HeadDone => HeadDone'
      BY <2>1, <2>2 DEF HeadDone
    <3> QED
      BY <1>n, <1>p, <1>s, <2>1, <3>1, <3>2, <3>3 DEF Judged
  <2>3. ASSUME NEW b \in Byte, input' = Append(input, b), rerr' = rerr PROVE Judged'
    <3>1. /\ Len(input') \in Nat /\ Len(input) < Len(input')
          /\ \A j \in 1..Len(input) : input'[j] = input[j]
      BY <1>t, <2>3
    <3>2. HopelessHere => HopelessHere'
      BY <1>p, <2>1, <2>3, HopelessStays
    <3>3. ASSUME pc = "WS", spc = "scan", HeadDone PROVE HeadDone'
      <4>1. Headed(input, from, pos, msglen)
        BY <3>3 DEF Placed
      <4>2. pos >= 1
        BY <1>t, <4>1 DEF Headed, Numbered
      <4>3. input'[pos] = input[pos]
        BY <1>t, <3>1, <4>2
      <4>4. pos < Len(input) => pos < Len(input') /\ input'[pos + 1] = input[pos + 1]
        BY <1>t, <3>1
      <4> QED
        BY <2>1, <3>3, <4>3, <4>4 DEF HeadDone
    <3> QED
      BY <1>n, <1>p, <1>s, <2>1, <2>3, <3>2, <3>3 DEF Judged
  <2>4. Alphabet \subseteq Byte
    BY AlphabetAssumption DEF Byte
  <2> QED
    BY <1>0, <2>2, <2>3, <2>4 DEF Fill
(* A step of Scan leaves the octets, the error and the limit alone. *)
<1>q. ASSUME UNCHANGED <<input, rerr, maxlen>>, spc' \in {"digits", "peek", "token"},
             pc \in {"MSGLEN", "post"} /\ spc' = "token" /\ last'.typ = "MSGLEN" => HeadDone',
             pc = "WS" /\ spc' = "token" /\ last'.typ = "WS" => ready',
             pc = "MSGLEN" /\ spc' = "token" /\ last'.typ # "MSGLEN" => HopelessHere,
             pc = "post" /\ spc' = "token" /\ last'.typ \notin {"MSGLEN", "EOF", "LF"}
                => HopelessHere,
             pc = "WS" /\ (spc' \in {"digits", "peek"} \/ (spc' = "token" /\ last'.typ # "WS"))
                => HopelessHere,
             pc = "SYSLOGMSG" /\ (spc' = "digits" \/ (spc' = "token" /\ last'.typ # "SYSLOGMSG"))
                => HopelessHere
      PROVE  Judged'
  <2>1. rerr' # "err"
    BY <1>q, <1>t
  <2> QED
    BY <1>h, <1>n, <1>p, <1>q, <1>s, <2>1 DEF Judged
<1>w. ASSUME InFrame, Wrong(input, from, maxlen) PROVE HopelessHere
  BY <1>w, HopelessAt DEF InFrame, NoFrameAt
<1>f. ASSUME InFrame, rerr = "EOF", \A b \in 1..Len(input) : ~Framing!IsFrame(input, from, b, maxlen)
      PROVE  HopelessHere
  BY <1>f, HopelessAt DEF InFrame, NoFrameAt
(* What is wrong behind a numeral that is over, and behind the space. *)
<1>a. ASSUME pc = "WS", spc = "scan", pos < Len(input), input[pos + 1] # ws PROVE HopelessHere
  <2>1. InFrame /\ Headed(input, from, pos, msglen) /\ HeadDone
    BY <1>a DEF Placed, Judged
  <2>2. input[pos] = eof \/ (Over(input, pos) /\ input[pos + 1] # eof)
    BY <1>a, <1>t, <2>1 DEF HeadDone, Over
  <2>3. Wrong(input, from, maxlen)
    BY <1>a, <1>t, <2>1, <2>2 DEF Wrong, InFrame
  <2> QED
    BY <1>w, <2>1, <2>3
<1>b. ASSUME pc = "SYSLOGMSG", spc = "scan", pos < Len(input), input[pos + 1] # lt
      PROVE  HopelessHere
  <2>1. InFrame /\ Separated(input, from, pos, msglen)
    BY <1>b DEF Placed
  <2>2. Wrong(input, from, maxlen)
    BY <1>b, <1>t, <2>1 DEF Wrong, InFrame
  <2> QED
    BY <1>w, <2>1, <2>2
<1>1. CASE ScanMsgLenFirst
  <2>1. /\ Consume /\ CanRead /\ spc' = "digits" /\ spc = "scan" /\ read \in 49..57
        /\ UNCHANGED <<input, maxlen>>
    BY <1>1 DEF ScanMsgLenFirst, isNonZeroDigit
  <2>2. Avail > 0
    BY <1>c, <2>1 DEF eof
  <2>3. pos < Len(input) /\ input[pos + 1] \in 49..57 /\ rerr' = rerr
    BY <1>c, <2>1, <2>2
  <2>4. input[pos + 1] # ws /\ input[pos + 1] # lt
    BY <2>3 DEF ws, lt
  <2> QED
    BY <1>a, <1>b, <1>q, <2>1, <2>3, <2>4
<1>2. CASE ScanLT
  <2>1. /\ CanRead /\ spc = "scan" /\ spc' = "peek" /\ read = lt
        /\ UNCHANGED <<input, rerr, maxlen>>
    BY <1>2 DEF ScanLT, readerVars
  <2>2. Avail > 0
    BY <1>c, <2>1 DEF eof, lt
  <2>3. pos < Len(input) /\ input[pos + 1] # ws
    BY <1>c, <2>1, <2>2 DEF lt, ws
  <2> QED
    BY <1>a, <1>q, <2>1, <2>3
<1>3. CASE ScanSingle
  <2>1. /\ Consume /\ CanRead /\ spc = "scan" /\ spc' = "token" /\ last' = SingleToken(read)
        /\ ~(read = lt /\ msglen > 0 /\ ready) /\ read \notin 49..57
        /\ UNCHANGED <<input, maxlen>>
        /\ ready' = IF read = eof THEN FALSE ELSE ready \/ read \in {lf, ws}
    BY <1>3 DEF ScanSingle, Return, isNonZeroDigit
  <2>2. /\ last'.typ \notin {"MSGLEN", "SYSLOGMSG"} /\ (last'.typ = "WS" <=> read = ws)
        /\ (last'.typ \notin {"EOF", "LF"} => read # eof /\ read # lf)
    <3>1. last'.typ = IF read = eof THEN "EOF" ELSE IF read = lf THEN "LF"
                      ELSE IF read = ws THEN "WS" ELSE "ILLEGAL"
      BY <2>1 DEF SingleToken, Token
    <3>2. ws # eof /\ ws # lf
      BY DEF eof, lf, ws
    <3> QED
      BY <3>1, <3>2
  <2>3. rerr' = rerr
    BY <1>c, <2>1
  <2>4. ASSUME pc = "WS", last'.typ = "WS" PROVE ready'
    BY <2>1, <2>2, <2>4 DEF eof, ws
  <2>5. ASSUME pos \in StartsAfter(input, out) PROVE HopelessHere
    <3>1. CASE Avail > 0
      <4>1. Wrong(input, pos, maxlen)
        BY <1>c, <2>1, <3>1 DEF Wrong
      <4> QED
        BY <2>5, <4>1, HopelessAt DEF NoFrameAt
    <3>2. CASE ~(Avail > 0)
      <4>1. pos = Len(input) /\ rerr = "EOF"
        BY <1>c, <2>1, <3>2
      <4>2. pos >= Len(input) /\ maxlen \in Int
        BY <1>t, <4>1
      <4>3. \A b \in 1..Len(input) : ~Framing!IsFrame(input, pos, b, maxlen)
        BY <1>t, <4>2, NothingNoFrame
      <4> QED
        BY <2>5, <4>1, <4>3, HopelessAt DEF NoFrameAt
    <3> QED
      BY <3>1, <3>2
  <2>6. ASSUME pc = "MSGLEN" PROVE HopelessHere
    <3>1. AtStart
      BY <1>s, <2>1, <2>6 DEF Placed
    <3> QED
      BY <2>5, <3>1, AtStartStarts
  <2>7. ASSUME pc = "post", last'.typ \notin {"EOF", "LF"} PROVE HopelessHere
    <3>1. out # <<>> /\ out[Len(out)].span[2] = pos
      BY <2>1, <2>7 DEF Accounted
    <3>2. Avail > 0
      BY <1>c, <2>1, <2>2, <2>7
    <3>3. input[pos + 1] # lf
      BY <1>c, <2>1, <2>2, <2>7, <3>2
    <3>4. pos \in StartsAfter(input, out)
      BY <3>1, <3>3 DEF StartsAfter
    <3> QED
      BY <2>5, <3>4
  <2>8. ASSUME pc = "WS", last'.typ # "WS" PROVE HopelessHere
    <3>1. CASE Avail > 0
      BY <1>a, <1>c, <2>1, <2>2, <2>8, <3>1
    <3>2. CASE ~(Avail > 0)
      <4>1. pos = Len(input) /\ rerr = "EOF"
        BY <1>c, <2>1, <3>2
      <4>2. InFrame /\ Headed(input, from, Len(input), msglen)
        BY <2>1, <2>8, <4>1 DEF Placed
      <4>3. \A b \in 1..Len(input) : ~Framing!IsFrame(input, from, b, maxlen)
        BY <1>t, <4>2, HeadNoFrame
      <4> QED
        BY <1>f, <4>1, <4>2, <4>3
    <3> QED
      BY <3>1, <3>2
  <2>9. ASSUME pc = "SYSLOGMSG" PROVE HopelessHere
    <3>1. ready /\ msglen > 0 /\ read # lt
      <4>1. ready /\ msglen \in 1..maxlen
        BY <2>1, <2>9 DEF Judged, Discipline, Lengths, InLimit
      <4> QED
        BY <1>t, <2>1, <4>1
    <3>2. CASE Avail > 0
      BY <1>b, <1>c, <2>1, <2>9, <3>1, <3>2
    <3>3. CASE ~(Avail > 0)
      <4>1. pos = Len(input) /\ rerr = "EOF"
        BY <1>c, <2>1, <3>3
      <4>2. InFrame /\ Separated(input, from, pos, msglen)
        BY <2>1, <2>9 DEF Placed
      <4>3. pos + msglen > Len(input) /\ pos \in Int /\ maxlen \in Int
        BY <1>t, <3>1, <4>1
      <4>4. \A b \in 1..Len(input) : ~Framing!IsFrame(input, from, b, maxlen)
        BY <1>t, <4>2, <4>3, ShortNoFrame
      <4> QED
        BY <1>f, <4>1, <4>2, <4>4
    <3> QED
      BY <3>2, <3>3
  <2> QED
    BY <1>q, <2>1, <2>2, <2>3, <2>4, <2>6, <2>7, <2>8, <2>9
<1>4. CASE ScanMsgLenDigit
  <2>1. /\ Consume /\ CanRead /\ spc = "digits" /\ spc' = "digits" /\ UNCHANGED <<input, maxlen>>
    BY <1>4 DEF ScanMsgLenDigit
  <2>2. rerr' = rerr
    BY <1>c, <2>1
  <2>3. pc \in {"WS", "SYSLOGMSG"} => HopelessHere
    BY <2>1 DEF Judged
  <2> QED
    BY <1>q, <2>1, <2>2, <2>3
<1>5. CASE ScanMsgLenEnd
  <2>1. /\ spc = "digits" /\ spc' = "token" /\ UNCHANGED <<input, from, maxlen>>
        /\ CanRead /\ read \notin 48..57
        /\ IF read = eof THEN Consume ELSE UNCHANGED <<pos, rerr>>
        /\ last' = MsgLenToken
    BY <1>5 DEF ScanMsgLenEnd, Return, isDigit
  <2>2. last'.typ \notin {"WS", "SYSLOGMSG"}
    BY <2>1 DEF MsgLenToken, Illegal, Token
  <2>3. rerr' = rerr
    BY <1>c, <2>1
  <2>4. pc \in {"WS", "SYSLOGMSG"} => HopelessHere
    BY <2>1 DEF Judged
  <2>5. HeadDone'
    <3>1. CASE Avail > 0 /\ read = eof
      <4>1. pos' = pos + 1 /\ input[pos + 1] = eof
        BY <1>c, <2>1, <3>1
      <4> QED
        BY <2>1, <4>1 DEF HeadDone
    <3>2. CASE Avail > 0 /\ read # eof
      <4>1. pos' = pos /\ pos < Len(input) /\ input[pos + 1] \notin 48..57 /\ input[pos + 1] # eof
        BY <1>c, <2>1, <3>2
      <4> QED
        BY <2>1, <4>1 DEF HeadDone
    <3>3. CASE ~(Avail > 0)
      <4>1. pos' = pos /\ pos = Len(input) /\ rerr = "EOF"
        BY <1>c, <2>1, <3>3
      <4> QED
        BY <2>1, <2>3, <4>1 DEF HeadDone
    <3> QED
      BY <3>1, <3>2, <3>3
  <2>6. ASSUME pc \in {"MSGLEN", "post"}, last'.typ # "MSGLEN" PROVE HopelessHere
    <3>1. InFrame
      BY <2>1, <2>6 DEF Placed
    <3>2. PICK n \in Nat : /\ Numbered(input, from, pos, n)
                           /\ num = IF n > MaxUint THEN MaxUint + 1 ELSE n
      BY <2>1, <2>6 DEF Placed, Reading
    <3>3. num > MaxUint \/ num > maxlen
      BY <2>1, <2>6 DEF MsgLenToken, Token
    <3>4. n > maxlen
      BY <1>t, <3>2, <3>3
    <3>5. CASE Avail > 0
      <4>1. pos < Len(input) /\ Over(input, pos) /\ pos \in Int
        BY <1>c, <1>t, <2>1, <3>5 DEF Over
      <4>2. Wrong(input, from, maxlen)
        BY <3>1, <3>2, <3>4, <4>1 DEF Wrong, InFrame
      <4> QED
        BY <1>w, <3>1, <4>2
    <3>6. CASE ~(Avail > 0)
      <4>1. pos = Len(input) /\ rerr = "EOF"
        BY <1>c, <2>1, <3>6
      <4>2. Headed(input, from, Len(input), n)
        BY <3>2, <4>1 DEF Headed
      <4>3. \A b \in 1..Len(input) : ~Framing!IsFrame(input, from, b, maxlen)
        BY <1>t, <4>2, HeadNoFrame
      <4> QED
        BY <1>f, <3>1, <4>1, <4>3
    <3> QED
      BY <3>5, <3>6
  <2> QED
    BY <1>q, <2>1, <2>2, <2>3, <2>4, <2>5, <2>6
<1>l. spc = "peek" => msglen \in 1..maxlen /\ pc \in {"WS", "SYSLOGMSG"}
  BY <1>r, <1>t DEF Discipline, LengthDiscipline, Lengths
<1>6. CASE ScanTooBigForInt
  <2>1. msglen > MaxInt /\ spc = "peek"
    BY <1>6 DEF ScanTooBigForInt
  <2> QED
    BY <1>l, <1>t, <2>1
<1>7. CASE ScanSyslogMsg
  <2>1. /\ spc = "peek" /\ spc' = "token" /\ UNCHANGED <<input, rerr, maxlen>>
        /\ last'.typ = "SYSLOGMSG"
    BY <1>7 DEF ScanSyslogMsg, Return, Token
  <2>2. pc = "WS" => HopelessHere
    BY <2>1 DEF Judged
  <2> QED
    BY <1>l, <1>q, <2>1, <2>2
<1>8. CASE ScanUnderflow
  <2>1. /\ spc = "peek" /\ spc' = "token" /\ last'.typ = "EOF" /\ UNCHANGED <<input, maxlen>>
        /\ PeekFails
    BY <1>8 DEF ScanUnderflow, Return, Token
  <2>2. rerr' = rerr
    BY <1>8, <1>e DEF ScanUnderflow
  <2>3. pc = "WS" => HopelessHere
    BY <2>1 DEF Judged
  <2>4. ASSUME pc = "SYSLOGMSG" PROVE HopelessHere
    <3>1. InFrame /\ Separated(input, from, pos, msglen)
      BY <2>1, <2>4 DEF Placed
    <3>2. msglen <= bufsize
      BY <1>l, <1>r, <1>t, <2>1 DEF HasRoom
    <3>3. Avail < msglen /\ rerr = "EOF"
      BY <1>t, <2>1, <3>2 DEF PeekFails
    <3>4. pos + msglen > Len(input)
      BY <1>t, <3>3 DEF Avail
    <3>5. \A b \in 1..Len(input) : ~Framing!IsFrame(input, from, b, maxlen)
      BY <1>t, <3>1, <3>4, ShortNoFrame
    <3> QED
      BY <1>f, <3>1, <3>3, <3>5
  <2> QED
    BY <1>l, <1>q, <2>1, <2>2, <2>3, <2>4
<1> QED
  BY <1>0, <1>1, <1>2, <1>3, <1>4, <1>5, <1>6, <1>7, <1>8 DEF Lexer, ScanStep

(* The handlers of run().                                                   *)
LEMMA RunJudges ==
    ASSUME TypeOK, TypeOK', Discipline, ErrorsEnd, Placed, Judged, run
    PROVE  Judged'
<1>o. Spans = SpansOf(out) /\ Spans' = SpansOf(out')
  BY DEF Spans, SpansOf, Delivering
<1>t. out \in Seq(Results) /\ out' \in Seq(Results) /\ pos \in Nat
  BY DEF TypeOK, ScannerTypeOK, Results
<1>1. /\ UNCHANGED <<input, maxlen, from, pos, rerr, ready, parses, internalBE, last>>
      /\ pc # "idle" /\ spc = "token"
  BY DEF run, GotMsgLen, NoMsgLen, GotWS, NoWS, GotSyslogMsg, RejectedSyslogMsg,
         Underflow, NoSyslogMsg, PostEOF, PostLF, PostOther, Got, Not, Await, Break,
         scannerRest, readerVars, configVars
<1>2. ~stepback
  BY <1>1 DEF Discipline, NoStaleLookahead
<1>3. AllFrames(out)
  BY <1>1, RunningFrames DEF ErrorsEnd
<1>4. HeadDone => HeadDone'
  BY <1>1 DEF HeadDone
<1>5. out' = out => (HopelessHere => HopelessHere')
  BY <1>1 DEF HopelessHere, Hopeless, NoFrameAt
<1>e. rerr' # "err"
  BY <1>1 DEF Judged
(* An error of the framing is reported where there is no frame. *)
<1>6. ASSUME NEW r, emit(r), r.span = NoSpan, HopelessHere, pc' = "idle", spc' = "closed",
             ~stepback'
      PROVE  Judged'
  <2>1. out' = Append(out, r) /\ r \in Results
    <3>1. out' = Append(out, r)
      BY <1>6 DEF emit
    <3>2. Len(out') = Len(out) + 1 /\ out'[Len(out) + 1] = r /\ Len(out) + 1 \in 1..Len(out')
      BY <1>t, <3>1
    <3> QED
      BY <1>t, <3>1, <3>2
  <2>2. Spans' = Spans
    BY <1>3, <1>6, <1>o, <2>1, SpansGrow
  <2>3. Framing!Starts(input', Spans') = StartsAfter(input, out)
    BY <1>1, <1>3, <1>o, <2>2, SpansAre
  <2>4. \A a \in StartsAfter(input, out) : NoFrameAt(input', rerr', maxlen', a)
    BY <1>1, <1>6 DEF HopelessHere, Hopeless
  <2>5. Hopeless(Framing!Starts(input, Spans))'
    BY <2>3, <2>4 DEF Hopeless
  <2> QED
    BY <1>6, <1>e, <2>5 DEF Judged
(* Any other end of the run reports no error of the framing. *)
<1>7. ASSUME pc' = "idle", spc' = "closed", ~stepback',
             ~(Refused' /\ out'[Len(out')].span = NoSpan)
      PROVE  Judged'
  BY <1>7, <1>e DEF Judged
(* The run goes on. *)
<1>8. ASSUME spc' = "idle", out' = out,
             stepback' => pc' = "MSGLEN" /\ (last.typ = "MSGLEN" => HeadDone)
                                         /\ (last.typ # "MSGLEN" => HopelessHere),
             pc' = "WS" => HeadDone, pc' = "SYSLOGMSG" => ready, pc' # "idle"
      PROVE  Judged'
  BY <1>1, <1>4, <1>5, <1>8, <1>e DEF Judged, Returned
<1>9. CASE GotMsgLen
  <2>1. /\ pc = "MSGLEN" /\ last.typ = "MSGLEN" /\ pc' = "WS" /\ spc' = "idle"
        /\ UNCHANGED <<stepback, out>>
    BY <1>9 DEF GotMsgLen, Got, Await
  <2> QED
    BY <1>1, <1>2, <1>8, <2>1 DEF Judged
<1>10. CASE NoMsgLen
  <2>1. /\ pc = "MSGLEN" /\ last.typ # "MSGLEN" /\ pc' = "idle" /\ spc' = "closed"
        /\ UNCHANGED stepback
        /\ emit(ErrorResult(IF last.err # "" THEN last.err ELSE "ExpectingMSGLEN"))
    BY <1>10 DEF NoMsgLen, Not, Break
  <2>2. ErrorResult(IF last.err # "" THEN last.err ELSE "ExpectingMSGLEN").span = NoSpan
    BY DEF ErrorResult, NoSpan
  <2>3. HopelessHere
    BY <1>1, <2>1 DEF Judged
  <2> QED
    BY <1>2, <1>6, <2>1, <2>2, <2>3
<1>11. CASE GotWS
  <2>1. /\ pc = "WS" /\ last.typ = "WS" /\ pc' = "SYSLOGMSG" /\ spc' = "idle"
        /\ UNCHANGED <<stepback, out>>
    BY <1>11 DEF GotWS, Got, Await
  <2> QED
    BY <1>1, <1>2, <1>8, <2>1 DEF Judged
<1>12. CASE NoWS
  <2>1. /\ pc = "WS" /\ last.typ # "WS" /\ pc' = "idle" /\ spc' = "closed"
        /\ UNCHANGED stepback /\ emit(ErrorResult("ExpectingWS"))
    BY <1>12 DEF NoWS, Not, Break
  <2>2. ErrorResult("ExpectingWS").span = NoSpan
    BY DEF ErrorResult, NoSpan
  <2>3. HopelessHere
    BY <1>1, <2>1 DEF Judged
  <2> QED
    BY <1>2, <1>6, <2>1, <2>2, <2>3
<1>13. CASE GotSyslogMsg
  <2>1. pc' = "post" /\ spc' = "idle" /\ UNCHANGED stepback
    BY <1>13 DEF GotSyslogMsg, Await
  <2> QED
    BY <1>2, <1>e, <2>1 DEF Judged, Returned
<1>14. CASE RejectedSyslogMsg
  <2>1. PICK a \in internalParse :
           emit(Result([msg |-> FALSE, err |-> a.err], Stripped(last.lit), Span))
    BY <1>14 DEF RejectedSyslogMsg
  <2>2. out'[Len(out')].span = Span
    <3> DEFINE r == Result([msg |-> FALSE, err |-> a.err], Stripped(last.lit), Span)
    <3>1. out' = Append(out, r)
      BY <2>1 DEF emit
    <3>2. r.span = Span
      BY DEF Result
    <3> HIDE DEF r
    <3>3. out'[Len(out')] = r
      BY <1>t, <3>1
    <3> QED
      BY <3>2, <3>3
  <2>3. Span # NoSpan
    <3>1. pos >= 1
      BY <1>1, <1>14 DEF RejectedSyslogMsg, Got, Discipline, Lengths
    <3> QED
      BY <3>1 DEF Span, NoSpan
  <2>4. pc' = "idle" /\ spc' = "closed" /\ UNCHANGED stepback
    BY <1>14 DEF RejectedSyslogMsg, Break
  <2> QED
    BY <1>2, <1>7, <2>2, <2>3, <2>4
<1>15. CASE Underflow
  <2>1. PICK a \in internalParse :
           emit(Result([msg |-> a.msg,
                        err |-> IF a.err = "nil" THEN "ExpectingSYSLOGMSG" ELSE a.err],
                       Stripped(last.lit), NoSpan))
    BY <1>15 DEF Underflow
  <2> DEFINE r == Result([msg |-> a.msg,
                          err |-> IF a.err = "nil" THEN "ExpectingSYSLOGMSG" ELSE a.err],
                         Stripped(last.lit), NoSpan)
  <2>2. r.span = NoSpan
    BY DEF Result
  <2>3. /\ pc = "SYSLOGMSG" /\ last.typ # "SYSLOGMSG" /\ pc' = "idle" /\ spc' = "closed"
        /\ UNCHANGED stepback
    BY <1>15 DEF Underflow, Not, Break
  <2>4. HopelessHere
    BY <1>1, <2>3 DEF Judged
  <2> HIDE DEF r
  <2>5. emit(r)
    BY <2>1 DEF r
  <2> QED
    BY <1>2, <1>6, <2>2, <2>3, <2>4, <2>5
<1>16. CASE NoSyslogMsg
  <2>1. /\ pc = "SYSLOGMSG" /\ last.typ # "SYSLOGMSG" /\ pc' = "idle" /\ spc' = "closed"
        /\ UNCHANGED stepback /\ emit(ErrorResult("ExpectingSYSLOGMSG"))
    BY <1>16 DEF NoSyslogMsg, Not, Break
  <2>2. ErrorResult("ExpectingSYSLOGMSG").span = NoSpan
    BY DEF ErrorResult, NoSpan
  <2>3. HopelessHere
    BY <1>1, <2>1 DEF Judged
  <2> QED
    BY <1>2, <1>6, <2>1, <2>2, <2>3
<1>17. CASE PostEOF
  <2>1. /\ pc = "post" /\ UNCHANGED out /\ pc' = "idle" /\ spc' = "closed"
        /\ UNCHANGED stepback
    BY <1>17 DEF PostEOF, Break
  <2>2. out # <<>> /\ Len(out) \in DOMAIN out
    BY <1>t, <2>1 DEF Discipline, Lengths
  <2>3. out[Len(out)].span # NoSpan
    BY <2>2, <1>3 DEF AllFrames
  <2> QED
    BY <1>2, <1>7, <2>1, <2>3
<1>18. CASE PostLF
  <2>1. pc' = "MSGLEN" /\ spc' = "idle" /\ UNCHANGED <<stepback, out>>
    BY <1>18 DEF PostLF, Await
  <2> QED
    BY <1>2, <1>8, <2>1
<1>19. CASE PostOther
  <2>1. /\ pc = "post" /\ last.typ \notin {"EOF", "LF"} /\ pc' = "MSGLEN" /\ spc' = "idle"
        /\ UNCHANGED out
    BY <1>19 DEF PostOther, Await
  <2> QED
    BY <1>1, <1>8, <2>1 DEF Judged
<1> QED
  BY <1>9, <1>10, <1>11, <1>12, <1>13, <1>14, <1>15, <1>16, <1>17, <1>18, <1>19 DEF run

(* No action lets the parser refuse a frame, Parse, the reader and the      *)
(* scanner included.                                                        *)
LEMMA JudgeStep ==
    ASSUME OnlyEnds, TypeOK, TypeOK', Discipline, ErrorsEnd, Lazy, Accounted, Begun, Placed,
           HasRoom, Judged, [Next]_vars
    PROVE  Judged'
<1>k. ASSUME UNCHANGED <<input, pos, rerr, maxlen, last, ready, pc, spc, stepback, out,
                         internalBE, parses>>
      PROVE  Judged'
  <2>1. /\ HeadDone' = HeadDone /\ Returned' = Returned /\ Refused' = Refused
        /\ Spans' = Spans
    BY <1>k DEF HeadDone, Returned, Refused, Spans, Delivering
  <2>2. HopelessHere' = HopelessHere
    BY <1>k DEF HopelessHere, Hopeless, NoFrameAt
  <2>3. Hopeless(Framing!Starts(input, Spans))' = Hopeless(Framing!Starts(input, Spans))
    BY <1>k, <2>1 DEF Hopeless, NoFrameAt
  <2> QED
    BY <1>k, <2>1, <2>2, <2>3 DEF Judged
<1>s. stepback => pc = "MSGLEN" /\ spc = "idle"
  BY DEF Discipline, NoStaleLookahead
<1>1. CASE Parse
  <2>1. /\ spc' = "idle" /\ pc' = "MSGLEN" /\ rerr' = "nil" /\ UNCHANGED stepback /\ ~stepback
    BY <1>1, <1>s DEF Parse, NewScanner
  <2> QED
    BY <2>1 DEF Judged, Returned
<1>2. CASE WithBestEffort \/ \E m \in MaxLengths : WithMaxMessageLength(m)
  BY <1>2, <1>k DEF WithBestEffort, WithMaxMessageLength, scannerVars, readerVars, lexVars
<1>3. CASE scan
  <2>1. /\ pc # "idle" /\ spc = "idle" /\ stepback' = FALSE
        /\ UNCHANGED <<input, pos, rerr, maxlen, last, ready, pc, out>>
        /\ spc' = IF stepback THEN "token" ELSE "scan"
    BY <1>3 DEF scan, readerVars
  <2>2. HeadDone' = HeadDone
    BY <2>1 DEF HeadDone
  <2>3. HopelessHere' = HopelessHere
    BY <2>1 DEF HopelessHere, Hopeless, NoFrameAt
  <2> QED
    BY <1>s, <2>1, <2>2, <2>3 DEF Judged, Returned
<1>4. CASE run
  BY <1>4, RunJudges
<1>5. CASE Lexer
  BY <1>5, LexerJudges
<1>6. CASE UNCHANGED vars
  BY <1>6, <1>k DEF vars, scannerVars, readerVars, lexVars, parserVars, configVars
<1> QED
  BY <1>1, <1>2, <1>3, <1>4, <1>5, <1>6 DEF Next

(* RefusesOnlyMalformed: when run() returns with a result that carries no   *)
(* message (parser.go:180-259), no frame begins where the refused octets    *)
(* do, and none can any more unless the reader has ended. It is so for a    *)
(* reader that fails with its end only, as OnlyEnds says, and for limits    *)
(* that leave room for a header.                                            *)
THEOREM OnlyMalformedRefused ==
    ASSUME NoLimitWraps, OnlyEnds
    PROVE  Spec => []RefusesOnlyMalformed
<1>1. Init => Judged /\ Roomy
  BY DEF Init, ScannerInit, Roomy, HasRoom, Judged, Returned
<1>2. TypeOK /\ Roomy /\ [Next]_vars => Roomy'
  BY RoomStep
<1>3. TypeOK /\ TypeOK' /\ Discipline /\ ErrorsEnd /\ Lazy /\ Accounted /\ Begun /\ Placed
      /\ Roomy /\ Judged /\ [Next]_vars => Judged'
  BY JudgeStep DEF Roomy
<1>4. TypeOK /\ Judged => RefusesOnlyMalformed
  <2> SUFFICES ASSUME TypeOK, Judged, Returned /\ Refused /\ out[Len(out)].span = NoSpan,
                      NEW a \in Framing!Starts(input, Spans)
               PROVE  IF rerr = "EOF"
                      THEN \A b \in 1..Len(input) : ~Framing!IsFrame(input, a, b, maxlen)
                      ELSE ~Framing!MayBecomeFrame(input, a, maxlen)
    BY DEF RefusesOnlyMalformed
  <2>1. NoFrameAt(input, rerr, maxlen, a)
    BY DEF Judged, Hopeless
  <2>2. a \in Nat /\ input \in Seq(Byte) /\ maxlen \in Int
    <3>1. input \in Seq(Byte) /\ maxlen \in Int /\ out \in Seq(Results)
      BY SizeAssumption DEF TypeOK, ScannerTypeOK, Results
    <3>2. Spans = <<>> \/ Spans[Len(Spans)] \in Nat \X Nat
      <4>1. Delivering \in 0..Len(out) /\ Delivering \in Nat
        BY <3>1 DEF Delivering
      <4>2. \A i \in 1..Delivering : out[i].span \in Nat \X Nat
        <5>1. \A i \in 1..Delivering : out[i] \in Results
          BY <3>1, <4>1
        <5> QED
          BY <5>1 DEF Results
      <4>3. Spans \in Seq(Nat \X Nat)
        BY <4>1, <4>2 DEF Spans
      <4> QED
        BY <4>3
    <3>3. a \in Nat
      <4>1. CASE Spans = <<>>
        BY <4>1 DEF Framing!Starts
      <4>2. CASE Spans # <<>>
        <5> DEFINE e == Spans[Len(Spans)][2]
        <5>1. e \in Nat
          BY <3>2, <4>2
        <5>2. a \in IF Len(input) > e /\ input[e + 1] = 10 THEN {e + 1} ELSE {e}
          BY <4>2 DEF Framing!Starts
        <5> HIDE DEF e
        <5> QED
          BY <5>1, <5>2
      <4> QED
        BY <4>1, <4>2
    <3> QED
      BY <3>1, <3>3
  <2>3. CASE Wrong(input, a, maxlen)
    BY <2>2, <2>3, WrongNoFrame, WrongNoGrowth
  <2>4. CASE rerr = "EOF" /\ \A b \in 1..Len(input) : ~Framing!IsFrame(input, a, b, maxlen)
    BY <2>4
  <2> QED
    BY <2>1, <2>3, <2>4 DEF NoFrameAt
<1> QED
  BY <1>1, <1>2, <1>3, <1>4, ParserInvariant, PlacedInvariant, PTL DEF Spec

=============================================================================
