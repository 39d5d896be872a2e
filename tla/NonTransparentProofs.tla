------------------------ MODULE NonTransparentProofs ------------------------
(***************************************************************************)
(* The non-transparent parser, for every number of lines and of readers:   *)
(* on its first reader no line is lost, split, merged or repeated; a rest  *)
(* is refused and reported last; what a reused parser reports of an        *)
(* earlier reader is bounded.                                              *)
(***************************************************************************)
EXTENDS NonTransparent, SequenceTheorems, TLAPS

-----------------------------------------------------------------------------
(* Typing of the helpers. *)

Answers == [msg : BOOLEAN, err : {"nil", "inner"}]
Results == [msg : BOOLEAN, err : {"nil", "inner", "read"}, lines : Seq(Chunks)]

(* What the machine may answer.  Strict, an answer with no error that is    *)
(* not a message is refused too (TailResult).                               *)
LEMMA AnswerType ==
    ASSUME NEW r \in internalParse
    PROVE  /\ r \in Answers
           /\ r.err = "inner" /\ ~internalBE => ~r.msg
<1>1. \/ r = [msg |-> TRUE, err |-> "nil"]
      \/ internalBE /\ r = [msg |-> TRUE, err |-> "inner"]
      \/ r = [msg |-> FALSE, err |-> "inner"]
      \/ r = [msg |-> FALSE, err |-> "nil"]
  BY Zenon DEF internalParse
<1>2. \A m \in BOOLEAN, e \in {"nil", "inner"} : [msg |-> m, err |-> e] \in Answers
  BY DEF Answers
<1>3. r \in Answers
  BY <1>1, <1>2
<1>4. r.err = "inner" /\ ~internalBE => r = [msg |-> FALSE, err |-> "inner"]
  BY <1>1
<1>5. [msg |-> FALSE, err |-> "inner"].msg = FALSE
  OBVIOUS
<1> QED
  BY <1>3, <1>4, <1>5, Zenon

(* A result of the lines ls. *)
LEMMA ResultType ==
    ASSUME NEW r, r.msg \in BOOLEAN, r.err \in {"nil", "inner", "read"}, NEW ls \in Seq(Chunks)
    PROVE  Result(r, ls) \in Results /\ Result(r, ls).lines = ls
           /\ Result(r, ls).msg = r.msg /\ Result(r, ls).err = r.err
  BY DEF Result, Results

(* Taking the trailer off the candidate (parser.go:151-187) changes nothing *)
(* but the trailer: as many lines, of the same reader, number and kind.     *)
LEMMA TrimmedShape ==
    ASSUME candidate \in Seq(Chunks)
    PROVE  /\ Trimmed \in Seq(Chunks)
           /\ Len(Trimmed) = Len(candidate) /\ DOMAIN Trimmed = DOMAIN candidate
           /\ \A i \in DOMAIN candidate :
                /\ Trimmed[i].reader = candidate[i].reader
                /\ Trimmed[i].n = candidate[i].n
                /\ Trimmed[i].kind = candidate[i].kind
<1> DEFINE cut(c) == [c EXCEPT !.term = FALSE]
<1>1. \A c \in Chunks : /\ cut(c) \in Chunks /\ cut(c).reader = c.reader
                        /\ cut(c).n = c.n /\ cut(c).kind = c.kind /\ cut(c).term = FALSE
  BY DEF Chunks
<1>2. PICK E : Trimmed = [i \in DOMAIN candidate |-> IF i \in E THEN cut(candidate[i])
                                                              ELSE candidate[i]]
  BY DEF Trimmed
<1> HIDE DEF cut
<1>3. DOMAIN candidate = 1..Len(candidate) /\ Len(candidate) \in Nat
      /\ \A i \in DOMAIN candidate : candidate[i] \in Chunks
  OBVIOUS
<1>4. \A i \in DOMAIN candidate : Trimmed[i] \in Chunks
                /\ Trimmed[i].reader = candidate[i].reader
                /\ Trimmed[i].n = candidate[i].n
                /\ Trimmed[i].kind = candidate[i].kind
  BY <1>1, <1>2, <1>3
<1>5. Trimmed = [i \in 1..Len(candidate) |-> Trimmed[i]]
  BY <1>2, <1>3
<1>6. Trimmed \in Seq(Chunks) /\ Len(Trimmed) = Len(candidate)
  BY <1>3, <1>4, <1>5
<1> QED
  BY <1>2, <1>4, <1>6

(* While every line has its trailer, the one taken off is the last line's.  *)
LEMMA TrimmedTerms ==
    ASSUME candidate \in Seq(Chunks), candidate # <<>>,
           \A i \in DOMAIN candidate : candidate[i].term
    PROVE  \A i \in DOMAIN candidate : Trimmed[i].term <=> i < Len(candidate)
<1>1. \A i \in DOMAIN candidate : ~IsEmpty(candidate[i])
  BY DEF IsEmpty
<1>2. Len(candidate) \in Nat /\ DOMAIN candidate = 1..Len(candidate)
  OBVIOUS
<1>3. {i \in DOMAIN candidate :
          /\ ~IsEmpty(candidate[i])
          /\ \A j \in (i + 1)..Len(candidate) : IsEmpty(candidate[j])}
      = {i \in DOMAIN candidate : i = Len(candidate)}
  <2>1. \A i \in DOMAIN candidate :
          (\A j \in (i + 1)..Len(candidate) : IsEmpty(candidate[j])) <=> i = Len(candidate)
    <3> TAKE i \in DOMAIN candidate
    <3>1. CASE i = Len(candidate)
      BY <3>1, <1>2
    <3>2. CASE i # Len(candidate)
      <4>1. i + 1 \in (i + 1)..Len(candidate) /\ i + 1 \in DOMAIN candidate
        BY <3>2, <1>2
      <4> QED
        BY <4>1, <3>2, <1>1
    <3> QED
      BY <3>1, <3>2
  <2> QED
    BY <1>1, <2>1
<1>4. Trimmed = [i \in DOMAIN candidate |->
                    IF i \in {k \in DOMAIN candidate : k = Len(candidate)}
                    THEN [candidate[i] EXCEPT !.term = FALSE] ELSE candidate[i]]
  BY <1>3 DEF Trimmed
<1>5. \A i \in DOMAIN candidate : i # Len(candidate) => Trimmed[i] = candidate[i]
  BY <1>4
<1>6. \A i \in DOMAIN candidate :
        i = Len(candidate) => Trimmed[i] = [candidate[i] EXCEPT !.term = FALSE]
  BY <1>4
<1>7. \A c \in Chunks : [c EXCEPT !.term = FALSE].term = FALSE
  BY DEF Chunks
<1>8. \A i \in DOMAIN candidate : candidate[i] \in Chunks
  OBVIOUS
<1> TAKE i \in DOMAIN candidate
<1>9. CASE i = Len(candidate)
  <2>1. Trimmed[i].term = FALSE
    BY <1>6, <1>7, <1>8, <1>9
  <2>2. ~(i < Len(candidate))
    BY <1>2, <1>9
  <2> QED
    BY <2>1, <2>2, Zenon
<1>10. CASE i # Len(candidate)
  BY <1>2, <1>5, <1>10
<1> QED
  BY <1>9, <1>10

(* What m.process emits is a result of the lines gathered. *)
LEMMA ProcessType ==
    ASSUME candidate \in Seq(Chunks), NEW r \in internalParse
    PROVE  process(r) \in Results /\ process(r).lines = Trimmed
<1>1. r.msg \in BOOLEAN /\ r.err \in {"nil", "inner", "read"}
  BY AnswerType DEF Answers
<1> QED
  BY <1>1, ResultType, TrimmedShape DEF process

(* What OnCompletion makes of the rest of the stream. *)
RestResult(t) == Result(TailResult(t), <<lastChunk>>)

LEMMA RestType ==
    ASSUME lastChunk \in Chunks, readError = "read", NEW t \in internalParse
    PROVE  /\ RestResult(t) \in Results /\ RestResult(t).lines = <<lastChunk>>
           /\ internalBE \/ (~RestResult(t).msg /\ RestResult(t).err # "nil")
<1> DEFINE a == TailResult(t)
<1>1. a.msg \in BOOLEAN /\ a.err \in {"nil", "inner", "read"}
      /\ (internalBE \/ (~a.msg /\ a.err # "nil"))
  BY AnswerType DEF Answers, TailResult
<1>2. <<lastChunk>> \in Seq(Chunks)
  OBVIOUS
<1> HIDE DEF a
<1>3. RestResult(t) = [msg |-> a.msg, err |-> a.err, lines |-> <<lastChunk>>]
  BY Zenon DEF RestResult, Result, a
<1> QED
  BY <1>1, <1>2, <1>3 DEF Results

(* Joining sequences of at most one element. *)
LEMMA ConcatSmall ==
    ASSUME NEW p, NEW q
    PROVE  /\ <<>> \o <<>> = <<>> /\ <<p>> \o <<>> = <<p>>
           /\ <<>> \o <<q>> = <<q>> /\ <<p>> \o <<q>> = <<p, q>>
<1>1. /\ <<>> \in Seq({p, q}) /\ <<p>> \in Seq({p, q})
      /\ <<q>> \in Seq({p, q}) /\ <<p, q>> \in Seq({p, q})
  OBVIOUS
<1>2. <<p>> \o <<q>> = <<p, q>>
  <2> DEFINE s == <<p>> \o <<q>>
             t == <<p, q>>
  <2>1. Len(s) = 2 /\ s \in Seq({p, q}) /\ s[1] = p /\ s[2] = q
    BY <1>1
  <2>2. Len(t) = 2 /\ t \in Seq({p, q}) /\ t[1] = p /\ t[2] = q
    BY <1>1
  <2> HIDE DEF s, t
  <2>3. s = t
    <3>1. \A i \in 1..Len(s) : s[i] = t[i]
      BY <2>1, <2>2
    <3> QED
      BY <2>1, <2>2, <3>1, SeqEqual
  <2> QED
    BY <2>3 DEF s, t
<1>3. <<>> \o <<>> = <<>>
  OBVIOUS
<1>4. <<p>> \o <<>> = <<p>>
  BY <1>1
<1>5. <<>> \o <<q>> = <<q>>
  BY <1>1
<1> QED
  BY <1>2, <1>3, <1>4, <1>5

(* OnCompletion appends at most the candidate and then at most the rest.    *)
LEMMA CompletionCases ==
    ASSUME TypeOK, NEW r \in internalParse, NEW t \in internalParse
    PROVE  \/ candidate = <<>> /\ (readError = "nil" \/ lastChunk = NoChunk)
              /\ CompletionResults(r, t) = <<>>
           \/ candidate # <<>> /\ (readError = "nil" \/ lastChunk = NoChunk)
              /\ CompletionResults(r, t) = <<process(r)>>
           \/ candidate = <<>> /\ readError = "read" /\ lastChunk # NoChunk
              /\ CompletionResults(r, t) = <<RestResult(t)>>
           \/ candidate # <<>> /\ readError = "read" /\ lastChunk # NoChunk
              /\ CompletionResults(r, t) = <<process(r), RestResult(t)>>
<1> DEFINE rest == readError # "nil" /\ lastChunk # NoChunk
           p == process(r)
           q == RestResult(t)
<1>1. CompletionResults(r, t) = (IF candidate # <<>> THEN <<p>> ELSE <<>>)
                                \o (IF rest THEN <<q>> ELSE <<>>)
  BY DEF CompletionResults, RestResult
<1>2. readError \in {"nil", "read"}
  BY DEF TypeOK
<1> HIDE DEF rest, p, q
<1>3. /\ <<>> \o <<>> = <<>> /\ <<p>> \o <<>> = <<p>>
      /\ <<>> \o <<q>> = <<q>> /\ <<p>> \o <<q>> = <<p, q>>
  BY ConcatSmall
<1>4. CASE candidate = <<>>
  BY <1>1, <1>2, <1>3, <1>4, Zenon DEF rest, p, q
<1>5. CASE candidate # <<>>
  BY <1>1, <1>2, <1>3, <1>5, Zenon DEF rest, p, q
<1> QED
  BY <1>4, <1>5

-----------------------------------------------------------------------------
(* What the steps do to the results. *)

(* A chunk the driver hands to Exec: the next line of this reader. *)
NextChunk(c) == /\ c \in Chunks /\ c.reader = parses /\ c.n = Len(lines) + 1 /\ c.term = TRUE

ExecOf(c) ==
    /\ NextChunk(c)
    /\ lines' = Append(lines, c)
    /\ ExecInit(c) \/ ExecContinue(c) \/ ExecError(c)

(* Exec takes one chunk through on_init, on_trailer or the error state. *)
LEMMA ExecCases ==
    ASSUME TypeOK, Exec
    PROVE  /\ phase = "reading" /\ phase' \in {"reading", "ended"}
           /\ UNCHANGED <<lastChunk, readError, configVars, parses>>
           /\ \E c \in Chunks : ExecOf(c)
<1>1. PICK k \in Kinds :
        LET c == [reader |-> parses, n |-> Len(lines) + 1, kind |-> k, term |-> TRUE]
        IN  /\ lines' = Append(lines, c)
            /\ ExecInit(c) \/ ExecContinue(c) \/ ExecError(c)
  BY Zenon DEF Exec
<1> DEFINE d == [reader |-> parses, n |-> Len(lines) + 1, kind |-> k, term |-> TRUE]
<1>2. d \in Chunks /\ NextChunk(d)
  <2>1. parses \in Nat /\ Len(lines) + 1 \in Nat
    BY NTAssumption DEF TypeOK
  <2> QED
    BY <2>1 DEF Chunks, NextChunk
<1>3. phase = "reading" /\ phase' \in {"reading", "ended"}
      /\ UNCHANGED <<lastChunk, readError, configVars, parses>>
  BY DEF Exec
<1>4. ExecOf(d)
  BY <1>1, <1>2, Zenon DEF ExecOf
<1> QED
  BY <1>2, <1>3, <1>4, Zenon

(* on_init (parser.go:103-118) emits the candidate, if there is one.        *)
LEMMA InitOut ==
    ASSUME TypeOK, NEW c \in Chunks, ExecInit(c)
    PROVE  /\ cs' = 3 /\ candidate' = <<c>> /\ candidate' \in Seq(Chunks)
           /\ out' \in Seq(Results)
           /\ \/ candidate = <<>> /\ out' = out
              \/ /\ candidate # <<>> /\ Len(out') = Len(out) + 1
                 /\ \A i \in DOMAIN out : out'[i] = out[i]
                 /\ out'[Len(out) + 1] \in Results
                 /\ out'[Len(out) + 1].lines = Trimmed
<1>0. out \in Seq(Results) /\ candidate \in Seq(Chunks)
  BY DEF TypeOK, Results
<1>1. CASE candidate = <<>>
  BY <1>0, <1>1 DEF ExecInit
<1>2. CASE candidate # <<>>
  <2>1. PICK r \in internalParse : out' = Append(out, process(r))
    BY <1>2 DEF ExecInit
  <2>2. process(r) \in Results /\ process(r).lines = Trimmed
    BY <1>0, ProcessType
  <2> DEFINE p == process(r)
  <2> HIDE DEF p
  <2>3. out' = Append(out, p) /\ p \in Results /\ p.lines = Trimmed
    BY <2>1, <2>2 DEF p
  <2>4. /\ out' \in Seq(Results) /\ Len(out') = Len(out) + 1
        /\ \A i \in 1..Len(out) : out'[i] = out[i]
        /\ out'[Len(out) + 1] = p
    BY <1>0, <2>3, AppendProperties
  <2>5. cs' = 3 /\ candidate' = <<c>>
    BY DEF ExecInit
  <2> QED
    BY <1>0, <1>2, <2>3, <2>4, <2>5
<1> QED
  BY <1>1, <1>2

(* The number of results that OnCompletion finds and the candidate it adds. *)
Cut == IF candidate # <<>> THEN Len(out) + 1 ELSE Len(out)

(* OnCompletion (parser.go:188-199) keeps the results, adds the candidate   *)
(* if there is one, and may add a rest, refused.                            *)
LEMMA CompletionOut ==
    ASSUME TypeOK, OnCompletion
    PROVE  /\ out' \in Seq(Results)
           /\ Len(out') \in {Cut, Cut + 1}
           /\ \A i \in DOMAIN out : i \in DOMAIN out' /\ out'[i] = out[i]
           /\ candidate # <<>> => /\ out'[Len(out) + 1] \in Results
                                  /\ out'[Len(out) + 1].lines = Trimmed
           /\ Len(out') = Cut + 1 =>
                 /\ out'[Cut + 1].lines = <<lastChunk>>
                 /\ internalBE \/ (~out'[Cut + 1].msg /\ out'[Cut + 1].err # "nil")
<1>0. out \in Seq(Results) /\ candidate \in Seq(Chunks) /\ lastChunk \in Chunks
      /\ Len(out) \in Nat
  BY DEF TypeOK, Results
<1>1. PICK r \in internalParse, t \in internalParse : out' = out \o CompletionResults(r, t)
  BY DEF OnCompletion
<1> DEFINE p == process(r)
           q == RestResult(t)
<1>2. p \in Results /\ p.lines = Trimmed
  BY <1>0, ProcessType
<1>3. readError = "read" => /\ q \in Results /\ q.lines = <<lastChunk>>
                            /\ internalBE \/ (~q.msg /\ q.err # "nil")
  BY <1>0, RestType
<1>4. \/ candidate = <<>> /\ out' = out \o <<>>
      \/ candidate # <<>> /\ out' = out \o <<p>>
      \/ candidate = <<>> /\ readError = "read" /\ out' = out \o <<q>>
      \/ candidate # <<>> /\ readError = "read" /\ out' = out \o <<p, q>>
  BY <1>1, CompletionCases
<1> HIDE DEF p, q
<1>5. CASE candidate = <<>> /\ out' = out \o <<>>
  <2>1. out' = out
    BY <1>0, <1>5, ConcatEmptySeq
  <2> QED
    BY <1>0, <1>5, <2>1 DEF Cut
<1>6. CASE candidate # <<>> /\ out' = out \o <<p>>
  <2>1. /\ out' \in Seq(Results) /\ Len(out') = Len(out) + 1
        /\ \A i \in 1..Len(out) : out'[i] = out[i]
        /\ out'[Len(out) + 1] = p
    BY <1>0, <1>2, <1>6
  <2> QED
    BY <1>0, <1>2, <1>6, <2>1 DEF Cut
<1>7. CASE candidate = <<>> /\ readError = "read" /\ out' = out \o <<q>>
  <2>1. /\ out' \in Seq(Results) /\ Len(out') = Len(out) + 1
        /\ \A i \in 1..Len(out) : out'[i] = out[i]
        /\ out'[Len(out) + 1] = q
    BY <1>0, <1>3, <1>7
  <2> QED
    BY <1>0, <1>3, <1>7, <2>1 DEF Cut
<1>8. CASE candidate # <<>> /\ readError = "read" /\ out' = out \o <<p, q>>
  <2>1. /\ out' \in Seq(Results) /\ Len(out') = Len(out) + 2
        /\ \A i \in 1..Len(out) : out'[i] = out[i]
        /\ out'[Len(out) + 1] = p /\ out'[Len(out) + 2] = q
    BY <1>0, <1>2, <1>3, <1>8
  <2>2. Cut = Len(out) + 1 /\ Cut + 1 = Len(out) + 2
    BY <1>0, <1>8 DEF Cut
  <2> QED
    BY <1>0, <1>2, <1>3, <1>8, <2>1, <2>2
<1> QED
  BY <1>4, <1>5, <1>6, <1>7, <1>8

-----------------------------------------------------------------------------
(* Types. *)

(* The initial values have their types. *)
LEMMA TypeInit == Init => TypeOK
  BY NTAssumption DEF Init, TypeOK, Chunks, NoChunk, Kinds

(* Every step keeps the types. *)
LEMMA TypeStep ==
    ASSUME TypeOK, [Next]_vars
    PROVE  TypeOK'
<1> USE NTAssumption
<1>1. CASE UNCHANGED vars
  BY <1>1 DEF TypeOK, vars, fsmVars, configVars
<1>2. CASE WithBestEffort
  BY <1>2 DEF TypeOK, WithBestEffort, fsmVars
<1>3. CASE Parse
  BY <1>3 DEF TypeOK, Parse, configVars
<1>4. CASE Exec
  <2>1. PICK c \in Chunks : ExecOf(c)
    BY <1>4, ExecCases, Zenon
  <2>2. UNCHANGED <<lastChunk, readError, configVars, parses>>
        /\ phase' \in {"idle", "reading", "ended"}
    BY <1>4, ExecCases
  <2>3. lines' \in Seq(Chunks)
    BY <2>1 DEF TypeOK, ExecOf
  <2>4. cs' \in {0, 1, 3} /\ candidate' \in Seq(Chunks) /\ out' \in Seq(Results)
    <3>1. CASE ExecInit(c)
      BY <3>1, InitOut
    <3>2. out \in Seq(Results) /\ candidate \in Seq(Chunks)
      BY DEF TypeOK, Results
    <3>3. CASE ExecContinue(c)
      BY <3>2, <3>3 DEF ExecContinue
    <3>4. CASE ExecError(c)
      BY <3>2, <3>4 DEF ExecError
    <3> QED
      BY <2>1, <3>1, <3>3, <3>4 DEF ExecOf
  <2> QED
    BY <2>2, <2>3, <2>4 DEF TypeOK, configVars, Results
<1>5. CASE OnErr
  <2>1. lastChunk' \in Chunks
    <3>1. parses \in Nat
      BY DEF TypeOK
    <3>2. \A k \in Kinds : Rest(k) \in Chunks
      BY <3>1 DEF Rest, Chunks
    <3>3. NoChunk \in Chunks
      BY DEF NoChunk, Chunks, Kinds
    <3> QED
      BY <1>5, <3>2, <3>3 DEF OnErr, Kinds
  <2> QED
    BY <1>5, <2>1 DEF TypeOK, OnErr, fsmVars, configVars
<1>6. CASE OnEOF
  BY <1>6 DEF TypeOK, OnEOF, fsmVars, configVars
<1>7. CASE OnCompletion
  <2>1. out' \in Seq(Results)
    BY <1>7, CompletionOut
  <2>2. candidate' \in Seq(Chunks)
    BY <1>7, TrimmedShape DEF OnCompletion, TypeOK
  <2> QED
    BY <1>7, <2>1, <2>2 DEF TypeOK, OnCompletion, configVars, Results
<1> QED
  BY <1>1, <1>2, <1>3, <1>4, <1>5, <1>6, <1>7 DEF Next

-----------------------------------------------------------------------------
(* The inductive invariant. *)

(* What is gathered and reported: the candidate has terminated lines only,  *)
(* the driver's last chunk is a rest; while a reader is open no rest has    *)
(* been reported, and behind a first result of another reader comes a       *)
(* candidate of this one.                                                   *)
Gathered ==
    /\ \A j \in DOMAIN candidate : candidate[j].n # 0
    /\ lastChunk.n = 0
    /\ \A i \in DOMAIN out : out[i].lines # <<>>
    /\ phase # "idle" => \A i \in DOMAIN out : ~IsRest(out[i])
    /\ cs = 3 => candidate # <<>>
    /\ phase # "idle" /\ out # <<>> => candidate # <<>> /\ candidate[1].reader = parses

(* The lines of one result: where they end in the stream, and where those   *)
(* of the i-th result must begin.                                           *)
LastOf(ls)     == ls[Len(ls)].n
BeginsAt(o, i) == IF i = 1 THEN 1 ELSE LastOf(o[i - 1].lines) + 1

(* The i-th result is a message cut exactly, without its last trailer. *)
WholeMessage(o, i) ==
    /\ IsMessage(o[i].lines, BeginsAt(o, i), LastOf(o[i].lines))
    /\ \A j \in DOMAIN o[i].lines : o[i].lines[j].term <=> j < Len(o[i].lines)

(* The candidate is the message being read: it begins behind the last one   *)
(* reported, ends with the last line read and has all its trailers.         *)
OpenMessage ==
    /\ IsMessage(candidate, BeginsAt(out, Len(out) + 1), Len(lines))
    /\ \A j \in DOMAIN candidate : candidate[j].term

(* A parser on its first reader, or before it. *)
FirstReader ==
    /\ parses = 0 => phase = "idle" /\ cs = 1 /\ candidate = <<>> /\ out = <<>>
    /\ parses = 1 =>
        /\ cs # 3 => /\ candidate = <<>> /\ Messages = <<>>
                     /\ phase # "idle" => out = <<>>
        /\ cs = 1 /\ phase = "reading" => lines = <<>>
        /\ \A i \in DOMAIN Messages : WholeMessage(out, i)
        /\ cs = 3 /\ phase # "idle" => OpenMessage
        /\ cs = 3 /\ phase = "idle" => /\ Messages # <<>>
                                       /\ LastOf(out[Len(Messages)].lines) = Len(lines)

-----------------------------------------------------------------------------
(* Rests and leaks. *)

Reported == Gathered /\ RestIsLastAndRefused /\ LeakIsBounded

(* At the start nothing is gathered. *)
LEMMA ReportedInit == Init => Reported
  BY DEF Init, Reported, Gathered, RestIsLastAndRefused, LeakIsBounded, NoChunk

(* A step that keeps what is gathered and reported keeps the invariant,     *)
(* unless it opens or closes a reader.                                      *)
LEMMA ReportedFrame ==
    ASSUME Reported, lastChunk'.n = 0, phase # "idle" \/ phase' = "idle",
           UNCHANGED <<candidate, out, internalBE, parses>>, cs' = 3 => cs = 3
    PROVE  Reported'
<1>1. Gathered'
  BY DEF Reported, Gathered, IsRest
<1>2. RestIsLastAndRefused' /\ LeakIsBounded'
  BY DEF Reported, RestIsLastAndRefused, LeakIsBounded, IsRest
<1> QED
  BY <1>1, <1>2 DEF Reported

(* The first of the lines of a result is a line of the candidate it was. *)
LEMMA FirstOfTrimmed ==
    ASSUME TypeOK, Gathered, candidate # <<>>
    PROVE  Trimmed # <<>> /\ Trimmed[1].n # 0 /\ Trimmed[1].reader = candidate[1].reader
<1>1. candidate \in Seq(Chunks)
  BY DEF TypeOK
<1>2. 1 \in DOMAIN candidate
  BY <1>1
<1>3. /\ Trimmed \in Seq(Chunks) /\ Len(Trimmed) = Len(candidate)
      /\ Trimmed[1].reader = candidate[1].reader /\ Trimmed[1].n = candidate[1].n
  BY <1>1, <1>2, TrimmedShape
<1>4. candidate[1].n # 0
  BY <1>2 DEF Gathered
<1> QED
  BY <1>1, <1>3, <1>4

(* Reading a chunk keeps it. *)
LEMMA ReportedExec ==
    ASSUME TypeOK, Reported, Exec
    PROVE  Reported'
<1>0. /\ phase = "reading" /\ phase' # "idle"
      /\ UNCHANGED <<lastChunk, internalBE, parses>>
  BY ExecCases DEF configVars
<1>1. PICK c \in Chunks : ExecOf(c)
  BY ExecCases, Zenon
<1>2. c.n # 0 /\ c.reader = parses
  <2>1. Len(lines) \in Nat
    BY DEF TypeOK
  <2> QED
    BY <1>1, <2>1 DEF ExecOf, NextChunk
<1>t. out \in Seq(Results) /\ candidate \in Seq(Chunks)
  BY DEF TypeOK, Results
<1>3. CASE ExecInit(c)
  <2>1. cs' = 3 /\ candidate' = <<c>> /\ out' \in Seq(Results)
    BY <1>3, InitOut
  <2>2. CASE candidate = <<>> /\ out' = out
    <3>1. out = <<>>
      BY <1>0, <2>2 DEF Reported, Gathered
    <3> QED
      BY <1>0, <1>2, <2>1, <2>2, <3>1
         DEF Reported, Gathered, RestIsLastAndRefused, LeakIsBounded
  <2>3. CASE /\ candidate # <<>> /\ Len(out') = Len(out) + 1
             /\ \A i \in DOMAIN out : out'[i] = out[i]
             /\ out'[Len(out) + 1].lines = Trimmed
    <3>1. Trimmed # <<>> /\ Trimmed[1].n # 0 /\ Trimmed[1].reader = candidate[1].reader
      BY <2>3, FirstOfTrimmed DEF Reported
    <3>2. \A i \in DOMAIN out' : i \in DOMAIN out \/ i = Len(out) + 1
      BY <1>t, <2>1, <2>3
    <3>3. \A i \in DOMAIN out' : out'[i].lines # <<>> /\ out'[i].lines[1].n # 0
      BY <1>0, <2>3, <3>1, <3>2 DEF Reported, Gathered, IsRest
    <3>4. Gathered'
      BY <1>0, <1>2, <2>1, <3>3 DEF Reported, Gathered, IsRest
    <3>5. RestIsLastAndRefused'
      BY <3>3 DEF RestIsLastAndRefused, IsRest
    <3>6. LeakIsBounded'
      <4> SUFFICES ASSUME NEW i \in DOMAIN out', out'[i].lines[1].reader # parses
                   PROVE  i = 1
        BY <1>0 DEF LeakIsBounded
      <4>1. CASE i \in DOMAIN out
        <5>1. i = Len(out) => ~IsRest(out[i])
          BY <1>0, <4>1 DEF Reported, Gathered
        <5> QED
          BY <2>3, <4>1, <5>1 DEF Reported, LeakIsBounded
      <4>2. CASE i = Len(out) + 1
        <5>1. candidate[1].reader # parses
          BY <2>3, <3>1, <4>2
        <5>2. out = <<>>
          BY <1>0, <5>1 DEF Reported, Gathered
        <5> QED
          BY <4>2, <5>2
      <4> QED
        BY <3>2, <4>1, <4>2
    <3> QED
      BY <3>4, <3>5, <3>6 DEF Reported
  <2> QED
    BY <1>3, <2>2, <2>3, InitOut
<1>4. CASE ExecContinue(c)
  <2>1. cs = 3 /\ candidate' = Append(candidate, c) /\ out' = out
    BY <1>4 DEF ExecContinue
  <2>2. candidate # <<>>
    BY <2>1 DEF Reported, Gathered
  <2>3. candidate' # <<>> /\ candidate'[1] = candidate[1]
        /\ \A j \in DOMAIN candidate' : candidate'[j].n # 0
    BY <1>t, <1>2, <2>1, <2>2 DEF Reported, Gathered
  <2>4. Gathered'
    BY <1>0, <2>1, <2>3 DEF Reported, Gathered, IsRest
  <2> QED
    BY <1>0, <2>1, <2>4 DEF Reported, RestIsLastAndRefused, LeakIsBounded, IsRest
<1>5. CASE ExecError(c)
  BY <1>0, <1>5, ReportedFrame DEF ExecError, Reported, Gathered
<1> QED
  BY <1>1, <1>3, <1>4, <1>5 DEF ExecOf

(* Completing a reader keeps it. *)
LEMMA ReportedCompletion ==
    ASSUME TypeOK, Reported, OnCompletion
    PROVE  Reported'
<1>0. /\ phase = "ended" /\ phase' = "idle"
      /\ UNCHANGED <<cs, lastChunk, internalBE, parses>>
      /\ candidate' = IF candidate # <<>> THEN Trimmed ELSE candidate
  BY DEF OnCompletion, configVars
<1>t. out \in Seq(Results) /\ candidate \in Seq(Chunks) /\ Len(out) \in Nat
  BY DEF TypeOK, Results
<1>1. /\ out' \in Seq(Results) /\ Len(out') \in {Cut, Cut + 1}
      /\ \A i \in DOMAIN out : i \in DOMAIN out' /\ out'[i] = out[i]
      /\ candidate # <<>> => out'[Len(out) + 1].lines = Trimmed
      /\ Len(out') = Cut + 1 =>
            /\ out'[Cut + 1].lines = <<lastChunk>>
            /\ internalBE \/ (~out'[Cut + 1].msg /\ out'[Cut + 1].err # "nil")
  BY CompletionOut, Zenon
<1>2. Cut \in Nat /\ (candidate # <<>> => Cut = Len(out) + 1) /\ (candidate = <<>> => Cut = Len(out))
  BY <1>t DEF Cut
<1>3. candidate # <<>> =>
        Trimmed # <<>> /\ Trimmed[1].n # 0 /\ Trimmed[1].reader = candidate[1].reader
  BY FirstOfTrimmed DEF Reported
<1>4. lastChunk.n = 0
  BY DEF Reported, Gathered
<1>5. \A i \in DOMAIN out' :
        \/ i \in DOMAIN out
        \/ candidate # <<>> /\ i = Len(out) + 1
        \/ i = Cut + 1 /\ i = Len(out')
  BY <1>t, <1>1, <1>2
<1>6. \A i \in DOMAIN out : out'[i].lines # <<>> /\ out'[i].lines[1].n # 0
  BY <1>0, <1>1 DEF Reported, Gathered, IsRest
<1>7. \A i \in DOMAIN out' : out'[i].lines # <<>>
  <2> TAKE i \in DOMAIN out'
  <2>1. CASE i = Cut + 1 /\ i = Len(out')
    <3>1. out'[i].lines = <<lastChunk>>
      BY <1>1, <2>1
    <3> QED
      BY <3>1
  <2> QED
    BY <1>1, <1>3, <1>5, <1>6, <2>1, Zenon
<1>8. \A i \in DOMAIN out' : out'[i].lines[1].n = 0 => i = Cut + 1 /\ i = Len(out')
  BY <1>1, <1>3, <1>5, <1>6
<1>9. Gathered'
  <2>1. \A j \in DOMAIN candidate' : candidate'[j].n # 0
    BY <1>0, <1>t, TrimmedShape DEF Reported, Gathered
  <2>2. cs' = 3 => candidate' # <<>>
    BY <1>0, <1>3 DEF Reported, Gathered
  <2> QED
    BY <1>0, <1>4, <1>7, <2>1, <2>2 DEF Gathered
<1>10. RestIsLastAndRefused'
  BY <1>0, <1>1, <1>8 DEF RestIsLastAndRefused, IsRest
<1>11. LeakIsBounded'
  <2> SUFFICES ASSUME NEW i \in DOMAIN out', out'[i].lines[1].reader # parses
               PROVE  i = 1 \/ (i = Len(out') /\ out'[i].lines[1].n = 0)
    BY <1>0 DEF LeakIsBounded, IsRest
  <2>1. CASE i \in DOMAIN out
    <3>1. ~IsRest(out[i])
      BY <1>0, <2>1 DEF Reported, Gathered
    <3> QED
      BY <1>1, <2>1, <3>1 DEF Reported, LeakIsBounded
  <2>2. CASE candidate # <<>> /\ i = Len(out) + 1
    <3>1. candidate[1].reader # parses
      BY <1>1, <1>3, <2>2
    <3>2. out = <<>>
      BY <1>0, <3>1 DEF Reported, Gathered
    <3> QED
      BY <2>2, <3>2
  <2>3. CASE i = Cut + 1 /\ i = Len(out')
    BY <1>1, <1>4, <2>3
  <2> QED
    BY <1>5, <2>1, <2>2, <2>3
<1> QED
  BY <1>9, <1>10, <1>11 DEF Reported

(* Every step keeps it. *)
LEMMA ReportedStep ==
    ASSUME TypeOK, Reported, [Next]_vars
    PROVE  Reported'
<1>0. lastChunk.n = 0
  BY DEF Reported, Gathered
<1>1. CASE UNCHANGED vars
  <2>1. UNCHANGED <<phase, cs, candidate, lastChunk, internalBE, out, parses>>
    BY <1>1 DEF vars, fsmVars, configVars
  <2>2. Gathered'
    BY <2>1 DEF Reported, Gathered, IsRest
  <2> QED
    BY <2>1, <2>2 DEF Reported, RestIsLastAndRefused, LeakIsBounded, IsRest
<1>2. CASE WithBestEffort
  BY <1>0, <1>2, ReportedFrame DEF WithBestEffort, fsmVars
<1>3. CASE Parse
  BY <1>3 DEF Parse, configVars, Reported, Gathered, RestIsLastAndRefused, LeakIsBounded
<1>4. CASE Exec
  BY <1>4, ReportedExec
<1>5. CASE OnErr
  <2>1. lastChunk'.n = 0
    BY <1>5 DEF OnErr, Rest, NoChunk
  <2> QED
    BY <1>5, <2>1, ReportedFrame DEF OnErr, fsmVars, configVars
<1>6. CASE OnEOF
  BY <1>0, <1>6, ReportedFrame DEF OnEOF, fsmVars, configVars
<1>7. CASE OnCompletion
  BY <1>7, ReportedCompletion
<1> QED
  BY <1>1, <1>2, <1>3, <1>4, <1>5, <1>6, <1>7 DEF Next

-----------------------------------------------------------------------------
(* Lines conserved on the first reader. *)

MessagesOf(o) == IF o # <<>> /\ IsRest(o[Len(o)]) THEN SubSeq(o, 1, Len(o) - 1) ELSE o

(* The messages are the results, without a rest at the end. *)
LEMMA MessagesShape ==
    ASSUME NEW o \in Seq(Results)
    PROVE  /\ Len(MessagesOf(o)) \in Nat /\ DOMAIN MessagesOf(o) = 1..Len(MessagesOf(o))
           /\ \A i \in 1..Len(MessagesOf(o)) : i \in DOMAIN o /\ MessagesOf(o)[i] = o[i]
           /\ o = <<>> => MessagesOf(o) = <<>>
           /\ o # <<>> /\ IsRest(o[Len(o)]) => Len(MessagesOf(o)) = Len(o) - 1
           /\ (o = <<>> \/ ~IsRest(o[Len(o)])) => MessagesOf(o) = o
<1>1. CASE o # <<>> /\ IsRest(o[Len(o)])
  <2>1. MessagesOf(o) = SubSeq(o, 1, Len(o) - 1) /\ Len(o) \in Nat \ {0}
    BY <1>1 DEF MessagesOf
  <2>2. /\ SubSeq(o, 1, Len(o) - 1) \in Seq(Results)
        /\ Len(SubSeq(o, 1, Len(o) - 1)) = Len(o) - 1
        /\ \A i \in 1..(Len(o) - 1) : SubSeq(o, 1, Len(o) - 1)[i] = o[i]
    <3> DEFINE n == Len(o) - 1
    <3>1. n \in Nat /\ \A i \in 1..n : o[i] \in Results
      BY <2>1
    <3> HIDE DEF n
    <3>2. /\ SubSeq(o, 1, n) \in Seq(Results)
          /\ Len(SubSeq(o, 1, n)) = IF 1 <= n THEN n - 1 + 1 ELSE 0
          /\ \A i \in 1..(n - 1 + 1) : SubSeq(o, 1, n)[i] = o[1 + i - 1]
      BY <3>1, SubSeqProperties
    <3>3. Len(SubSeq(o, 1, n)) = n /\ \A i \in 1..n : SubSeq(o, 1, n)[i] = o[i]
      BY <3>1, <3>2
    <3> QED
      BY <3>2, <3>3 DEF n
  <2> QED
    BY <1>1, <2>1, <2>2
<1>2. CASE o = <<>> \/ ~IsRest(o[Len(o)])
  <2>1. MessagesOf(o) = o
    BY <1>2 DEF MessagesOf
  <2> QED
    BY <1>2, <2>1
<1> QED
  BY <1>1, <1>2

(* Where the message after the results o begins is a number. *)
LEMMA BeginsAtType ==
    ASSUME TypeOK, Gathered
    PROVE  BeginsAt(out, Len(out) + 1) \in Int
<1>1. out \in Seq(Results) /\ Len(out) \in Nat
  BY DEF TypeOK, Results
<1>2. CASE Len(out) = 0
  BY <1>2 DEF BeginsAt
<1>3. CASE Len(out) # 0
  <2>1. BeginsAt(out, Len(out) + 1) = LastOf(out[Len(out)].lines) + 1
    BY <1>1, <1>3 DEF BeginsAt
  <2>2. Len(out) \in DOMAIN out
    BY <1>1, <1>3
  <2>3. out[Len(out)].lines \in Seq(Chunks) /\ out[Len(out)].lines # <<>>
    <3>1. out[Len(out)] \in Results
      BY <1>1, <2>2
    <3> QED
      BY <2>2, <3>1 DEF Gathered, Results
  <2>4. \A ls \in Seq(Chunks) : ls # <<>> => LastOf(ls) \in Nat
    <3> SUFFICES ASSUME NEW ls \in Seq(Chunks), ls # <<>> PROVE LastOf(ls) \in Nat
      OBVIOUS
    <3>1. Len(ls) \in DOMAIN ls
      OBVIOUS
    <3>2. ls[Len(ls)] \in Chunks
      BY <3>1
    <3> QED
      BY <3>2 DEF LastOf, Chunks
  <2> QED
    BY <2>1, <2>3, <2>4
<1> QED
  BY <1>1, <1>2, <1>3

(* Results that follow change nothing of a message reported. *)
LEMMA MessageKept ==
    ASSUME NEW o \in Seq(Results), NEW q \in Seq(Results),
           \A i \in DOMAIN o : i \in DOMAIN q /\ q[i] = o[i],
           NEW k \in DOMAIN o, WholeMessage(o, k)
    PROVE  WholeMessage(q, k)
<1>1. q[k] = o[k] /\ k \in Nat
  OBVIOUS
<1>2. BeginsAt(q, k) = BeginsAt(o, k)
  <2>1. k # 1 => k - 1 \in DOMAIN o
    OBVIOUS
  <2> QED
    BY <2>1 DEF BeginsAt
<1> QED
  BY <1>1, <1>2 DEF WholeMessage

(* The open message, emitted, is a whole one and ends with the last line. *)
LEMMA MessageEmitted ==
    ASSUME TypeOK, Gathered, candidate # <<>>, OpenMessage,
           NEW q \in Seq(Results), q[Len(out) + 1].lines = Trimmed,
           \A i \in DOMAIN out : q[i] = out[i]
    PROVE  WholeMessage(q, Len(out) + 1) /\ LastOf(q[Len(out) + 1].lines) = Len(lines)
<1> DEFINE a == BeginsAt(out, Len(out) + 1)
           n == Len(out) + 1
           L == Len(candidate)
<1>1. out \in Seq(Results) /\ Len(out) \in Nat /\ candidate \in Seq(Chunks)
      /\ Len(lines) \in Nat /\ L \in Nat \ {0} /\ DOMAIN candidate = 1..L
  BY DEF TypeOK, Results
<1>2. a \in Int
  BY BeginsAtType
<1>3. BeginsAt(q, n) = a
  <2>1. n # 1 => n - 1 \in DOMAIN out
    BY <1>1
  <2> QED
    BY <2>1 DEF BeginsAt
<1>4. /\ DOMAIN Trimmed = 1..L /\ Len(Trimmed) = L
      /\ \A i \in 1..L : Trimmed[i].n = candidate[i].n /\ Trimmed[i].kind = candidate[i].kind
  BY <1>1, TrimmedShape
<1>5. \A i \in 1..L : Trimmed[i].term <=> i < L
  BY <1>1, TrimmedTerms DEF OpenMessage
<1>6. /\ L = Len(lines) - a + 1 /\ a <= Len(lines)
      /\ \A i \in 1..L : candidate[i].n = a + i - 1 /\ (candidate[i].kind = "lt" <=> i = 1)
  BY <1>1 DEF OpenMessage, IsMessage
<1> HIDE DEF a, n, L
<1>7. LastOf(Trimmed) = Len(lines)
  <2>1. L \in 1..L
    BY <1>1
  <2>2. Trimmed[L].n = a + L - 1
    BY <1>4, <1>6, <2>1
  <2> QED
    BY <1>1, <1>2, <1>4, <1>6, <2>2 DEF LastOf
<1>8. IsMessage(Trimmed, a, Len(lines))
  BY <1>4, <1>6 DEF IsMessage
<1>9. q[n].lines = Trimmed
  BY DEF n
<1>10. IsMessage(q[n].lines, BeginsAt(q, n), LastOf(q[n].lines))
  BY <1>3, <1>7, <1>8, <1>9
<1>11. \A j \in DOMAIN q[n].lines : q[n].lines[j].term <=> j < Len(q[n].lines)
  BY <1>4, <1>5, <1>9
<1> QED
  BY <1>7, <1>9, <1>10, <1>11 DEF WholeMessage, n

(* The messages reported while a reader is open are all the results. *)
LEMMA OpenMessages ==
    ASSUME TypeOK, Gathered, phase # "idle"
    PROVE  Messages = out
<1>1. out \in Seq(Results)
  BY DEF TypeOK, Results
<1>2. out # <<>> => Len(out) \in DOMAIN out
  BY <1>1
<1>3. out # <<>> => ~IsRest(out[Len(out)])
  BY <1>2 DEF Gathered
<1> QED
  BY <1>3 DEF Messages

(* At the start no reader has been opened. *)
LEMMA FirstReaderInit == Init => FirstReader
  BY DEF Init, FirstReader

(* A step that keeps lines and results keeps the invariant, unless it opens *)
(* or closes a reader.                                                      *)
LEMMA FirstReaderFrame ==
    ASSUME FirstReader, UNCHANGED <<cs, candidate, out, lines, parses>>,
           phase = "idle" <=> phase' = "idle", phase' = "reading" => phase = "reading"
    PROVE  FirstReader'
<1>1. Messages' = Messages
  BY DEF Messages, IsRest
<1>2. \A i : WholeMessage(out, i)' <=> WholeMessage(out, i)
  BY DEF WholeMessage, IsMessage, BeginsAt, LastOf
<1>3. OpenMessage' <=> OpenMessage
  BY DEF OpenMessage, IsMessage, BeginsAt, LastOf
<1>4. LastOf(out[Len(Messages)].lines)' = LastOf(out[Len(Messages)].lines)
  BY <1>1 DEF LastOf
<1>5. parses' = 0 => phase' = "idle" /\ cs' = 1 /\ candidate' = <<>> /\ out' = <<>>
  BY DEF FirstReader
<1>6. ASSUME parses' = 1
      PROVE  /\ cs' # 3 => /\ candidate' = <<>> /\ Messages' = <<>>
                           /\ phase' # "idle" => out' = <<>>
             /\ cs' = 1 /\ phase' = "reading" => lines' = <<>>
             /\ cs' = 3 /\ phase' # "idle" => OpenMessage'
             /\ cs' = 3 /\ phase' = "idle" =>
                  /\ Messages' # <<>>
                  /\ LastOf(out[Len(Messages)].lines)' = Len(lines')
  BY <1>1, <1>3, <1>4, <1>6 DEF FirstReader
<1>7. ASSUME parses' = 1 PROVE \A i \in DOMAIN Messages' : WholeMessage(out, i)'
  BY <1>1, <1>2, <1>7 DEF FirstReader
<1> QED
  BY <1>5, <1>6, <1>7 DEF FirstReader

(* A chunk read on the first reader. *)
LEMMA FirstReaderExec ==
    ASSUME TypeOK, TypeOK', Reported, Reported', FirstReader, Exec, parses = 1
    PROVE  FirstReader'
<1>0. /\ phase = "reading" /\ phase' # "idle" /\ parses' = 1
      /\ Messages = out
  BY ExecCases, OpenMessages DEF Reported
<1>g. Gathered /\ Gathered'
  BY DEF Reported
<1>1. PICK c \in Chunks : ExecOf(c)
  BY ExecCases, Zenon
<1>2. c.n = Len(lines) + 1 /\ c.term = TRUE /\ lines' = Append(lines, c)
  BY <1>1 DEF ExecOf, NextChunk
<1>t. /\ out \in Seq(Results) /\ out' \in Seq(Results) /\ candidate \in Seq(Chunks)
      /\ lines \in Seq(Chunks) /\ Len(lines) \in Nat /\ Len(out) \in Nat
      /\ Len(lines') = Len(lines) + 1
  BY <1>2 DEF TypeOK, Results
<1>m. Messages' = out'
  <2>1. out' # <<>> => Len(out') \in DOMAIN out'
    BY <1>t
  <2>2. out' # <<>> => ~IsRest(out[Len(out)])'
    BY <1>0, <1>g, <2>1 DEF Gathered
  <2> QED
    BY <2>2 DEF Messages
<1>3. ASSUME cs' = 3, \A i \in DOMAIN out' : WholeMessage(out', i), OpenMessage'
      PROVE  FirstReader'
  BY <1>0, <1>m, <1>3 DEF FirstReader
<1>4. CASE ExecInit(c) /\ candidate = <<>>
  <2>1. cs = 1 /\ lines = <<>> /\ out = <<>>
    <3>1. cs # 3
      BY <1>g, <1>4 DEF Gathered
    <3>2. cs = 1
      BY <1>4, <3>1 DEF ExecInit
    <3> QED
      BY <1>0, <3>2 DEF FirstReader
  <2>2. cs' = 3 /\ candidate' = <<c>> /\ out' = <<>> /\ c.kind = "lt"
    BY <1>4, <2>1 DEF ExecInit
  <2>3. OpenMessage'
    <3>1. BeginsAt(out, Len(out) + 1)' = 1 /\ Len(lines') = 1 /\ c.n = 1
      BY <1>2, <1>t, <2>1, <2>2 DEF BeginsAt
    <3>2. IsMessage(candidate', 1, 1)
      BY <2>2, <3>1 DEF IsMessage
    <3>3. IsMessage(candidate, BeginsAt(out, Len(out) + 1), Len(lines))'
      BY <3>1, <3>2
    <3>4. \A j \in DOMAIN candidate' : candidate'[j].term
      BY <1>2, <2>2
    <3> QED
      BY <3>3, <3>4 DEF OpenMessage
  <2> QED
    BY <1>3, <2>2, <2>3
<1>5. CASE ExecInit(c) /\ candidate # <<>>
  <2>1. cs = 3
    BY <1>0, <1>5 DEF FirstReader
  <2>2. OpenMessage /\ \A i \in DOMAIN out : WholeMessage(out, i)
    BY <1>0, <2>1 DEF FirstReader
  <2>3. /\ cs' = 3 /\ candidate' = <<c>> /\ c.kind = "lt"
        /\ Len(out') = Len(out) + 1 /\ out'[Len(out) + 1].lines = Trimmed
        /\ \A i \in DOMAIN out : out'[i] = out[i]
    <3>1. c.kind = "lt"
      BY <1>5 DEF ExecInit
    <3> QED
      BY <1>5, <3>1, InitOut
  <2>4. \A i \in DOMAIN out : i \in DOMAIN out'
    BY <1>t, <2>3
  <2>5. WholeMessage(out', Len(out) + 1) /\ LastOf(out'[Len(out) + 1].lines) = Len(lines)
    BY <1>5, <1>g, <1>t, <2>2, <2>3, MessageEmitted
  <2>6. \A i \in DOMAIN out' : WholeMessage(out', i)
    <3>1. \A i \in DOMAIN out : WholeMessage(out', i)
      BY <1>t, <2>2, <2>3, <2>4, MessageKept
    <3>2. \A i \in DOMAIN out' : i \in DOMAIN out \/ i = Len(out) + 1
      BY <1>t, <2>3
    <3> QED
      BY <2>5, <3>1, <3>2
  <2>7. OpenMessage'
    <3>1. BeginsAt(out, Len(out) + 1)' = Len(lines) + 1
      BY <1>t, <2>3, <2>5 DEF BeginsAt
    <3>2. IsMessage(candidate', Len(lines) + 1, Len(lines) + 1)
      BY <1>2, <1>t, <2>3 DEF IsMessage
    <3>3. IsMessage(candidate, BeginsAt(out, Len(out) + 1), Len(lines))'
      BY <1>t, <3>1, <3>2
    <3>4. \A j \in DOMAIN candidate' : candidate'[j].term
      BY <1>2, <2>3
    <3> QED
      BY <3>3, <3>4 DEF OpenMessage
  <2> QED
    BY <1>3, <2>3, <2>6, <2>7
<1>6. CASE ExecContinue(c)
  <2>1. /\ cs = 3 /\ cs' = 3 /\ c.kind # "lt" /\ out' = out
        /\ candidate' = Append(candidate, c) /\ candidate # <<>>
    BY <1>6, <1>g DEF ExecContinue, Gathered
  <2>2. OpenMessage /\ \A i \in DOMAIN out : WholeMessage(out, i)
    BY <1>0, <2>1 DEF FirstReader
  <2> DEFINE a == BeginsAt(out, Len(out) + 1)
             L == Len(candidate)
  <2>3. a \in Int /\ L \in Nat \ {0} /\ DOMAIN candidate = 1..L
    BY <1>g, <1>t, <2>1, BeginsAtType
  <2>4. /\ DOMAIN candidate' = 1..(L + 1) /\ Len(candidate') = L + 1 /\ candidate'[L + 1] = c
        /\ \A i \in 1..L : candidate'[i] = candidate[i]
    BY <1>t, <2>1
  <2>5. /\ L = Len(lines) - a + 1 /\ a <= Len(lines)
        /\ \A i \in 1..L : candidate[i].n = a + i - 1 /\ (candidate[i].kind = "lt" <=> i = 1)
        /\ \A i \in 1..L : candidate[i].term
    BY <2>2, <2>3 DEF OpenMessage, IsMessage
  <2>6. a' = a
    BY <2>1 DEF BeginsAt, LastOf
  <2> HIDE DEF a, L
  <2>7. \A i \in 1..(L + 1) : i \in 1..L \/ i = L + 1
    BY <2>3
  <2>8. \A i \in 1..(L + 1) :
          /\ candidate'[i].n = a + i - 1
          /\ candidate'[i].kind = "lt" <=> i = 1
          /\ candidate'[i].term
    <3> SUFFICES ASSUME NEW i \in 1..(L + 1)
                 PROVE  /\ candidate'[i].n = a + i - 1
                        /\ candidate'[i].kind = "lt" <=> i = 1
                        /\ candidate'[i].term
      OBVIOUS
    <3>1. CASE i \in 1..L
      BY <2>4, <2>5, <3>1
    <3>2. CASE i = L + 1
      <4>1. c.n = a + i - 1 /\ i # 1
        BY <1>2, <1>t, <2>3, <2>5, <3>2
      <4> QED
        BY <1>2, <2>1, <2>4, <3>2, <4>1
    <3> QED
      BY <2>7, <3>1, <3>2
  <2>9. IsMessage(candidate', a, Len(lines'))
    <3>1. L + 1 = Len(lines') - a + 1 /\ a <= Len(lines')
      BY <1>t, <2>3, <2>5
    <3> QED
      BY <2>4, <2>8, <3>1, Zenon DEF IsMessage
  <2>10. OpenMessage'
    <3>1. BeginsAt(out, Len(out) + 1)' = a
      BY <2>6 DEF a
    <3>2. IsMessage(candidate, BeginsAt(out, Len(out) + 1), Len(lines))'
      BY <2>9, <3>1
    <3> QED
      BY <2>4, <2>8, <3>2, Zenon DEF OpenMessage
  <2> QED
    BY <1>3, <2>1, <2>2, <2>10
<1>7. CASE ExecError(c)
  <2>1. cs # 3 /\ cs' = 0 /\ candidate' = candidate /\ out' = out
    BY <1>7 DEF ExecError
  <2>2. candidate' = <<>> /\ out' = <<>> /\ Messages' = <<>>
    BY <1>0, <1>m, <2>1 DEF FirstReader
  <2> QED
    BY <1>0, <2>1, <2>2 DEF FirstReader
<1> QED
  BY <1>1, <1>4, <1>5, <1>6, <1>7 DEF ExecOf

(* The first reader completed: the candidate is the last message. *)
LEMMA FirstReaderCompletion ==
    ASSUME TypeOK, Reported, Reported', FirstReader, OnCompletion, parses = 1
    PROVE  FirstReader'
<1>0. /\ phase = "ended" /\ phase' = "idle" /\ parses' = 1 /\ cs' = cs /\ lines' = lines
      /\ Messages = out /\ candidate' = IF candidate # <<>> THEN Trimmed ELSE candidate
      /\ Gathered /\ lastChunk.n = 0
  BY OpenMessages DEF OnCompletion, configVars, Reported, Gathered
<1>t. out \in Seq(Results) /\ candidate \in Seq(Chunks) /\ Len(out) \in Nat
  BY DEF TypeOK, Results
<1>1. /\ out' \in Seq(Results) /\ Len(out') \in {Cut, Cut + 1}
      /\ \A i \in DOMAIN out : i \in DOMAIN out' /\ out'[i] = out[i]
      /\ candidate # <<>> => out'[Len(out) + 1].lines = Trimmed
      /\ Len(out') = Cut + 1 => out'[Cut + 1].lines = <<lastChunk>>
  BY CompletionOut, Zenon
<1>2. Cut \in Nat /\ (candidate # <<>> => Cut = Len(out) + 1) /\ (candidate = <<>> => Cut = Len(out))
  BY <1>t DEF Cut
<1> DEFINE M == MessagesOf(out')
<1>3. Messages' = M
  BY DEF Messages, MessagesOf, IsRest
<1>4. /\ Len(M) \in Nat /\ DOMAIN M = 1..Len(M)
      /\ out' = <<>> => M = <<>>
      /\ out' # <<>> /\ IsRest(out'[Len(out')]) => Len(M) = Len(out') - 1
      /\ (out' = <<>> \/ ~IsRest(out'[Len(out')])) => M = out'
  BY <1>1, MessagesShape
<1> HIDE DEF M
<1>5. Len(out') = Cut + 1 => Len(M) = Cut
  <2>1. ASSUME Len(out') = Cut + 1 PROVE out' # <<>> /\ IsRest(out'[Len(out')])
    <3>1. out'[Len(out')].lines = <<lastChunk>>
      BY <1>1, <2>1
    <3>2. out'[Len(out')].lines[1].n = 0
      BY <1>0, <3>1
    <3> QED
      BY <1>1, <1>2, <2>1, <3>2 DEF IsRest
  <2> QED
    BY <1>2, <1>4, <2>1
<1>6. CASE cs # 3
  <2>1. candidate = <<>> /\ out = <<>> /\ Cut = 0
    BY <1>0, <1>2, <1>6 DEF FirstReader
  <2>2. Len(M) = 0
    <3>1. CASE Len(out') = Cut
      BY <1>1, <1>4, <2>1, <3>1
    <3>2. CASE Len(out') = Cut + 1
      BY <1>5, <2>1, <3>2
    <3> QED
      BY <1>1, <3>1, <3>2
  <2>3. M = <<>>
    <3>1. M \in Seq(Results)
      <4>1. CASE out' # <<>> /\ IsRest(out'[Len(out')])
        <5>1. Len(out') = 1
          BY <1>1, <1>4, <2>2, <4>1
        <5>2. M = SubSeq(out', 1, 0)
          BY <4>1, <5>1 DEF M, MessagesOf
        <5> QED
          BY <5>2
      <4>2. CASE out' = <<>> \/ ~IsRest(out'[Len(out')])
        BY <1>1, <1>4, <4>2
      <4> QED
        BY <4>1, <4>2
    <3> QED
      BY <2>2, <3>1
  <2>4. DOMAIN M = {}
    BY <1>4, <2>2
  <2> QED
    BY <1>0, <1>3, <1>6, <2>1, <2>3, <2>4 DEF FirstReader
<1>7. CASE cs = 3
  <2>1. candidate # <<>> /\ OpenMessage /\ Cut = Len(out) + 1
    BY <1>0, <1>2, <1>7 DEF Gathered, FirstReader
  <2>2. \A i \in DOMAIN out : WholeMessage(out, i)
    BY <1>0 DEF FirstReader
  <2>3. WholeMessage(out', Cut) /\ LastOf(out'[Cut].lines) = Len(lines)
    BY <1>0, <1>1, <2>1, MessageEmitted
  <2>4. \A i \in DOMAIN out : WholeMessage(out', i)
    BY <1>1, <1>t, <2>2, MessageKept
  <2>5. Len(M) = Cut
    <3>1. CASE Len(out') = Cut
      <4>1. out'[Len(out')].lines = Trimmed
        BY <1>1, <2>1, <3>1
      <4>2. Trimmed[1].n # 0
        BY <1>0, <2>1, FirstOfTrimmed
      <4>3. ~IsRest(out'[Len(out')])
        BY <4>1, <4>2 DEF IsRest
      <4> QED
        BY <1>4, <3>1, <4>3
    <3> QED
      BY <1>1, <1>5, <3>1
  <2>6. \A i \in DOMAIN M : WholeMessage(out', i)
    <3>1. \A i \in 1..Cut : i \in DOMAIN out \/ i = Cut
      BY <1>t, <2>1
    <3> QED
      BY <1>4, <2>3, <2>4, <2>5, <3>1
  <2>7. M # <<>>
    BY <1>2, <2>1, <2>5, <1>t
  <2>8. \A i \in DOMAIN Messages' : WholeMessage(out, i)'
    BY <1>3, <2>6 DEF WholeMessage, IsMessage, BeginsAt, LastOf
  <2>9. LastOf(out[Len(Messages)].lines)' = Len(lines')
    BY <1>0, <1>3, <2>3, <2>5 DEF LastOf
  <2> QED
    BY <1>0, <1>3, <1>7, <2>7, <2>8, <2>9 DEF FirstReader
<1> QED
  BY <1>6, <1>7

(* Every step keeps the first reader's lines. *)
LEMMA FirstReaderStep ==
    ASSUME TypeOK, TypeOK', Reported, Reported', FirstReader, [Next]_vars
    PROVE  FirstReader'
<1>n. parses \in Nat
  BY NTAssumption DEF TypeOK
<1>o. ASSUME parses \notin {0, 1}, parses' = parses PROVE FirstReader'
  BY <1>o DEF FirstReader
<1>z. parses = 0 => phase = "idle"
  BY DEF FirstReader
<1>1. CASE UNCHANGED vars
  BY <1>1, FirstReaderFrame DEF vars, fsmVars
<1>2. CASE WithBestEffort
  BY <1>2, FirstReaderFrame DEF WithBestEffort, fsmVars
<1>3. CASE Parse
  <2>1. /\ parses' = parses + 1 /\ phase' = "reading" /\ cs' = 1
        /\ out' = <<>> /\ lines' = <<>> /\ candidate' = candidate
    BY <1>3 DEF Parse
  <2>2. CASE parses = 0
    <3>1. candidate' = <<>>
      BY <2>1, <2>2 DEF FirstReader
    <3>2. Messages' = <<>>
      BY <2>1 DEF Messages
    <3> QED
      BY <2>1, <2>2, <3>1, <3>2 DEF FirstReader
  <2>3. CASE parses # 0
    BY <1>n, <2>1, <2>3 DEF FirstReader
  <2> QED
    BY <2>2, <2>3
<1>4. CASE Exec
  <2>1. parses # 0 /\ parses' = parses
    BY <1>4, <1>z, ExecCases
  <2> QED
    BY <1>4, <1>o, <2>1, FirstReaderExec
<1>5. CASE OnErr
  BY <1>5, FirstReaderFrame DEF OnErr, fsmVars
<1>6. CASE OnEOF
  BY <1>6, FirstReaderFrame DEF OnEOF, fsmVars
<1>7. CASE OnCompletion
  <2>1. parses # 0 /\ parses' = parses
    BY <1>7, <1>z DEF OnCompletion
  <2> QED
    BY <1>7, <1>o, <2>1, FirstReaderCompletion
<1> QED
  BY <1>1, <1>2, <1>3, <1>4, <1>5, <1>6, <1>7 DEF Next

(* What the invariant says of the results is that the lines are conserved.  *)
LEMMA ConservedByCut ==
    ASSUME TypeOK, Reported, FirstReader
    PROVE  LinesConserved
<1> SUFFICES ASSUME parses = 1 PROVE LinesConserved
  BY DEF LinesConserved
<1> DEFINE msgs == [i \in DOMAIN Messages |-> Messages[i].lines]
           held == IF phase = "idle" THEN <<>> ELSE <<candidate>>
           all  == IF cs = 3 THEN msgs \o held ELSE msgs
           upto(i) == all[i][Len(all[i])].n
           M == Len(Messages)
<1>t. out \in Seq(Results) /\ Gathered /\ Len(lines) \in Nat
  BY DEF TypeOK, Results, Reported
<1>1. M \in Nat /\ DOMAIN Messages = 1..M /\ \A i \in 1..M : i \in DOMAIN out /\ Messages[i] = out[i]
  <2>1. Messages = MessagesOf(out)
    BY DEF Messages, MessagesOf
  <2> QED
    BY <1>t, <2>1, MessagesShape
<1>2. \A i \in 1..M : WholeMessage(out, i)
  BY <1>1 DEF FirstReader
<1>3. /\ msgs \in Seq({out[i].lines : i \in DOMAIN out}) /\ Len(msgs) = M
      /\ DOMAIN msgs = 1..M /\ \A i \in 1..M : msgs[i] = out[i].lines
  BY <1>1
<1> HIDE DEF msgs
<1>4. \A i \in DOMAIN msgs : \A j \in DOMAIN msgs[i] : msgs[i][j].term <=> j < Len(msgs[i])
  BY <1>2, <1>3 DEF WholeMessage
<1>5. cs # 3 => out = <<>> \/ (phase = "idle" /\ Messages = <<>>)
  BY DEF FirstReader
<1>6. ASSUME cs = 3
      PROVE  /\ Len(all) > 0 /\ upto(Len(all)) = Len(lines)
             /\ \A i \in DOMAIN all :
                   IsMessage(all[i], IF i = 1 THEN 1 ELSE upto(i - 1) + 1, upto(i))
  <2>w. \A i \in 1..M : IsMessage(out[i].lines, IF i = 1 THEN 1 ELSE LastOf(out[i - 1].lines) + 1,
                                   LastOf(out[i].lines))
    BY <1>2 DEF WholeMessage, BeginsAt
  <2>1. CASE phase = "idle"
    <3>1. all = msgs
      <4>1. msgs \o <<>> = msgs
        BY <1>3, ConcatEmptySeq
      <4> QED
        BY <1>6, <2>1, <4>1
    <3>2. M > 0 /\ LastOf(out[M].lines) = Len(lines)
      <4>1. Messages # <<>> /\ LastOf(out[M].lines) = Len(lines)
        BY <1>6, <2>1 DEF FirstReader
      <4>2. Messages \in Seq({out[i] : i \in DOMAIN out})
        BY <1>1, <1>t DEF Messages
      <4> QED
        BY <1>1, <4>1, <4>2
    <3> HIDE DEF all
    <3>3. \A i \in 1..M : upto(i) = LastOf(out[i].lines)
      BY <1>3, <3>1 DEF LastOf
    <3>4. \A i \in 1..M : i # 1 => i - 1 \in 1..M
      BY <1>1
    <3> HIDE DEF upto
    <3>5. Len(all) = M /\ DOMAIN all = 1..M /\ M \in 1..M
      BY <1>1, <1>3, <3>1, <3>2
    <3>6. \A i \in 1..M : IsMessage(all[i], IF i = 1 THEN 1 ELSE upto(i - 1) + 1, upto(i))
      BY <1>3, <2>w, <3>1, <3>3, <3>4
    <3> QED
      BY <3>2, <3>3, <3>5, <3>6 DEF upto
  <2>2. CASE phase # "idle"
    <3>1. OpenMessage /\ Messages = out /\ M = Len(out)
      BY <1>6, <1>t, <2>2, OpenMessages DEF FirstReader
    <3>2. all = msgs \o <<candidate>>
      BY <1>6, <2>2
    <3>3. /\ Len(all) = M + 1 /\ DOMAIN all = 1..(M + 1) /\ all[M + 1] = candidate
          /\ \A i \in 1..M : all[i] = out[i].lines
      <4> DEFINE S == {out[i].lines : i \in DOMAIN out} \cup {candidate}
      <4>1. msgs \in Seq(S) /\ <<candidate>> \in Seq(S)
        BY <1>3
      <4> HIDE DEF S, all
      <4>2. msgs \o <<candidate>> \in Seq(S) /\ Len(msgs \o <<candidate>>) = M + 1
            /\ \A i \in 1..(M + 1) : (msgs \o <<candidate>>)[i] =
                   IF i <= M THEN msgs[i] ELSE <<candidate>>[i - M]
        BY <1>1, <1>3, <4>1, ConcatProperties
      <4> QED
        BY <1>1, <1>3, <3>2, <4>2
    <3> HIDE DEF all
    <3>4. \A i \in 1..M : upto(i) = LastOf(out[i].lines)
      BY <3>3 DEF LastOf
    <3>5. upto(M + 1) = LastOf(candidate)
      BY <3>3 DEF LastOf
    <3>6. LastOf(candidate) = Len(lines)
      <4> DEFINE a == BeginsAt(out, Len(out) + 1)
                 L == Len(candidate)
      <4>1. a \in Int /\ L \in Nat \ {0} /\ DOMAIN candidate = 1..L
        BY <1>6, <1>t, BeginsAtType DEF Gathered, TypeOK
      <4>2. L = Len(lines) - a + 1 /\ \A i \in 1..L : candidate[i].n = a + i - 1
        BY <3>1, <4>1 DEF OpenMessage, IsMessage
      <4> HIDE DEF a, L
      <4>3. candidate[L].n = a + L - 1
        BY <4>1, <4>2
      <4> QED
        BY <1>t, <4>1, <4>2, <4>3 DEF LastOf, L
    <3> HIDE DEF upto
    <3>7. ASSUME NEW i \in 1..(M + 1)
          PROVE  IsMessage(all[i], IF i = 1 THEN 1 ELSE upto(i - 1) + 1, upto(i))
      <4>1. CASE i \in 1..M
        <5>1. i # 1 => i - 1 \in 1..M
          BY <1>1, <4>1
        <5> QED
          BY <2>w, <3>3, <3>4, <4>1, <5>1
      <4>2. CASE i = M + 1
        <5>1. i # 1 => M \in 1..M /\ i - 1 = M
          BY <1>1, <4>2
        <5>2. BeginsAt(out, M + 1) = IF i = 1 THEN 1 ELSE upto(i - 1) + 1
          BY <1>1, <3>4, <4>2, <5>1 DEF BeginsAt
        <5>3. IsMessage(candidate, BeginsAt(out, M + 1), Len(lines))
          BY <3>1 DEF OpenMessage
        <5> QED
          BY <3>3, <3>5, <3>6, <4>2, <5>2, <5>3
      <4> QED
        BY <1>1, <4>1, <4>2
    <3> QED
      BY <1>1, <3>3, <3>5, <3>6, <3>7
  <2> QED
    BY <2>1, <2>2
<1> QED
  BY <1>4, <1>5, <1>6 DEF LinesConserved, msgs

-----------------------------------------------------------------------------
(* The theorems. *)

(* The invariant is inductive. *)
LEMMA Invariant == Spec => [](TypeOK /\ Reported /\ FirstReader)
<1>1. Init => TypeOK /\ Reported /\ FirstReader
  BY TypeInit, ReportedInit, FirstReaderInit
<1>2. TypeOK /\ Reported /\ FirstReader /\ [Next]_vars => (TypeOK /\ Reported /\ FirstReader)'
  BY TypeStep, ReportedStep, FirstReaderStep
<1> QED
  BY <1>1, <1>2, PTL DEF Spec

(* The parser's variables keep their types, through any number of readers.  *)
THEOREM TypeCorrect == Spec => []TypeOK
  BY Invariant, PTL

(* Between on_trailer, on_init and OnCompletion (parser.go:59-199) no line  *)
(* of a parser's first reader is lost, split, merged or repeated.           *)
THEOREM NoLineLost == Spec => []LinesConserved
<1>1. TypeOK /\ Reported /\ FirstReader => LinesConserved
  BY ConservedByCut
<1> QED
  BY <1>1, Invariant, PTL

(* OnCompletion (parser.go:188-199) reports a rest last, and without best   *)
(* effort as an error, never as a message.                                  *)
THEOREM RestRefused == Spec => []RestIsLastAndRefused
<1>1. Reported => RestIsLastAndRefused
  BY DEF Reported
<1> QED
  BY <1>1, Invariant, PTL

(* A reused parser reports at most the one candidate of an earlier reader,  *)
(* first, and the one rest of an earlier reader, last.                      *)
THEOREM LeakBounded == Spec => []LeakIsBounded
<1>1. Reported => LeakIsBounded
  BY DEF Reported
<1> QED
  BY <1>1, Invariant, PTL
=============================================================================
