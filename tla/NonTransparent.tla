--------------------------- MODULE NonTransparent ---------------------------
(***************************************************************************)
(* The non-transparent stream parser (nontransparent/parser.go, generated  *)
(* from parser.go.rl): lines ending in the trailer byte are gathered into  *)
(* a candidate message until a line beginning with '<' starts the next.    *)
(*                                                                         *)
(* The ragel-machinery driver is not in the repository.  It is modelled    *)
(* from how the code uses it: it reads up to and including the trailer,    *)
(* calls Exec on each such chunk, calls OnErr with an unterminated rest or *)
(* OnEOF at a clean end, and OnCompletion last.  Whether it goes on after   *)
(* the machine stopped in its error state is left open.                     *)
(*                                                                         *)
(* A chunk is its place in the stream and what it begins with.              *)
(***************************************************************************)
EXTENDS Integers, Sequences

CONSTANTS
    NTFamilies,    \* constructors in use: "rfc5424", "rfc3164", "auto"
    MaxLines,      \* bound: terminated chunks per reader
    NTMaxParses    \* bound: Parse calls on one parser

ASSUME NTAssumption ==
    /\ NTFamilies \subseteq {"rfc5424", "rfc3164", "auto"}
    /\ MaxLines \in Nat /\ NTMaxParses \in Nat

VARIABLES
    phase,      \* "idle", "reading", "ended" (before OnCompletion)
    cs,         \* FSM: 1 start, 2 in a line, 3 after a trailer, 0 error
    candidate,  \* the lines gathered
    lastChunk, readError,   \* set by OnErr
    family, bestEffort, internalBE,   \* constructor, parser's flag, machine's flag
    out,        \* results of the current (or latest) Parse
    lines,      \* the terminated chunks of the current reader
    parses      \* Parse calls so far; the number of the current reader

configVars == <<family, bestEffort, internalBE>>
fsmVars    == <<cs, candidate>>
vars == <<phase, fsmVars, lastChunk, readError, configVars, out, lines, parses>>

(* A chunk: the reader it came from, its number there (0 for a rest without *)
(* trailer), whether it begins with '<', with other text or is nothing but  *)
(* its trailer, and whether that trailer is still there.                    *)
Kinds   == {"lt", "text", "bare"}
Chunks  == [reader : Nat, n : Nat, kind : Kinds, term : BOOLEAN]
NoChunk == [reader |-> 0, n |-> 0, kind |-> "bare", term |-> FALSE]

(* What internal.Parse may answer.  The RFC 3164 machine may give neither a *)
(* message nor an error; in best effort, of an input without PRI.           *)
internalParse ==
    LET answer(m, e) == [msg |-> m, err |-> e]
    IN  {answer(TRUE, "nil"), answer(FALSE, "inner")}
        \cup (IF internalBE THEN {answer(TRUE, "inner")} ELSE {})
        \cup (IF family = "rfc3164" THEN {answer(FALSE, "nil")} ELSE {})

Result(r, ls) == [msg |-> r.msg, err |-> r.err, lines |-> ls]

(* m.process: a trailer that ends the candidate is cut off it, and the      *)
(* candidate stays.  A bare chunk whose trailer is gone is no byte at all.  *)
IsEmpty(c) == c.kind = "bare" /\ ~c.term
Trimmed ==
    LET ends == {i \in DOMAIN candidate :
                    /\ ~IsEmpty(candidate[i])
                    /\ \A j \in (i + 1)..Len(candidate) : IsEmpty(candidate[j])}
    IN  [i \in DOMAIN candidate |->
            IF i \in ends THEN [candidate[i] EXCEPT !.term = FALSE] ELSE candidate[i]]
process(r) == Result(r, Trimmed)

Init ==
    /\ phase = "idle" /\ cs = 1 /\ candidate = <<>>
    /\ lastChunk = NoChunk /\ readError = "nil"
    /\ family \in NTFamilies
    /\ bestEffort \in BOOLEAN /\ internalBE \in BOOLEAN
    /\ bestEffort => internalBE      \* a machine option may set it as well
    /\ out = <<>> /\ lines = <<>> /\ parses = 0

(* The method, after construction: the machine is not told. *)
WithBestEffort ==
    /\ phase = "idle" /\ ~bestEffort
    /\ bestEffort' = TRUE
    /\ UNCHANGED <<phase, fsmVars, lastChunk, readError, family, internalBE, out, lines, parses>>

(* Parse: a new reader and a new driver state; the machine is not reset. *)
Parse ==
    /\ phase = "idle" /\ parses < NTMaxParses
    /\ phase' = "reading" /\ cs' = 1
    /\ out' = <<>> /\ lines' = <<>> /\ parses' = parses + 1
    /\ UNCHANGED <<candidate, lastChunk, readError, configVars>>

(* Mutant: the candidate is not emptied. *)
ExecInitKeeps(c) ==
    /\ c.kind = "lt" /\ cs \in {1, 3}
    /\ IF candidate # <<>>
       THEN \E r \in internalParse : out' = Append(out, process(r))
       ELSE UNCHANGED out
    /\ candidate' = Append(candidate, c)
    /\ cs' = 3

(* on_init, then the rest of the chunk and on_trailer. *)
ExecInit(c) ==
    /\ c.kind = "lt" /\ cs \in {1, 3}
    /\ IF candidate # <<>>
       THEN \E r \in internalParse : out' = Append(out, process(r))
       ELSE UNCHANGED out
    /\ candidate' = <<c>>
    /\ cs' = 3

(* Mutant: the trailer of a continuation line is not noticed. *)
ExecContinueInLine(c) ==
    /\ c.kind # "lt" /\ cs = 3
    /\ candidate' = Append(candidate, c)
    /\ cs' = 2
    /\ UNCHANGED out

(* A continuation line: on_trailer only. *)
ExecContinue(c) ==
    /\ c.kind # "lt" /\ cs = 3
    /\ candidate' = Append(candidate, c)
    /\ cs' = 3
    /\ UNCHANGED out

(* No '<' at the very start, or already in the error state. *)
ExecError(c) ==
    /\ cs = 0 \/ (cs = 1 /\ c.kind # "lt")
    /\ cs' = 0
    /\ UNCHANGED <<candidate, out>>

Exec ==
    /\ phase = "reading" /\ Len(lines) < MaxLines
    /\ \E k \in Kinds :
          LET c == [reader |-> parses, n |-> Len(lines) + 1, kind |-> k, term |-> TRUE]
          IN  /\ lines' = Append(lines, c)
              /\ ExecInit(c) \/ ExecContinue(c) \/ ExecError(c)
    /\ phase' \in IF cs' = 0 THEN {"reading", "ended"} ELSE {"reading"}
    /\ UNCHANGED <<lastChunk, readError, configVars, parses>>

(* The reader ends within a line, or fails: the rest may be empty. *)
Rest(k) == [reader |-> parses, n |-> 0, kind |-> k, term |-> FALSE]
OnErr ==
    /\ phase = "reading"
    /\ phase' = "ended"
    /\ lastChunk' \in {Rest("lt"), Rest("text"), NoChunk}
    /\ readError' = "read"
    /\ UNCHANGED <<fsmVars, configVars, out, lines, parses>>

OnEOF ==
    /\ phase = "reading"
    /\ phase' = "ended"
    /\ UNCHANGED <<fsmVars, lastChunk, readError, configVars, out, lines, parses>>

(* Mutant: a rest the machine accepts is a message. *)
TailResultAsIs(r) == r
(* The rest without trailer: strict, even a good message is an error. *)
TailResult(r) ==
    IF r.err = "nil" /\ ~internalBE THEN [msg |-> FALSE, err |-> readError] ELSE r

CompletionResults(r, t) ==
    (IF candidate # <<>> THEN <<process(r)>> ELSE <<>>)
    \o (IF readError # "nil" /\ lastChunk # NoChunk
        THEN <<Result(TailResult(t), <<lastChunk>>)>> ELSE <<>>)

(* Mutant: nothing to report, nothing to complete. *)
OnCompletionOfCandidate ==
    /\ phase = "ended" /\ candidate # <<>>
    /\ phase' = "idle"
    /\ \E r \in internalParse, t \in internalParse : out' = out \o CompletionResults(r, t)
    /\ candidate' = Trimmed
    /\ UNCHANGED <<cs, lastChunk, readError, configVars, lines, parses>>

OnCompletion ==
    /\ phase = "ended"
    /\ phase' = "idle"
    /\ \E r \in internalParse, t \in internalParse : out' = out \o CompletionResults(r, t)
    /\ candidate' = IF candidate # <<>> THEN Trimmed ELSE candidate
    /\ UNCHANGED <<cs, lastChunk, readError, configVars, lines, parses>>

Next == WithBestEffort \/ Parse \/ Exec \/ OnErr \/ OnEOF \/ OnCompletion

(* The driver goes on until the reader ends, which a finite one does. *)
Spec == Init /\ [][Next]_vars /\ WF_vars(Exec \/ OnErr \/ OnEOF) /\ WF_vars(OnCompletion)

-----------------------------------------------------------------------------
(* Every variable has its type. *)
TypeOK ==
    /\ phase \in {"idle", "reading", "ended"} /\ cs \in {0, 1, 3}
    /\ candidate \in Seq(Chunks) /\ lines \in Seq(Chunks)
    /\ lastChunk \in Chunks /\ readError \in {"nil", "read"}
    /\ family \in NTFamilies /\ bestEffort \in BOOLEAN /\ internalBE \in BOOLEAN
    /\ out \in Seq([msg : BOOLEAN, err : {"nil", "inner", "read"}, lines : Seq(Chunks)])
    /\ parses \in 0..NTMaxParses

(* The results cut from terminated lines; the rest of a stream is reported  *)
(* apart, as the last result (RestIsLastAndRefused).                        *)
IsRest(r) == r.lines[1].n = 0
Messages  == IF out # <<>> /\ IsRest(out[Len(out)]) THEN SubSeq(out, 1, Len(out) - 1) ELSE out

(* ls is one message: lines a..b of the stream, '<' on the first only. *)
IsMessage(ls, a, b) ==
    /\ Len(ls) = b - a + 1 /\ a <= b
    /\ \A i \in DOMAIN ls : ls[i].n = a + i - 1 /\ (ls[i].kind = "lt" <=> i = 1)

(* On a parser's first reader nothing is lost, split, merged or repeated    *)
(* between on_trailer, on_init and OnCompletion (parser.go:59-199): the     *)
(* messages emitted, followed by the candidate while the reader is open,    *)
(* are the lines read so far, cut exactly before each line that begins      *)
(* with '<'; a stream that does not begin with '<' yields none.  So at most *)
(* one message, the latest, is ever held back.  A message emitted lacks the *)
(* trailer of its last line and no other.                                   *)
LinesConserved ==
    parses = 1 =>
        LET held == IF phase = "idle" THEN <<>> ELSE <<candidate>>
            msgs == [i \in DOMAIN Messages |-> Messages[i].lines]
            all  == IF cs = 3 THEN msgs \o held ELSE msgs
            upto(i) == all[i][Len(all[i])].n
        IN  /\ \A i \in DOMAIN msgs : \A j \in DOMAIN msgs[i] :
                  msgs[i][j].term <=> j < Len(msgs[i])
            /\ cs # 3 => out = <<>> \/ (phase = "idle" /\ Messages = <<>>)
            /\ cs = 3 => /\ Len(all) > 0 /\ upto(Len(all)) = Len(lines)
                         /\ \A i \in DOMAIN all :
                              IsMessage(all[i], IF i = 1 THEN 1 ELSE upto(i - 1) + 1, upto(i))

(* Without best effort a rest that no trailer ended is never reported as a  *)
(* message nor without an error, even when the machine accepted it          *)
(* (OnCompletion, parser.go:189-198), and it is the last result.            *)
RestIsLastAndRefused ==
    \A i \in DOMAIN out : IsRest(out[i]) =>
        /\ i = Len(out)
        /\ internalBE \/ (~out[i].msg /\ out[i].err # "nil")

(* What a reused parser can leak: at most one message of an earlier reader, *)
(* reported first, and one rest of an earlier reader, reported last.        *)
LeakIsBounded ==
    \A i \in DOMAIN out :
        out[i].lines[1].reader # parses => i = 1 \/ (i = Len(out) /\ IsRest(out[i]))

(* Parse returns on every finite stream. *)
ParseReturns == phase # "idle" ~> phase = "idle"

(* What Parse announces ("Parse parses the io.Reader incoming bytes",       *)
(* parser.go:289): every result comes from the reader of this call.         *)
OwnReaderOnly == \A i \in DOMAIN out : out[i].lines[1].reader = parses
=============================================================================
