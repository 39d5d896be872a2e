--------------------------- MODULE Rfc5424Parser ---------------------------
(***************************************************************************)
(* The parser of RFC 5424 messages (rfc5424/parser.go): one machine under  *)
(* a mutex, called by several goroutines.  An input is either any sequence *)
(* of tokens, chosen while it is read, or what a builder's String returned.*)
(***************************************************************************)
EXTENDS Rfc5424Builder, FiniteSets

CONSTANTS
    Goroutines,
    Configs,      \* the machine's options
    Alphabet,     \* the tokens tried in each state of the machine
    MaxTokens,    \* bound: tokens of one input
    MaxMessage,   \* bound: tokens of its MSG
    MaxCalls      \* bound: Parse calls on one parser

ASSUME ParserAssumption ==
    /\ Configs \subseteq [compliantMsg : BOOLEAN, optionalPriority : BOOLEAN]
    /\ \A s \in DOMAIN Alphabet : Alphabet[s] \subseteq Tokens
    /\ MaxTokens \in Nat /\ MaxMessage \in Nat /\ MaxCalls \in Nat
    /\ "free" \notin Goroutines

VARIABLES
    config, bestEffort,
    m,                  \* the embedded machine
    mutex,              \* the goroutine that holds the lock, or "free"
    call,               \* each goroutine's call
    calls

parserVars == <<config, bestEffort, m, mutex, call, calls>>
vars == <<builderVars, parserVars>>

(* A call: what was built, the tokens read, the answer; and for the         *)
(* properties a machine that reads this input alone, and all the structured *)
(* data that was ever in its message.                                       *)
NoResult == Result(FALSE, Nothing, "none")
NoCall(c) == [pc |-> "idle", src |-> "any", built |-> <<>>, read |-> 0, res |-> NoResult,
              alone |-> NewMachine(c), seen |-> EmptyMap]

(* NewParser *)
Init ==
    /\ BuilderInit
    /\ config \in Configs /\ bestEffort \in BOOLEAN
    /\ m = NewMachine(config)
    /\ mutex = "free" /\ calls = 0
    /\ call = [g \in Goroutines |-> NoCall(config)]

(* Takes no lock, so it may come at any time; before the first call it is   *)
(* in Init.                                                                 *)
WithBestEffort ==
    /\ calls > 0 /\ ~bestEffort /\ bestEffort' = TRUE
    /\ UNCHANGED <<builderVars, config, m, mutex, call, calls>>

(* Setters are called before the message is sent. *)
Build == calls = 0 /\ BuilderNext /\ UNCHANGED parserVars

(* What was built is sent alone; other inputs come from other senders. *)
Call(g, src) ==
    /\ call[g].pc = "idle" /\ calls < MaxCalls
    /\ IF src = "built" THEN calls = 0 /\ HasString ELSE sets = 0
    /\ calls' = calls + 1
    /\ call' = [call EXCEPT ![g].pc = "lock", ![g].src = src,
                            ![g].built = IF src = "built" THEN String ELSE @]
    /\ UNCHANGED <<builderVars, config, bestEffort, m, mutex>>

(* Mutant: Parse runs without the lock. *)
LockNone(g) ==
    /\ call[g].pc = "lock"
    /\ mutex' = g
    /\ m' = Begin(m)
    /\ call' = [call EXCEPT ![g].pc = "read"]
    /\ UNCHANGED <<builderVars, config, bestEffort, calls>>

(* Lock, and the head of the machine's Parse.  It comes after the caller    *)
(* before has looked at its result, which no one can change any more.       *)
Lock(g) ==
    /\ call[g].pc = "lock" /\ mutex = "free"
    /\ \A h \in Goroutines : call[h].pc # "done"
    /\ mutex' = g
    /\ m' = Begin(m)
    /\ call' = [call EXCEPT ![g].pc = "read"]
    /\ UNCHANGED <<builderVars, config, bestEffort, calls>>

Updated(old, new) == [n \in DOMAIN old \cup DOMAIN new |->
                        IF n \in DOMAIN new THEN new[n] ELSE old[n]]
Merged(old, new)  == [id \in DOMAIN old \cup DOMAIN new |->
                        IF id \notin DOMAIN new THEN old[id]
                        ELSE IF id \notin DOMAIN old THEN new[id] ELSE Updated(old[id], new[id])]

Reads(g, c) ==
    LET alone == Step(call[g].alone, c)
    IN  /\ m' = Step(m, c)
        /\ call' = [call EXCEPT ![g].read = @ + 1, ![g].alone = alone,
                                ![g].seen = Merged(@, alone.output.structuredData)]

Reading(g) == call[g].pc = "read" /\ m.cs # "fail"

(* The machine reads on. *)
Read(g) ==
    /\ Reading(g)
    /\ IF call[g].src = "any"
       THEN /\ call[g].read < MaxTokens
            /\ m.cs = "msg" => Len(m.text) < MaxMessage
            /\ \E c \in Alphabet[m.cs] : Reads(g, c)
       ELSE call[g].read < Len(call[g].built) /\ Reads(g, call[g].built[call[g].read + 1])
    /\ UNCHANGED <<builderVars, config, bestEffort, mutex, calls>>

AtEnd(g) == call[g].src = "built" => call[g].read = Len(call[g].built)

(* The end of the input or an error, and the tail of the machine's Parse. *)
Finish(g) ==
    /\ call[g].pc = "read" /\ (m.cs = "fail" \/ AtEnd(g))
    /\ LET e == Eof(m)
       IN  /\ m' = e
           /\ call' = [call EXCEPT ![g].pc = "parsed", ![g].res = Answer(e, bestEffort),
                                   ![g].alone = Eof(@)]
    /\ UNCHANGED <<builderVars, config, bestEffort, mutex, calls>>

(* Mutant: the early return for an error leaves the lock held. *)
UnlockUnlessError(g) ==
    /\ call[g].pc = "parsed"
    /\ LET r == call[g].res
       IN  /\ call' = [call EXCEPT ![g].pc = "done",
                                   ![g].res = IF r.err # "nil" /\ ~bestEffort
                                              THEN Result(FALSE, Nothing, r.err) ELSE r]
           /\ mutex' = IF r.err # "nil" /\ ~bestEffort THEN mutex ELSE "free"
    /\ UNCHANGED <<builderVars, config, bestEffort, m, calls>>

(* The rest of the parser's Parse, and the deferred Unlock. *)
Unlock(g) ==
    /\ call[g].pc = "parsed"
    /\ LET r == call[g].res
       IN  call' = [call EXCEPT ![g].pc = "done",
                                ![g].res = IF r.err # "nil" /\ ~bestEffort
                                           THEN Result(FALSE, Nothing, r.err) ELSE r]
    /\ mutex' = "free"
    /\ UNCHANGED <<builderVars, config, bestEffort, m, calls>>

(* The caller has looked at its result.  What the next call will overwrite  *)
(* is forgotten.                                                            *)
Return(g) ==
    /\ call[g].pc = "done"
    /\ call' = [call EXCEPT ![g] = NoCall(config)]
    /\ m' = IF \E h \in Goroutines : call[h].pc \in {"read", "parsed"} THEN m ELSE Begin(m)
    /\ UNCHANGED <<builderVars, config, bestEffort, mutex, calls>>

Parse(g) == Lock(g) \/ Read(g) \/ Finish(g) \/ Unlock(g)

Next == \/ Build \/ WithBestEffort
        \/ \E g \in Goroutines : \/ \E src \in {"any", "built"} : Call(g, src)
                                 \/ Parse(g) \/ Return(g)

(* A goroutine that can run does, a mutex is not held back from one that    *)
(* waits for ever, and callers take their results.                          *)
Spec == Init /\ [][Next]_vars /\ \A g \in Goroutines : WF_vars(Parse(g)) /\ WF_vars(Return(g))

-----------------------------------------------------------------------------
Returned(g) == call[g].pc = "done"

(* What Parse returns is what a machine made for this one input would have  *)
(* returned (machine.go:118-135, parser.go:33-45): neither an earlier call, *)
(* whose currentelem and currentparam are still there, nor another          *)
(* goroutine shows, and WithBestEffort, which takes no lock, does at most   *)
(* come too late.                                                           *)
AsIfAlone ==
    \A g \in Goroutines : Returned(g) =>
        \/ bestEffort /\ call[g].res = Answer(call[g].alone, TRUE)
        \/ call[g].res = Answer(call[g].alone, FALSE)

(* A best-effort answer keeps all that was read of the structured data but, *)
(* at most, the element or the one parameter that was being read or was     *)
(* read last (machine.go:1534-1620).                                        *)
LosesAtMostLast ==
    \A g \in Goroutines : Returned(g) /\ call[g].res.ok =>
        LET data == call[g].res.msg.structuredData
            seen == call[g].seen
            a    == call[g].alone
        IN  /\ DOMAIN seen \ DOMAIN data \subseteq {a.currentelem}
            /\ \A id \in DOMAIN data :
                  LET lost == {n \in DOMAIN seen[id] : n \notin DOMAIN data[id]}
                  IN  /\ lost # {} => id = a.currentelem /\ lost = {a.currentparam}
                                      /\ DOMAIN data = DOMAIN seen
                      /\ \A n \in DOMAIN data[id] : data[id][n] = seen[id][n]

(* What the builder serialises, the parser reads back (builder.go:9347):    *)
(* no setter accepts what String cannot say, escaping is undone, and only a *)
(* compliant machine refuses a message that begins with a BOM and is no     *)
(* text.                                                                    *)
RoundTrip ==
    \A g \in Goroutines : Returned(g) /\ call[g].src = "built" =>
        LET t == sm.message
        IN  IF config.compliantMsg /\ t # <<>> /\ t[1] = "BOM"
               /\ \E i \in DOMAIN t : t[i] \in {"bad", "cut"}
            THEN call[g].res.err = "ErrMsgNotCompliant"
            ELSE call[g].res = Result(TRUE, sm, "nil")

(* Every call returns. *)
CallsReturn == \A g \in Goroutines : call[g].pc = "lock" ~> call[g].pc = "done"
=============================================================================
