---------------------------- MODULE AutoMachine ----------------------------
(***************************************************************************)
(* The auto-detecting machine (auto/machine.go): how NewMachine and        *)
(* WithBestEffort build the strict and the best-effort inner machines from *)
(* their options, and the order in which Parse tries them.                 *)
(*                                                                         *)
(* An input is what the inner machines make of it; detect's choice is any  *)
(* format (AutoDetect models detect itself).                               *)
(***************************************************************************)
EXTENDS Integers, Sequences

CONSTANTS
    Options3164, Options5424,  \* options a caller may give for either machine
    MaxCalls                   \* bound: Parse calls on one machine

Formats == {"rfc3164", "rfc5424"}
Other(f) == IF f = "rfc5424" THEN "rfc3164" ELSE "rfc5424"

(* A machine option: which machine type it asserts ("any" for none),        *)
(* whether it turns best effort on before or after that assertion, and      *)
(* whether SafeMachineOptions wrapped it.                                   *)
OptionKinds == [needs : {"any"} \cup Formats,
                be    : {"no", "before", "after"},
                safe  : BOOLEAN]

ASSUME OptionAssumption ==
    /\ Options3164 \subseteq OptionKinds /\ Options5424 \subseteq OptionKinds
    /\ MaxCalls \in Nat

VARIABLES
    opts,         \* rfc3164Opts and rfc5424Opts, as sets
    noFallback, bestEffort,
    strict, be,   \* m3164/m5424 and m3164BE/m5424BE: "nil", "strict" or "be"
    pc, format,
    verdict,      \* what the inner machines make of the current input
    attempts,     \* the parsers attempted: <<format, mode>>
    result,       \* what Parse returns
    buf, rawCell, \* the caller's buffer, the bytes RawMessage refers to
    calls

configVars == <<opts, noFallback, bestEffort, strict, be>>
vars == <<configVars, pc, format, verdict, attempts, result, buf, rawCell, calls>>

-----------------------------------------------------------------------------
(* Applying an option to a machine of format f. *)
Fits(o, f)   == o.needs \in {"any", f}
Panics(o, f) == ~o.safe /\ ~Fits(o, f)
Enables(o, f) == o.be = "before" \/ (o.be = "after" /\ Fits(o, f))

(* A new inner machine with the given options. *)
Built(os, f) == IF \E o \in os : Enables(o, f) THEN "be" ELSE "strict"

(* Mutant: nothing is filtered out. *)
filterNothing(os) == os

(* The probe is an rfc5424 machine; an option that panics there is kept. *)
filterBestEffort(os) ==
    {o \in os : Panics(o, "rfc5424") \/ ~Enables(o, "rfc5424")}

(* Options as the repository has them: the probe sees whatever turns best   *)
(* effort on in the machine an option is meant for.  An option of a         *)
(* caller's own that asserts an rfc3164 machine first would be kept.        *)
ProbeSees == \A o \in Options3164 :
    ~Panics(o, "rfc3164") /\ Enables(o, "rfc3164") =>
        ~Panics(o, "rfc5424") /\ Enables(o, "rfc5424")

(* NewMachine.  A caller's options fit the machine they are given for. *)
Init ==
    /\ opts \in [Formats -> SUBSET (Options3164 \cup Options5424)]
    /\ opts["rfc3164"] \subseteq Options3164 /\ opts["rfc5424"] \subseteq Options5424
    /\ \A f \in Formats : \A o \in opts[f] : ~Panics(o, f)
    /\ noFallback \in BOOLEAN
    /\ LET promoted == \E f \in Formats : Built(opts[f], f) = "be"
       IN  /\ bestEffort = promoted
           /\ be = [f \in Formats |-> IF promoted THEN "be" ELSE "nil"]
           /\ strict = [f \in Formats |->
                 Built(IF promoted THEN filterBestEffort(opts[f]) ELSE opts[f], f)]
    /\ pc = "idle" /\ format = "rfc5424" /\ attempts = <<>> /\ calls = 0
    /\ verdict = [strict |-> [f \in Formats |-> "err"], partial |-> [f \in Formats |-> FALSE]]
    /\ result = [msg |-> "nil", err |-> "nil"]
    /\ buf = 0 /\ rawCell = [alias |-> FALSE, bytes |-> 0]

WithBestEffort ==
    /\ pc = "idle" /\ ~bestEffort
    /\ bestEffort' = TRUE
    /\ be' = [f \in Formats |-> "be"]
    /\ UNCHANGED <<opts, noFallback, strict, pc, format, verdict, attempts, result,
                   buf, rawCell, calls>>

-----------------------------------------------------------------------------
(* What the machines of either format make of an input: strict, an RFC 3164 *)
(* machine may give neither message nor error.  partial says whether what   *)
(* was read until it stopped, with an error or without, is minimally valid: *)
(* best effort returns only that.  Without PRI a message must have begun and *)
(* ended for it, so a silent stop may leave nothing.                        *)
Verdicts == {v \in [strict : [Formats -> {"ok", "err", "none"}], partial : [Formats -> BOOLEAN]] :
                v.strict["rfc5424"] # "none"}

Inner(mode, f) ==
    LET s == verdict.strict[f]
    IN  [msg |-> IF s = "ok" THEN "full"
                 ELSE IF mode = "be" /\ verdict.partial[f] THEN "partial"
                 ELSE "nil",
         err |-> IF s = "err" THEN f ELSE "nil"]

(* Parse, entry: the caller's buffer holds the input. *)
Parse ==
    /\ pc = "idle" /\ calls < MaxCalls
    /\ calls' = calls + 1 /\ buf' = calls + 1
    /\ verdict' \in Verdicts
    /\ format' \in Formats
    /\ attempts' = <<>>
    /\ pc' = "primary"
    /\ UNCHANGED <<configVars, result, rawCell>>

Attempt(mode, f, next) ==
    LET r == Inner(mode, f)
    IN  /\ attempts' = Append(attempts, <<f, r.err>>)
        /\ IF r.msg # "nil"
           THEN result' = [msg |-> r.msg, err |-> r.err] /\ pc' = "done"
           ELSE pc' = next /\ UNCHANGED result
        /\ UNCHANGED <<configVars, format, verdict, buf, rawCell, calls>>

(* Mutant: best effort is tried whether or not it is on. *)
AfterStrictAlways == "besteffort"
AfterStrict == IF bestEffort THEN "besteffort" ELSE "fail"

(* Mutant: best effort takes the place of the fallback. *)
TryPrimaryNoFallback ==
    /\ pc = "primary"
    /\ Attempt(strict[format], format,
               IF noFallback \/ bestEffort THEN AfterStrict ELSE "fallback")

TryPrimary ==
    /\ pc = "primary"
    /\ Attempt(strict[format], format, IF noFallback THEN AfterStrict ELSE "fallback")

TryFallback ==
    /\ pc = "fallback"
    /\ Attempt(strict[Other(format)], Other(format), AfterStrict)

(* Mutant: best effort goes to the other machine. *)
TryBestEffortOther ==
    /\ pc = "besteffort"
    /\ Attempt(be[Other(format)], Other(format), "fail")

(* A machine that was never made cannot be called: that would be a panic. *)
TryBestEffort ==
    /\ pc = "besteffort" /\ be[format] # "nil"
    /\ Attempt(be[format], format, "fail")

(* Mutant: RawMessage is the caller's buffer. *)
RawMessageAliased == [alias |-> TRUE, bytes |-> buf]

(* ParseError carries the primary's error and a copy of the input. *)
RawMessage == [alias |-> FALSE, bytes |-> buf]
ParseError ==
    /\ pc = "fail"
    /\ result' = [msg |-> "nil", err |-> Inner(strict[format], format).err]
    /\ rawCell' = RawMessage
    /\ pc' = "done"
    /\ UNCHANGED <<configVars, format, verdict, attempts, buf, calls>>

(* The caller looks at the result while its buffer is filled anew.          *)
Overwrite ==
    /\ pc = "done" /\ buf = calls
    /\ buf' = 0
    /\ UNCHANGED <<configVars, pc, format, verdict, attempts, result, rawCell, calls>>
Return ==
    /\ pc = "done"
    /\ pc' = "idle"
    /\ UNCHANGED <<configVars, format, verdict, attempts, result, buf, rawCell, calls>>

Next == \/ WithBestEffort \/ Parse \/ TryPrimary \/ TryFallback \/ TryBestEffort
        \/ ParseError \/ Overwrite \/ Return

Spec == Init /\ [][Next]_vars /\ WF_vars(TryPrimary \/ TryFallback \/ TryBestEffort \/ ParseError)

-----------------------------------------------------------------------------
(* Every variable has its type. *)
TypeOK ==
    /\ opts \in [Formats -> SUBSET OptionKinds]
    /\ noFallback \in BOOLEAN /\ bestEffort \in BOOLEAN
    /\ strict \in [Formats -> {"strict", "be"}] /\ be \in [Formats -> {"nil", "be"}]
    /\ pc \in {"idle", "primary", "fallback", "besteffort", "fail", "done"}
    /\ format \in Formats /\ verdict \in Verdicts
    /\ attempts \in Seq(Formats \X ({"nil"} \cup Formats))
    /\ result \in [msg : {"nil", "full", "partial"}, err : {"nil"} \cup Formats]
    /\ calls \in 0..MaxCalls /\ buf \in 0..MaxCalls
    /\ rawCell \in [alias : BOOLEAN, bytes : 0..MaxCalls]

(* Promotion and WithBestEffort keep the three tiers apart                  *)
(* (machine.go:81-117): the strict machines are strict and the best-effort  *)
(* machines exist, in that mode, exactly when best effort is on.            *)
TiersKeptApart ==
    /\ \A f \in Formats : strict[f] = "strict"
    /\ \A f \in Formats : be[f] = IF bestEffort THEN "be" ELSE "nil"

Failed == pc = "done" /\ result.msg = "nil"

(* A partial message is a last resort (machine.go:104-107): an input that   *)
(* either strict machine accepts, the other one only if fallback is on,     *)
(* comes back whole and without error, whatever detect guessed and whether  *)
(* or not best effort is on.                                                *)
WholeMessageWins ==
    pc = "done" /\ (\/ verdict.strict[format] = "ok"
                    \/ ~noFallback /\ verdict.strict[Other(format)] = "ok")
        => result = [msg |-> "full", err |-> "nil"]

(* With best effort nothing recoverable is given up (machine.go:159-171):   *)
(* Parse fails only if no strict machine it may ask accepts the input and   *)
(* the detected format's machine has nothing minimally valid of it, whether *)
(* that machine stopped with an error or silently.                          *)
RecoversWhatItCan ==
    Failed /\ bestEffort =>
        /\ ~verdict.partial[format] /\ verdict.strict[format] # "ok"
        /\ noFallback \/ verdict.strict[Other(format)] # "ok"

(* RawMessage stays the rejected input after the caller refilled its buffer *)
(* (machine.go:175-178).                                                    *)
RawMessageStable ==
    Failed => (IF rawCell.alias THEN buf ELSE rawCell.bytes) = calls

(* Parse always comes to a result: it never calls a best-effort machine     *)
(* that does not exist (machine.go:159-171).                                *)
ParseEnds == pc = "primary" ~> pc = "done"
=============================================================================
