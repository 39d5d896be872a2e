------------------------- MODULE AutoMachineProofs -------------------------
(***************************************************************************)
(* The auto-detecting machine, for any options and any verdicts of the     *)
(* inner machines: its tiers are kept apart and tried in an order that     *)
(* prefers a whole message and gives up only when nothing is recovered.    *)
(***************************************************************************)
EXTENDS AutoMachine, TLAPS

(* What a best-effort tier exists for: each machine of it, or none. *)
BestEffortTier == \A f \in Formats : be[f] = IF bestEffort THEN "be" ELSE "nil"

(* The machine that NewMachine calls strict really is. *)
StrictTier == \A f \in Formats : strict[f] = "strict"

(* What the attempts made so far have shown, and what RawMessage holds.     *)
(* With these the properties of a finished Parse become inductive.          *)
Refused == verdict.strict[format] # "ok"
OtherRefused == noFallback \/ verdict.strict[Other(format)] # "ok"
NothingRecovered == bestEffort => ~verdict.partial[format]
Busy == {"primary", "fallback", "besteffort", "fail"}

AttemptsSoFar ==
    /\ pc = "fallback" => Refused /\ ~noFallback
    /\ pc = "besteffort" => Refused /\ OtherRefused /\ bestEffort
    /\ pc = "fail" => Refused /\ OtherRefused /\ NothingRecovered
    /\ pc \in Busy => buf = calls

IInv == /\ TypeOK /\ BestEffortTier /\ AttemptsSoFar
        /\ RecoversWhatItCan
        /\ Failed => rawCell = [alias |-> FALSE, bytes |-> calls]

-----------------------------------------------------------------------------
(* Other is the format that a machine falls back to. *)
LEMMA OtherType ==
    ASSUME NEW f \in Formats
    PROVE  Other(f) \in Formats /\ Other(f) # f
  BY DEF Other, Formats

(* NewMachine's machines are of the right modes. *)
LEMMA InitInv == Init => IInv
<1> SUFFICES ASSUME Init PROVE IInv
  OBVIOUS
<1> USE OptionAssumption
<1>1. TypeOK
  <2>1. opts \in [Formats -> SUBSET OptionKinds]
    BY DEF Init
  <2>2. strict \in [Formats -> {"strict", "be"}] /\ be \in [Formats -> {"nil", "be"}]
        /\ bestEffort \in BOOLEAN
    BY DEF Init, Built
  <2>3. verdict \in Verdicts
    BY Zenon DEF Init, Verdicts, Formats
  <2> QED
    BY <2>1, <2>2, <2>3 DEF Init, TypeOK, Formats
<1>2. BestEffortTier
  BY DEF Init, BestEffortTier
<1> QED
  BY <1>1, <1>2 DEF Init, IInv, AttemptsSoFar, Busy, RecoversWhatItCan, Failed

(* What a parser returns to Parse has the type of a result. *)
LEMMA InnerType ==
    ASSUME TypeOK, NEW f \in Formats, NEW mode
    PROVE  /\ Inner(mode, f).msg \in {"nil", "full", "partial"}
           /\ Inner(mode, f).err \in {"nil"} \cup Formats
           /\ Inner(mode, f).msg = "nil" => verdict.strict[f] # "ok"
           /\ Inner(mode, f).msg = "nil" /\ mode = "be" => ~verdict.partial[f]
  BY DEF TypeOK, Inner, Verdicts

(* One attempt: it returns the message it got, or leaves Parse to its next  *)
(* tier.                                                                    *)
LEMMA AttemptStep ==
    ASSUME TypeOK, NEW mode, NEW f \in Formats, NEW next \in Busy, Attempt(mode, f, next)
    PROVE  /\ TypeOK' /\ UNCHANGED <<configVars, format, verdict, buf, rawCell, calls>>
           /\ \/ pc' = "done" /\ result' = [msg |-> Inner(mode, f).msg, err |-> Inner(mode, f).err]
                  /\ Inner(mode, f).msg # "nil"
              \/ pc' = next /\ Inner(mode, f).msg = "nil" /\ result' = result
<1>1. Inner(mode, f).err \in {"nil"} \cup Formats /\ Inner(mode, f).msg \in {"nil", "full", "partial"}
  BY InnerType
<1>2. attempts' \in Seq(Formats \X ({"nil"} \cup Formats))
  BY <1>1 DEF Attempt, TypeOK
<1>3. /\ UNCHANGED <<configVars, format, verdict, buf, rawCell, calls>>
      /\ \/ pc' = "done" /\ result' = [msg |-> Inner(mode, f).msg, err |-> Inner(mode, f).err]
             /\ Inner(mode, f).msg # "nil"
         \/ pc' = next /\ Inner(mode, f).msg = "nil" /\ result' = result
  BY DEF Attempt
<1>4. pc' \in {"idle", "primary", "fallback", "besteffort", "fail", "done"}
  BY <1>3 DEF Busy
<1>5. result' \in [msg : {"nil", "full", "partial"}, err : {"nil"} \cup Formats]
  BY <1>1, <1>3 DEF TypeOK
<1> QED
  BY <1>2, <1>3, <1>4, <1>5 DEF TypeOK, configVars

(* Every step keeps the invariant: a tier is reached only when those before *)
(* it failed, and best effort is switched on between calls only.            *)
LEMMA IInvStep == IInv /\ [Next]_vars => IInv'
<1> SUFFICES ASSUME IInv, [Next]_vars PROVE IInv'
  OBVIOUS
<1> USE DEF IInv
<1> DEFINE Stable == UNCHANGED <<configVars, format, verdict, buf, rawCell, calls>>
<1>1. CASE WithBestEffort
  <2>1. TypeOK'
    BY <1>1 DEF WithBestEffort, TypeOK
  <2> QED
    BY <1>1, <2>1
       DEF WithBestEffort, BestEffortTier, AttemptsSoFar, Busy, RecoversWhatItCan, Failed
<1>2. CASE Parse
  <2>1. TypeOK'
    BY <1>2, OptionAssumption DEF Parse, TypeOK, configVars
  <2> QED
    BY <1>2, <2>1 DEF Parse, configVars, BestEffortTier, AttemptsSoFar, Busy,
                      RecoversWhatItCan, Failed
<1>3. CASE TryPrimary
  <2> DEFINE next == IF noFallback THEN AfterStrict ELSE "fallback"
  <2>1. format \in Formats /\ next \in Busy
    BY DEF TypeOK, AfterStrict, Busy
  <2>2. Attempt(strict[format], format, next)
    BY <1>3 DEF TryPrimary
  <2>3. TypeOK' /\ Stable
    BY <2>1, <2>2, AttemptStep
  <2>4. \/ pc' = "done" /\ result'.msg # "nil"
        \/ pc' = next /\ Refused
    BY <2>1, <2>2, AttemptStep, InnerType DEF Refused
  <2> QED
    BY <1>3, <2>3, <2>4
       DEF TryPrimary, configVars, BestEffortTier, AttemptsSoFar, Busy, RecoversWhatItCan,
           Failed, AfterStrict, Refused, OtherRefused, NothingRecovered
<1>4. CASE TryFallback
  <2>1. Other(format) \in Formats /\ AfterStrict \in Busy
    BY OtherType DEF TypeOK, AfterStrict, Busy
  <2>2. TypeOK' /\ Stable
    BY <1>4, <2>1, AttemptStep DEF TryFallback
  <2>3. \/ pc' = "done" /\ result'.msg # "nil"
        \/ pc' = AfterStrict /\ verdict.strict[Other(format)] # "ok"
    BY <1>4, <2>1, AttemptStep, InnerType DEF TryFallback
  <2> QED
    BY <1>4, <2>2, <2>3
       DEF TryFallback, configVars, BestEffortTier, AttemptsSoFar, Busy, RecoversWhatItCan,
           Failed, AfterStrict, Refused, OtherRefused, NothingRecovered
<1>5. CASE TryBestEffort
  <2>1. format \in Formats /\ "fail" \in Busy /\ be[format] = "be" /\ pc = "besteffort"
    BY <1>5 DEF TypeOK, Busy, TryBestEffort, BestEffortTier
  <2>2. TypeOK' /\ Stable
    BY <1>5, <2>1, AttemptStep DEF TryBestEffort
  <2>3. \/ pc' = "done" /\ result'.msg # "nil"
        \/ pc' = "fail" /\ ~verdict.partial[format]
    BY <1>5, <2>1, AttemptStep, InnerType DEF TryBestEffort
  <2> QED
    BY <2>1, <2>2, <2>3
       DEF configVars, BestEffortTier, AttemptsSoFar, Busy, RecoversWhatItCan,
           Failed, Refused, OtherRefused, NothingRecovered
<1>6. CASE ParseError
  <2>1. Inner(strict[format], format).err \in {"nil"} \cup Formats
    BY InnerType DEF TypeOK
  <2>2. TypeOK'
    BY <1>6, <2>1 DEF ParseError, TypeOK, configVars, RawMessage
  <2> QED
    BY <1>6, <2>2 DEF ParseError, configVars, BestEffortTier, AttemptsSoFar, Busy,
                      RecoversWhatItCan, Failed, RawMessage, Refused, OtherRefused,
                      NothingRecovered
<1>7. CASE Overwrite
  <2>1. TypeOK'
    BY <1>7, OptionAssumption DEF Overwrite, TypeOK, configVars
  <2> QED
    BY <1>7, <2>1 DEF Overwrite, configVars, BestEffortTier, AttemptsSoFar, Busy,
                      RecoversWhatItCan, Failed
<1>8. CASE Return
  <2>1. TypeOK'
    BY <1>8 DEF Return, TypeOK, configVars
  <2> QED
    BY <1>8, <2>1 DEF Return, configVars, BestEffortTier, AttemptsSoFar, Busy,
                      RecoversWhatItCan, Failed
<1>9. CASE UNCHANGED vars
  BY <1>9 DEF vars, configVars, TypeOK, BestEffortTier, AttemptsSoFar, Busy,
              RecoversWhatItCan, Failed, Refused, OtherRefused, NothingRecovered
<1> QED
  BY <1>1, <1>2, <1>3, <1>4, <1>5, <1>6, <1>7, <1>8, <1>9 DEF Next

(* The invariant holds in every reachable state. *)
LEMMA Invariant == Spec => []IInv
  BY InitInv, IInvStep, PTL DEF Spec

-----------------------------------------------------------------------------
(* Parse fails with best effort on only if the strict machines refused the  *)
(* input and the machine of the detected format has nothing minimally valid *)
(* of it (machine.go:146-171).                                              *)
THEOREM GivesUpOnlyOnNothing == Spec => []RecoversWhatItCan
  BY Invariant, PTL DEF IInv

(* RawMessage is the rejected input, whatever the caller does with its      *)
(* buffer afterwards (machine.go:175-178).                                  *)
THEOREM RawMessageKept == Spec => []RawMessageStable
<1>1. IInv => RawMessageStable
  BY DEF IInv, RawMessageStable
<1> QED
  BY <1>1, Invariant, PTL

(* A best-effort machine is called only if it was made (machine.go:159-171): *)
(* by an option of either machine or by WithBestEffort in time.             *)
THEOREM NoMissingMachineCalled == Spec => [](pc = "besteffort" => be[format] # "nil")
<1>1. IInv => (pc = "besteffort" => be[format] # "nil")
  BY DEF IInv, AttemptsSoFar, BestEffortTier, TypeOK
<1> QED
  BY <1>1, Invariant, PTL

-----------------------------------------------------------------------------
(* What follows needs options as the repository has them (ProbeSees): the   *)
(* probe of filterBestEffort recognises what turns best effort on.          *)

(* NewMachine leaves no best-effort option in the strict machines.          *)
LEMMA InitStrict == ASSUME ProbeSees, Init PROVE StrictTier
<1> DEFINE promoted == \E f \in Formats : Built(opts[f], f) = "be"
<1>1. ASSUME NEW f \in Formats, promoted,
             NEW o \in filterBestEffort(opts[f]), Enables(o, f)
      PROVE  FALSE
  <2>1. o \in opts[f] /\ ~Panics(o, f) /\ (Panics(o, "rfc5424") \/ ~Enables(o, "rfc5424"))
    BY <1>1 DEF Init, filterBestEffort
  <2>2. CASE f = "rfc5424"
    BY <1>1, <2>1, <2>2
  <2>3. CASE f = "rfc3164"
    <3>1. o \in Options3164
      BY <2>1, <2>3 DEF Init
    <3> QED
      BY <1>1, <2>1, <2>3, <3>1 DEF ProbeSees
  <2> QED
    BY <2>2, <2>3 DEF Formats
<1>2. ASSUME NEW f \in Formats, promoted
      PROVE  Built(filterBestEffort(opts[f]), f) = "strict"
  BY <1>1, <1>2 DEF Built
<1>3. ASSUME NEW f \in Formats, ~promoted
      PROVE  Built(opts[f], f) = "strict"
  BY <1>3 DEF Built
<1>4. strict = [f \in Formats |->
                  Built(IF promoted THEN filterBestEffort(opts[f]) ELSE opts[f], f)]
  BY DEF Init
<1> QED
  BY <1>2, <1>3, <1>4 DEF StrictTier

(* The strict machines are made once and for all. *)
LEMMA StrictStep == StrictTier /\ [Next]_vars => StrictTier'
  BY DEF StrictTier, Next, vars, configVars, WithBestEffort, Parse, TryPrimary, TryFallback,
         TryBestEffort, Attempt, ParseError, Overwrite, Return

(* What a strict machine returns is whole and without error, or nothing. *)
LEMMA StrictInner ==
    ASSUME TypeOK, NEW f \in Formats
    PROVE  IF verdict.strict[f] = "ok"
           THEN Inner("strict", f) = [msg |-> "full", err |-> "nil"]
           ELSE Inner("strict", f).msg = "nil"
  BY DEF Inner

(* A strict machine that accepts the input is reached before best effort. *)
LEMMA WholeStep ==
    IInv /\ StrictTier /\ WholeMessageWins /\ [Next]_vars => WholeMessageWins'
<1> SUFFICES ASSUME IInv, StrictTier, WholeMessageWins, [Next]_vars PROVE WholeMessageWins'
  OBVIOUS
<1> USE DEF IInv
<1>t. format \in Formats /\ Other(format) \in Formats
  BY OtherType DEF TypeOK
<1>s. ASSUME NEW f \in Formats, NEW next \in Busy, Attempt(strict[f], f, next)
      PROVE  /\ UNCHANGED <<format, verdict, noFallback>>
             /\ \/ pc' = "done" /\ result' = [msg |-> "full", err |-> "nil"]
                \/ pc' = next
  <2>1. strict[f] = "strict"
    BY DEF StrictTier
  <2>2. /\ UNCHANGED <<configVars, format, verdict, buf, rawCell, calls>>
        /\ \/ /\ pc' = "done" /\ Inner("strict", f).msg # "nil"
              /\ result' = [msg |-> Inner("strict", f).msg, err |-> Inner("strict", f).err]
           \/ pc' = next
    BY <1>s, <2>1, AttemptStep
  <2> QED
    BY <2>2, StrictInner DEF configVars
<1>n. AfterStrict \in Busy /\ "fallback" \in Busy /\ "done" \notin Busy
  BY DEF AfterStrict, Busy
<1>1. CASE TryPrimary
  <2>1. (IF noFallback THEN AfterStrict ELSE "fallback") \in Busy
    BY <1>n
  <2> QED
    BY <1>1, <2>1, <1>t, <1>s, <1>n DEF TryPrimary, WholeMessageWins
<1>2. CASE TryFallback
  BY <1>2, <1>t, <1>s, <1>n DEF TryFallback, WholeMessageWins
<1>3. CASE TryBestEffort
  BY <1>3, <1>t DEF TryBestEffort, Attempt, AttemptsSoFar, configVars, Refused,
                    OtherRefused, WholeMessageWins
<1>4. CASE ParseError
  BY <1>4 DEF ParseError, AttemptsSoFar, configVars, Refused, OtherRefused, WholeMessageWins
<1>5. CASE WithBestEffort \/ Parse \/ Overwrite \/ Return \/ UNCHANGED vars
  BY <1>5 DEF WithBestEffort, Parse, Overwrite, Return, vars, configVars, WholeMessageWins
<1> QED
  BY <1>1, <1>2, <1>3, <1>4, <1>5 DEF Next

(* Promotion and WithBestEffort keep the three tiers apart                  *)
(* (machine.go:81-117), for all options whose effect the probe sees.        *)
THEOREM TiersStayApart == ASSUME ProbeSees PROVE Spec => []TiersKeptApart
<1>1. Init => StrictTier
  BY InitStrict
<1>2. IInv /\ StrictTier => TiersKeptApart
  BY DEF IInv, StrictTier, BestEffortTier, TiersKeptApart
<1> QED
  BY <1>1, <1>2, StrictStep, Invariant, PTL DEF Spec

(* An input that the strict machine of the detected format accepts, or with *)
(* fallback on the other one, comes back whole and without error, best      *)
(* effort or not (machine.go:126-171).                                      *)
THEOREM WholeMessageFirst == ASSUME ProbeSees PROVE Spec => []WholeMessageWins
<1>1. Init => StrictTier /\ WholeMessageWins
  BY InitStrict DEF Init, WholeMessageWins
<1>2. Spec => [](StrictTier)
  BY <1>1, StrictStep, PTL DEF Spec
<1> QED
  BY <1>1, <1>2, WholeStep, Invariant, PTL DEF Spec
=============================================================================
