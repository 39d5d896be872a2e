--------------------------- MODULE Rfc5424Proofs ---------------------------
(***************************************************************************)
(* The mutex-guarded RFC 5424 parser, for every number of goroutines, every *)
(* alphabet, name range and bound: each call answers as if it ran alone on *)
(* a machine of its own, a best-effort answer loses at most what was read  *)
(* last, and what a builder's String says is read back as it was built.    *)
(***************************************************************************)
EXTENDS Rfc5424Parser, SequenceTheorems, FiniteSetTheorems, TLAPS

-----------------------------------------------------------------------------
(* Two machines that differ at most in what Parse does not reset.           *)

Fields == {"compliantMsg", "optionalPriority", "cs", "text", "backslashat", "err",
           "currentelem", "currentparam", "output"}
OutputFields == {"priority", "version", "timestamp", "name", "structuredData", "hasElements",
                 "message"}

(* A machine of this parser. *)
IsMachine(a) ==
    /\ DOMAIN a = Fields /\ DOMAIN a.output = OutputFields
    /\ a.compliantMsg = config.compliantMsg /\ a.optionalPriority = config.optionalPriority

(* Parse's head (machine.go:118-135) resets all but currentelem and         *)
(* currentparam.                                                            *)
Alike(a, b) ==
    /\ IsMachine(a) /\ IsMachine(b)
    /\ a.compliantMsg = b.compliantMsg /\ a.optionalPriority = b.optionalPriority
    /\ a.cs = b.cs /\ a.text = b.text /\ a.backslashat = b.backslashat
    /\ a.err = b.err /\ a.output = b.output

Data(a)      == a.output.structuredData
Filled(a)    == DOMAIN Data(a) # {}
HasParams(a) == \E id \in DOMAIN Data(a) : DOMAIN Data(a)[id] # {}
InElement    == {"sdparam", "dq", "paramvalue", "escapes", "paramend"}
InParam      == {"dq", "paramvalue", "escapes", "paramend"}

(* Where they would show, they have been set in this call. *)
Recall(a, b) ==
    /\ Filled(a) \/ a.cs \in InElement => a.currentelem = b.currentelem
    /\ HasParams(a) \/ a.cs \in InParam => a.currentparam = b.currentparam

Coupled(a, b) == Alike(a, b) /\ (a.cs # "fail" => Recall(a, b))

(* x has what a had of structured data, and remembers the same names. *)
Quiet(a, x) ==
    /\ x.currentelem = a.currentelem /\ x.currentparam = a.currentparam
    /\ Data(x) = Data(a) /\ x.output.hasElements = a.output.hasElements

(* Pairs: x and y came from a and b without a change to structured data. *)
QuietPair(a, b, x, y) == Alike(x, y) /\ Quiet(a, x) /\ Quiet(b, y)

(* Outside an element's parameters such a pair stays coupled. *)
LEMMA QuietCoupled ==
    ASSUME NEW a, NEW b, NEW x, NEW y, Recall(a, b), QuietPair(a, b, x, y),
           x.cs \in InElement => a.currentelem = b.currentelem,
           x.cs \in InParam => a.currentparam = b.currentparam
    PROVE  Coupled(x, y)
  BY DEF Coupled, Recall, QuietPair, Quiet, Filled, HasParams

(* Begin, the head of Parse, forgets all but two names, and the two names   *)
(* do not show then.                                                        *)
LEMMA BeginCoupled ==
    ASSUME NEW n, IsMachine(n)
    PROVE  Coupled(Begin(n), NewMachine(config))
<1>o. DOMAIN NoOutput = OutputFields /\ DOMAIN NoOutput.structuredData = {}
  <2>1. NoOutput.structuredData = <<>>
    BY Zenon DEF NoOutput, EmptyMap
  <2>2. DOMAIN NoOutput = OutputFields
    BY Zenon DEF NoOutput, OutputFields
  <2> QED
    BY <2>1, <2>2
<1> DEFINE x == Begin(n)
           y == NewMachine(config)
<1>1. /\ DOMAIN x = Fields /\ x.output = NoOutput /\ x.cs = "main" /\ x.text = <<>>
      /\ x.backslashat = {} /\ x.err = "nil" /\ x.compliantMsg = config.compliantMsg
      /\ x.optionalPriority = config.optionalPriority
  BY DEF Begin, IsMachine, Fields
<1>2. /\ DOMAIN y = Fields /\ y.output = NoOutput /\ y.cs = "main" /\ y.text = <<>>
      /\ y.backslashat = {} /\ y.err = "nil" /\ y.compliantMsg = config.compliantMsg
      /\ y.optionalPriority = config.optionalPriority
  BY DEF NewMachine, Fields
<1> HIDE DEF x, y
<1>3. Alike(x, y)
  BY <1>o, <1>1, <1>2 DEF Alike, IsMachine
<1>4. Recall(x, y)
  BY <1>o, <1>1 DEF Recall, Filled, HasParams, Data, InElement, InParam
<1> QED
  BY <1>3, <1>4 DEF Coupled, x, y

-----------------------------------------------------------------------------
(* The actions of the grammar, on two machines. *)

(* Those that leave structured data alone. *)
LEMMA QuietGoto ==
    ASSUME NEW a, NEW b, Alike(a, b), NEW s
    PROVE  QuietPair(a, b, Goto(a, s), Goto(b, s)) /\ Goto(a, s).cs = s
  BY DEF Alike, IsMachine, Fields, OutputFields, QuietPair, Quiet, Data, Goto

LEMMA QuietTake ==
    ASSUME NEW a, NEW b, Alike(a, b), NEW c
    PROVE  QuietPair(a, b, Take(a, c), Take(b, c)) /\ Take(a, c).cs = a.cs
  BY DEF Alike, IsMachine, Fields, OutputFields, QuietPair, Quiet, Data, Take

LEMMA QuietFail ==
    ASSUME NEW a, NEW b, Alike(a, b), NEW e
    PROVE  QuietPair(a, b, Fail(a, e), Fail(b, e)) /\ Fail(a, e).cs = "fail"
  BY DEF Alike, IsMachine, Fields, OutputFields, QuietPair, Quiet, Data, Fail

LEMMA QuietActions ==
    ASSUME NEW a, NEW b, Alike(a, b)
    PROVE  /\ \A s : QuietPair(a, b, Goto(a, s), Goto(b, s)) /\ Goto(a, s).cs = s
           /\ \A c : QuietPair(a, b, Take(a, c), Take(b, c)) /\ Take(a, c).cs = a.cs
           /\ \A e : QuietPair(a, b, Fail(a, e), Fail(b, e)) /\ Fail(a, e).cs = "fail"
           /\ QuietPair(a, b, set_prival(a), set_prival(b)) /\ set_prival(a).cs = a.cs
           /\ QuietPair(a, b, set_version(a), set_version(b)) /\ set_version(a).cs = a.cs
           /\ \A f : QuietPair(a, b, set_name(a, f), set_name(b, f)) /\ set_name(a, f).cs = a.cs
           /\ QuietPair(a, b, set_msg(a), set_msg(b)) /\ set_msg(a).cs = a.cs
           /\ QuietPair(a, b, ini_sdparam(a), ini_sdparam(b)) /\ ini_sdparam(a).cs = a.cs
<1>1. ASSUME NEW s PROVE QuietPair(a, b, Goto(a, s), Goto(b, s)) /\ Goto(a, s).cs = s
  BY QuietGoto
<1>2. ASSUME NEW c PROVE QuietPair(a, b, Take(a, c), Take(b, c)) /\ Take(a, c).cs = a.cs
  BY QuietTake
<1>3. ASSUME NEW e PROVE QuietPair(a, b, Fail(a, e), Fail(b, e)) /\ Fail(a, e).cs = "fail"
  BY QuietFail
<1> USE DEF Alike, IsMachine, Fields, OutputFields, QuietPair, Quiet, Data
<1>4. QuietPair(a, b, set_prival(a), set_prival(b)) /\ set_prival(a).cs = a.cs
  BY DEF set_prival
<1>5. QuietPair(a, b, set_version(a), set_version(b)) /\ set_version(a).cs = a.cs
  BY DEF set_version
<1>6. ASSUME NEW f
      PROVE  QuietPair(a, b, set_name(a, f), set_name(b, f)) /\ set_name(a, f).cs = a.cs
  BY DEF set_name
<1>7. QuietPair(a, b, set_msg(a), set_msg(b)) /\ set_msg(a).cs = a.cs
  BY DEF set_msg
<1>8. QuietPair(a, b, ini_sdparam(a), ini_sdparam(b)) /\ ini_sdparam(a).cs = a.cs
  BY DEF ini_sdparam
<1> HIDE DEF Alike, IsMachine, Fields, OutputFields, QuietPair, Quiet, Data
<1> QED
  BY <1>1, <1>2, <1>3, <1>4, <1>5, <1>6, <1>7, <1>8, Zenon

(* A failed pair is coupled as soon as it is alike. *)
LEMMA FailCoupled ==
    ASSUME NEW a, NEW b, Alike(a, b), NEW e
    PROVE  Coupled(Fail(a, e), Fail(b, e)) /\ Fail(a, e).cs = "fail"
  BY QuietFail DEF Coupled, QuietPair

(* One quiet pair after another is one. *)
LEMMA QuietThen ==
    ASSUME NEW a, NEW b, NEW x, NEW y, NEW u, NEW v,
           QuietPair(a, b, x, y), QuietPair(x, y, u, v)
    PROVE  QuietPair(a, b, u, v)
  BY DEF QuietPair, Quiet

(* And none is one. *)
LEMMA QuietNone ==
    ASSUME NEW a, NEW b, Alike(a, b)
    PROVE  QuietPair(a, b, a, b)
  BY DEF QuietPair, Quiet

(* The timestamp is set or the machine stops. *)
LEMMA QuietTimestamp ==
    ASSUME NEW a, NEW b, Alike(a, b)
    PROVE  /\ QuietPair(a, b, set_timestamp(a), set_timestamp(b))
           /\ set_timestamp(a).cs \in {a.cs, "fail"}
<1>1. CASE a.text = <<"ts">>
  <2>1. b.text = <<"ts">>
    BY <1>1 DEF Alike
  <2>2. /\ set_timestamp(a) = [a EXCEPT !.output.timestamp = "ts"]
        /\ set_timestamp(b) = [b EXCEPT !.output.timestamp = "ts"]
    BY <1>1, <2>1, Zenon DEF set_timestamp
  <2> QED
    BY <2>2 DEF Alike, IsMachine, Fields, OutputFields, QuietPair, Quiet, Data
<1>2. CASE a.text # <<"ts">>
  <2>1. b.text # <<"ts">>
    BY <1>2 DEF Alike
  <2>2. /\ set_timestamp(a) = Fail(a, "time.Parse")
        /\ set_timestamp(b) = Fail(b, "time.Parse")
    BY <1>2, <2>1, Zenon DEF set_timestamp
  <2> QED
    BY <2>2, QuietActions
<1> QED
  BY <1>1, <1>2

-----------------------------------------------------------------------------
(* The rules that leave structured data alone. *)

(* x and y are what such a rule makes of a and b. *)
QuietRule(a, b, x, y) == QuietPair(a, b, x, y) /\ x.cs \notin InElement

LEMMA QuietRuleCoupled ==
    ASSUME NEW a, NEW b, NEW x, NEW y, Coupled(a, b), a.cs # "fail", QuietRule(a, b, x, y)
    PROVE  Coupled(x, y)
<1>1. x.cs \notin InParam
  BY DEF QuietRule, InElement, InParam
<1> QED
  BY <1>1, QuietCoupled DEF Coupled, QuietRule

(* What comes after a quiet pair, in another state than an element's. *)
LEMMA AfterQuiet ==
    ASSUME NEW a, NEW b, NEW x, NEW y, QuietPair(a, b, x, y)
    PROVE  /\ \A s : s \notin InElement => QuietRule(a, b, Goto(x, s), Goto(y, s))
           /\ x.cs \notin InElement => \A c : QuietRule(a, b, Take(x, c), Take(y, c))
           /\ \A e : QuietRule(a, b, Fail(x, e), Fail(y, e))
<1>0. Alike(x, y)
  BY DEF QuietPair
<1>1. ASSUME NEW s, s \notin InElement PROVE QuietRule(a, b, Goto(x, s), Goto(y, s))
  <2>1. QuietPair(x, y, Goto(x, s), Goto(y, s)) /\ Goto(x, s).cs = s
    BY <1>0, QuietGoto
  <2> QED
    BY <1>1, <2>1, QuietThen DEF QuietRule
<1>2. ASSUME NEW c, x.cs \notin InElement PROVE QuietRule(a, b, Take(x, c), Take(y, c))
  <2>1. QuietPair(x, y, Take(x, c), Take(y, c)) /\ Take(x, c).cs = x.cs
    BY <1>0, QuietTake
  <2> QED
    BY <1>2, <2>1, QuietThen DEF QuietRule
<1>3. ASSUME NEW e PROVE QuietRule(a, b, Fail(x, e), Fail(y, e))
  <2>1. QuietPair(x, y, Fail(x, e), Fail(y, e)) /\ Fail(x, e).cs = "fail"
    BY <1>0, QuietFail
  <2> QED
    BY <2>1, QuietThen DEF QuietRule, InElement
<1> QED
  BY <1>1, <1>2, <1>3, Zenon

LEMMA PrivalAlike ==
    ASSUME NEW a, NEW b, NEW c, Alike(a, b), a.cs = "prival"
    PROVE  QuietRule(a, b, prival(a, c), prival(b, c))
<1> DEFINE P(n) == IF NotMarked(n) THEN n ELSE set_prival(n)
<1>1. a.text = b.text /\ (NotMarked(a) <=> NotMarked(b))
  BY DEF Alike, NotMarked
<1>2. QuietPair(a, b, P(a), P(b)) /\ P(a).cs = "prival"
  BY <1>1, QuietActions, QuietNone, Zenon
<1>3. \A n : prival(n, c) = IF ~NotMarked(n) /\ c = ">" THEN Goto(P(n), "version")
                            ELSE IF Append(n.text, c) \in Privals THEN Take(P(n), c)
                            ELSE Fail(P(n), "ErrPrival")
  BY Zenon DEF prival
<1> HIDE DEF P
<1>4. "version" \notin InElement /\ "prival" \notin InElement
  BY DEF InElement
<1>5. /\ QuietRule(a, b, Goto(P(a), "version"), Goto(P(b), "version"))
      /\ QuietRule(a, b, Take(P(a), c), Take(P(b), c))
      /\ QuietRule(a, b, Fail(P(a), "ErrPrival"), Fail(P(b), "ErrPrival"))
  BY <1>2, <1>4, AfterQuiet
<1>6. CASE ~NotMarked(a) /\ c = ">"
  BY <1>1, <1>3, <1>5, <1>6, Zenon
<1>7. CASE ~(~NotMarked(a) /\ c = ">") /\ Append(a.text, c) \in Privals
  <2>1. prival(a, c) = Take(P(a), c) /\ prival(b, c) = Take(P(b), c)
    BY <1>1, <1>3, <1>7
  <2> QED
    BY <1>5, <2>1
<1>8. CASE ~(~NotMarked(a) /\ c = ">") /\ Append(a.text, c) \notin Privals
  <2>1. prival(a, c) = Fail(P(a), "ErrPrival") /\ prival(b, c) = Fail(P(b), "ErrPrival")
    BY <1>1, <1>3, <1>8
  <2> QED
    BY <1>5, <2>1
<1> QED
  BY <1>6, <1>7, <1>8

LEMMA VersionAlike ==
    ASSUME NEW a, NEW b, NEW c, Alike(a, b), a.cs = "version"
    PROVE  QuietRule(a, b, version(a, c), version(b, c))
<1>1. a.text = b.text /\ (NotMarked(a) <=> NotMarked(b))
  BY DEF Alike, NotMarked
<1>2. "version" \notin InElement /\ "timestamp" \notin InElement
  BY DEF InElement
<1>3. CASE NotMarked(a)
  <2>1. \A n : NotMarked(n) => version(n, c) = IF c \in Digits \ {"0"} THEN Take(n, c)
                                               ELSE Fail(n, "ErrVersion")
    BY Zenon DEF version
  <2>2. QuietPair(a, b, a, b)
    BY QuietNone
  <2>3. QuietRule(a, b, Take(a, c), Take(b, c))
        /\ QuietRule(a, b, Fail(a, "ErrVersion"), Fail(b, "ErrVersion"))
    BY <1>2, <2>2, AfterQuiet
  <2>4. /\ version(a, c) = IF c \in Digits \ {"0"} THEN Take(a, c) ELSE Fail(a, "ErrVersion")
        /\ version(b, c) = IF c \in Digits \ {"0"} THEN Take(b, c) ELSE Fail(b, "ErrVersion")
    BY <1>1, <1>3, <2>1, Zenon
  <2> QED
    BY <2>3, <2>4, Zenon
<1>4. CASE ~NotMarked(a)
  <2> DEFINE x == set_version(a)
             y == set_version(b)
             e == IF Len(a.text) = 1 THEN "ErrParse" ELSE "ErrVersion"
  <2>1. /\ version(a, c) = IF c = " " THEN Goto(x, "timestamp")
                           ELSE IF c \in Digits /\ Len(a.text) < 3 THEN Take(x, c) ELSE Fail(x, e)
        /\ version(b, c) = IF c = " " THEN Goto(y, "timestamp")
                           ELSE IF c \in Digits /\ Len(a.text) < 3 THEN Take(y, c) ELSE Fail(y, e)
    BY <1>1, <1>4, Zenon DEF version
  <2>2. QuietPair(a, b, x, y) /\ x.cs = "version"
    BY QuietActions
  <2> HIDE DEF x, y, e
  <2>3. /\ QuietRule(a, b, Goto(x, "timestamp"), Goto(y, "timestamp"))
        /\ QuietRule(a, b, Take(x, c), Take(y, c))
        /\ QuietRule(a, b, Fail(x, e), Fail(y, e))
    BY <1>2, <2>2, AfterQuiet
  <2> QED
    BY <2>1, <2>3, Zenon
<1> QED
  BY <1>3, <1>4

LEMMA MainAlike ==
    ASSUME NEW a, NEW b, NEW c, Alike(a, b), a.cs = "main"
    PROVE  QuietRule(a, b, main(a, c), main(b, c))
<1>1. a.optionalPriority = b.optionalPriority
  BY DEF Alike
<1>2. QuietPair(a, b, a, b)
  BY QuietNone
<1>3. /\ QuietRule(a, b, Goto(a, "prival"), Goto(b, "prival"))
      /\ QuietRule(a, b, Fail(a, "ErrPri"), Fail(b, "ErrPri"))
  BY <1>2, AfterQuiet DEF InElement
<1>4. QuietRule(a, b, version(Goto(a, "version"), c), version(Goto(b, "version"), c))
  <2> DEFINE x == Goto(a, "version")
             y == Goto(b, "version")
  <2>1. QuietPair(a, b, x, y) /\ x.cs = "version"
    BY QuietActions
  <2> HIDE DEF x, y
  <2>2. QuietRule(x, y, version(x, c), version(y, c))
    BY <2>1, VersionAlike DEF QuietPair
  <2>3. QuietRule(a, b, version(x, c), version(y, c))
    BY <2>1, <2>2, QuietThen DEF QuietRule
  <2> QED
    BY <2>3 DEF x, y
<1> QED
  BY <1>1, <1>3, <1>4, Zenon DEF main

LEMMA TimestampAlike ==
    ASSUME NEW a, NEW b, NEW c, Alike(a, b), a.cs = "timestamp"
    PROVE  QuietRule(a, b, timestamp(a, c), timestamp(b, c))
<1>1. a.text = b.text /\ (NotMarked(a) <=> NotMarked(b))
  BY DEF Alike, NotMarked
<1>2. "timestamp" \notin InElement /\ "hostname" \notin InElement /\ "fail" \notin InElement
  BY DEF InElement
<1>3. QuietPair(a, b, a, b)
  BY QuietNone
<1>4. CASE NotMarked(a)
  <2>1. QuietRule(a, b, Take(a, c), Take(b, c))
        /\ QuietRule(a, b, Fail(a, "ErrTimestamp"), Fail(b, "ErrTimestamp"))
    BY <1>2, <1>3, AfterQuiet
  <2> QED
    BY <1>1, <1>4, <2>1, Zenon DEF timestamp
<1>5. CASE ~NotMarked(a)
  <2> DEFINE T(n) == IF n.text = <<"-">> THEN n ELSE set_timestamp(n)
             F(n) == IF n.cs = "fail" THEN n
                     ELSE IF c = " " THEN Goto(n, "hostname") ELSE Fail(n, "ErrParse")
  <2>1. timestamp(a, c) = F(T(a)) /\ timestamp(b, c) = F(T(b))
    BY <1>1, <1>5, Zenon DEF timestamp, Then
  <2>2. QuietPair(a, b, T(a), T(b)) /\ T(a).cs \in {"timestamp", "fail"} /\ T(a).cs = T(b).cs
    <3>1. QuietPair(a, b, set_timestamp(a), set_timestamp(b))
          /\ set_timestamp(a).cs \in {"timestamp", "fail"}
      BY QuietTimestamp
    <3>2. QuietPair(a, b, T(a), T(b)) /\ T(a).cs \in {"timestamp", "fail"}
      <4>1. CASE a.text = <<"-">>
        <5>1. T(a) = a /\ T(b) = b
          BY <1>1, <4>1
        <5> HIDE DEF T
        <5> QED
          BY <1>3, <5>1
      <4>2. CASE a.text # <<"-">>
        <5>1. T(a) = set_timestamp(a) /\ T(b) = set_timestamp(b)
          BY <1>1, <4>2
        <5> HIDE DEF T
        <5> QED
          BY <3>1, <5>1
      <4> QED
        BY <4>1, <4>2
    <3> HIDE DEF T
    <3> QED
      BY <3>2 DEF QuietPair, Alike
  <2> DEFINE x == T(a)
             y == T(b)
  <2> HIDE DEF x, y, T
  <2>3. QuietPair(a, b, x, y) /\ x.cs \in {"timestamp", "fail"} /\ x.cs = y.cs
    BY <2>2 DEF x, y
  <2>4. QuietRule(a, b, x, y)
    BY <1>2, <2>3 DEF QuietRule
  <2>5. /\ QuietRule(a, b, Goto(x, "hostname"), Goto(y, "hostname"))
        /\ QuietRule(a, b, Fail(x, "ErrParse"), Fail(y, "ErrParse"))
    BY <1>2, <2>3, AfterQuiet
  <2>6. QuietRule(a, b, F(x), F(y))
    BY <2>3, <2>4, <2>5, Zenon
  <2> QED
    BY <2>1, <2>6 DEF x, y
<1> QED
  BY <1>4, <1>5

LEMMA NameAlike ==
    ASSUME NEW a, NEW b, NEW c, NEW f \in NameFields, Alike(a, b), a.cs = f
    PROVE  QuietRule(a, b, nameField(a, c, f), nameField(b, c, f))
<1>1. (NotMarked(a) <=> NotMarked(b)) /\ (Fits(a, f) <=> Fits(b, f))
  BY DEF Alike, NotMarked, Fits
<1>2. f \notin InElement /\ Following[f] \notin InElement
  BY DEF InElement, NameFields, Following
<1>3. QuietPair(a, b, a, b)
  BY QuietNone
<1>4. QuietPair(a, b, set_name(a, f), set_name(b, f))
  BY QuietActions, Zenon
<1>5. /\ QuietRule(a, b, Take(a, c), Take(b, c))
      /\ QuietRule(a, b, Fail(a, f), Fail(b, f))
  BY <1>2, <1>3, AfterQuiet
<1>6. QuietRule(a, b, Goto(set_name(a, f), Following[f]), Goto(set_name(b, f), Following[f]))
  BY <1>2, <1>4, AfterQuiet
<1> QED
  BY <1>1, <1>5, <1>6, Zenon DEF nameField

LEMMA DataAlike ==
    ASSUME NEW a, NEW b, NEW c, Alike(a, b)
    PROVE  /\ QuietRule(a, b, structureddata(a, c), structureddata(b, c))
           /\ QuietRule(a, b, nilvalue(a, c), nilvalue(b, c))
           /\ QuietRule(a, b, sdend(a, c), sdend(b, c))
<1>1. QuietPair(a, b, a, b)
  BY QuietNone
<1>2. \A s : s \notin InElement => QuietRule(a, b, Goto(a, s), Goto(b, s))
  BY <1>1, AfterQuiet, Zenon
<1>3. \A e : QuietRule(a, b, Fail(a, e), Fail(b, e))
  BY <1>1, AfterQuiet, Zenon
<1>4. {"nilvalue", "sdid", "msg"} \cap InElement = {}
  BY DEF InElement
<1>5. /\ QuietRule(a, b, Goto(a, "nilvalue"), Goto(b, "nilvalue"))
      /\ QuietRule(a, b, Goto(a, "sdid"), Goto(b, "sdid"))
      /\ QuietRule(a, b, Goto(a, "msg"), Goto(b, "msg"))
  BY <1>2, <1>4
<1>6. QuietRule(a, b, structureddata(a, c), structureddata(b, c))
  BY <1>3, <1>5, Zenon DEF structureddata
<1>7. QuietRule(a, b, nilvalue(a, c), nilvalue(b, c))
  BY <1>3, <1>5, Zenon DEF nilvalue
<1>8. QuietRule(a, b, sdend(a, c), sdend(b, c))
  BY <1>3, <1>5, Zenon DEF sdend
<1> QED
  BY <1>6, <1>7, <1>8

LEMMA MsgAlike ==
    ASSUME NEW a, NEW b, NEW c, Alike(a, b), a.cs = "msg"
    PROVE  QuietRule(a, b, msg(a, c), msg(b, c))
<1>1. a.text = b.text /\ a.compliantMsg = b.compliantMsg
  BY DEF Alike
<1>2. QuietPair(a, b, a, b) /\ "msg" \notin InElement
  BY QuietNone DEF InElement
<1>3. QuietRule(a, b, Take(a, c), Take(b, c))
  BY <1>2, AfterQuiet
<1>4. \A t : QuietRule(a, b, err_msg(a, t), err_msg(b, t))
  <2> TAKE t
  <2> DEFINE x == [a EXCEPT !.output.message = t]
             y == [b EXCEPT !.output.message = t]
             e == IF a.compliantMsg THEN "ErrMsgNotCompliant" ELSE "ErrMsg"
  <2>1. err_msg(a, t) = Fail(x, e) /\ err_msg(b, t) = Fail(y, e)
    BY <1>1, Zenon DEF err_msg
  <2>2. QuietPair(a, b, x, y)
    BY DEF Alike, IsMachine, Fields, OutputFields, QuietPair, Quiet, Data
  <2> HIDE DEF x, y, e
  <2>3. QuietRule(a, b, Fail(x, e), Fail(y, e))
    BY <2>2, AfterQuiet
  <2> QED
    BY <2>1, <2>3
<1> DEFINE strict == a.compliantMsg /\ a.text # <<>> /\ a.text[1] = "BOM"
<1>5. /\ msg(a, c) = IF strict /\ c = "bad" THEN err_msg(a, a.text)
                     ELSE IF strict /\ c = "cut" THEN err_msg(a, Append(a.text, c)) ELSE Take(a, c)
      /\ msg(b, c) = IF strict /\ c = "bad" THEN err_msg(b, a.text)
                     ELSE IF strict /\ c = "cut" THEN err_msg(b, Append(a.text, c)) ELSE Take(b, c)
  BY <1>1, Zenon DEF msg
<1> HIDE DEF strict
<1> QED
  BY <1>3, <1>4, <1>5, Zenon

-----------------------------------------------------------------------------
(* The actions on structured data. *)

(* set_id: a new element, remembered, with no parameters; or a duplicate.   *)
LEMMA SetIdCoupled ==
    ASSUME NEW a, NEW b, Coupled(a, b), a.cs = "sdid"
    PROVE  /\ Alike(set_id(a), set_id(b)) /\ set_id(a).cs \in {"sdid", "fail"}
           /\ set_id(a).cs # "fail" =>
                /\ set_id(a).currentelem = set_id(b).currentelem
                /\ HasParams(set_id(a)) => set_id(a).currentparam = set_id(b).currentparam
<1>0. Alike(a, b) /\ a.text = b.text /\ Data(a) = Data(b)
      /\ (HasParams(a) => a.currentparam = b.currentparam)
  BY DEF Coupled, Alike, Data, Recall
<1>1. CASE a.text \in DOMAIN Data(a)
  <2>1. set_id(a) = Fail(a, "ErrSdIDDuplicated") /\ set_id(b) = Fail(b, "ErrSdIDDuplicated")
    BY <1>0, <1>1, Zenon DEF set_id, Data
  <2>2. QuietPair(a, b, Fail(a, "ErrSdIDDuplicated"), Fail(b, "ErrSdIDDuplicated"))
        /\ Fail(a, "ErrSdIDDuplicated").cs = "fail"
    BY <1>0, QuietActions, Zenon
  <2> QED
    BY <2>1, <2>2 DEF QuietPair
<1>2. CASE a.text \notin DOMAIN Data(a)
  <2> DEFINE d == Put(Data(a), a.text, EmptyMap)
             t == a.text
  <2>1. /\ set_id(a) = [a EXCEPT !.output.structuredData = d, !.output.hasElements = TRUE,
                                 !.currentelem = t]
        /\ set_id(b) = [b EXCEPT !.output.structuredData = d, !.output.hasElements = TRUE,
                                 !.currentelem = t]
    BY <1>0, <1>2, Zenon DEF set_id, Data
  <2>2. \A id \in DOMAIN d : DOMAIN d[id] # {} => id \in DOMAIN Data(a) /\ d[id] = Data(a)[id]
    <3>1. DOMAIN EmptyMap = {}
      BY DEF EmptyMap
    <3>2. DOMAIN d = {t} \cup DOMAIN Data(a) /\ d[t] = EmptyMap
          /\ \A id \in DOMAIN Data(a) : d[id] = Data(a)[id]
      BY <1>2 DEF Put
    <3> HIDE DEF d, t
    <3> QED
      BY <3>1, <3>2
  <2> HIDE DEF d, t
  <2>3. /\ Alike(set_id(a), set_id(b)) /\ set_id(a).cs = "sdid"
        /\ set_id(a).currentelem = t /\ set_id(b).currentelem = t
        /\ set_id(a).currentparam = a.currentparam /\ set_id(b).currentparam = b.currentparam
        /\ Data(set_id(a)) = d
    <3> DEFINE o == [a.output EXCEPT !.structuredData = d, !.hasElements = TRUE]
    <3>1. a.output = b.output /\ DOMAIN o = OutputFields /\ o.structuredData = d
      BY <1>0 DEF Alike, IsMachine, OutputFields
    <3>2. /\ [a EXCEPT !.output.structuredData = d, !.output.hasElements = TRUE, !.currentelem = t]
             = [a EXCEPT !.output = o, !.currentelem = t]
          /\ [b EXCEPT !.output.structuredData = d, !.output.hasElements = TRUE, !.currentelem = t]
             = [b EXCEPT !.output = o, !.currentelem = t]
      BY <1>0, <3>1 DEF Alike, IsMachine, Fields
    <3> HIDE DEF o
    <3>3. ASSUME NEW z, IsMachine(z)
          PROVE  LET w == [z EXCEPT !.output = o, !.currentelem = t]
                 IN  /\ DOMAIN w = Fields /\ w.output = o /\ w.currentelem = t
                     /\ w.compliantMsg = z.compliantMsg /\ w.optionalPriority = z.optionalPriority
                     /\ w.cs = z.cs /\ w.text = z.text /\ w.backslashat = z.backslashat
                     /\ w.err = z.err /\ w.currentparam = z.currentparam
      BY <3>3 DEF IsMachine, Fields
    <3> DEFINE x == [a EXCEPT !.output = o, !.currentelem = t]
               y == [b EXCEPT !.output = o, !.currentelem = t]
    <3>4. /\ x.output = o /\ x.currentelem = t /\ x.currentparam = a.currentparam /\ x.cs = a.cs
          /\ y.output = o /\ y.currentelem = t /\ y.currentparam = b.currentparam
      BY <1>0, <3>3, Zenon DEF Alike
    <3>5. Alike(x, y)
      BY <1>0, <3>1, <3>3 DEF Alike, IsMachine
    <3>6. set_id(a) = x /\ set_id(b) = y
      BY <2>1, <3>2, Zenon
    <3> HIDE DEF x, y
    <3> QED
      BY <3>1, <3>4, <3>5, <3>6 DEF Data
  <2>4. HasParams(set_id(a)) => HasParams(a)
    BY <2>2, <2>3 DEF HasParams
  <2> QED
    BY <1>0, <2>3, <2>4
<1> QED
  BY <1>1, <1>2

(* err_sdid removes the element remembered, if there is any element.        *)
LEMMA ErrSdIdCoupled ==
    ASSUME NEW a, NEW b, Alike(a, b), Filled(a) => a.currentelem = b.currentelem
    PROVE  Coupled(err_sdid(a), err_sdid(b)) /\ err_sdid(a).cs = "fail"
<1> DEFINE d == Without(Data(a), a.currentelem)
           h == a.output.hasElements /\ d # EmptyMap
           x == [a EXCEPT !.output.structuredData = d, !.output.hasElements = h]
           y == [b EXCEPT !.output.structuredData = d, !.output.hasElements = h]
<1>0. Data(a) = Data(b) /\ a.output = b.output
  BY DEF Alike, Data
<1>1. Without(Data(b), b.currentelem) = d
  <2>1. CASE Filled(a)
    BY <1>0, <2>1
  <2>2. CASE ~Filled(a)
    <3>1. \A k : DOMAIN Data(a) \ {k} = {}
      BY <2>2 DEF Filled
    <3>2. \A k : Without(Data(a), k) = [i \in {} |-> Data(a)[i]]
      BY <3>1, Zenon DEF Without, Restrict
    <3> HIDE DEF d
    <3> QED
      BY <1>0, <3>2 DEF d
  <2> QED
    BY <2>1, <2>2
<1>2. err_sdid(a) = Fail(x, "ErrSdID") /\ err_sdid(b) = Fail(y, "ErrSdID")
  <2>1. err_sdid(a) = Fail([a EXCEPT !.output.structuredData = d,
                                     !.output.hasElements = @ /\ d # EmptyMap], "ErrSdID")
    BY Zenon DEF err_sdid, Data
  <2>2. err_sdid(b) = Fail([b EXCEPT !.output.structuredData = d,
                                     !.output.hasElements = @ /\ d # EmptyMap], "ErrSdID")
    BY <1>1, Zenon DEF err_sdid, Data
  <2> HIDE DEF d
  <2>3. x = [a EXCEPT !.output.structuredData = d, !.output.hasElements = @ /\ d # EmptyMap]
    BY DEF Alike, IsMachine, OutputFields, Fields
  <2>4. y = [b EXCEPT !.output.structuredData = d, !.output.hasElements = @ /\ d # EmptyMap]
    BY <1>0 DEF Alike, IsMachine, OutputFields, Fields
  <2> QED
    BY <2>1, <2>2, <2>3, <2>4, Zenon
<1> HIDE DEF d, h
<1>3. Alike(x, y)
  BY <1>0 DEF Alike, IsMachine, OutputFields, Fields
<1> HIDE DEF x, y
<1>4. Coupled(Fail(x, "ErrSdID"), Fail(y, "ErrSdID")) /\ Fail(x, "ErrSdID").cs = "fail"
  BY <1>3, FailCoupled
<1> QED
  BY <1>2, <1>4

(* err_sdparam removes the parameter remembered from the element            *)
(* remembered, if it has any.                                               *)
LEMMA ErrSdParamCoupled ==
    ASSUME NEW a, NEW b, Coupled(a, b), a.cs \in InElement
    PROVE  Coupled(err_sdparam(a), err_sdparam(b)) /\ err_sdparam(a).cs = "fail"
<1>0. /\ Alike(a, b) /\ Data(a) = Data(b) /\ a.currentelem = b.currentelem
      /\ HasParams(a) => a.currentparam = b.currentparam
  BY DEF Coupled, Alike, Data, Recall, InElement
<1> DEFINE e == a.currentelem
           p(n) == Without(Data(a)[e], n.currentparam)
           x == [a EXCEPT !.output.structuredData[e] = p(a)]
           y == [b EXCEPT !.output.structuredData[e] = p(a)]
<1>1. CASE e \in DOMAIN Data(a)
  <2>1. p(a) = p(b)
    <3>1. CASE HasParams(a)
      BY <1>0, <3>1
    <3>2. CASE ~HasParams(a)
      <4>1. DOMAIN Data(a)[e] = {}
        BY <1>1, <3>2 DEF HasParams
      <4>2. \A k : DOMAIN Data(a)[e] \ {k} = {}
        BY <4>1
      <4>3. \A k : Without(Data(a)[e], k) = [i \in {} |-> Data(a)[e][i]]
        BY <4>2, Zenon DEF Without, Restrict
      <4> HIDE DEF e
      <4> QED
        BY <4>3
    <3> QED
      BY <3>1, <3>2
  <2>2. err_sdparam(a) = Fail(x, "ErrSdParam") /\ err_sdparam(b) = Fail(y, "ErrSdParam")
    <3>1. err_sdparam(a) = Fail([a EXCEPT !.output.structuredData[e] = Without(@, a.currentparam)],
                                "ErrSdParam")
      BY <1>1, Zenon DEF err_sdparam, Data
    <3>2. err_sdparam(b) = Fail([b EXCEPT !.output.structuredData[e] = Without(@, b.currentparam)],
                                "ErrSdParam")
      BY <1>0, <1>1, Zenon DEF err_sdparam, Data
    <3>3. x = [a EXCEPT !.output.structuredData[e] = Without(@, a.currentparam)]
      BY Zenon DEF Data
    <3>4. y = [b EXCEPT !.output.structuredData[e] = Without(@, b.currentparam)]
      <4>1. y = [b EXCEPT !.output.structuredData[e] = Without(Data(b)[e], b.currentparam)]
        <5> HIDE DEF e
        <5> QED
          BY <1>0, <2>1, Zenon
      <4> QED
        BY <4>1, Zenon DEF Data
    <3> QED
      BY <3>1, <3>2, <3>3, <3>4, Zenon
  <2> DEFINE q == p(a)
  <2> HIDE DEF q, e
  <2>3. Alike(x, y)
    BY <1>0 DEF Alike, IsMachine, OutputFields, Fields, q
  <2> HIDE DEF x, y
  <2>4. Coupled(Fail(x, "ErrSdParam"), Fail(y, "ErrSdParam")) /\ Fail(x, "ErrSdParam").cs = "fail"
    BY <2>3, FailCoupled
  <2> QED
    BY <2>2, <2>4
<1>2. CASE e \notin DOMAIN Data(a)
  <2>1. err_sdparam(a) = Fail(a, "ErrSdParam") /\ err_sdparam(b) = Fail(b, "ErrSdParam")
    BY <1>0, <1>2, Zenon DEF err_sdparam, Data
  <2>2. Coupled(Fail(a, "ErrSdParam"), Fail(b, "ErrSdParam")) /\ Fail(a, "ErrSdParam").cs = "fail"
    BY <1>0, FailCoupled
  <2> QED
    BY <2>1, <2>2
<1> QED
  BY <1>1, <1>2

-----------------------------------------------------------------------------
(* The rules of structured data. *)

(* Both remember the same. *)
Agree(a, b) == Alike(a, b) /\ a.currentelem = b.currentelem /\ a.currentparam = b.currentparam

LEMMA AgreeCoupled ==
    ASSUME NEW a, NEW b, Agree(a, b)
    PROVE  Coupled(a, b)
  BY DEF Agree, Coupled, Recall

LEMMA AgreeQuiet ==
    ASSUME NEW a, NEW b, NEW x, NEW y, Agree(a, b), QuietPair(a, b, x, y)
    PROVE  Agree(x, y)
  BY DEF Agree, QuietPair, Quiet

(* Behind a name: in the element, at none of its parameters. *)
LEMMA GotoCoupled ==
    ASSUME NEW a, NEW b, Alike(a, b), a.currentelem = b.currentelem,
           HasParams(a) => a.currentparam = b.currentparam, NEW s, s \notin InParam
    PROVE  Coupled(Goto(a, s), Goto(b, s))
<1>1. QuietPair(a, b, Goto(a, s), Goto(b, s)) /\ Goto(a, s).cs = s
  BY QuietGoto
<1> QED
  BY <1>1 DEF Coupled, Recall, QuietPair, Quiet, HasParams

LEMMA SdIdAlike ==
    ASSUME NEW a, NEW b, NEW c, Coupled(a, b), a.cs = "sdid"
    PROVE  Coupled(sdid(a, c), sdid(b, c))
<1>0. Alike(a, b) /\ (Filled(a) => a.currentelem = b.currentelem)
  BY DEF Coupled, Recall
<1>1. (NotMarked(a) <=> NotMarked(b)) /\ (Fits(a, "sdname") <=> Fits(b, "sdname"))
  BY <1>0 DEF Alike, NotMarked, Fits
<1>2. CASE c \in NameTokens /\ Fits(a, "sdname")
  <2>1. sdid(a, c) = Take(a, c) /\ sdid(b, c) = Take(b, c)
    BY <1>1, <1>2, Zenon DEF sdid
  <2>2. QuietPair(a, b, a, b) /\ a.cs \notin InElement
    BY <1>0, QuietNone DEF InElement
  <2>3. QuietRule(a, b, Take(a, c), Take(b, c))
    BY <2>2, AfterQuiet
  <2> QED
    BY <2>1, <2>3, QuietRuleCoupled
<1>3. CASE ~(c \in NameTokens /\ Fits(a, "sdname")) /\ NotMarked(a)
  <2>1. sdid(a, c) = err_sdid(a) /\ sdid(b, c) = err_sdid(b)
    BY <1>1, <1>3, Zenon DEF sdid
  <2> QED
    BY <1>0, <2>1, ErrSdIdCoupled
<1>4. CASE ~(c \in NameTokens /\ Fits(a, "sdname")) /\ ~NotMarked(a)
  <2> DEFINE x == set_id(a)
             y == set_id(b)
             F(n) == IF n.cs = "fail" THEN n
                     ELSE IF c = " " THEN Goto(n, "sdparam")
                     ELSE IF c = "]" THEN Goto(n, "sdend") ELSE err_sdid(n)
  <2>1. sdid(a, c) = F(x) /\ sdid(b, c) = F(y)
    BY <1>1, <1>4, Zenon DEF sdid, Then
  <2>2. /\ Alike(x, y) /\ x.cs \in {"sdid", "fail"} /\ x.cs = y.cs
        /\ x.cs # "fail" => /\ x.currentelem = y.currentelem
                            /\ HasParams(x) => x.currentparam = y.currentparam
    BY SetIdCoupled DEF Alike
  <2> HIDE DEF x, y
  <2>3. CASE x.cs = "fail"
    <3>1. F(x) = x /\ F(y) = y
      BY <2>2, <2>3
    <3> QED
      BY <2>1, <2>2, <2>3, <3>1 DEF Coupled
  <2>4. CASE x.cs # "fail"
    <3>1. Coupled(Goto(x, "sdparam"), Goto(y, "sdparam")) /\ Coupled(Goto(x, "sdend"), Goto(y, "sdend"))
      BY <2>2, <2>4, GotoCoupled DEF InParam
    <3>2. Coupled(err_sdid(x), err_sdid(y))
      BY <2>2, <2>4, ErrSdIdCoupled
    <3> QED
      BY <2>1, <2>2, <2>4, <3>1, <3>2, Zenon
  <2> QED
    BY <2>3, <2>4
<1> QED
  BY <1>2, <1>3, <1>4

LEMMA SdParamAlike ==
    ASSUME NEW a, NEW b, NEW c, Coupled(a, b), a.cs = "sdparam"
    PROVE  Coupled(sdparam(a, c), sdparam(b, c))
<1>0. Alike(a, b) /\ a.cs \in InElement /\ a.cs \notin InParam /\ Recall(a, b)
      /\ a.currentelem = b.currentelem
  BY DEF Coupled, Recall, InElement, InParam
<1>1. (NotMarked(a) <=> NotMarked(b)) /\ (Fits(a, "sdname") <=> Fits(b, "sdname"))
      /\ a.text = b.text
  BY <1>0 DEF Alike, NotMarked, Fits
<1>2. CASE c \in NameTokens /\ Fits(a, "sdname")
  <2> DEFINE I(n) == IF NotMarked(n) THEN ini_sdparam(n) ELSE n
             x == I(a)
             y == I(b)
  <2>1. sdparam(a, c) = Take(x, c) /\ sdparam(b, c) = Take(y, c)
    BY <1>1, <1>2, Zenon DEF sdparam
  <2>2. QuietPair(a, b, x, y) /\ x.cs = a.cs
    BY <1>0, <1>1, QuietActions, QuietNone, Zenon
  <2> HIDE DEF x, y
  <2>3. QuietPair(x, y, Take(x, c), Take(y, c)) /\ Take(x, c).cs = x.cs
    BY <2>2, QuietActions, Zenon DEF QuietPair
  <2>4. QuietPair(a, b, Take(x, c), Take(y, c)) /\ Take(x, c).cs \notin InParam
    BY <1>0, <2>2, <2>3, QuietThen
  <2> QED
    BY <1>0, <2>1, <2>4, QuietCoupled
<1>3. CASE ~(c \in NameTokens /\ Fits(a, "sdname")) /\ c = "=" /\ ~NotMarked(a)
  <2> DEFINE x == set_paramname(a)
             y == set_paramname(b)
  <2>1. sdparam(a, c) = Goto(x, "dq") /\ sdparam(b, c) = Goto(y, "dq")
    BY <1>1, <1>3, Zenon DEF sdparam
  <2>2. Agree(x, y)
    BY <1>0, <1>1 DEF set_paramname, Agree, Alike, IsMachine, Fields, OutputFields
  <2> HIDE DEF x, y
  <2>3. QuietPair(x, y, Goto(x, "dq"), Goto(y, "dq"))
    BY <2>2, QuietActions, Zenon DEF Agree
  <2> QED
    BY <2>1, <2>2, <2>3, AgreeQuiet, AgreeCoupled
<1>4. CASE ~(c \in NameTokens /\ Fits(a, "sdname")) /\ ~(c = "=" /\ ~NotMarked(a))
  <2>1. sdparam(a, c) = err_sdparam(a) /\ sdparam(b, c) = err_sdparam(b)
    BY <1>1, <1>4, Zenon DEF sdparam
  <2> QED
    BY <1>0, <2>1, ErrSdParamCoupled
<1> QED
  BY <1>2, <1>3, <1>4

(* Once a parameter's name is read both machines agree, and stay so. *)
LEMMA ParamAgree ==
    ASSUME NEW a, NEW b, Coupled(a, b), a.cs \in InParam
    PROVE  Agree(a, b)
  BY DEF Coupled, Recall, Agree, InParam, InElement

LEMMA AfterAgree ==
    ASSUME NEW a, NEW b, Agree(a, b)
    PROVE  /\ \A s : Coupled(Goto(a, s), Goto(b, s))
           /\ \A c : Coupled(Take(a, c), Take(b, c)) /\ Take(a, c).cs = a.cs
           /\ \A e : Coupled(Fail(a, e), Fail(b, e))
<1>0. Alike(a, b)
  BY DEF Agree
<1>1. ASSUME NEW s PROVE Coupled(Goto(a, s), Goto(b, s))
  <2>1. QuietPair(a, b, Goto(a, s), Goto(b, s))
    BY <1>0, QuietActions, Zenon
  <2> QED
    BY <2>1, AgreeQuiet, AgreeCoupled
<1>2. ASSUME NEW c PROVE Coupled(Take(a, c), Take(b, c)) /\ Take(a, c).cs = a.cs
  <2>1. QuietPair(a, b, Take(a, c), Take(b, c)) /\ Take(a, c).cs = a.cs
    BY <1>0, QuietActions, Zenon
  <2> QED
    BY <2>1, AgreeQuiet, AgreeCoupled
<1>3. ASSUME NEW e PROVE Coupled(Fail(a, e), Fail(b, e))
  BY <1>0, FailCoupled
<1> QED
  BY <1>1, <1>2, <1>3, Zenon

LEMMA DqAlike ==
    ASSUME NEW a, NEW b, NEW c, Coupled(a, b), a.cs = "dq"
    PROVE  Coupled(dq(a, c), dq(b, c))
<1>1. Coupled(Goto(a, "paramvalue"), Goto(b, "paramvalue"))
  BY ParamAgree, AfterAgree DEF InParam
<1>2. Coupled(err_sdparam(a), err_sdparam(b))
  BY ErrSdParamCoupled DEF InElement
<1> QED
  BY <1>1, <1>2, Zenon DEF dq

LEMMA ParamEndAlike ==
    ASSUME NEW a, NEW b, NEW c, Coupled(a, b), a.cs = "paramend"
    PROVE  Coupled(paramend(a, c), paramend(b, c))
<1>1. Agree(a, b)
  BY ParamAgree DEF InParam
<1>2. Coupled(Goto(a, "sdparam"), Goto(b, "sdparam")) /\ Coupled(Goto(a, "sdend"), Goto(b, "sdend"))
  BY <1>1, AfterAgree
<1>3. Coupled(err_sdparam(a), err_sdparam(b))
  BY ErrSdParamCoupled DEF InElement
<1> QED
  BY <1>2, <1>3, Zenon DEF paramend

(* set_paramvalue: the value under the names remembered. *)
LEMMA SetValueAgree ==
    ASSUME NEW a, NEW b, Agree(a, b)
    PROVE  Agree(set_paramvalue(a), set_paramvalue(b))
<1> DEFINE d == [Data(a) EXCEPT ![a.currentelem] =
                    Put(@, a.currentparam, RemoveBytes(a.text, a.backslashat))]
           o == [a.output EXCEPT !.structuredData = d]
           x == [a EXCEPT !.output = o]
           y == [b EXCEPT !.output = o]
<1>0. /\ a.output = b.output /\ a.currentelem = b.currentelem /\ a.currentparam = b.currentparam
      /\ a.text = b.text /\ a.backslashat = b.backslashat
      /\ DOMAIN a = Fields /\ DOMAIN b = Fields /\ DOMAIN a.output = OutputFields
  BY DEF Agree, Alike, IsMachine
<1>1. set_paramvalue(a) = x
  BY Zenon DEF set_paramvalue, Data
<1>2. set_paramvalue(b) = y
  <2>1. set_paramvalue(b) =
          [b EXCEPT !.output = [b.output EXCEPT !.structuredData =
              [b.output.structuredData EXCEPT ![b.currentelem] =
                  Put(@, b.currentparam, RemoveBytes(b.text, b.backslashat))]]]
    BY Zenon DEF set_paramvalue
  <2> QED
    BY <1>0, <2>1, Zenon DEF Data
<1> HIDE DEF d
<1>3. DOMAIN o = OutputFields
  BY <1>0 DEF OutputFields
<1> HIDE DEF o
<1>4. Agree(x, y)
  BY <1>0, <1>3 DEF Agree, Alike, IsMachine, Fields
<1> QED
  BY <1>1, <1>2, <1>4

LEMMA ParamValueAlike ==
    ASSUME NEW a, NEW b, NEW c, Coupled(a, b), a.cs = "paramvalue"
    PROVE  Coupled(paramvalue(a, c), paramvalue(b, c))
<1>1. Agree(a, b) /\ a.text = b.text
  BY ParamAgree DEF InParam, Agree, Alike
<1>2. CASE c = "\""
  <2>1. Coupled(Goto(set_paramvalue(a), "paramend"), Goto(set_paramvalue(b), "paramend"))
    BY <1>1, SetValueAgree, AfterAgree
  <2> QED
    BY <1>2, <2>1, Zenon DEF paramvalue
<1>3. CASE c # "\"" /\ c = "\\"
  <2> DEFINE k == Len(a.text) + 1
             x == [Take(a, c) EXCEPT !.cs = "escapes", !.backslashat = @ \cup {k}]
             y == [Take(b, c) EXCEPT !.cs = "escapes", !.backslashat = @ \cup {k}]
  <2>1. paramvalue(a, c) = x /\ paramvalue(b, c) = y
    BY <1>1, <1>3, Zenon DEF paramvalue
  <2>2. Agree(Take(a, c), Take(b, c))
    <3>1. QuietPair(a, b, Take(a, c), Take(b, c))
      BY <1>1, QuietActions, Zenon DEF Agree
    <3> QED
      BY <1>1, <3>1, AgreeQuiet
  <2> HIDE DEF k
  <2>3. Agree(x, y)
    BY <2>2 DEF Agree, Alike, IsMachine, Fields
  <2> QED
    BY <2>1, <2>3, AgreeCoupled
<1>4. CASE c # "\"" /\ c # "\\"
  <2>1. /\ Coupled(Fail(a, "ErrEscape"), Fail(b, "ErrEscape")) /\ Coupled(Take(a, c), Take(b, c))
    BY <1>1, AfterAgree
  <2>2. Coupled(err_sdparam(a), err_sdparam(b))
    BY ErrSdParamCoupled DEF InElement
  <2> QED
    BY <1>4, <2>1, <2>2, Zenon DEF paramvalue
<1> QED
  BY <1>2, <1>3, <1>4

LEMMA EscapesAlike ==
    ASSUME NEW a, NEW b, NEW c, Coupled(a, b), a.cs = "escapes"
    PROVE  Coupled(escapes(a, c), escapes(b, c))
<1>1. Agree(a, b)
  BY ParamAgree DEF InParam
<1> DEFINE x == [Take(a, c) EXCEPT !.cs = "paramvalue"]
           y == [Take(b, c) EXCEPT !.cs = "paramvalue"]
<1>2. Agree(Take(a, c), Take(b, c))
  <2>1. QuietPair(a, b, Take(a, c), Take(b, c))
    BY <1>1, QuietActions, Zenon DEF Agree
  <2> QED
    BY <1>1, <2>1, AgreeQuiet
<1>3. Agree(x, y)
  BY <1>2 DEF Agree, Alike, IsMachine, Fields
<1>4. Coupled(x, y) /\ Coupled(Fail(a, "ErrEscape"), Fail(b, "ErrEscape"))
  BY <1>1, <1>3, AgreeCoupled, AfterAgree
<1> QED
  BY <1>4, Zenon DEF escapes

-----------------------------------------------------------------------------
(* A token, and the end of the input, on both machines. *)

(* The rules of the states that keep to themselves. *)
LEMMA StepOf ==
    ASSUME NEW n, NEW c
    PROVE  /\ n.cs = "main" => Step(n, c) = main(n, c)
           /\ n.cs = "prival" => Step(n, c) = prival(n, c)
           /\ n.cs = "version" => Step(n, c) = version(n, c)
           /\ n.cs = "timestamp" => Step(n, c) = timestamp(n, c)
  BY DEF Step, NameFields

LEMMA StepCoupled ==
    ASSUME NEW a, NEW b, NEW c, Coupled(a, b)
    PROVE  Coupled(Step(a, c), Step(b, c))
<1>0. Alike(a, b) /\ b.cs = a.cs
  BY DEF Coupled, Alike
<1>q. ASSUME NEW x, NEW y, a.cs # "fail", QuietRule(a, b, x, y) PROVE Coupled(x, y)
  BY <1>q, QuietRuleCoupled
<1>1. CASE a.cs = "main"
  <2>1. QuietRule(a, b, main(a, c), main(b, c))
    BY <1>0, <1>1, MainAlike
  <2>2. Step(a, c) = main(a, c) /\ Step(b, c) = main(b, c)
    BY <1>0, <1>1, StepOf
  <2> QED
    BY <1>1, <1>q, <2>1, <2>2
<1>2. CASE a.cs = "prival"
  <2>1. QuietRule(a, b, prival(a, c), prival(b, c))
    BY <1>0, <1>2, PrivalAlike
  <2>2. Step(a, c) = prival(a, c) /\ Step(b, c) = prival(b, c)
    BY <1>0, <1>2, StepOf
  <2> QED
    BY <1>2, <1>q, <2>1, <2>2
<1>3. CASE a.cs = "version"
  <2>1. QuietRule(a, b, version(a, c), version(b, c))
    BY <1>0, <1>3, VersionAlike
  <2>2. Step(a, c) = version(a, c) /\ Step(b, c) = version(b, c)
    BY <1>0, <1>3, StepOf
  <2> QED
    BY <1>3, <1>q, <2>1, <2>2
<1>4. CASE a.cs = "timestamp"
  <2>1. QuietRule(a, b, timestamp(a, c), timestamp(b, c))
    BY <1>0, <1>4, TimestampAlike
  <2>2. Step(a, c) = timestamp(a, c) /\ Step(b, c) = timestamp(b, c)
    BY <1>0, <1>4, StepOf
  <2> QED
    BY <1>4, <1>q, <2>1, <2>2
<1>5. CASE a.cs \in NameFields
  <2>1. Step(a, c) = nameField(a, c, a.cs) /\ Step(b, c) = nameField(b, c, a.cs)
    BY <1>0, <1>5 DEF Step, NameFields
  <2>2. QuietRule(a, b, nameField(a, c, a.cs), nameField(b, c, a.cs))
    BY <1>0, <1>5, NameAlike
  <2> QED
    BY <1>5, <1>q, <2>1, <2>2 DEF NameFields
<1>6. CASE a.cs \in {"structureddata", "nilvalue", "sdend"}
  <2>1. /\ QuietRule(a, b, structureddata(a, c), structureddata(b, c))
        /\ QuietRule(a, b, nilvalue(a, c), nilvalue(b, c))
        /\ QuietRule(a, b, sdend(a, c), sdend(b, c))
    BY <1>0, DataAlike
  <2> QED
    BY <1>0, <1>6, <1>q, <2>1 DEF Step, NameFields
<1>7. CASE a.cs = "sdid"
  BY <1>0, <1>7, SdIdAlike DEF Step, NameFields
<1>8. CASE a.cs = "sdparam"
  BY <1>0, <1>8, SdParamAlike DEF Step, NameFields
<1>9. CASE a.cs = "dq"
  BY <1>0, <1>9, DqAlike DEF Step, NameFields
<1>10. CASE a.cs = "paramvalue"
  BY <1>0, <1>10, ParamValueAlike DEF Step, NameFields
<1>11. CASE a.cs = "escapes"
  BY <1>0, <1>11, EscapesAlike DEF Step, NameFields
<1>12. CASE a.cs = "paramend"
  BY <1>0, <1>12, ParamEndAlike DEF Step, NameFields
<1>13. CASE a.cs = "msg"
  BY <1>0, <1>13, <1>q, MsgAlike DEF Step, NameFields
<1>14. CASE a.cs \notin {"main", "prival", "version", "timestamp", "structureddata", "nilvalue",
                         "sdend", "sdid", "sdparam", "dq", "paramvalue", "escapes", "paramend",
                         "msg"} \cup NameFields
  BY <1>0, <1>14 DEF Step, NameFields
<1> QED
  BY <1>1, <1>2, <1>3, <1>4, <1>5, <1>6, <1>7, <1>8, <1>9, <1>10, <1>11, <1>12, <1>13, <1>14

LEMMA EofAlike ==
    ASSUME NEW a, NEW b, Coupled(a, b)
    PROVE  Alike(Eof(a), Eof(b))
<1>0. /\ Alike(a, b) /\ b.cs = a.cs /\ b.text = a.text /\ b.optionalPriority = a.optionalPriority
      /\ NotMarked(a) <=> NotMarked(b)
  BY DEF Coupled, Alike, NotMarked
<1>f. ASSUME NEW x, NEW y, Alike(x, y), NEW e PROVE Alike(Fail(x, e), Fail(y, e))
  BY <1>f, FailCoupled DEF Coupled
<1>1. CASE a.cs = "main"
  <2>1. Eof(a) = Fail(a, IF a.optionalPriority THEN "ErrVersion" ELSE "ErrPri")
        /\ Eof(b) = Fail(b, IF a.optionalPriority THEN "ErrVersion" ELSE "ErrPri")
    BY <1>0, <1>1 DEF Eof, NameFields
  <2> QED
    BY <1>0, <1>f, <2>1, Zenon
<1>2. CASE a.cs = "prival"
  BY <1>0, <1>2, <1>f DEF Eof, NameFields
<1>3. CASE a.cs = "version"
  <2>1. Alike(set_version(a), set_version(b))
    BY <1>0, QuietActions DEF QuietPair
  <2>2. Alike(Fail(set_version(a), "ErrParse"), Fail(set_version(b), "ErrParse"))
        /\ Alike(Fail(a, "ErrVersion"), Fail(b, "ErrVersion"))
    BY <1>0, <1>f, <2>1
  <2>3. /\ Eof(a) = IF Len(a.text) = 1 THEN Fail(set_version(a), "ErrParse") ELSE Fail(a, "ErrVersion")
        /\ Eof(b) = IF Len(a.text) = 1 THEN Fail(set_version(b), "ErrParse") ELSE Fail(b, "ErrVersion")
    BY <1>0, <1>3 DEF Eof, NameFields
  <2> QED
    BY <2>2, <2>3, Zenon
<1>4. CASE a.cs = "timestamp"
  <2>1. CASE NotMarked(a)
    BY <1>0, <1>4, <1>f, <2>1 DEF Eof, NameFields
  <2>2. CASE ~NotMarked(a)
    <3> DEFINE T(n) == IF n.text = <<"-">> THEN n ELSE set_timestamp(n)
               F(n) == IF n.cs = "fail" THEN n ELSE Fail(n, "ErrParse")
               x == T(a)
               y == T(b)
    <3>1. Eof(a) = F(x) /\ Eof(b) = F(y)
      <4>1. \A n : n.cs = "timestamp" =>
              Eof(n) = IF NotMarked(n) THEN Fail(n, "ErrTimestamp")
                       ELSE Then(IF n.text = <<"-">> THEN n ELSE set_timestamp(n),
                                 LAMBDA k : Fail(k, "ErrParse"))
        BY DEF Eof, NameFields
      <4> QED
        BY <1>0, <1>4, <2>2, <4>1, Zenon DEF Then
    <3>2. Alike(x, y)
      BY <1>0, QuietTimestamp, Zenon DEF QuietPair
    <3> HIDE DEF x, y
    <3>3. x.cs = y.cs /\ Alike(Fail(x, "ErrParse"), Fail(y, "ErrParse"))
      BY <1>f, <3>2 DEF Alike
    <3> QED
      BY <3>1, <3>2, <3>3, Zenon
  <2> QED
    BY <2>1, <2>2
<1>5. CASE a.cs \in NameFields
  <2>1. Eof(a) = Fail(a, a.cs) /\ Eof(b) = Fail(b, a.cs)
    BY <1>0, <1>5 DEF Eof, NameFields
  <2> QED
    BY <1>0, <1>f, <2>1
<1>6. CASE a.cs = "structureddata"
  BY <1>0, <1>6, <1>f DEF Eof, NameFields
<1>7. CASE a.cs = "sdid"
  <2>1. CASE NotMarked(a)
    <3>1. Eof(a) = err_sdid(a) /\ Eof(b) = err_sdid(b)
      BY <1>0, <1>7, <2>1 DEF Eof, NameFields
    <3> QED
      BY <1>7, <3>1, ErrSdIdCoupled DEF Coupled, Recall
  <2>2. CASE ~NotMarked(a)
    <3> DEFINE F(n) == IF n.cs = "fail" THEN n ELSE err_sdid(n)
               x == set_id(a)
               y == set_id(b)
    <3>1. Eof(a) = F(x) /\ Eof(b) = F(y)
      <4>1. \A n : n.cs = "sdid" =>
              Eof(n) = IF NotMarked(n) THEN err_sdid(n) ELSE Then(set_id(n), err_sdid)
        BY DEF Eof, NameFields
      <4> QED
        BY <1>0, <1>7, <2>2, <4>1, Zenon DEF Then
    <3>2. Alike(x, y) /\ x.cs = y.cs /\ (x.cs # "fail" => x.currentelem = y.currentelem)
      BY <1>7, SetIdCoupled DEF Alike
    <3> HIDE DEF x, y
    <3>3. x.cs # "fail" => Alike(err_sdid(x), err_sdid(y))
      BY <3>2, ErrSdIdCoupled DEF Coupled
    <3> QED
      BY <3>1, <3>2, <3>3, Zenon
  <2> QED
    BY <2>1, <2>2
<1>8. CASE a.cs \in {"sdparam", "dq", "paramend"}
  <2>1. Eof(a) = err_sdparam(a) /\ Eof(b) = err_sdparam(b)
    BY <1>0, <1>8 DEF Eof, NameFields
  <2> QED
    BY <1>8, <2>1, ErrSdParamCoupled DEF Coupled, InElement
<1>9. CASE a.cs \in {"paramvalue", "escapes"}
  BY <1>0, <1>9, <1>f DEF Eof, NameFields
<1>10. CASE a.cs = "msg"
  <2>1. Eof(a) = set_msg(a) /\ Eof(b) = set_msg(b)
    BY <1>0, <1>10 DEF Eof, NameFields
  <2> QED
    BY <1>0, <2>1, QuietActions DEF QuietPair
<1>11. CASE a.cs \notin {"main", "prival", "version", "timestamp", "structureddata", "sdid",
                         "sdparam", "dq", "paramend", "paramvalue", "escapes", "msg"} \cup NameFields
  BY <1>0, <1>11 DEF Eof, NameFields
<1> QED
  BY <1>1, <1>2, <1>3, <1>4, <1>5, <1>6, <1>7, <1>8, <1>9, <1>10, <1>11

(* The tail of Parse does not look at what is remembered. *)
LEMMA AnswerAlike ==
    ASSUME NEW a, NEW b, Alike(a, b), NEW be
    PROVE  Answer(a, be) = Answer(b, be)
<1>1. a.cs = b.cs /\ a.output = b.output /\ a.err = b.err /\ a.optionalPriority = b.optionalPriority
  BY DEF Alike
<1> QED
  BY <1>1, Zenon DEF Answer, minimal

-----------------------------------------------------------------------------
(* The parser.  Only the holder of the mutex reads, and what it reads its   *)
(* own machine reads too; its result is what that machine would answer.     *)

CallFields == {"pc", "src", "built", "read", "res", "alone", "seen"}
InParse(g) == call[g].pc \in {"read", "parsed"}
AnsweredAlone(g) ==
    \/ bestEffort /\ call[g].res = Answer(call[g].alone, TRUE)
    \/ call[g].res = Answer(call[g].alone, FALSE)

CallInv(g) ==
    /\ DOMAIN call[g] = CallFields
    /\ InParse(g) => mutex = g
    /\ call[g].pc \in {"idle", "lock"} => call[g].alone = NewMachine(config)
    /\ call[g].pc = "read" => Coupled(m, call[g].alone)
    /\ call[g].pc \in {"parsed", "done"} => AnsweredAlone(g)

Inv == /\ bestEffort \in BOOLEAN /\ IsMachine(m)
       /\ DOMAIN call = Goroutines
       /\ \A g \in Goroutines : CallInv(g)

LEMMA NewIsMachine == IsMachine(NewMachine(config))
<1>1. DOMAIN NoOutput = OutputFields
  BY Zenon DEF NoOutput, OutputFields
<1> HIDE DEF NoOutput
<1>2. NewMachine(config).output = NoOutput
  BY DEF NewMachine
<1> QED
  BY <1>1, <1>2 DEF IsMachine, NewMachine, Fields

LEMMA NoCallIs ==
    ASSUME NEW c
    PROVE  /\ DOMAIN NoCall(c) = CallFields /\ NoCall(c).pc = "idle"
           /\ NoCall(c).alone = NewMachine(c)
  BY DEF NoCall, CallFields

LEMMA InitInv == Init => Inv
<1> SUFFICES ASSUME Init PROVE Inv
  OBVIOUS
<1>1. IsMachine(m)
  BY NewIsMachine DEF Init
<1>2. DOMAIN call = Goroutines /\ \A g \in Goroutines : call[g] = NoCall(config)
  BY DEF Init
<1>3. ASSUME NEW g \in Goroutines PROVE CallInv(g)
  BY <1>2, NoCallIs DEF CallInv, InParse
<1> QED
  BY <1>1, <1>2, <1>3 DEF Inv, Init

(* A step that does not touch a call leaves it as it was, if the machine is *)
(* not taken away from its reader.                                          *)
LEMMA Untouched ==
    ASSUME NEW g \in Goroutines, CallInv(g), config' = config, bestEffort => bestEffort',
           call'[g] = call[g], InParse(g) => mutex' = g, call[g].pc = "read" => m' = m
    PROVE  CallInv(g)'
<1>1. AnsweredAlone(g) => AnsweredAlone(g)'
  BY DEF AnsweredAlone
<1>2. call[g].pc = "read" => Coupled(m, call[g].alone)'
  BY DEF CallInv, Coupled, Alike, IsMachine, Recall, Filled, HasParams, Data
<1>3. NewMachine(config)' = NewMachine(config)
  BY DEF NewMachine
<1>4. call[g].pc \in {"idle", "lock"} => call'[g].alone = NewMachine(config)'
  BY <1>3 DEF CallInv
<1> QED
  BY <1>1, <1>2, <1>4 DEF CallInv, InParse

LEMMA CallStep ==
    ASSUME Inv, NEW g \in Goroutines, NEW src, Call(g, src)
    PROVE  Inv'
<1>1. /\ DOMAIN call' = Goroutines /\ DOMAIN call'[g] = CallFields /\ call[g].pc = "idle"
      /\ call'[g].pc = "lock" /\ call'[g].alone = call[g].alone
      /\ \A h \in Goroutines \ {g} : call'[h] = call[h]
  BY DEF Call, Inv, CallInv, CallFields
<1>2. config' = config /\ bestEffort' = bestEffort /\ m' = m /\ mutex' = mutex
  BY DEF Call
<1>3. CallInv(g)'
  BY <1>1, <1>2 DEF Inv, CallInv, InParse, NewMachine
<1>4. ASSUME NEW h \in Goroutines \ {g} PROVE CallInv(h)'
  BY <1>1, <1>2, Untouched DEF Inv, CallInv
<1> QED
  BY <1>1, <1>2, <1>3, <1>4 DEF Inv, IsMachine

(* Lock: no one else is in Parse, so no one misses the machine's old state. *)
LEMMA LockStep ==
    ASSUME Inv, NEW g \in Goroutines, Lock(g)
    PROVE  Inv'
<1>1. /\ DOMAIN call' = Goroutines /\ DOMAIN call'[g] = CallFields /\ call[g].pc = "lock"
      /\ call'[g].pc = "read" /\ call'[g].alone = call[g].alone
      /\ \A h \in Goroutines \ {g} : call'[h] = call[h]
  BY DEF Lock, Inv, CallInv, CallFields
<1>2. /\ config' = config /\ bestEffort' = bestEffort /\ m' = Begin(m) /\ mutex' = g
      /\ mutex = "free"
  BY DEF Lock
<1>3. Coupled(m', call'[g].alone)
  BY <1>1, <1>2, BeginCoupled DEF Inv, CallInv
<1>4. IsMachine(m)' /\ Coupled(m, call[g].alone)'
  BY <1>2, <1>3 DEF Coupled, Alike, IsMachine, Recall, Filled, HasParams, Data
<1>5. CallInv(g)'
  BY <1>1, <1>2, <1>4 DEF CallInv, InParse
<1>6. ASSUME NEW h \in Goroutines \ {g} PROVE CallInv(h)'
  <2>1. CallInv(h) /\ ~InParse(h)
    BY <1>2, ParserAssumption DEF Inv, CallInv
  <2> QED
    BY <1>1, <1>2, <2>1, Untouched DEF InParse
<1> QED
  BY <1>1, <1>2, <1>4, <1>5, <1>6 DEF Inv

(* Read: a token, on the machine and on the call's own.                     *)
LEMMA ReadStep ==
    ASSUME Inv, NEW g \in Goroutines, Read(g)
    PROVE  Inv'
<1>1. /\ call[g].pc = "read" /\ UNCHANGED <<config, bestEffort, mutex>>
      /\ \E c : Reads(g, c)
  BY DEF Read, Reading
<1>2. PICK c : Reads(g, c)
  BY <1>1
<1>3. /\ DOMAIN call' = Goroutines /\ DOMAIN call'[g] = CallFields
      /\ call'[g].pc = "read" /\ call'[g].alone = Step(call[g].alone, c)
      /\ \A h \in Goroutines \ {g} : call'[h] = call[h]
  BY <1>1, <1>2 DEF Reads, Inv, CallInv, CallFields
<1>4. m' = Step(m, c)
  BY <1>2 DEF Reads
<1>5. Coupled(m', call'[g].alone)
  BY <1>1, <1>3, <1>4, StepCoupled DEF Inv, CallInv
<1>6. IsMachine(m)' /\ Coupled(m, call[g].alone)'
  BY <1>1, <1>5 DEF Coupled, Alike, IsMachine, Recall, Filled, HasParams, Data
<1>7. CallInv(g)'
  BY <1>1, <1>3, <1>6 DEF Inv, CallInv, InParse
<1>8. ASSUME NEW h \in Goroutines \ {g} PROVE CallInv(h)'
  <2>1. CallInv(h) /\ ~InParse(h)
    BY <1>1 DEF Inv, CallInv, InParse
  <2> QED
    BY <1>1, <1>3, <2>1, Untouched DEF InParse
<1> QED
  BY <1>1, <1>3, <1>6, <1>7, <1>8 DEF Inv

(* Finish: the answers of the two machines are one.                         *)
LEMMA FinishStep ==
    ASSUME Inv, NEW g \in Goroutines, Finish(g)
    PROVE  Inv'
<1>1. /\ call[g].pc = "read" /\ UNCHANGED <<config, bestEffort, mutex>> /\ m' = Eof(m)
  BY DEF Finish
<1>2. call' = [call EXCEPT ![g].pc = "parsed", ![g].res = Answer(Eof(m), bestEffort),
                           ![g].alone = Eof(@)]
  BY Zenon DEF Finish
<1>3. /\ DOMAIN call' = Goroutines /\ DOMAIN call'[g] = CallFields
      /\ call'[g].pc = "parsed" /\ call'[g].alone = Eof(call[g].alone)
      /\ call'[g].res = Answer(m', bestEffort)
      /\ \A h \in Goroutines \ {g} : call'[h] = call[h]
  BY <1>1, <1>2 DEF Inv, CallInv, CallFields
<1>4. Alike(m', call'[g].alone)
  BY <1>1, <1>3, EofAlike DEF Inv, CallInv
<1>5. AnsweredAlone(g)'
  <2>1. call'[g].res = Answer(call'[g].alone, bestEffort)
    BY <1>3, <1>4, AnswerAlike
  <2> QED
    BY <1>1, <2>1 DEF AnsweredAlone, Inv
<1>6. IsMachine(m)'
  BY <1>1, <1>4 DEF Alike, IsMachine
<1>7. CallInv(g)'
  BY <1>1, <1>3, <1>5 DEF Inv, CallInv, InParse
<1>8. ASSUME NEW h \in Goroutines \ {g} PROVE CallInv(h)'
  <2>1. CallInv(h) /\ ~InParse(h)
    BY <1>1 DEF Inv, CallInv, InParse
  <2> QED
    BY <1>1, <1>3, <2>1, Untouched DEF InParse
<1> QED
  BY <1>1, <1>3, <1>6, <1>7, <1>8 DEF Inv

(* Unlock: of an error without best effort the parser makes no message, as  *)
(* the machine has already done.                                            *)
LEMMA ErrorOnly ==
    ASSUME NEW a, Answer(a, FALSE).err # "nil"
    PROVE  Result(FALSE, Nothing, Answer(a, FALSE).err) = Answer(a, FALSE)
<1>1. CASE a.cs \in final
  <2>1. Answer(a, FALSE) = Result(TRUE, export(a.output), "nil")
    BY <1>1, Zenon DEF Answer
  <2>2. \A msg_ : Result(TRUE, msg_, "nil").err = "nil"
    BY DEF Result
  <2> QED
    BY <2>1, <2>2
<1>2. CASE a.cs \notin final
  <2>1. Answer(a, FALSE) = Result(FALSE, Nothing, a.err)
    BY <1>2, Zenon DEF Answer
  <2>2. \A msg_ : Result(FALSE, msg_, a.err).err = a.err
    BY DEF Result
  <2> QED
    BY <2>1, <2>2
<1> QED
  BY <1>1, <1>2

LEMMA UnlockStep ==
    ASSUME Inv, NEW g \in Goroutines, Unlock(g)
    PROVE  Inv'
<1> DEFINE r == call[g].res
           s == IF r.err # "nil" /\ ~bestEffort THEN Result(FALSE, Nothing, r.err) ELSE r
<1>1. /\ call[g].pc = "parsed" /\ UNCHANGED <<config, bestEffort, m>>
      /\ mutex = g
  BY DEF Unlock, Inv, CallInv, InParse
<1>2. call' = [call EXCEPT ![g].pc = "done", ![g].res = s]
  BY Zenon DEF Unlock
<1>3. s = r
  <2>1. ASSUME ~bestEffort, r.err # "nil" PROVE Result(FALSE, Nothing, r.err) = r
    <3>1. r = Answer(call[g].alone, FALSE)
      BY <1>1, <2>1 DEF Inv, CallInv, AnsweredAlone
    <3> QED
      BY <2>1, <3>1, ErrorOnly
  <2> QED
    BY <2>1, Zenon
<1> HIDE DEF s
<1>4. /\ DOMAIN call' = Goroutines /\ DOMAIN call'[g] = CallFields
      /\ call'[g].pc = "done" /\ call'[g].alone = call[g].alone /\ call'[g].res = r
      /\ \A h \in Goroutines \ {g} : call'[h] = call[h]
  BY <1>2, <1>3 DEF Inv, CallInv, CallFields
<1>5. AnsweredAlone(g)'
  BY <1>1, <1>4 DEF Inv, CallInv, AnsweredAlone
<1>6. CallInv(g)'
  BY <1>4, <1>5 DEF CallInv, InParse
<1>7. ASSUME NEW h \in Goroutines \ {g} PROVE CallInv(h)'
  <2>1. CallInv(h) /\ ~InParse(h)
    BY <1>1 DEF Inv, CallInv, InParse
  <2> QED
    BY <1>1, <1>4, <2>1, Untouched DEF InParse
<1> QED
  BY <1>1, <1>4, <1>6, <1>7 DEF Inv, IsMachine

(* Return: the caller starts anew; a reader's machine is left to it.        *)
LEMMA ReturnStep ==
    ASSUME Inv, NEW g \in Goroutines, Return(g)
    PROVE  Inv'
<1>1. /\ UNCHANGED <<config, bestEffort, mutex>>
      /\ m' = IF \E h \in Goroutines : InParse(h) THEN m ELSE Begin(m)
      /\ call' = [call EXCEPT ![g] = NoCall(config)]
  BY DEF Return, InParse
<1>2. /\ DOMAIN call' = Goroutines /\ DOMAIN call'[g] = CallFields
      /\ call'[g].pc = "idle" /\ call'[g].alone = NewMachine(config)
      /\ \A h \in Goroutines \ {g} : call'[h] = call[h]
  BY <1>1, NoCallIs DEF Inv
<1>3. IsMachine(m)'
  <2>1. IsMachine(Begin(m))
    BY BeginCoupled DEF Inv, Coupled, Alike
  <2>2. IsMachine(m')
    BY <1>1, <2>1, Zenon DEF Inv
  <2> QED
    BY <1>1, <2>2 DEF IsMachine
<1>4. CallInv(g)'
  BY <1>1, <1>2 DEF CallInv, InParse, NewMachine
<1>5. ASSUME NEW h \in Goroutines \ {g} PROVE CallInv(h)'
  <2>1. CallInv(h) /\ (InParse(h) => mutex' = h)
    BY <1>1 DEF Inv, CallInv
  <2>2. call[h].pc = "read" => m' = m
    BY <1>1 DEF InParse
  <2> QED
    BY <1>1, <1>2, <2>1, <2>2, Untouched
<1> QED
  BY <1>1, <1>2, <1>3, <1>4, <1>5 DEF Inv

(* WithBestEffort, at any time, and the builder's steps.                    *)
LEMMA OtherStep ==
    ASSUME Inv, \/ WithBestEffort
                \/ Build
                \/ UNCHANGED vars
    PROVE  Inv'
<1>1. config' = config /\ m' = m /\ mutex' = mutex /\ call' = call
  BY DEF WithBestEffort, Build, parserVars, vars
<1>2. bestEffort' \in BOOLEAN /\ (bestEffort => bestEffort')
  BY DEF WithBestEffort, Build, parserVars, vars, Inv
<1>3. ASSUME NEW g \in Goroutines PROVE CallInv(g)'
  BY <1>1, <1>2, Untouched DEF Inv, CallInv
<1> QED
  BY <1>1, <1>2, <1>3 DEF Inv, IsMachine

LEMMA StepInv == Inv /\ [Next]_vars => Inv'
<1> SUFFICES ASSUME Inv, [Next]_vars PROVE Inv'
  OBVIOUS
<1>1. CASE Build \/ WithBestEffort \/ UNCHANGED vars
  BY <1>1, OtherStep
<1>2. ASSUME NEW g \in Goroutines, NEW src \in {"any", "built"}, Call(g, src) PROVE Inv'
  BY <1>2, CallStep
<1>3. ASSUME NEW g \in Goroutines, Parse(g) PROVE Inv'
  BY <1>3, LockStep, ReadStep, FinishStep, UnlockStep DEF Parse
<1>4. ASSUME NEW g \in Goroutines, Return(g) PROVE Inv'
  BY <1>4, ReturnStep
<1> QED
  BY <1>1, <1>2, <1>3, <1>4 DEF Next

LEMMA Invariant == Spec => []Inv
  BY InitInv, StepInv, PTL DEF Spec

(* Every Parse answers as a machine made for that input alone would: what   *)
(* an earlier call left in currentelem and currentparam never shows, and no *)
(* goroutine comes between the tokens of another (machine.go:118-135,       *)
(* parser.go:33-45).                                                        *)
THEOREM AnswersAsIfAlone == Spec => []AsIfAlone
<1>1. Inv => AsIfAlone
  BY DEF Inv, CallInv, AnsweredAlone, AsIfAlone, Returned
<1> QED
  BY <1>1, Invariant, PTL

(* No two goroutines are ever inside the machine's Parse (parser.go:34-35). *)
THEOREM OneReader ==
    Spec => [](\A g, h \in Goroutines : InParse(g) /\ InParse(h) => g = h)
<1>1. Inv => \A g, h \in Goroutines : InParse(g) /\ InParse(h) => g = h
  BY DEF Inv, CallInv
<1> QED
  BY <1>1, Invariant, PTL

-----------------------------------------------------------------------------
(* What a best-effort answer has lost.  The machine's structured data is    *)
(* the whole of what was read until the error, and then lacks at most the   *)
(* element or the parameter it remembers.                                   *)

(* x's data against all that was read. *)
Whole(all, x) ==
    /\ DOMAIN all = DOMAIN Data(x)
    /\ \A id \in DOMAIN all : /\ DOMAIN all[id] = DOMAIN Data(x)[id]
                              /\ \A n \in DOMAIN all[id] : all[id][n] = Data(x)[id][n]

LostOf(all, data, id) == {n \in DOMAIN all[id] : n \notin DOMAIN data[id]}
Lost(all, x) ==
    /\ DOMAIN Data(x) \subseteq DOMAIN all
    /\ DOMAIN all \ DOMAIN Data(x) \subseteq {x.currentelem}
    /\ \A id \in DOMAIN Data(x) :
          /\ LostOf(all, Data(x), id) # {} =>
                /\ id = x.currentelem /\ LostOf(all, Data(x), id) = {x.currentparam}
                /\ DOMAIN Data(x) = DOMAIN all
          /\ DOMAIN Data(x)[id] \subseteq DOMAIN all[id]
          /\ \A n \in DOMAIN Data(x)[id] : Data(x)[id][n] = all[id][n]

(* A step adds elements and parameters, or writes a parameter again. *)
Grows(data, x) ==
    /\ DOMAIN data \subseteq DOMAIN Data(x)
    /\ \A id \in DOMAIN data : DOMAIN data[id] \subseteq DOMAIN Data(x)[id]

(* hasElements may stay after the last element has gone, never go before. *)
FlagOk(x) == x.output.hasElements \in BOOLEAN /\ (~x.output.hasElements => DOMAIN Data(x) = {})

Moves(a, x) ==
    /\ FlagOk(x)
    /\ x.cs # "fail" => Grows(Data(a), x)
    /\ x.cs = "fail" => Lost(Data(a), x)

LEMMA LostNothing ==
    ASSUME NEW a, NEW x, Data(x) = Data(a)
    PROVE  Lost(Data(a), x) /\ Grows(Data(a), x)
  BY DEF Lost, LostOf, Grows

LEMMA SameMoves ==
    ASSUME NEW a, NEW x, FlagOk(a), Data(x) = Data(a), x.output.hasElements = a.output.hasElements
    PROVE  Moves(a, x) /\ FlagOk(x) /\ Lost(Data(a), x)
  BY LostNothing DEF Moves, FlagOk

LEMMA WholeGrows ==
    ASSUME NEW a, NEW x, NEW all, Whole(all, a), Grows(Data(a), x)
    PROVE  Whole(Merged(all, Data(x)), x)
<1> DEFINE new == Merged(all, Data(x))
<1>1. DOMAIN new = DOMAIN Data(x)
  BY DEF Merged, Whole, Grows
<1>2. ASSUME NEW id \in DOMAIN Data(x)
      PROVE  /\ DOMAIN new[id] = DOMAIN Data(x)[id]
             /\ \A n \in DOMAIN Data(x)[id] : new[id][n] = Data(x)[id][n]
  <2>1. CASE id \notin DOMAIN all
    <3>1. new[id] = Data(x)[id]
      BY <1>2, <2>1 DEF Merged
    <3> QED
      BY <3>1
  <2>2. CASE id \in DOMAIN all
    <3>1. new[id] = Updated(all[id], Data(x)[id])
      BY <1>2, <2>2 DEF Merged
    <3>2. DOMAIN all[id] \subseteq DOMAIN Data(x)[id]
      BY <2>2 DEF Whole, Grows
    <3> HIDE DEF new
    <3> QED
      BY <3>1, <3>2 DEF Updated
  <2> QED
    BY <2>1, <2>2
<1> HIDE DEF new
<1>3. Whole(new, x)
  BY <1>1, <1>2 DEF Whole
<1> QED
  BY <1>3 DEF new

LEMMA WholeLost ==
    ASSUME NEW a, NEW x, NEW all, Whole(all, a), Lost(Data(a), x)
    PROVE  Lost(all, x)
<1>1. DOMAIN all = DOMAIN Data(a)
  BY DEF Whole
<1>2. ASSUME NEW id \in DOMAIN Data(x)
      PROVE  LostOf(all, Data(x), id) = LostOf(Data(a), Data(x), id)
  BY <1>2 DEF Whole, Lost, LostOf
<1> QED
  BY <1>1, <1>2 DEF Whole, Lost

LEMMA LostMerged ==
    ASSUME NEW x, NEW all, Lost(all, x)
    PROVE  Lost(Merged(all, Data(x)), x)
<1> DEFINE new == Merged(all, Data(x))
<1>1. DOMAIN new = DOMAIN all
  BY DEF Merged, Lost
<1>2. ASSUME NEW id \in DOMAIN Data(x)
      PROVE  /\ DOMAIN new[id] = DOMAIN all[id]
             /\ \A n \in DOMAIN Data(x)[id] : new[id][n] = Data(x)[id][n]
  <2>1. new[id] = Updated(all[id], Data(x)[id])
    BY <1>2 DEF Merged, Lost
  <2>2. DOMAIN Data(x)[id] \subseteq DOMAIN all[id]
    BY DEF Lost
  <2> HIDE DEF new
  <2> QED
    BY <2>1, <2>2 DEF Updated
<1> HIDE DEF new
<1>3. \A id \in DOMAIN Data(x) : LostOf(new, Data(x), id) = LostOf(all, Data(x), id)
  BY <1>2 DEF LostOf
<1>4. Lost(new, x)
  BY <1>1, <1>2, <1>3 DEF Lost
<1> QED
  BY <1>4 DEF new

(* The actions on structured data, on one machine. *)
LEMMA QuietAlone ==
    ASSUME NEW a, IsMachine(a)
    PROVE  Alike(a, a) /\ Coupled(a, a) /\ Agree(a, a)
  BY DEF Alike, Coupled, Recall, Agree

LEMMA FailAlone ==
    ASSUME NEW a, IsMachine(a), NEW e
    PROVE  QuietPair(a, a, Fail(a, e), Fail(a, e)) /\ Fail(a, e).cs = "fail"
<1>1. Alike(a, a)
  BY QuietAlone
<1>2. \A k : QuietPair(a, a, Fail(a, k), Fail(a, k)) /\ Fail(a, k).cs = "fail"
  BY <1>1, QuietActions, Zenon
<1> QED
  BY <1>2

LEMMA QuietMoves ==
    ASSUME NEW a, NEW x, FlagOk(a), QuietPair(a, a, x, x)
    PROVE  Moves(a, x) /\ FlagOk(x) /\ Lost(Data(a), x)
  BY SameMoves DEF QuietPair, Quiet

LEMMA SetIdIs ==
    ASSUME NEW a, IsMachine(a), a.text \notin DOMAIN Data(a)
    PROVE  LET x == set_id(a)
           IN  /\ IsMachine(x) /\ Data(x) = Put(Data(a), a.text, EmptyMap)
               /\ x.output.hasElements = TRUE /\ x.currentelem = a.text /\ x.cs = a.cs
<1> DEFINE d == Put(Data(a), a.text, EmptyMap)
           x == [a EXCEPT !.output.structuredData = d, !.output.hasElements = TRUE,
                          !.currentelem = a.text]
<1>1. set_id(a) = x
  BY Zenon DEF set_id, Data
<1> HIDE DEF d
<1>2. /\ IsMachine(x) /\ Data(x) = d
      /\ x.output.hasElements = TRUE /\ x.currentelem = a.text /\ x.cs = a.cs
  BY DEF IsMachine, Fields, OutputFields, Data
<1> HIDE DEF x
<1> QED
  BY <1>1, <1>2 DEF d

LEMMA ErrSdIdIs ==
    ASSUME NEW a, IsMachine(a)
    PROVE  LET x == err_sdid(a)
           IN  /\ Data(x) = Without(Data(a), a.currentelem)
               /\ x.output.hasElements = (a.output.hasElements /\ Data(x) # EmptyMap)
               /\ x.currentelem = a.currentelem /\ x.cs = "fail"
<1> DEFINE d == Without(Data(a), a.currentelem)
           h == a.output.hasElements /\ d # EmptyMap
           y == [a EXCEPT !.output.structuredData = d, !.output.hasElements = @ /\ d # EmptyMap]
           x == Fail(y, "ErrSdID")
<1>1. err_sdid(a) = x
  BY Zenon DEF err_sdid, Data
<1> HIDE DEF d
<1>2. /\ IsMachine(y) /\ Data(y) = d /\ y.output.hasElements = h
      /\ y.currentelem = a.currentelem
  BY DEF IsMachine, Fields, OutputFields, Data
<1> HIDE DEF y, h
<1>3. QuietPair(y, y, x, x) /\ x.cs = "fail"
  BY <1>2, FailAlone
<1> HIDE DEF x
<1>4. Data(x) = d /\ x.output.hasElements = h /\ x.currentelem = a.currentelem
  BY <1>2, <1>3 DEF QuietPair, Quiet
<1> QED
  BY <1>1, <1>3, <1>4, Zenon DEF d, h

LEMMA ErrSdParamIs ==
    ASSUME NEW a, IsMachine(a)
    PROVE  LET x == err_sdparam(a)
               e == a.currentelem
           IN  /\ e \in DOMAIN Data(a) =>
                    Data(x) = [Data(a) EXCEPT ![e] = Without(Data(a)[e], a.currentparam)]
               /\ e \notin DOMAIN Data(a) => Data(x) = Data(a)
               /\ x.output.hasElements = a.output.hasElements
               /\ x.currentelem = e /\ x.currentparam = a.currentparam /\ x.cs = "fail"
<1> DEFINE e == a.currentelem
           q == Without(Data(a)[e], a.currentparam)
           d == [Data(a) EXCEPT ![e] = q]
           y == [a EXCEPT !.output.structuredData = d]
           z == IF e \in DOMAIN Data(a) THEN y ELSE a
           x == Fail(z, "ErrSdParam")
<1>1. err_sdparam(a) = x
  BY Zenon DEF err_sdparam, Data
<1> HIDE DEF d
<1>2. /\ IsMachine(y) /\ Data(y) = d /\ y.output.hasElements = a.output.hasElements
      /\ y.currentelem = e /\ y.currentparam = a.currentparam
  BY DEF IsMachine, Fields, OutputFields, Data
<1> HIDE DEF y
<1>3. /\ IsMachine(z) /\ z.output.hasElements = a.output.hasElements
      /\ z.currentelem = e /\ z.currentparam = a.currentparam
      /\ e \in DOMAIN Data(a) => Data(z) = d
      /\ e \notin DOMAIN Data(a) => Data(z) = Data(a)
  BY <1>2
<1> HIDE DEF z, e
<1>4. QuietPair(z, z, x, x) /\ x.cs = "fail"
  BY <1>3, FailAlone
<1> HIDE DEF x
<1>5. /\ x.output.hasElements = a.output.hasElements
      /\ x.currentelem = e /\ x.currentparam = a.currentparam /\ x.cs = "fail"
      /\ e \in DOMAIN Data(a) => Data(x) = d
      /\ e \notin DOMAIN Data(a) => Data(x) = Data(a)
  BY <1>3, <1>4 DEF QuietPair, Quiet
<1> QED
  BY <1>1, <1>5, Zenon DEF d, e

LEMMA SetValueIs ==
    ASSUME NEW a, IsMachine(a)
    PROVE  LET x == set_paramvalue(a)
               v == RemoveBytes(a.text, a.backslashat)
           IN  /\ IsMachine(x) /\ x.output.hasElements = a.output.hasElements
               /\ Data(x) = [Data(a) EXCEPT ![a.currentelem] =
                                Put(Data(a)[a.currentelem], a.currentparam, v)]
<1> DEFINE d == [Data(a) EXCEPT ![a.currentelem] =
                    Put(Data(a)[a.currentelem], a.currentparam, RemoveBytes(a.text, a.backslashat))]
           x == [a EXCEPT !.output.structuredData = d]
<1>1. set_paramvalue(a) = x
  BY Zenon DEF set_paramvalue, Data
<1> HIDE DEF d
<1>2. IsMachine(x) /\ Data(x) = d /\ x.output.hasElements = a.output.hasElements
  BY DEF IsMachine, Fields, OutputFields, Data
<1> HIDE DEF x
<1> QED
  BY <1>1, <1>2, Zenon DEF d

(* What these do to the data read so far. *)
LEMMA WithoutIs ==
    ASSUME NEW f, NEW k
    PROVE  /\ DOMAIN Without(f, k) = DOMAIN f \ {k}
           /\ \A i \in DOMAIN f \ {k} : Without(f, k)[i] = f[i]
  BY DEF Without, Restrict

LEMMA ErrSdIdMoves ==
    ASSUME NEW a, IsMachine(a), FlagOk(a)
    PROVE  FlagOk(err_sdid(a)) /\ Lost(Data(a), err_sdid(a))
<1> DEFINE x == err_sdid(a)
<1>0. /\ Data(x) = Without(Data(a), a.currentelem)
      /\ x.output.hasElements = (a.output.hasElements /\ Data(x) # EmptyMap)
      /\ x.currentelem = a.currentelem
  BY ErrSdIdIs
<1> HIDE DEF x
<1>1. /\ DOMAIN Data(x) = DOMAIN Data(a) \ {x.currentelem}
      /\ \A i \in DOMAIN Data(x) : Data(x)[i] = Data(a)[i]
  BY <1>0 DEF Without, Restrict
<1>2. DOMAIN EmptyMap = {}
  BY DEF EmptyMap
<1>3. FlagOk(x)
  BY <1>0, <1>1, <1>2 DEF FlagOk
<1>4. Lost(Data(a), x)
  BY <1>1 DEF Lost, LostOf
<1> QED
  BY <1>3, <1>4 DEF x

LEMMA ErrSdParamMoves ==
    ASSUME NEW a, IsMachine(a), FlagOk(a)
    PROVE  FlagOk(err_sdparam(a)) /\ Lost(Data(a), err_sdparam(a)) /\ Moves(a, err_sdparam(a))
<1> DEFINE x == err_sdparam(a)
           e == a.currentelem
           q == Without(Data(a)[e], a.currentparam)
<1>0. /\ e \in DOMAIN Data(a) => Data(x) = [Data(a) EXCEPT ![e] = q]
      /\ e \notin DOMAIN Data(a) => Data(x) = Data(a)
      /\ x.output.hasElements = a.output.hasElements
      /\ x.currentelem = e /\ x.currentparam = a.currentparam /\ x.cs = "fail"
  BY ErrSdParamIs
<1>1. /\ DOMAIN q = DOMAIN Data(a)[e] \ {a.currentparam}
      /\ \A i \in DOMAIN q : q[i] = Data(a)[e][i]
  BY WithoutIs
<1> HIDE DEF x, e, q
<1>2. CASE e \in DOMAIN Data(a)
  <2>1. /\ DOMAIN Data(x) = DOMAIN Data(a) /\ Data(x)[e] = q
        /\ \A i \in DOMAIN Data(a) \ {e} : Data(x)[i] = Data(a)[i]
    BY <1>0, <1>2
  <2>2. LostOf(Data(a), Data(x), e) \subseteq {x.currentparam}
    BY <1>0, <1>1, <2>1 DEF LostOf
  <2>3. \A i \in DOMAIN Data(a) \ {e} : LostOf(Data(a), Data(x), i) = {}
    BY <2>1 DEF LostOf
  <2>4. Lost(Data(a), x)
    BY <1>0, <1>1, <1>2, <2>1, <2>2, <2>3 DEF Lost
  <2>5. FlagOk(x)
    BY <1>0, <2>1 DEF FlagOk
  <2> QED
    BY <1>0, <2>4, <2>5 DEF Moves, x
<1>3. CASE e \notin DOMAIN Data(a)
  <2>1. Moves(a, x) /\ FlagOk(x) /\ Lost(Data(a), x)
    BY <1>0, <1>3, SameMoves
  <2> QED
    BY <2>1 DEF x
<1> QED
  BY <1>2, <1>3

LEMMA SetIdMoves ==
    ASSUME NEW a, IsMachine(a), FlagOk(a), a.cs # "fail"
    PROVE  LET x == set_id(a)
           IN  /\ Moves(a, x) /\ FlagOk(x) /\ IsMachine(x)
               /\ x.cs = "fail" => Lost(Data(a), x)
               /\ x.cs # "fail" => FlagOk(err_sdid(x)) /\ Lost(Data(a), err_sdid(x))
<1> DEFINE x == set_id(a)
<1>1. CASE a.text \in DOMAIN Data(a)
  <2>1. x = Fail(a, "ErrSdIDDuplicated")
    BY <1>1, Zenon DEF set_id, Data
  <2> HIDE DEF x
  <2>2. QuietPair(a, a, x, x) /\ x.cs = "fail"
    BY <2>1, FailAlone
  <2>3. IsMachine(x)
    BY <2>2 DEF QuietPair, Alike
  <2> QED
    BY <2>2, <2>3, QuietMoves DEF x
<1>2. CASE a.text \notin DOMAIN Data(a)
  <2> DEFINE y == err_sdid(x)
  <2>1. /\ IsMachine(x) /\ Data(x) = Put(Data(a), a.text, EmptyMap)
        /\ x.output.hasElements = TRUE /\ x.currentelem = a.text /\ x.cs = a.cs
    BY <1>2, SetIdIs
  <2> HIDE DEF x
  <2>2. /\ DOMAIN Data(x) = DOMAIN Data(a) \cup {a.text}
        /\ \A i \in DOMAIN Data(a) : Data(x)[i] = Data(a)[i]
    BY <1>2, <2>1 DEF Put
  <2>3. Grows(Data(a), x) /\ FlagOk(x)
    BY <2>1, <2>2 DEF Grows, FlagOk
  <2>4. /\ Data(y) = Without(Data(x), x.currentelem)
        /\ FlagOk(y)
    BY <2>1, <2>3, ErrSdIdIs, ErrSdIdMoves
  <2> HIDE DEF y
  <2>5. DOMAIN Data(y) = DOMAIN Data(a) /\ \A i \in DOMAIN Data(a) : Data(y)[i] = Data(a)[i]
    <3>1. /\ DOMAIN Data(y) = DOMAIN Data(x) \ {a.text}
          /\ \A i \in DOMAIN Data(y) : Data(y)[i] = Data(x)[i]
      BY <2>1, <2>4 DEF Without, Restrict
    <3> QED
      BY <1>2, <2>2, <3>1
  <2>6. Lost(Data(a), y)
    BY <2>5 DEF Lost, LostOf
  <2> QED
    BY <2>1, <2>3, <2>4, <2>6 DEF Moves, x, y
<1> QED
  BY <1>1, <1>2

(* The same data, whatever else. *)
LEMMA AloneMoves ==
    ASSUME NEW a, NEW x, IsMachine(x), Data(x) = Data(a), FlagOk(a),
           x.output.hasElements = a.output.hasElements
    PROVE  /\ \A s : Moves(a, Goto(x, s))
           /\ \A c : Moves(a, Take(x, c))
           /\ \A e : Moves(a, Fail(x, e))
<1>0. Alike(x, x)
  BY QuietAlone
<1>1. ASSUME NEW y, QuietPair(x, x, y, y) PROVE Moves(a, y)
  <2>1. Data(y) = Data(a) /\ y.output.hasElements = a.output.hasElements
    BY <1>1 DEF QuietPair, Quiet
  <2> QED
    BY <2>1, SameMoves
<1>2. /\ \A s : QuietPair(x, x, Goto(x, s), Goto(x, s))
      /\ \A c : QuietPair(x, x, Take(x, c), Take(x, c))
      /\ \A e : QuietPair(x, x, Fail(x, e), Fail(x, e))
  BY <1>0, QuietActions, Zenon
<1> QED
  BY <1>1, <1>2, Zenon

LEMMA SdIdMoves ==
    ASSUME NEW a, NEW c, IsMachine(a), FlagOk(a), a.cs = "sdid"
    PROVE  Moves(a, sdid(a, c))
<1>1. Moves(a, Take(a, c))
  BY AloneMoves, Zenon
<1>2. Moves(a, err_sdid(a))
  BY ErrSdIdMoves, ErrSdIdIs DEF Moves
<1> DEFINE x == set_id(a)
           F(n) == IF n.cs = "fail" THEN n
                   ELSE IF c = " " THEN Goto(n, "sdparam")
                   ELSE IF c = "]" THEN Goto(n, "sdend") ELSE err_sdid(n)
<1>3. sdid(a, c) = IF c \in NameTokens /\ Fits(a, "sdname") THEN Take(a, c)
                   ELSE IF NotMarked(a) THEN err_sdid(a) ELSE F(x)
  BY Zenon DEF sdid, Then
<1>4. /\ Moves(a, x) /\ FlagOk(x) /\ IsMachine(x)
      /\ x.cs # "fail" => FlagOk(err_sdid(x)) /\ Lost(Data(a), err_sdid(x))
  BY SetIdMoves
<1> HIDE DEF x
<1>5. ASSUME x.cs # "fail" PROVE Moves(a, err_sdid(x))
  BY <1>4, <1>5, ErrSdIdIs DEF Moves
<1>6. ASSUME x.cs # "fail", NEW s, s # "fail" PROVE Moves(a, Goto(x, s))
  <2>1. Alike(x, x)
    BY <1>4, QuietAlone
  <2>2. \A k : QuietPair(x, x, Goto(x, k), Goto(x, k)) /\ Goto(x, k).cs = k
    BY <2>1, QuietActions, Zenon
  <2>3. /\ Data(Goto(x, s)) = Data(x) /\ Goto(x, s).output.hasElements = x.output.hasElements
        /\ Goto(x, s).cs = s
    BY <2>2 DEF QuietPair, Quiet
  <2> QED
    BY <1>4, <1>6, <2>3 DEF Moves, FlagOk, Grows
<1>7. Moves(a, F(x))
  <2>1. CASE x.cs = "fail"
    BY <1>4, <2>1
  <2>2. CASE x.cs # "fail"
    <3>1. Moves(a, Goto(x, "sdparam")) /\ Moves(a, Goto(x, "sdend")) /\ Moves(a, err_sdid(x))
      BY <1>5, <1>6, <2>2
    <3> QED
      BY <2>2, <3>1
  <2> QED
    BY <2>1, <2>2
<1> HIDE DEF F
<1> QED
  BY <1>1, <1>2, <1>3, <1>7

LEMMA SdParamMoves ==
    ASSUME NEW a, NEW c, IsMachine(a), FlagOk(a)
    PROVE  Moves(a, sdparam(a, c))
<1>0. Alike(a, a)
  BY QuietAlone
<1>1. Moves(a, Take(a, c))
  BY AloneMoves, Zenon
<1>2. Moves(a, Take(ini_sdparam(a), c))
  <2> DEFINE x == ini_sdparam(a)
  <2>1. QuietPair(a, a, x, x)
    BY <1>0, QuietActions
  <2> HIDE DEF x
  <2>2. IsMachine(x) /\ Data(x) = Data(a) /\ x.output.hasElements = a.output.hasElements
    BY <2>1 DEF QuietPair, Quiet, Alike
  <2>3. Moves(a, Take(x, c))
    BY <2>2, AloneMoves, Zenon
  <2> QED
    BY <2>3 DEF x
<1>3. Moves(a, Goto(set_paramname(a), "dq"))
  <2> DEFINE x == set_paramname(a)
  <2>1. IsMachine(x) /\ Data(x) = Data(a) /\ x.output.hasElements = a.output.hasElements
    BY DEF set_paramname, IsMachine, Fields, OutputFields, Data
  <2> HIDE DEF x
  <2>2. Moves(a, Goto(x, "dq"))
    BY <2>1, AloneMoves, Zenon
  <2> QED
    BY <2>2 DEF x
<1>4. Moves(a, err_sdparam(a))
  BY ErrSdParamMoves
<1> QED
  BY <1>1, <1>2, <1>3, <1>4, Zenon DEF sdparam

LEMMA DqMoves ==
    ASSUME NEW a, NEW c, IsMachine(a), FlagOk(a)
    PROVE  Moves(a, dq(a, c)) /\ Moves(a, paramend(a, c))
<1>1. \A s : Moves(a, Goto(a, s))
  BY AloneMoves, Zenon
<1>2. Moves(a, err_sdparam(a))
  BY ErrSdParamMoves
<1>3. Moves(a, dq(a, c))
  BY <1>1, <1>2, Zenon DEF dq
<1>4. Moves(a, paramend(a, c))
  BY <1>1, <1>2, Zenon DEF paramend
<1> QED
  BY <1>3, <1>4

LEMMA ParamValueMoves ==
    ASSUME NEW a, NEW c, IsMachine(a), FlagOk(a)
    PROVE  Moves(a, paramvalue(a, c))
<1>1. Moves(a, Take(a, c)) /\ Moves(a, Fail(a, "ErrEscape"))
  BY AloneMoves, Zenon
<1>2. Moves(a, err_sdparam(a))
  BY ErrSdParamMoves
<1>3. Moves(a, Goto(set_paramvalue(a), "paramend"))
  <2> DEFINE x == set_paramvalue(a)
             y == Goto(x, "paramend")
             e == a.currentelem
             q == Put(Data(a)[e], a.currentparam, RemoveBytes(a.text, a.backslashat))
  <2>1. IsMachine(x) /\ x.output.hasElements = a.output.hasElements
        /\ Data(x) = [Data(a) EXCEPT ![e] = q]
    BY SetValueIs
  <2>2. DOMAIN Data(a)[e] \subseteq DOMAIN q
    BY DEF Put
  <2> HIDE DEF x, q, e
  <2>3. QuietPair(x, x, y, y) /\ y.cs = "paramend"
    <3>1. Alike(x, x)
      BY <2>1, QuietAlone
    <3>2. \A k : QuietPair(x, x, Goto(x, k), Goto(x, k)) /\ Goto(x, k).cs = k
      BY <3>1, QuietActions, Zenon
    <3> QED
      BY <3>2, Zenon
  <2> HIDE DEF y
  <2>4. /\ Data(y) = [Data(a) EXCEPT ![e] = q] /\ y.output.hasElements = a.output.hasElements
    BY <2>1, <2>3 DEF QuietPair, Quiet
  <2>5. /\ DOMAIN Data(y) = DOMAIN Data(a)
        /\ \A id \in DOMAIN Data(a) : Data(y)[id] = IF id = e THEN q ELSE Data(a)[id]
    BY <2>4
  <2>6. Grows(Data(a), y) /\ FlagOk(y)
    BY <2>2, <2>4, <2>5 DEF Grows, FlagOk
  <2> QED
    BY <2>3, <2>6 DEF Moves, x, y
<1>4. Moves(a, [Take(a, c) EXCEPT !.cs = "escapes", !.backslashat = @ \cup {Len(a.text) + 1}])
  <2> DEFINE k == Len(a.text) + 1
             x == Take(a, c)
             y == [x EXCEPT !.cs = "escapes", !.backslashat = @ \cup {k}]
  <2>1. IsMachine(x) /\ x.output = a.output
    BY DEF Take, IsMachine, Fields
  <2> HIDE DEF x, k
  <2>2. y.output = a.output
    BY <2>1 DEF IsMachine, Fields
  <2> HIDE DEF y
  <2>3. Moves(a, y)
    BY <2>2, SameMoves DEF Data
  <2> QED
    BY <2>3 DEF y, x, k
<1> QED
  BY <1>1, <1>2, <1>3, <1>4, Zenon DEF paramvalue

LEMMA EscapesMoves ==
    ASSUME NEW a, NEW c, IsMachine(a), FlagOk(a)
    PROVE  Moves(a, escapes(a, c))
<1>1. Moves(a, Fail(a, "ErrEscape"))
  BY AloneMoves, Zenon
<1>2. Moves(a, [Take(a, c) EXCEPT !.cs = "paramvalue"])
  <2> DEFINE y == [Take(a, c) EXCEPT !.cs = "paramvalue"]
  <2>1. y.output = a.output
    BY DEF Take, IsMachine, Fields
  <2> HIDE DEF y
  <2>2. Moves(a, y)
    BY <2>1, SameMoves DEF Data
  <2> QED
    BY <2>2 DEF y
<1> QED
  BY <1>1, <1>2, Zenon DEF escapes

LEMMA StepMoves ==
    ASSUME NEW a, NEW c, IsMachine(a), FlagOk(a), a.cs # "fail"
    PROVE  Moves(a, Step(a, c))
<1>0. Alike(a, a)
  BY QuietAlone
<1>q. ASSUME NEW x, QuietRule(a, a, x, x) PROVE Moves(a, x)
  BY <1>q, QuietMoves DEF QuietRule
<1>1. CASE a.cs = "main"
  BY <1>0, <1>1, <1>q, MainAlike, StepOf
<1>2. CASE a.cs = "prival"
  BY <1>0, <1>2, <1>q, PrivalAlike, StepOf
<1>3. CASE a.cs = "version"
  BY <1>0, <1>3, <1>q, VersionAlike, StepOf
<1>4. CASE a.cs = "timestamp"
  BY <1>0, <1>4, <1>q, TimestampAlike, StepOf
<1>5. CASE a.cs \in NameFields
  <2>1. Step(a, c) = nameField(a, c, a.cs)
    BY <1>5 DEF Step, NameFields
  <2>2. QuietRule(a, a, nameField(a, c, a.cs), nameField(a, c, a.cs))
    BY <1>0, <1>5, NameAlike
  <2> QED
    BY <1>q, <2>1, <2>2
<1>6. CASE a.cs \in {"structureddata", "nilvalue", "sdend"}
  <2>1. /\ Moves(a, structureddata(a, c)) /\ Moves(a, nilvalue(a, c)) /\ Moves(a, sdend(a, c))
    BY <1>0, <1>q, DataAlike
  <2> QED
    BY <1>6, <2>1 DEF Step, NameFields
<1>7. CASE a.cs = "sdid"
  BY <1>7, SdIdMoves DEF Step, NameFields
<1>8. CASE a.cs = "sdparam"
  BY <1>8, SdParamMoves DEF Step, NameFields
<1>9. CASE a.cs \in {"dq", "paramend"}
  BY <1>9, DqMoves DEF Step, NameFields
<1>10. CASE a.cs = "paramvalue"
  BY <1>10, ParamValueMoves DEF Step, NameFields
<1>11. CASE a.cs = "escapes"
  BY <1>11, EscapesMoves DEF Step, NameFields
<1>12. CASE a.cs = "msg"
  <2>1. QuietRule(a, a, msg(a, c), msg(a, c))
    BY <1>0, <1>12, MsgAlike
  <2>2. Step(a, c) = msg(a, c)
    BY <1>12 DEF Step, NameFields
  <2> QED
    BY <1>q, <2>1, <2>2
<1>13. CASE a.cs \notin {"main", "prival", "version", "timestamp", "structureddata", "nilvalue",
                         "sdend", "sdid", "sdparam", "dq", "paramvalue", "escapes", "paramend",
                         "msg"} \cup NameFields
  <2>1. Step(a, c) = a
    BY <1>13 DEF Step, NameFields
  <2> QED
    BY <2>1, SameMoves
<1> QED
  BY <1>1, <1>2, <1>3, <1>4, <1>5, <1>6, <1>7, <1>8, <1>9, <1>10, <1>11, <1>12, <1>13

Ends(a, x) == FlagOk(x) /\ Lost(Data(a), x)

LEMMA EofEnds ==
    ASSUME NEW a, IsMachine(a), FlagOk(a)
    PROVE  Ends(a, Eof(a)) /\ (a.cs = "fail" => Eof(a) = a)
<1>0. Alike(a, a)
  BY QuietAlone
<1>q. ASSUME NEW x, QuietPair(a, a, x, x) PROVE Ends(a, x)
  BY <1>q, QuietMoves DEF Ends
<1>e. ASSUME NEW x, QuietPair(a, a, x, x), NEW e PROVE Ends(a, Fail(x, e))
  <2>1. QuietPair(x, x, Fail(x, e), Fail(x, e))
    BY <1>e, FailAlone DEF QuietPair, Alike
  <2> QED
    BY <1>e, <1>q, <2>1, QuietThen
<1>f. \A e : Ends(a, Fail(a, e))
  BY <1>e, <1>0, QuietNone
<1>1. CASE a.cs = "main"
  <2>1. Eof(a) = Fail(a, IF a.optionalPriority THEN "ErrVersion" ELSE "ErrPri")
    BY <1>1 DEF Eof, NameFields
  <2> QED
    BY <1>1, <1>f, <2>1, Zenon
<1>2. CASE a.cs = "prival"
  BY <1>2, <1>f DEF Eof, NameFields
<1>3. CASE a.cs = "version"
  <2>1. QuietPair(a, a, set_version(a), set_version(a))
    BY <1>0, QuietActions
  <2>2. Ends(a, Fail(set_version(a), "ErrParse")) /\ Ends(a, Fail(a, "ErrVersion"))
    BY <1>e, <1>f, <2>1
  <2>3. Eof(a) = IF Len(a.text) = 1 THEN Fail(set_version(a), "ErrParse") ELSE Fail(a, "ErrVersion")
    BY <1>3 DEF Eof, NameFields
  <2> QED
    BY <1>3, <2>2, <2>3
<1>4. CASE a.cs = "timestamp"
  <2> DEFINE x == IF a.text = <<"-">> THEN a ELSE set_timestamp(a)
             F(n) == IF n.cs = "fail" THEN n ELSE Fail(n, "ErrParse")
  <2>1. Eof(a) = IF NotMarked(a) THEN Fail(a, "ErrTimestamp") ELSE F(x)
    <3>1. Eof(a) = IF NotMarked(a) THEN Fail(a, "ErrTimestamp")
                   ELSE Then(IF a.text = <<"-">> THEN a ELSE set_timestamp(a),
                             LAMBDA k : Fail(k, "ErrParse"))
      BY <1>4 DEF Eof, NameFields
    <3> QED
      BY <3>1, Zenon DEF Then
  <2>2. QuietPair(a, a, x, x)
    BY <1>0, QuietTimestamp, QuietNone, Zenon
  <2> HIDE DEF x
  <2>3. Ends(a, x) /\ Ends(a, Fail(x, "ErrParse")) /\ Ends(a, Fail(a, "ErrTimestamp"))
    BY <1>q, <1>e, <1>f, <2>2
  <2> QED
    BY <1>4, <2>1, <2>3
<1>5. CASE a.cs \in NameFields
  <2>1. Eof(a) = Fail(a, a.cs) /\ a.cs # "fail"
    BY <1>5 DEF Eof, NameFields
  <2> QED
    BY <1>f, <2>1
<1>6. CASE a.cs = "structureddata"
  BY <1>6, <1>f DEF Eof, NameFields
<1>7. CASE a.cs = "sdid"
  <2> DEFINE x == set_id(a)
             F(n) == IF n.cs = "fail" THEN n ELSE err_sdid(n)
  <2>1. Eof(a) = IF NotMarked(a) THEN err_sdid(a) ELSE F(x)
    <3>1. Eof(a) = IF NotMarked(a) THEN err_sdid(a) ELSE Then(set_id(a), err_sdid)
      BY <1>7 DEF Eof, NameFields
    <3> QED
      BY <3>1, Zenon DEF Then
  <2>2. /\ FlagOk(x) /\ (x.cs = "fail" => Lost(Data(a), x))
        /\ x.cs # "fail" => FlagOk(err_sdid(x)) /\ Lost(Data(a), err_sdid(x))
    BY <1>7, SetIdMoves
  <2>3. Ends(a, err_sdid(a))
    BY ErrSdIdMoves DEF Ends
  <2> HIDE DEF x
  <2>4. Ends(a, F(x))
    BY <2>2 DEF Ends
  <2> QED
    BY <1>7, <2>1, <2>3, <2>4
<1>8. CASE a.cs \in {"sdparam", "dq", "paramend"}
  <2>1. Eof(a) = err_sdparam(a) /\ a.cs # "fail"
    BY <1>8 DEF Eof, NameFields
  <2> QED
    BY <2>1, ErrSdParamMoves DEF Ends
<1>9. CASE a.cs \in {"paramvalue", "escapes"}
  BY <1>9, <1>f DEF Eof, NameFields
<1>10. CASE a.cs = "msg"
  <2>1. Eof(a) = set_msg(a)
    BY <1>10 DEF Eof, NameFields
  <2>2. QuietPair(a, a, set_msg(a), set_msg(a))
    BY <1>0, QuietActions
  <2> QED
    BY <1>10, <1>q, <2>1, <2>2
<1>11. CASE a.cs \notin {"main", "prival", "version", "timestamp", "structureddata", "sdid",
                         "sdparam", "dq", "paramend", "paramvalue", "escapes", "msg"} \cup NameFields
  <2>1. Eof(a) = a
    BY <1>11 DEF Eof, NameFields
  <2> QED
    BY <1>0, <1>q, <2>1, QuietNone
<1> QED
  BY <1>1, <1>2, <1>3, <1>4, <1>5, <1>6, <1>7, <1>8, <1>9, <1>10, <1>11

-----------------------------------------------------------------------------
(* All that a call has read of structured data, against its machine.        *)
SeenInv(g) ==
    LET a    == call[g].alone
        seen == call[g].seen
    IN  /\ FlagOk(a)
        /\ call[g].pc \in {"idle", "lock", "read"} /\ a.cs # "fail" => Whole(seen, a)
        /\ call[g].pc \in {"parsed", "done"} \/ a.cs = "fail" => Lost(seen, a)

NoneLost == \A g \in Goroutines : SeenInv(g)

LEMMA NoCallSeen ==
    ASSUME NEW c
    PROVE  /\ NoCall(c).alone.cs = "main" /\ FlagOk(NoCall(c).alone)
           /\ Whole(NoCall(c).seen, NoCall(c).alone)
<1>1. DOMAIN EmptyMap = {}
  BY DEF EmptyMap
<1>2. NoOutput.structuredData = EmptyMap /\ NoOutput.hasElements = FALSE
  BY Zenon DEF NoOutput
<1>3. NoCall(c).seen = EmptyMap /\ NoCall(c).alone = NewMachine(c)
  BY DEF NoCall
<1> HIDE DEF NoOutput
<1>4. NewMachine(c).output = NoOutput /\ NewMachine(c).cs = "main"
  BY DEF NewMachine
<1> QED
  BY <1>1, <1>2, <1>3, <1>4 DEF FlagOk, Whole, Data

LEMMA InitSeen == Init => NoneLost
<1> SUFFICES ASSUME Init, NEW g \in Goroutines PROVE SeenInv(g)
  BY DEF NoneLost
<1>1. call[g] = NoCall(config) /\ NoCall(config).pc = "idle"
  BY NoCallIs DEF Init
<1> QED
  BY <1>1, NoCallSeen DEF SeenInv

LEMMA SeenUntouched ==
    ASSUME NEW g \in Goroutines, SeenInv(g), call'[g] = call[g]
    PROVE  SeenInv(g)'
  BY DEF SeenInv

LEMMA SeenStep == Inv /\ NoneLost /\ [Next]_vars => NoneLost'
<1> SUFFICES ASSUME Inv, NoneLost, [Next]_vars, NEW h \in Goroutines PROVE SeenInv(h)'
  BY DEF NoneLost
<1>h. SeenInv(h)
  BY DEF NoneLost
<1>1. CASE Build \/ WithBestEffort \/ UNCHANGED vars
  <2>1. call' = call
    BY <1>1 DEF Build, WithBestEffort, vars, parserVars
  <2> QED
    BY <1>h, <2>1, SeenUntouched
<1>2. ASSUME NEW g \in Goroutines, NEW src, Call(g, src) PROVE SeenInv(h)'
  <2>1. /\ call[g].pc = "idle" /\ call'[g].pc = "lock" /\ call'[g].alone = call[g].alone
        /\ call'[g].seen = call[g].seen /\ \A k \in Goroutines \ {g} : call'[k] = call[k]
    BY <1>2 DEF Call, Inv, CallInv, CallFields
  <2> QED
    BY <1>h, <2>1, SeenUntouched DEF SeenInv
<1>3. ASSUME NEW g \in Goroutines, Lock(g) PROVE SeenInv(h)'
  <2>1. /\ call[g].pc = "lock" /\ call'[g].pc = "read" /\ call'[g].alone = call[g].alone
        /\ call'[g].seen = call[g].seen /\ \A k \in Goroutines \ {g} : call'[k] = call[k]
    BY <1>3 DEF Lock, Inv, CallInv, CallFields
  <2> QED
    BY <1>h, <2>1, SeenUntouched DEF SeenInv
<1>4. ASSUME NEW g \in Goroutines, Read(g) PROVE SeenInv(h)'
  <2> DEFINE a == call[g].alone
  <2>1. call[g].pc = "read" /\ m.cs # "fail" /\ \E c : Reads(g, c)
    BY <1>4 DEF Read, Reading
  <2>2. PICK c : Reads(g, c)
    BY <2>1
  <2> DEFINE x == Step(a, c)
  <2>3. /\ call'[g].pc = "read" /\ call'[g].alone = x
        /\ call'[g].seen = Merged(call[g].seen, Data(x))
        /\ \A k \in Goroutines \ {g} : call'[k] = call[k]
    BY <2>1, <2>2 DEF Reads, Inv, CallInv, CallFields, Data
  <2>4. CASE h # g
    BY <1>h, <2>3, <2>4, SeenUntouched
  <2>5. CASE h = g
    <3>1. IsMachine(a) /\ a.cs # "fail"
      BY <2>1 DEF Inv, CallInv, Coupled, Alike
    <3>2. FlagOk(a) /\ Whole(call[g].seen, a)
      BY <1>h, <2>1, <2>5, <3>1 DEF SeenInv
    <3> HIDE DEF a
    <3>3. Moves(a, x)
      BY <3>1, <3>2, StepMoves
    <3> HIDE DEF x
    <3>4. x.cs # "fail" => Whole(call'[g].seen, x)
      BY <2>3, <3>2, <3>3, WholeGrows DEF Moves
    <3>5. x.cs = "fail" => Lost(call'[g].seen, x)
      BY <2>3, <3>2, <3>3, WholeLost, LostMerged DEF Moves
    <3> QED
      BY <2>3, <2>5, <3>3, <3>4, <3>5 DEF SeenInv, Moves
  <2> QED
    BY <2>4, <2>5
<1>5. ASSUME NEW g \in Goroutines, Finish(g) PROVE SeenInv(h)'
  <2> DEFINE a == call[g].alone
             x == Eof(a)
  <2>1. call' = [call EXCEPT ![g].pc = "parsed", ![g].res = Answer(Eof(m), bestEffort),
                             ![g].alone = Eof(@)]
    BY <1>5, Zenon DEF Finish
  <2>2. /\ call[g].pc = "read" /\ call'[g].pc = "parsed" /\ call'[g].alone = x
        /\ call'[g].seen = call[g].seen /\ \A k \in Goroutines \ {g} : call'[k] = call[k]
    BY <1>5, <2>1 DEF Finish, Inv, CallInv, CallFields
  <2>3. CASE h # g
    BY <1>h, <2>2, <2>3, SeenUntouched
  <2>4. CASE h = g
    <3>1. IsMachine(a)
      BY <2>2 DEF Inv, CallInv, Coupled, Alike
    <3>2. /\ FlagOk(a) /\ (a.cs # "fail" => Whole(call[g].seen, a))
          /\ a.cs = "fail" => Lost(call[g].seen, a)
      BY <1>h, <2>2, <2>4 DEF SeenInv
    <3> HIDE DEF a
    <3>3. Ends(a, x) /\ (a.cs = "fail" => x = a)
      BY <3>1, <3>2, EofEnds
    <3> HIDE DEF x
    <3>4. Lost(call[g].seen, x)
      BY <3>2, <3>3, WholeLost DEF Ends
    <3> QED
      BY <2>2, <2>4, <3>3, <3>4 DEF SeenInv, Ends
  <2> QED
    BY <2>3, <2>4
<1>6. ASSUME NEW g \in Goroutines, Unlock(g) PROVE SeenInv(h)'
  <2> DEFINE r == call[g].res
             s == IF r.err # "nil" /\ ~bestEffort THEN Result(FALSE, Nothing, r.err) ELSE r
  <2>1. call' = [call EXCEPT ![g].pc = "done", ![g].res = s]
    BY <1>6, Zenon DEF Unlock
  <2> HIDE DEF s
  <2>2. /\ call[g].pc = "parsed" /\ call'[g].pc = "done" /\ call'[g].alone = call[g].alone
        /\ call'[g].seen = call[g].seen /\ \A k \in Goroutines \ {g} : call'[k] = call[k]
    BY <1>6, <2>1 DEF Unlock, Inv, CallInv, CallFields
  <2> QED
    BY <1>h, <2>2, SeenUntouched DEF SeenInv
<1>7. ASSUME NEW g \in Goroutines, Return(g) PROVE SeenInv(h)'
  <2>1. /\ call'[g] = NoCall(config) /\ \A k \in Goroutines \ {g} : call'[k] = call[k]
    BY <1>7 DEF Return, Inv
  <2>2. CASE h # g
    BY <1>h, <2>1, <2>2, SeenUntouched
  <2>3. CASE h = g
    BY <2>1, <2>3, NoCallIs, NoCallSeen DEF SeenInv
  <2> QED
    BY <2>2, <2>3
<1> QED
  BY <1>1, <1>2, <1>3, <1>4, <1>5, <1>6, <1>7 DEF Next, Parse

(* The message of an answer is the machine's output, exported.              *)
LEMMA AnswerData ==
    ASSUME NEW a, NEW be, Answer(a, be).ok
    PROVE  Answer(a, be).msg.structuredData = IF a.output.hasElements THEN Data(a) ELSE EmptyMap
<1>1. \/ Answer(a, be) = Result(TRUE, export(a.output), "nil")
      \/ Answer(a, be) = Result(TRUE, export(a.output), a.err)
      \/ Answer(a, be) = Result(FALSE, Nothing, a.err)
  BY Zenon DEF Answer
<1>2. Answer(a, be).msg = export(a.output)
  <2>1. ~Result(FALSE, Nothing, a.err).ok
    BY DEF Result
  <2>2. Answer(a, be) # Result(FALSE, Nothing, a.err)
    BY <2>1
  <2>3. /\ Result(TRUE, export(a.output), "nil").msg = export(a.output)
        /\ Result(TRUE, export(a.output), a.err).msg = export(a.output)
    BY DEF Result
  <2> QED
    BY <1>1, <2>2, <2>3, Zenon
<1>3. export(a.output).structuredData = IF a.output.hasElements THEN Data(a) ELSE EmptyMap
  BY DEF export, Data
<1> QED
  BY <1>2, <1>3

(* A best-effort answer keeps all that was read of the structured data but, *)
(* at most, the element or the one parameter read last: err_sdid and        *)
(* err_sdparam take no more away, and the empty map that is answered for    *)
(* no elements hides none (machine.go:1534-1620).                           *)
THEOREM LosesOnlyTheLast == Spec => []LosesAtMostLast
<1>1. Inv /\ NoneLost => LosesAtMostLast
  <2> SUFFICES ASSUME Inv, NoneLost, NEW g \in Goroutines, Returned(g), call[g].res.ok
               PROVE  LET data == call[g].res.msg.structuredData
                          seen == call[g].seen
                          a    == call[g].alone
                      IN  /\ DOMAIN seen \ DOMAIN data \subseteq {a.currentelem}
                          /\ \A id \in DOMAIN data :
                                LET lost == {n \in DOMAIN seen[id] : n \notin DOMAIN data[id]}
                                IN  /\ lost # {} => id = a.currentelem /\ lost = {a.currentparam}
                                                    /\ DOMAIN data = DOMAIN seen
                                    /\ \A n \in DOMAIN data[id] : data[id][n] = seen[id][n]
    BY DEF LosesAtMostLast
  <2> DEFINE data == call[g].res.msg.structuredData
             seen == call[g].seen
             a    == call[g].alone
  <2>1. data = IF a.output.hasElements THEN Data(a) ELSE EmptyMap
    <3>1. AnsweredAlone(g)
      BY DEF Inv, CallInv, Returned
    <3>2. PICK be \in BOOLEAN : call[g].res = Answer(a, be)
      BY <3>1 DEF AnsweredAlone
    <3> QED
      BY <3>2, AnswerData
  <2>2. FlagOk(a) /\ Lost(seen, a)
    BY DEF NoneLost, SeenInv, Returned
  <2> HIDE DEF data, seen, a
  <2>3. DOMAIN data = DOMAIN Data(a) /\ \A id \in DOMAIN data : data[id] = Data(a)[id]
    <3>1. DOMAIN EmptyMap = {}
      BY DEF EmptyMap
    <3> QED
      BY <2>1, <2>2, <3>1 DEF FlagOk
  <2>4. DOMAIN seen \ DOMAIN data \subseteq {a.currentelem}
    BY <2>2, <2>3 DEF Lost
  <2>5. ASSUME NEW id \in DOMAIN data
        PROVE  /\ {n \in DOMAIN seen[id] : n \notin DOMAIN data[id]} # {} =>
                    /\ id = a.currentelem
                    /\ {n \in DOMAIN seen[id] : n \notin DOMAIN data[id]} = {a.currentparam}
                    /\ DOMAIN data = DOMAIN seen
               /\ \A n \in DOMAIN data[id] : data[id][n] = seen[id][n]
    <3>1. LostOf(seen, Data(a), id) = {n \in DOMAIN seen[id] : n \notin DOMAIN data[id]}
      BY <2>3, <2>5 DEF LostOf
    <3> QED
      BY <2>2, <2>3, <2>5, <3>1 DEF Lost
  <2> QED
    BY <2>4, <2>5 DEF data, seen, a
<1> QED
  BY <1>1, Invariant, InitSeen, SeenStep, PTL DEF Spec

-----------------------------------------------------------------------------
(* The round trip.  While a machine reads what a builder wrote, it is where *)
(* the builder was when it wrote the token before, and its message has the  *)
(* fields that were written by then.                                        *)

(* What String (builder.go:9347) writes, from some place of it on: from the *)
(* message, from an element, from a parameter of one, from the value of a   *)
(* parameter, from the structured data and from what is behind a name.      *)
Ids             == SetToSeq(DOMAIN sm.structuredData)
Params(i)       == sm.structuredData[Ids[i]]
ParamNames(i)   == SetToSeq(DOMAIN Params(i))
Elements        == [i \in DOMAIN Ids |-> ElementString(sm.structuredData, Ids[i])]
ParamStrings(i) == [j \in DOMAIN ParamNames(i) |-> ParamString(Params(i), ParamNames(i)[j])]

FromMessage      == IF sm.message = <<>> THEN <<>> ELSE <<" ">> \o sm.message
FromElement(i)   == FlattenSeq(SubSeq(Elements, i, Len(Elements))) \o FromMessage
FromParam(i, j)  == FlattenSeq(SubSeq(ParamStrings(i), j, Len(ParamStrings(i))))
                    \o (<<"]">> \o FromElement(i + 1))
BehindValue(i, j) == <<"\"">> \o FromParam(i, j + 1)
Value(i, j)      == Params(i)[ParamNames(i)[j]]
BehindName(i, j) == <<"=", "\"">> \o (EscapeBytes(Value(i, j)) \o BehindValue(i, j))
FromData         == DataString(sm.structuredData) \o FromMessage

Text(f)   == OrNil(sm.name[f])
BehindMsgid    == <<" ">> \o FromData
BehindProcid   == <<" ">> \o (Text("msgid") \o BehindMsgid)
BehindAppname  == <<" ">> \o (Text("procid") \o BehindProcid)
BehindHostname == <<" ">> \o (Text("appname") \o BehindAppname)
Behind(f) == IF f = "hostname" THEN BehindHostname ELSE IF f = "appname" THEN BehindAppname
             ELSE IF f = "procid" THEN BehindProcid ELSE BehindMsgid
Stamp        == IF sm.timestamp = "" THEN "-" ELSE sm.timestamp
BehindStamp  == <<" ">> \o (Text("hostname") \o BehindHostname)
FromVersion  == Decimal(sm.version) \o (<<" ">> \o (<<Stamp>> \o BehindStamp))
FromPriority == Decimal(sm.priority) \o (<<">">> \o FromVersion)

(* k tokens of a part have become the machine's text. *)
Mid(text, rest, part, tail) ==
    \E k \in 0..Len(part) : /\ text = SubSeq(part, 1, k)
                            /\ rest = SubSeq(part, k + 1, Len(part)) \o tail

(* The fields that the machine has set already; no structured data yet; the *)
(* first i elements; and, in an element, its first j parameters.            *)
Got(o, F) ==
    /\ o.message = <<>> /\ DOMAIN o.name = NameFields
    /\ "priority" \in F => o.priority = sm.priority
    /\ "version" \in F => o.version = sm.version
    /\ o.timestamp = IF "timestamp" \in F THEN sm.timestamp ELSE ""
    /\ \A f \in NameFields \cap F : o.name[f] = Text(f)
Header == {"priority", "version", "timestamp"} \cup NameFields
NoData(o) == o.structuredData = EmptyMap /\ o.hasElements = FALSE

Elems(i)      == [id \in {Ids[l] : l \in 1..i} |-> sm.structuredData[id]]
Pars(i, j)    == [n \in {ParamNames(i)[l] : l \in 1..j} |-> Params(i)[n]]
HasWhole(o, i) == o.structuredData = Elems(i) /\ (o.hasElements <=> i > 0)
HasPart(a, i, j) ==
    /\ a.currentelem = Ids[i]
    /\ a.output.structuredData = Put(Elems(i - 1), Ids[i], Pars(i, j))
    /\ a.output.hasElements
Unsayable == /\ config.compliantMsg /\ sm.message # <<>> /\ sm.message[1] = "BOM"
             /\ \E i \in DOMAIN sm.message : sm.message[i] \in {"bad", "cut"}

(* Where the machine is when this much of the string is left.               *)
AtMain(a, rest) ==
    a.cs = "main" /\ a.text = <<>> /\ Got(a.output, {}) /\ NoData(a.output)
    /\ rest = <<"<">> \o FromPriority
AtPrival(a, rest) ==
    a.cs = "prival" /\ Got(a.output, {}) /\ NoData(a.output)
    /\ Mid(a.text, rest, Decimal(sm.priority), <<">">> \o FromVersion)
AtVersion(a, rest) ==
    a.cs = "version" /\ Got(a.output, {"priority"}) /\ NoData(a.output)
    /\ Mid(a.text, rest, Decimal(sm.version), <<" ">> \o (<<Stamp>> \o BehindStamp))
AtTimestamp(a, rest) ==
    a.cs = "timestamp" /\ Got(a.output, {"priority", "version"}) /\ NoData(a.output)
    /\ Mid(a.text, rest, <<Stamp>>, BehindStamp)
Before(f) == {"priority", "version", "timestamp"} \cup
             (IF f = "hostname" THEN {} ELSE IF f = "appname" THEN {"hostname"}
              ELSE IF f = "procid" THEN {"hostname", "appname"}
              ELSE {"hostname", "appname", "procid"})
AtName(a, rest) ==
    a.cs \in NameFields /\ Got(a.output, Before(a.cs)) /\ NoData(a.output)
    /\ Mid(a.text, rest, Text(a.cs), Behind(a.cs))
AtData(a, rest) ==
    a.cs = "structureddata" /\ a.text = <<>> /\ Got(a.output, Header) /\ NoData(a.output)
    /\ rest = FromData
AtNil(a, rest) ==
    a.cs = "nilvalue" /\ a.text = <<>> /\ Got(a.output, Header) /\ NoData(a.output)
    /\ sm.structuredData = EmptyMap /\ rest = FromMessage
AtId(a, rest) ==
    a.cs = "sdid" /\ Got(a.output, Header)
    /\ \E i \in DOMAIN Ids : HasWhole(a.output, i - 1) /\ Mid(a.text, rest, Ids[i], FromParam(i, 1))
AtParam(a, rest) ==
    a.cs = "sdparam" /\ Got(a.output, Header)
    /\ \E i \in DOMAIN Ids : \E j \in DOMAIN ParamNames(i) :
          /\ HasPart(a, i, j - 1) /\ (a.text # <<>> => a.backslashat = {})
          /\ Mid(a.text, rest, ParamNames(i)[j], BehindName(i, j))
OfParam(a, i, j) ==
    Got(a.output, Header) /\ HasPart(a, i, j - 1) /\ a.currentparam = ParamNames(i)[j]
AtDq(a, rest) ==
    a.cs = "dq" /\ a.text = <<>> /\ a.backslashat = {}
    /\ \E i \in DOMAIN Ids : \E j \in DOMAIN ParamNames(i) :
          /\ OfParam(a, i, j)
          /\ rest = <<"\"">> \o (EscapeBytes(Value(i, j)) \o BehindValue(i, j))
Unescaped(a, v, k) ==
    /\ a.text \in Seq(Tokens) /\ a.backslashat \subseteq 1..Len(a.text)
    /\ RemoveBytes(a.text, a.backslashat) = SubSeq(v, 1, k)
ValueFrom(v, k, tail) == EscapeBytes(SubSeq(v, k + 1, Len(v))) \o tail
AtValue(a, rest) ==
    a.cs = "paramvalue"
    /\ \E i \in DOMAIN Ids : \E j \in DOMAIN ParamNames(i) :
          LET v == Value(i, j)
          IN  /\ OfParam(a, i, j)
              /\ \E k \in 0..Len(v) :
                    /\ Unescaped(a, v, k)
                    /\ rest = ValueFrom(v, k, BehindValue(i, j))
AtEscape(a, rest) ==
    a.cs = "escapes"
    /\ \E i \in DOMAIN Ids : \E j \in DOMAIN ParamNames(i) :
          LET v == Value(i, j)
          IN  /\ OfParam(a, i, j)
              /\ \E k \in 1..Len(v) :
                    /\ Unescaped(a, v, k - 1) /\ v[k] \in Delims
                    /\ rest = <<v[k]>> \o ValueFrom(v, k, BehindValue(i, j))
AtParamEnd(a, rest) ==
    a.cs = "paramend" /\ a.text = <<>> /\ Got(a.output, Header)
    /\ \E i \in DOMAIN Ids : \E j \in DOMAIN ParamNames(i) :
          HasPart(a, i, j) /\ rest = FromParam(i, j + 1)
AtDataEnd(a, rest) ==
    a.cs = "sdend" /\ a.text = <<>> /\ Got(a.output, Header)
    /\ \E i \in DOMAIN Ids : HasWhole(a.output, i) /\ rest = FromElement(i + 1)
AtMessage(a, rest) ==
    a.cs = "msg" /\ Got(a.output, Header) /\ sm.message # <<>>
    /\ a.output.structuredData = sm.structuredData
    /\ (a.output.hasElements \/ sm.structuredData = EmptyMap)
    /\ \E k \in 0..Len(sm.message) :
          /\ a.text = SubSeq(sm.message, 1, k) /\ rest = SubSeq(sm.message, k + 1, Len(sm.message))
          /\ config.compliantMsg /\ sm.message[1] = "BOM" =>
                \A l \in 1..k : sm.message[l] \notin {"bad", "cut"}
AtFail(a) == a.cs = "fail" /\ a.err = "ErrMsgNotCompliant" /\ Unsayable

At(a, rest) ==
    \/ AtMain(a, rest) \/ AtPrival(a, rest) \/ AtVersion(a, rest) \/ AtTimestamp(a, rest)
    \/ AtName(a, rest) \/ AtData(a, rest) \/ AtNil(a, rest) \/ AtId(a, rest) \/ AtParam(a, rest)
    \/ AtDq(a, rest) \/ AtValue(a, rest) \/ AtEscape(a, rest) \/ AtParamEnd(a, rest)
    \/ AtDataEnd(a, rest) \/ AtMessage(a, rest) \/ AtFail(a)

Ended(a) == IF Unsayable THEN a.cs = "fail" /\ a.err = "ErrMsgNotCompliant"
            ELSE a.cs \in final /\ export(a.output) = sm

Sent(g) ==
    LET a == call[g].alone
    IN  /\ HasString /\ calls > 0 /\ call[g].built = String
        /\ call[g].pc = "lock" => call[g].read = 0
        /\ call[g].pc = "read" =>
              /\ call[g].read \in 0..Len(String)
              /\ At(a, SubSeq(String, call[g].read + 1, Len(String)))
        /\ call[g].pc \in {"parsed", "done"} => Ended(a)
RoundInv ==
    /\ calls \in Nat
    /\ \A g \in Goroutines : /\ call[g].pc = "idle" => call[g].read = 0
                             /\ call[g].src = "built" /\ call[g].pc # "idle" => Sent(g)

(* What holds at 0 and is handed on holds for all natural numbers: the set  *)
(* of those it does not hold for would have a least one.                    *)
LEMMA LeastOf ==
    ASSUME NEW T, T \subseteq Nat, T # {}
    PROVE  \E x \in T : \A y \in T : x <= y
<1> DEFINE R == {r \in Nat \X Nat : r[1] < r[2]}
<1>1. R = OpToRel(<, Nat)
  BY DEF OpToRel
<1>2. IsWellFoundedOn(R, Nat)
  BY <1>1, NatLessThanWellFounded
<1>3. PICK x \in T : \A y \in T : ~(<<y, x>> \in R)
  <2> HIDE DEF R
  <2> QED
    BY <1>2, WFMin
<1>4. ASSUME NEW y \in T PROVE x <= y
  <2>1. x \in Nat /\ y \in Nat
    OBVIOUS
  <2>2. y < x => <<y, x>> \in R
    BY <2>1
  <2> QED
    BY <1>3, <2>1, <2>2
<1> QED
  BY <1>4

(* The concatenations of the first strings of ss, one more at a time.       *)
IsFlat(v, ss, S) ==
    /\ v \in [1..Len(ss) -> Seq(S)]
    /\ \A i \in 1..Len(ss) : v[i] = IF i = 1 THEN ss[1] ELSE v[i - 1] \o ss[i]

(* Any strings have such concatenations.                                    *)
LEMMA FlatExists ==
    ASSUME NEW S
    PROVE  \A n \in Nat : \A ss \in Seq(Seq(S)) : Len(ss) = n => \E v : IsFlat(v, ss, S)
<1> DEFINE P(n) == \A ss \in Seq(Seq(S)) : Len(ss) = n => \E v : IsFlat(v, ss, S)
           T == {n \in Nat : ~P(n)}
<1>1. SUFFICES ASSUME T # {} PROVE FALSE
  OBVIOUS
<1>2. PICK n \in T : \A k \in T : n <= k
  <2>1. T \subseteq Nat
    OBVIOUS
  <2> HIDE DEF T
  <2> QED
    BY <1>1, <2>1, LeastOf
<1>3. PICK ss \in Seq(Seq(S)) : Len(ss) = n /\ ~ \E v : IsFlat(v, ss, S)
  OBVIOUS
<1>4. n \in Nat /\ \A i \in 1..n : ss[i] \in Seq(S)
  BY <1>3, ElementOfSeq
<1>5. CASE n = 0
  <2>1. IsFlat(<<>>, ss, S)
    BY <1>3, <1>5 DEF IsFlat
  <2> QED
    BY <1>3, <2>1
<1>6. CASE n # 0
  <2> DEFINE t == SubSeq(ss, 1, n - 1)
  <2>1. t \in Seq(Seq(S)) /\ Len(t) = n - 1 /\ \A i \in 1..(n - 1) : t[i] = ss[i]
    BY <1>3, <1>4, <1>6
  <2>2. n - 1 \in Nat /\ n - 1 \notin T
    BY <1>2, <1>4, <1>6
  <2> HIDE DEF t
  <2>3. PICK u : IsFlat(u, t, S)
    BY <2>1, <2>2
  <2> DEFINE w == IF n = 1 THEN ss[1] ELSE u[n - 1] \o ss[n]
             v == [i \in 1..n |-> IF i = n THEN w ELSE u[i]]
  <2>4. \A i \in 1..(n - 1) : u[i] \in Seq(S)
    BY <2>1, <2>3 DEF IsFlat
  <2>5. w \in Seq(S)
    <3>1. CASE n = 1
      BY <1>4, <3>1
    <3>2. CASE n # 1
      <4>1. u[n - 1] \in Seq(S) /\ ss[n] \in Seq(S)
        BY <1>4, <1>6, <2>4, <3>2
      <4> QED
        BY <3>2, <4>1, ConcatProperties
    <3> QED
      BY <3>1, <3>2
  <2>6. v[n] = w /\ \A i \in 1..(n - 1) : v[i] = u[i]
    <3>1. n \in 1..n /\ \A i \in 1..(n - 1) : i \in 1..n /\ i # n
      BY <1>4, <1>6
    <3> HIDE DEF w
    <3> QED
      BY <3>1
  <2>7. v \in [1..n -> Seq(S)]
    <3> HIDE DEF w
    <3> QED
      BY <1>4, <2>4, <2>5
  <2>8. ASSUME NEW i \in 1..n PROVE v[i] = IF i = 1 THEN ss[1] ELSE v[i - 1] \o ss[i]
    <3> HIDE DEF v
    <3>1. CASE i = n
      <4>1. n # 1 => v[n - 1] = u[n - 1]
        BY <1>4, <1>6, <2>6
      <4> QED
        BY <2>6, <3>1, <4>1
    <3>2. CASE i # n
      <4>1. i \in 1..(n - 1) /\ (i # 1 => i - 1 \in 1..(n - 1))
        BY <1>4, <3>2
      <4>2. u[i] = IF i = 1 THEN t[1] ELSE u[i - 1] \o t[i]
        BY <2>1, <2>3, <4>1 DEF IsFlat
      <4>3. v[i] = u[i] /\ (i # 1 => v[i - 1] = u[i - 1]) /\ t[i] = ss[i]
        BY <2>1, <2>6, <4>1
      <4> QED
        BY <4>2, <4>3
    <3> QED
      BY <3>1, <3>2
  <2> HIDE DEF v, w
  <2>9. IsFlat(v, ss, S)
    BY <1>3, <2>7, <2>8 DEF IsFlat
  <2> QED
    BY <1>3, <2>9
<1> QED
  BY <1>5, <1>6

(* FlattenSeq is the last of them.                                          *)
LEMMA FlattenIs ==
    ASSUME NEW S, NEW ss \in Seq(Seq(S)), Len(ss) # 0
    PROVE  \E v : IsFlat(v, ss, S) /\ FlattenSeq(ss) = v[Len(ss)]
<1> DEFINE n == Len(ss)
           f == CHOOSE f : f = [i \in 1..n |-> IF i = 1 THEN ss[i] ELSE f[i - 1] \o ss[i]]
<1>1. n \in Nat /\ n # 0 /\ ss = [i \in 1..n |-> ss[i]]
  BY LenProperties
<1>2. PICK v : IsFlat(v, ss, S)
  BY <1>1, FlatExists
<1>3. v = [i \in 1..n |-> IF i = 1 THEN ss[i] ELSE v[i - 1] \o ss[i]]
  <2>1. v = [i \in 1..n |-> v[i]]
    BY <1>2 DEF IsFlat
  <2>2. \A i \in 1..n : v[i] = IF i = 1 THEN ss[i] ELSE v[i - 1] \o ss[i]
    BY <1>2 DEF IsFlat
  <2> QED
    BY <2>1, <2>2, Zenon
<1>4. f = [i \in 1..n |-> IF i = 1 THEN ss[i] ELSE f[i - 1] \o ss[i]]
  BY <1>3, Zenon
<1>5. FlattenSeq(ss) = f[n]
  BY <1>1, Zenon DEF FlattenSeq
<1> HIDE DEF f
<1>6. \A k \in Nat : k \in 1..n => f[k] = v[k]
  <2> DEFINE T == {k \in Nat : k \in 1..n /\ f[k] # v[k]}
  <2> SUFFICES ASSUME T # {} PROVE FALSE
    OBVIOUS
  <2>1. PICK k \in T : \A j \in T : k <= j
    <3>1. T \subseteq Nat
      OBVIOUS
    <3> HIDE DEF T
    <3> QED
      BY <3>1, LeastOf
  <2>2. k \in 1..n /\ f[k] # v[k]
    OBVIOUS
  <2>3. f[k] = IF k = 1 THEN ss[k] ELSE f[k - 1] \o ss[k]
    BY <1>4, <2>2, Zenon
  <2>4. v[k] = IF k = 1 THEN ss[k] ELSE v[k - 1] \o ss[k]
    BY <1>2, <2>2 DEF IsFlat
  <2>5. k # 1 => f[k - 1] = v[k - 1]
    <3> SUFFICES ASSUME k # 1 PROVE f[k - 1] = v[k - 1]
      OBVIOUS
    <3>1. k - 1 \in Nat /\ k - 1 \in 1..n /\ ~(k <= k - 1)
      BY <1>1, <2>2
    <3>2. k - 1 \notin T
      <4> HIDE DEF T
      <4> QED
        BY <2>1, <3>1
    <3> QED
      BY <3>1, <3>2
  <2> QED
    BY <2>2, <2>3, <2>4, <2>5
<1>7. f[n] = v[n]
  BY <1>1, <1>6
<1> QED
  BY <1>2, <1>5, <1>7

(* With one more string at the end. *)
LEMMA FlattenAppend ==
    ASSUME NEW S
    PROVE  /\ FlattenSeq(<<>>) = <<>>
           /\ \A ss \in Seq(Seq(S)) : FlattenSeq(ss) \in Seq(S)
           /\ \A ss \in Seq(Seq(S)), x \in Seq(S) :
                 FlattenSeq(Append(ss, x)) = FlattenSeq(ss) \o x
<1>1. FlattenSeq(<<>>) = <<>>
  <2>1. Len(<<>>) = 0
    OBVIOUS
  <2> QED
    BY <2>1, Zenon DEF FlattenSeq
<1>2. ASSUME NEW ss \in Seq(Seq(S)), Len(ss) = 0 PROVE ss = <<>>
  BY <1>2
<1>3. ASSUME NEW ss \in Seq(Seq(S)) PROVE FlattenSeq(ss) \in Seq(S)
  <2>1. CASE Len(ss) = 0
    <3>1. FlattenSeq(ss) = <<>>
      BY <1>1, <1>2, <2>1, Zenon
    <3>2. <<>> \in Seq(S)
      BY EmptySeq
    <3> QED
      BY <3>1, <3>2, Zenon
  <2>2. CASE Len(ss) # 0
    <3>1. PICK v : IsFlat(v, ss, S) /\ FlattenSeq(ss) = v[Len(ss)]
      BY <2>2, FlattenIs
    <3>2. Len(ss) \in 1..Len(ss)
      BY <2>2, LenProperties
    <3>3. v \in [1..Len(ss) -> Seq(S)]
      BY <3>1, Zenon DEF IsFlat
    <3>4. v[Len(ss)] \in Seq(S)
      BY <3>2, <3>3, Zenon
    <3> QED
      BY <3>1, <3>4, Zenon
  <2> QED
    BY <2>1, <2>2
<1>4. ASSUME NEW ss \in Seq(Seq(S)), NEW x \in Seq(S)
      PROVE  FlattenSeq(Append(ss, x)) = FlattenSeq(ss) \o x
  <2> DEFINE tt == Append(ss, x)
             n == Len(ss)
  <2>1. /\ tt \in Seq(Seq(S)) /\ Len(tt) = n + 1 /\ tt[n + 1] = x /\ n \in Nat
        /\ \A i \in 1..n : tt[i] = ss[i]
    BY AppendProperties, LenProperties
  <2> HIDE DEF tt
  <2>2. PICK w : IsFlat(w, tt, S) /\ FlattenSeq(tt) = w[n + 1]
    <3>1. tt \in Seq(Seq(S)) /\ Len(tt) # 0
      BY <2>1
    <3>2. PICK w : IsFlat(w, tt, S) /\ FlattenSeq(tt) = w[Len(tt)]
      BY <3>1, FlattenIs
    <3> QED
      BY <2>1, <3>2, Zenon
  <2>3. CASE n = 0
    <3>1. w[n + 1] = x
      BY <2>1, <2>2, <2>3 DEF IsFlat
    <3>2. FlattenSeq(ss) = <<>>
      BY <1>1, <1>2, <2>3
    <3>3. <<>> \o x = x
      BY ConcatEmptySeq
    <3> QED
      BY <2>2, <3>1, <3>2, <3>3 DEF tt
  <2>4. CASE n # 0
    <3>1. PICK v : IsFlat(v, ss, S) /\ FlattenSeq(ss) = v[n]
      BY <2>4, FlattenIs
    <3>2. \A k \in Nat : k \in 1..n => w[k] = v[k]
      <4> DEFINE T == {k \in Nat : k \in 1..n /\ w[k] # v[k]}
      <4> SUFFICES ASSUME T # {} PROVE FALSE
        OBVIOUS
      <4>1. PICK k \in T : \A j \in T : k <= j
        <5>1. T \subseteq Nat
          OBVIOUS
        <5> HIDE DEF T
        <5> QED
          BY <5>1, LeastOf
      <4>2. k \in 1..n /\ k \in 1..(n + 1) /\ w[k] # v[k]
        BY <2>1
      <4>3. w[k] = IF k = 1 THEN tt[1] ELSE w[k - 1] \o tt[k]
        BY <2>1, <2>2, <4>2 DEF IsFlat
      <4>4. v[k] = IF k = 1 THEN ss[1] ELSE v[k - 1] \o ss[k]
        BY <3>1, <4>2 DEF IsFlat
      <4>5. k # 1 => w[k - 1] = v[k - 1]
        <5> SUFFICES ASSUME k # 1 PROVE w[k - 1] = v[k - 1]
          OBVIOUS
        <5>1. k - 1 \in Nat /\ k - 1 \in 1..n /\ ~(k <= k - 1)
          BY <2>1, <4>2
        <5>2. k - 1 \notin T
          <6> HIDE DEF T
          <6> QED
            BY <4>1, <5>1
        <5> QED
          BY <5>1, <5>2
      <4>6. tt[k] = ss[k]
        BY <2>1, <4>2
      <4> QED
        BY <4>2, <4>3, <4>4, <4>5, <4>6
    <3>3. w[n + 1] = w[n] \o tt[n + 1]
      <4>1. n + 1 \in 1..(n + 1) /\ n + 1 # 1 /\ (n + 1) - 1 = n
        BY <2>1, <2>4
      <4> QED
        BY <2>1, <2>2, <4>1 DEF IsFlat
    <3>4. w[n] = v[n]
      BY <2>1, <2>4, <3>2
    <3> QED
      BY <2>1, <2>2, <3>1, <3>3, <3>4 DEF tt
  <2> QED
    BY <2>3, <2>4
<1> QED
  BY <1>1, <1>3, <1>4

(* With one more string at the front. *)
LEMMA FlattenCons ==
    ASSUME NEW S, NEW x \in Seq(S)
    PROVE  \A ss \in Seq(Seq(S)) : FlattenSeq(<<x>> \o ss) = x \o FlattenSeq(ss)
<1> DEFINE P(n) == \A ss \in Seq(Seq(S)) :
                      Len(ss) = n => FlattenSeq(<<x>> \o ss) = x \o FlattenSeq(ss)
           T == {n \in Nat : ~P(n)}
<1>1. SUFFICES ASSUME T # {} PROVE FALSE
  <2>1. ASSUME T = {}, NEW ss \in Seq(Seq(S))
        PROVE  FlattenSeq(<<x>> \o ss) = x \o FlattenSeq(ss)
    <3>1. Len(ss) \in Nat
      BY LenProperties
    <3>2. Len(ss) \notin T
      BY <2>1
    <3> QED
      BY <3>1, <3>2
  <2> QED
    BY <2>1, Zenon
<1>2. PICK n \in T : \A k \in T : n <= k
  <2>1. T \subseteq Nat
    OBVIOUS
  <2> HIDE DEF T
  <2> QED
    BY <1>1, <2>1, LeastOf
<1>3. PICK ss \in Seq(Seq(S)) : Len(ss) = n /\ FlattenSeq(<<x>> \o ss) # x \o FlattenSeq(ss)
  OBVIOUS
<1>4. CASE n = 0
  <2>1. ss = <<>>
    BY <1>3, <1>4
  <2>2. <<x>> \o <<>> = Append(<<>>, x) /\ <<>> \in Seq(Seq(S)) /\ <<>> \in Seq(S)
    OBVIOUS
  <2>3. FlattenSeq(Append(<<>>, x)) = FlattenSeq(<<>>) \o x
    BY <2>2, FlattenAppend
  <2>4. <<>> \o x = x /\ x \o <<>> = x
    BY ConcatEmptySeq
  <2>5. FlattenSeq(<<>>) = <<>>
    BY FlattenAppend
  <2> QED
    BY <1>3, <2>1, <2>2, <2>3, <2>4, <2>5
<1>5. CASE n # 0
  <2> DEFINE t == SubSeq(ss, 1, n - 1)
  <2>1. n \in Nat /\ n - 1 \in Nat /\ ~(n <= n - 1)
    BY <1>3, <1>5
  <2>2. t \in Seq(Seq(S)) /\ Len(t) = n - 1 /\ ss[n] \in Seq(S)
    BY <1>3, <1>5, <2>1
  <2>a. ss = Append(t, ss[n])
    BY <1>3, <1>5, <2>1, SMTT(30)
  <2> HIDE DEF t
  <2>3. n - 1 \notin T
    <3> HIDE DEF T
    <3> QED
      BY <1>2, <2>1
  <2>4. FlattenSeq(<<x>> \o t) = x \o FlattenSeq(t)
    BY <2>1, <2>2, <2>3
  <2>5. <<x>> \in Seq(Seq(S))
    OBVIOUS
  <2>6. <<x>> \o ss = Append(<<x>> \o t, ss[n]) /\ <<x>> \o t \in Seq(Seq(S))
    <3>1. ss = t \o <<ss[n]>>
      BY <2>2, <2>a, AppendIsConcat
    <3>2. <<ss[n]>> \in Seq(Seq(S))
      BY <2>2
    <3>3. (<<x>> \o t) \o <<ss[n]>> = <<x>> \o (t \o <<ss[n]>>)
      <4> DEFINE y == <<x>>
                 z == <<ss[n]>>
                 R == Seq(S)
      <4>1. y \in Seq(R) /\ t \in Seq(R) /\ z \in Seq(R)
        BY <2>2, <2>5, <3>2
      <4> HIDE DEF y, z, R
      <4>2. (y \o t) \o z = y \o (t \o z)
        BY <4>1, ConcatAssociative, SMTT(30)
      <4> QED
        BY <4>2 DEF y, z
    <3>4. <<x>> \o t \in Seq(Seq(S))
      BY <2>2, <2>5, ConcatProperties
    <3> QED
      BY <2>2, <3>1, <3>3, <3>4, AppendIsConcat
  <2>7. FlattenSeq(<<x>> \o ss) = FlattenSeq(<<x>> \o t) \o ss[n]
    BY <2>2, <2>6, FlattenAppend
  <2>8. FlattenSeq(ss) = FlattenSeq(t) \o ss[n] /\ FlattenSeq(t) \in Seq(S)
    BY <2>2, <2>a, FlattenAppend
  <2>9. (x \o FlattenSeq(t)) \o ss[n] = x \o (FlattenSeq(t) \o ss[n])
    <3> DEFINE y == FlattenSeq(t)
               z == ss[n]
    <3>1. y \in Seq(S) /\ z \in Seq(S)
      BY <2>2, <2>8
    <3> HIDE DEF y, z
    <3>2. (x \o y) \o z = x \o (y \o z)
      BY <3>1, ConcatAssociative
    <3> QED
      BY <3>2 DEF y, z
  <2> QED
    BY <1>3, <2>4, <2>7, <2>8, <2>9
<1> QED
  BY <1>4, <1>5

(* Of the strings from some place on the first comes first. *)
LEMMA FlattenFrom ==
    ASSUME NEW S, NEW ss \in Seq(Seq(S)), NEW i \in Nat \ {0}
    PROVE  /\ FlattenSeq(SubSeq(ss, i, Len(ss))) \in Seq(S)
           /\ i > Len(ss) => FlattenSeq(SubSeq(ss, i, Len(ss))) = <<>>
           /\ i <= Len(ss) => FlattenSeq(SubSeq(ss, i, Len(ss)))
                                = ss[i] \o FlattenSeq(SubSeq(ss, i + 1, Len(ss)))
<1>1. Len(ss) \in Nat
  BY LenProperties
<1>2. \A j \in i..Len(ss) : ss[j] \in Seq(S)
  <2>1. \A j \in i..Len(ss) : j \in 1..Len(ss)
    BY <1>1
  <2> QED
    BY <2>1, ElementOfSeq
<1>3. SubSeq(ss, i, Len(ss)) \in Seq(Seq(S))
  BY <1>1, <1>2, SubSeqProperties
<1>4. SubSeq(ss, i + 1, Len(ss)) \in Seq(Seq(S))
  <2>1. \A j \in (i + 1)..Len(ss) : j \in i..Len(ss)
    BY <1>1
  <2> QED
    BY <1>1, <1>2, <2>1, SubSeqProperties
<1>5. ASSUME i > Len(ss) PROVE FlattenSeq(SubSeq(ss, i, Len(ss))) = <<>>
  <2>1. SubSeq(ss, i, Len(ss)) = <<>>
    BY <1>1, <1>5, SubSeqEmpty
  <2> QED
    BY <2>1, FlattenAppend
<1>6. ASSUME i <= Len(ss)
      PROVE  FlattenSeq(SubSeq(ss, i, Len(ss)))
               = ss[i] \o FlattenSeq(SubSeq(ss, i + 1, Len(ss)))
  <2>1. i \in 1..Len(ss) /\ Len(ss) \in i..Len(ss)
    BY <1>1, <1>6
  <2>2. SubSeq(ss, i, Len(ss)) = <<ss[i]>> \o SubSeq(ss, i + 1, Len(ss))
    BY <2>1, SubSeqRecursiveFirst
  <2>3. ss[i] \in Seq(S)
    BY <1>2, <2>1
  <2> QED
    BY <1>4, <2>2, <2>3, FlattenCons
<1> QED
  BY <1>3, <1>5, <1>6, FlattenAppend

-----------------------------------------------------------------------------
(* EscapeBytes and RemoveBytes, token by token. *)

Escaped(c) == IF c \in Delims THEN <<"\\", c>> ELSE <<c>>

(* A token escaped is a token or two.                                       *)
LEMMA EscapedType ==
    ASSUME NEW c \in Tokens
    PROVE  Escaped(c) \in Seq(Tokens)
<1>1. "\\" \in Tokens
  BY DEF Tokens, Delims
<1> QED
  BY <1>1 DEF Escaped

(* EscapeBytes, one token at a time.                                        *)
LEMMA EscapeCons ==
    ASSUME NEW u \in Seq(Tokens)
    PROVE  /\ EscapeBytes(u) \in Seq(Tokens) /\ EscapeBytes(<<>>) = <<>>
           /\ \A c \in Tokens : EscapeBytes(<<c>> \o u) = Escaped(c) \o EscapeBytes(u)
<1> DEFINE E(v) == [i \in DOMAIN v |-> Escaped(v[i])]
<1>1. \A v : EscapeBytes(v) = FlattenSeq(E(v))
  BY Zenon DEF EscapeBytes, Escaped
<1>2. ASSUME NEW v \in Seq(Tokens)
      PROVE  /\ E(v) \in Seq(Seq(Tokens)) /\ Len(E(v)) = Len(v)
             /\ \A i \in 1..Len(v) : E(v)[i] = Escaped(v[i])
  <2>1. \A i \in 1..Len(v) : Escaped(v[i]) \in Seq(Tokens)
    BY EscapedType, ElementOfSeq
  <2>2. E(v) = [i \in 1..Len(v) |-> Escaped(v[i])] /\ Len(v) \in Nat
    BY LenProperties
  <2> QED
    BY <2>1, <2>2
<1>3. E(<<>>) = <<>>
  OBVIOUS
<1>4. ASSUME NEW c \in Tokens PROVE E(<<c>> \o u) = <<Escaped(c)>> \o E(u)
  <2> DEFINE w == <<c>> \o u
             s == E(w)
             t == <<Escaped(c)>> \o E(u)
  <2>1. w \in Seq(Tokens) /\ Len(w) = Len(u) + 1 /\ Len(u) \in Nat /\ w[1] = c
        /\ \A i \in 1..Len(u) : w[i + 1] = u[i]
    OBVIOUS
  <2>2. s \in Seq(Seq(Tokens)) /\ Len(s) = Len(u) + 1
        /\ \A i \in 1..(Len(u) + 1) : s[i] = Escaped(w[i])
    BY <1>2, <2>1
  <2> DEFINE e == E(u)
             d == Escaped(c)
  <2>3. e \in Seq(Seq(Tokens)) /\ Len(e) = Len(u) /\ \A i \in 1..Len(u) : e[i] = Escaped(u[i])
    BY <1>2
  <2>4. d \in Seq(Tokens)
    BY EscapedType
  <2> HIDE DEF e, d
  <2>5. <<d>> \o e \in Seq(Seq(Tokens)) /\ Len(<<d>> \o e) = Len(u) + 1 /\ (<<d>> \o e)[1] = d
        /\ \A i \in 1..Len(u) : (<<d>> \o e)[i + 1] = e[i]
    BY <2>1, <2>3, <2>4
  <2>6. t = <<d>> \o e
    BY DEF d, e
  <2> HIDE DEF s, t, w
  <2>7. ASSUME NEW i \in 1..(Len(u) + 1) PROVE s[i] = t[i]
    <3>1. CASE i = 1
      BY <2>1, <2>2, <2>5, <2>6, <3>1 DEF d
    <3>2. CASE i # 1
      <4>1. i - 1 \in 1..Len(u) /\ (i - 1) + 1 = i
        BY <2>1, <3>2
      <4>2. w[i] = u[i - 1] /\ t[i] = e[i - 1]
        BY <2>1, <2>5, <2>6, <4>1
      <4> QED
        BY <2>2, <2>3, <4>1, <4>2
    <3> QED
      BY <3>1, <3>2
  <2>8. s = t
    BY <2>2, <2>5, <2>6, <2>7, SeqEqual
  <2> QED
    BY <2>8 DEF s, t, w
<1>5. EscapeBytes(u) \in Seq(Tokens)
  <2> HIDE DEF E
  <2> QED
    BY <1>1, <1>2, FlattenAppend
<1>6. EscapeBytes(<<>>) = <<>>
  <2> HIDE DEF E
  <2> QED
    BY <1>1, <1>3, FlattenAppend
<1>7. ASSUME NEW c \in Tokens PROVE EscapeBytes(<<c>> \o u) = Escaped(c) \o EscapeBytes(u)
  <2>1. E(u) \in Seq(Seq(Tokens)) /\ Escaped(c) \in Seq(Tokens)
    BY <1>2, EscapedType
  <2>2. E(<<c>> \o u) = <<Escaped(c)>> \o E(u)
    BY <1>4
  <2> HIDE DEF E
  <2>3. FlattenSeq(<<Escaped(c)>> \o E(u)) = Escaped(c) \o FlattenSeq(E(u))
    BY <2>1, FlattenCons
  <2> QED
    BY <1>1, <2>2, <2>3
<1> QED
  BY <1>5, <1>6, <1>7

Left(v, P, i) == IF i \in P THEN <<>> ELSE <<v[i]>>

(* RemoveBytes, one token at a time.                                        *)
LEMMA RemoveAppend ==
    ASSUME NEW S, NEW t \in Seq(S)
    PROVE  /\ \A P : RemoveBytes(t, P) \in Seq(S)
           /\ \A P : RemoveBytes(<<>>, P) = <<>>
           /\ \A c \in S : \A P : RemoveBytes(Append(t, c), P)
                                     = IF Len(t) + 1 \in P THEN RemoveBytes(t, P)
                                       ELSE Append(RemoveBytes(t, P), c)
           /\ \A P : RemoveBytes(t, P \cup {Len(t) + 1}) = RemoveBytes(t, P)
<1> DEFINE L(v, P) == [i \in DOMAIN v |-> Left(v, P, i)]
<1>1. \A v, P : RemoveBytes(v, P) = FlattenSeq(L(v, P))
  BY Zenon DEF RemoveBytes, Left
<1>2. ASSUME NEW v \in Seq(S), NEW P
      PROVE  /\ L(v, P) \in Seq(Seq(S)) /\ Len(L(v, P)) = Len(v)
             /\ \A i \in 1..Len(v) : L(v, P)[i] = Left(v, P, i)
  <2>1. \A i \in 1..Len(v) : Left(v, P, i) \in Seq(S)
    BY ElementOfSeq DEF Left
  <2>2. L(v, P) = [i \in 1..Len(v) |-> Left(v, P, i)] /\ Len(v) \in Nat
    BY LenProperties
  <2> QED
    BY <2>1, <2>2
<1>3. ASSUME NEW P PROVE RemoveBytes(t, P) \in Seq(S)
  <2>1. L(t, P) \in Seq(Seq(S))
    BY <1>2
  <2> HIDE DEF L
  <2> QED
    BY <1>1, <2>1, FlattenAppend
<1>4. ASSUME NEW P PROVE RemoveBytes(<<>>, P) = <<>>
  <2>1. L(<<>>, P) = <<>>
    OBVIOUS
  <2> HIDE DEF L
  <2> QED
    BY <1>1, <2>1, FlattenAppend
<1>5. ASSUME NEW c \in S, NEW P
      PROVE  RemoveBytes(Append(t, c), P) = IF Len(t) + 1 \in P THEN RemoveBytes(t, P)
                                            ELSE Append(RemoveBytes(t, P), c)
  <2> DEFINE w == Append(t, c)
             l == Left(w, P, Len(t) + 1)
             x == L(w, P)
             e == L(t, P)
             y == Append(e, l)
  <2>1. w \in Seq(S) /\ Len(w) = Len(t) + 1 /\ Len(t) \in Nat /\ w[Len(t) + 1] = c
        /\ \A i \in 1..Len(t) : w[i] = t[i]
    OBVIOUS
  <2>2. x \in Seq(Seq(S)) /\ Len(x) = Len(t) + 1
        /\ \A i \in 1..(Len(t) + 1) : x[i] = Left(w, P, i)
    BY <1>2, <2>1
  <2>3. e \in Seq(Seq(S)) /\ Len(e) = Len(t) /\ \A i \in 1..Len(t) : e[i] = Left(t, P, i)
    BY <1>2
  <2>4. l \in Seq(S) /\ l = IF Len(t) + 1 \in P THEN <<>> ELSE <<c>>
    BY <2>1 DEF Left
  <2> HIDE DEF e, w, l, x
  <2>5. y \in Seq(Seq(S)) /\ Len(y) = Len(t) + 1 /\ y[Len(t) + 1] = l
        /\ \A i \in 1..Len(t) : y[i] = e[i]
    BY <2>3, <2>4, AppendProperties
  <2> HIDE DEF y
  <2>6. ASSUME NEW i \in 1..(Len(t) + 1) PROVE x[i] = y[i]
    <3>1. CASE i = Len(t) + 1
      BY <2>2, <2>5, <3>1 DEF l
    <3>2. CASE i # Len(t) + 1
      <4>1. i \in 1..Len(t)
        BY <2>1, <3>2
      <4>2. Left(w, P, i) = Left(t, P, i)
        BY <2>1, <4>1 DEF Left
      <4> QED
        BY <2>2, <2>3, <2>5, <4>1, <4>2
    <3> QED
      BY <3>1, <3>2
  <2>7. x = y
    BY <2>2, <2>5, <2>6, SeqEqual
  <2>8. FlattenSeq(y) = FlattenSeq(e) \o l
    BY <2>3, <2>4, FlattenAppend DEF y
  <2>9. RemoveBytes(w, P) = RemoveBytes(t, P) \o l
    BY <1>1, <2>7, <2>8 DEF x, e
  <2> DEFINE r == RemoveBytes(t, P)
  <2>a. r \in Seq(S)
    BY <1>3
  <2> HIDE DEF r
  <2>b. r \o <<>> = r /\ r \o <<c>> = Append(r, c)
    BY <2>a, ConcatEmptySeq, AppendIsConcat
  <2> QED
    BY <2>4, <2>9, <2>b DEF r, w
<1>6. ASSUME NEW P PROVE RemoveBytes(t, P \cup {Len(t) + 1}) = RemoveBytes(t, P)
  <2>1. \A i \in DOMAIN t : i \in P \cup {Len(t) + 1} <=> i \in P
    BY LenProperties
  <2>2. L(t, P \cup {Len(t) + 1}) = L(t, P)
    BY <2>1, Zenon DEF Left
  <2> HIDE DEF L
  <2> QED
    BY <1>1, <2>2
<1> QED
  BY <1>3, <1>4, <1>5, <1>6

(* What SetToSeq makes of a finite set. *)
LEMMA ListIs ==
    ASSUME NEW S, IsFiniteSet(S), NEW s, s = SetToSeq(S)
    PROVE  /\ s \in Seq(S) /\ DOMAIN s = 1..Len(s) /\ Len(s) \in Nat
           /\ \A i, j \in 1..Len(s) : s[i] = s[j] => i = j
           /\ {s[i] : i \in 1..Len(s)} = S
           /\ S # {} <=> Len(s) # 0
<1> DEFINE n == Cardinality(S)
<1>1. n \in Nat /\ ExistsBijection(1..n, S)
  BY FS_CardinalityType
<1>2. PICK f : f \in Bijection(1..n, S)
  BY <1>1 DEF ExistsBijection
<1>3. f \in [1..n -> S] /\ IsInjective(f)
  BY <1>2 DEF Bijection, Injection
<1>4. s \in [1..n -> S] /\ IsInjective(s)
  BY <1>3, Zenon DEF SetToSeq
<1>5. s \in Seq(S) /\ Len(s) = n /\ DOMAIN s = 1..n
  BY <1>1, <1>4
<1>6. s \in Injection(1..n, S)
  BY <1>4, Zenon DEF Injection
<1>7. IsFiniteSet(1..n) /\ Cardinality(1..n) = n
  BY <1>1, FS_Interval
<1>8. s \in Surjection(1..n, S)
  BY <1>6, <1>7, FS_Injection
<1> HIDE DEF n
<1>9. \A x \in S : \E i \in 1..n : s[i] = x
  BY <1>8 DEF Surjection
<1>10. {s[i] : i \in 1..n} = S
  BY <1>4, <1>9
<1>11. \A i, j \in 1..n : s[i] = s[j] => i = j
  BY <1>4 DEF IsInjective
<1>12. S # {} <=> n # 0
  BY <1>1, <1>4, <1>9
<1> QED
  BY <1>1, <1>5, <1>10, <1>11, <1>12

-----------------------------------------------------------------------------
(* Numerals. *)

(* The digits name the numbers below ten.                                   *)
LEMMA DigitIs ==
    /\ \A c \in Digits : Digit[c] \in 0..9 /\ (Digit[c] = 0 <=> c = "0")
    /\ \A d \in 0..9 : \E c \in Digits : Digit[c] = d
<1>1. /\ Digit["0"] = 0 /\ Digit["1"] = 1 /\ Digit["2"] = 2 /\ Digit["3"] = 3 /\ Digit["4"] = 4
      /\ Digit["5"] = 5 /\ Digit["6"] = 6 /\ Digit["7"] = 7 /\ Digit["8"] = 8 /\ Digit["9"] = 9
  BY DEF Digit, Digits
<1>2. \A c \in Digits : Digit[c] \in 0..9 /\ (Digit[c] = 0 <=> c = "0")
  BY <1>1 DEF Digits
<1>3. ASSUME NEW d \in 0..9 PROVE \E c \in Digits : Digit[c] = d
  <2>1. \/ d = 0 \/ d = 1 \/ d = 2 \/ d = 3 \/ d = 4 \/ d = 5 \/ d = 6 \/ d = 7 \/ d = 8 \/ d = 9
    OBVIOUS
  <2>2. /\ "0" \in Digits /\ "1" \in Digits /\ "2" \in Digits /\ "3" \in Digits /\ "4" \in Digits
        /\ "5" \in Digits /\ "6" \in Digits /\ "7" \in Digits /\ "8" \in Digits /\ "9" \in Digits
    BY DEF Digits
  <2> QED
    BY <1>1, <2>1, <2>2, Zenon
<1> QED
  BY <1>2, <1>3

(* What up to three digits say.                                             *)
LEMMA NumberIs ==
    ASSUME NEW t \in Seq(Digits), Len(t) \in 1..3
    PROVE  UnsafeUTF8DecimalCodePointsToInt(t) =
             IF Len(t) = 1 THEN Digit[t[1]]
             ELSE IF Len(t) = 2 THEN 10 * Digit[t[1]] + Digit[t[2]]
             ELSE 10 * (10 * Digit[t[1]] + Digit[t[2]]) + Digit[t[3]]
<1> DEFINE n == Len(t)
           v == CHOOSE v : v = [k \in 0..n |-> IF k = 0 THEN 0 ELSE 10 * v[k - 1] + Digit[t[k]]]
           a == Digit[t[1]]
           b == Digit[t[2]]
           c == Digit[t[3]]
           w == [k \in 0..n |-> IF k = 0 THEN 0 ELSE IF k = 1 THEN a ELSE IF k = 2 THEN 10 * a + b
                                ELSE 10 * (10 * a + b) + c]
<1>1. UnsafeUTF8DecimalCodePointsToInt(t) = v[n]
  BY Zenon DEF UnsafeUTF8DecimalCodePointsToInt
<1>2. a \in Int /\ n \in 1..3 /\ (n > 1 => b \in Int) /\ (n > 2 => c \in Int)
  <2>1. \A i \in 1..n : t[i] \in Digits
    BY ElementOfSeq
  <2> QED
    BY <2>1, DigitIs
<1>3. w = [k \in 0..n |-> IF k = 0 THEN 0 ELSE 10 * w[k - 1] + Digit[t[k]]]
  <2>1. ASSUME NEW k \in 0..n PROVE w[k] = IF k = 0 THEN 0 ELSE 10 * w[k - 1] + Digit[t[k]]
    <3>1. w[0] = 0 /\ (1 \in 0..n => w[1] = a) /\ (2 \in 0..n => w[2] = 10 * a + b)
          /\ (3 \in 0..n => w[3] = 10 * (10 * a + b) + c)
      BY <1>2
    <3>2. k \in {0, 1, 2, 3}
      <4> HIDE DEF n
      <4> QED
        BY <1>2
    <3>3. (k = 1 => Digit[t[k]] = a) /\ (k = 2 => Digit[t[k]] = b) /\ (k = 3 => Digit[t[k]] = c)
      OBVIOUS
    <3> HIDE DEF w, a, b, c
    <3> QED
      BY <1>2, <3>1, <3>2, <3>3
  <2>2. w = [k \in 0..n |-> w[k]]
    OBVIOUS
  <2> HIDE DEF w
  <2> QED
    BY <2>1, <2>2, Zenon
<1> HIDE DEF w
<1>4. v = [k \in 0..n |-> IF k = 0 THEN 0 ELSE 10 * v[k - 1] + Digit[t[k]]]
  BY <1>3, Zenon
<1> HIDE DEF v, n, a, b, c
<1>5. \A k \in 0..n : v[k] = IF k = 0 THEN 0 ELSE 10 * v[k - 1] + Digit[t[k]]
  BY <1>4, Zenon
<1>6. v[0] = 0
  BY <1>2, <1>5
<1>7. v[1] = a
  BY <1>2, <1>5, <1>6 DEF a
<1>8. n > 1 => v[2] = 10 * a + b
  BY <1>2, <1>5, <1>7 DEF b
<1>9. n > 2 => v[3] = 10 * (10 * a + b) + c
  BY <1>2, <1>5, <1>8 DEF c
<1>10. v[n] = IF n = 1 THEN a ELSE IF n = 2 THEN 10 * a + b ELSE 10 * (10 * a + b) + c
  BY <1>2, <1>7, <1>8, <1>9
<1> QED
  BY <1>1, <1>10 DEF a, b, c, n

(* Up to 999 every number has a numeral without leading zeros. *)
Numeral(t, n) ==
    /\ t \in Seq(Digits) /\ Len(t) \in 1..3
    /\ UnsafeUTF8DecimalCodePointsToInt(t) = n
    /\ Len(t) > 1 => t[1] # "0"

(* Every number of up to three digits has a numeral, which Decimal picks.   *)
LEMMA DecimalIs ==
    ASSUME NEW n \in 0..999
    PROVE  Numeral(Decimal(n), n)
<1> DEFINE All == UNION {[1..k -> Digits] : k \in 1..3}
<1>1. ASSUME NEW t PROVE t \in All <=> t \in Seq(Digits) /\ Len(t) \in 1..3
  <2>1. ASSUME t \in Seq(Digits), Len(t) \in 1..3 PROVE t \in All
    <3> DEFINE l == Len(t)
    <3>1. t \in [1..l -> Digits] /\ l \in 1..3
      BY <2>1, LenProperties
    <3> HIDE DEF l
    <3> QED
      BY <3>1
  <2>2. ASSUME t \in All PROVE t \in Seq(Digits) /\ Len(t) \in 1..3
    <3>1. PICK k \in 1..3 : t \in [1..k -> Digits]
      BY <2>2
    <3> QED
      BY <3>1
  <2> QED
    BY <2>1, <2>2
<1>2. \E t \in All : /\ UnsafeUTF8DecimalCodePointsToInt(t) = n
                     /\ Len(t) > 1 => t[1] # "0"
  <2> HIDE DEF All
  <2>1. CASE n < 10
    <3>1. PICK c \in Digits : Digit[c] = n
      BY <2>1, DigitIs
    <3> DEFINE t == <<c>>
    <3>2. t \in Seq(Digits) /\ Len(t) = 1 /\ t[1] = c
      OBVIOUS
    <3> HIDE DEF t
    <3>3. UnsafeUTF8DecimalCodePointsToInt(t) = n
      <4>1. Len(t) \in 1..3
        BY <3>2
      <4> QED
        BY <3>1, <3>2, <4>1, NumberIs
    <3>4. t \in All
      BY <1>1, <3>2
    <3>5. ~(Len(t) > 1)
      BY <3>2
    <3> QED
      BY <3>3, <3>4, <3>5, Zenon
  <2>2. CASE n >= 10 /\ n < 100
    <3>1. \E a \in 1..9, b \in 0..9 : n = 10 * a + b
      <4>1. n \div 10 \in 1..9 /\ n % 10 \in 0..9 /\ n = 10 * (n \div 10) + (n % 10)
        BY <2>2
      <4> QED
        BY <4>1
    <3>2. PICK a \in 1..9, b \in 0..9 : n = 10 * a + b
      BY <3>1
    <3>3. PICK c \in Digits, d \in Digits : Digit[c] = a /\ Digit[d] = b
      <4>1. a \in 0..9
        OBVIOUS
      <4> QED
        BY <4>1, DigitIs
    <3> DEFINE t == <<c, d>>
    <3>4. t \in Seq(Digits) /\ Len(t) = 2 /\ t[1] = c /\ t[2] = d /\ c # "0"
      BY <3>3, DigitIs
    <3> HIDE DEF t
    <3>5. UnsafeUTF8DecimalCodePointsToInt(t) = n
      <4>1. Len(t) \in 1..3
        BY <3>4
      <4> QED
        BY <3>2, <3>3, <3>4, <4>1, NumberIs
    <3>6. t \in All
      BY <1>1, <3>4
    <3> QED
      BY <3>4, <3>5, <3>6
  <2>3. CASE n >= 100
    <3>1. \E a \in 1..9, b \in 0..9, e \in 0..9 : n = 10 * (10 * a + b) + e
      <4> DEFINE q == n \div 10
      <4>1. q \in 10..99 /\ n % 10 \in 0..9 /\ n = 10 * q + (n % 10)
        BY <2>3
      <4> HIDE DEF q
      <4>2. q \div 10 \in 1..9 /\ q % 10 \in 0..9 /\ q = 10 * (q \div 10) + (q % 10)
        BY <4>1
      <4> QED
        BY <4>1, <4>2
    <3>2. PICK a \in 1..9, b \in 0..9, e \in 0..9 : n = 10 * (10 * a + b) + e
      BY <3>1
    <3>3. PICK c \in Digits, d \in Digits, f \in Digits :
             Digit[c] = a /\ Digit[d] = b /\ Digit[f] = e
      <4>1. a \in 0..9
        OBVIOUS
      <4> QED
        BY <4>1, DigitIs
    <3> DEFINE t == <<c, d, f>>
    <3>4. t \in Seq(Digits) /\ Len(t) = 3 /\ t[1] = c /\ t[2] = d /\ t[3] = f /\ c # "0"
      BY <3>3, DigitIs
    <3> HIDE DEF t
    <3>5. UnsafeUTF8DecimalCodePointsToInt(t) = n
      <4> DEFINE v == UnsafeUTF8DecimalCodePointsToInt(t)
      <4>1. Len(t) \in 1..3
        BY <3>4
      <4>2. v = IF Len(t) = 1 THEN Digit[t[1]]
                ELSE IF Len(t) = 2 THEN 10 * Digit[t[1]] + Digit[t[2]]
                ELSE 10 * (10 * Digit[t[1]] + Digit[t[2]]) + Digit[t[3]]
        BY <3>4, <4>1, NumberIs
      <4>3. v = 10 * (10 * Digit[t[1]] + Digit[t[2]]) + Digit[t[3]]
        <5> HIDE DEF v
        <5> QED
          BY <3>4, <4>2
      <4> HIDE DEF v
      <4>4. v = n
        BY <3>2, <3>3, <3>4, <4>3
      <4> QED
        BY <4>4 DEF v
    <3>6. t \in All
      BY <1>1, <3>4
    <3> QED
      BY <3>4, <3>5, <3>6
  <2> QED
    BY <2>1, <2>2, <2>3
<1>3. /\ Decimal(n) \in All /\ UnsafeUTF8DecimalCodePointsToInt(Decimal(n)) = n
      /\ Len(Decimal(n)) > 1 => Decimal(n)[1] # "0"
  BY <1>2, Zenon DEF Decimal
<1> QED
  BY <1>1, <1>3 DEF Numeral

(* The beginnings of a numeral up to 191 are numerals up to 191; one of a   *)
(* positive number does not begin with 0.                                   *)
LEMMA NumeralBegins ==
    ASSUME NEW t, NEW n \in Nat, Numeral(t, n)
    PROVE  /\ n <= 191 => \A k \in 1..Len(t) : SubSeq(t, 1, k) \in Privals
           /\ n # 0 => t[1] # "0"
<1> DEFINE d1 == Digit[t[1]]
           d2 == Digit[t[2]]
           d3 == Digit[t[3]]
           V(s) == UnsafeUTF8DecimalCodePointsToInt(s)
<1>1. \A i \in 1..Len(t) : t[i] \in Digits
  BY ElementOfSeq DEF Numeral
<1>2. /\ d1 \in 0..9 /\ (Len(t) > 1 => d2 \in 0..9) /\ (Len(t) > 2 => d3 \in 0..9)
      /\ (d1 = 0 <=> t[1] = "0") /\ Len(t) \in 1..3
  BY <1>1, DigitIs DEF Numeral
<1>3. n = IF Len(t) = 1 THEN d1 ELSE IF Len(t) = 2 THEN 10 * d1 + d2 ELSE 10 * (10 * d1 + d2) + d3
  BY NumberIs DEF Numeral
<1>4. n # 0 => t[1] # "0"
  <2> HIDE DEF d1, d2, d3
  <2>1. Len(t) > 1 => t[1] # "0"
    BY DEF Numeral
  <2> QED
    BY <1>2, <1>3, <2>1
<1>5. ASSUME n <= 191, NEW k \in 1..Len(t) PROVE SubSeq(t, 1, k) \in Privals
  <2> DEFINE s == SubSeq(t, 1, k)
  <2>1. s \in Seq(Digits) /\ Len(s) = k /\ \A i \in 1..k : s[i] = t[i]
    BY <1>1, <1>2 DEF Numeral
  <2>2. k \in 1..3
    <3> DEFINE l == Len(t)
    <3>1. l \in 1..3 /\ k \in 1..l
      BY <1>2
    <3> HIDE DEF l
    <3> QED
      BY <3>1
  <2> HIDE DEF s
  <2>3. V(s) = IF k = 1 THEN d1 ELSE IF k = 2 THEN 10 * d1 + d2 ELSE 10 * (10 * d1 + d2) + d3
    <3>1. V(s) = IF k = 1 THEN Digit[s[1]] ELSE IF k = 2 THEN 10 * Digit[s[1]] + Digit[s[2]]
                 ELSE 10 * (10 * Digit[s[1]] + Digit[s[2]]) + Digit[s[3]]
      BY <2>1, <2>2, NumberIs
    <3>2. s[1] = t[1] /\ (k > 1 => s[2] = t[2]) /\ (k > 2 => s[3] = t[3])
      BY <2>1, <2>2
    <3> QED
      BY <2>2, <3>1, <3>2
  <2>4. V(s) <= 191
    <3> DEFINE l == Len(t)
               x == V(s)
    <3>1. /\ l \in 1..3 /\ k \in 1..l /\ d1 \in 0..9
          /\ (l > 1 => d2 \in 0..9) /\ (l > 2 => d3 \in 0..9)
          /\ n = IF l = 1 THEN d1 ELSE IF l = 2 THEN 10 * d1 + d2 ELSE 10 * (10 * d1 + d2) + d3
          /\ x = IF k = 1 THEN d1 ELSE IF k = 2 THEN 10 * d1 + d2 ELSE 10 * (10 * d1 + d2) + d3
      BY <1>2, <1>3, <2>3
    <3> HIDE DEF d1, d2, d3, l, x
    <3>2. x <= n
      <4>1. CASE l = 1
        BY <3>1, <4>1
      <4>2. CASE l = 2
        <5>1. k = 1 \/ k = 2
          BY <3>1, <4>2
        <5> QED
          BY <3>1, <4>2, <5>1
      <4>3. CASE l = 3
        <5>1. k = 1 \/ k = 2 \/ k = 3
          BY <3>1, <4>3
        <5>2. n = 10 * (10 * d1 + d2) + d3 /\ d1 \in Nat /\ d2 \in Nat /\ d3 \in Nat
          <6>1. l > 1 /\ l > 2 /\ l # 1 /\ l # 2
            BY <4>3
          <6>2. d1 \in 0..9 /\ d2 \in 0..9 /\ d3 \in 0..9
            BY <3>1, <6>1
          <6>3. n = 10 * (10 * d1 + d2) + d3
            BY <3>1, <6>1
          <6> QED
            BY <6>2, <6>3
        <5>3. CASE k = 1
          BY <3>1, <5>2, <5>3
        <5>4. CASE k = 2
          BY <3>1, <5>2, <5>4
        <5>5. CASE k = 3
          BY <3>1, <5>2, <5>5
        <5> QED
          BY <5>1, <5>3, <5>4, <5>5
      <4> QED
        BY <3>1, <4>1, <4>2, <4>3
    <3>3. x <= 191
      BY <1>5, <3>1, <3>2
    <3> QED
      BY <3>3 DEF x
  <2>5. Len(s) > 1 => s[1] # "0"
    BY <1>2, <2>1, <2>2 DEF Numeral
  <2>6. s \in UNION {[1..i -> Digits] : i \in 1..3}
    BY <2>1, <2>2, LenProperties
  <2> QED
    BY <2>4, <2>5, <2>6 DEF Privals, s
<1> QED
  BY <1>4, <1>5

(* Scanned, token by token. *)
ScanStates == [open : BOOLEAN, ok : BOOLEAN, at : SUBSET Nat]
Unscanned  == [open |-> FALSE, ok |-> TRUE, at |-> {}]
Scan(s, v, i) ==
    IF s.open THEN [s EXCEPT !.open = FALSE, !.ok = @ /\ v[i] \in Delims]
    ELSE IF v[i] = "\\" THEN [s EXCEPT !.open = TRUE, !.at = @ \cup {i}]
    ELSE [s EXCEPT !.ok = @ /\ v[i] \notin {"\"", "]", "cut", "bad"}]

(* A scan never forgets that it has failed.                                 *)
LEMMA ScanType ==
    ASSUME NEW s \in ScanStates, NEW v, NEW i \in Nat
    PROVE  /\ Scan(s, v, i) \in ScanStates
           /\ Scan(s, v, i).ok => s.ok /\ v[i] \notin {"cut", "bad"}
<1>1. CASE s.open
  <2>1. Scan(s, v, i) = [s EXCEPT !.open = FALSE, !.ok = @ /\ v[i] \in Delims]
    BY <1>1 DEF Scan
  <2>2. v[i] \in Delims => v[i] \notin {"cut", "bad"}
    BY DEF Delims
  <2> QED
    BY <2>1, <2>2 DEF ScanStates
<1>2. CASE ~s.open /\ v[i] = "\\"
  <2>1. Scan(s, v, i) = [s EXCEPT !.open = TRUE, !.at = @ \cup {i}]
    BY <1>2 DEF Scan
  <2> QED
    BY <1>2, <2>1 DEF ScanStates
<1>3. CASE ~s.open /\ v[i] # "\\"
  <2>1. Scan(s, v, i) = [s EXCEPT !.ok = @ /\ v[i] \notin {"\"", "]", "cut", "bad"}]
    BY <1>3 DEF Scan
  <2> QED
    BY <1>3, <2>1 DEF ScanStates
<1> QED
  BY <1>1, <1>2, <1>3

IsScan(w, v, n) ==
    /\ w \in [0..n -> ScanStates] /\ w[0] = Unscanned
    /\ \A i \in 1..n : w[i] = Scan(w[i - 1], v, i)

(* Any value has such scans, one more token at a time.                      *)
LEMMA ScanExists ==
    ASSUME NEW v
    PROVE  \A n \in Nat : \E w : IsScan(w, v, n)
<1> DEFINE T == {n \in Nat : ~ \E w : IsScan(w, v, n)}
<1>1. SUFFICES ASSUME T # {} PROVE FALSE
  OBVIOUS
<1>2. PICK n \in T : \A k \in T : n <= k
  <2>1. T \subseteq Nat
    OBVIOUS
  <2> HIDE DEF T
  <2> QED
    BY <1>1, <2>1, LeastOf
<1>3. n \in Nat /\ ~ \E w : IsScan(w, v, n)
  OBVIOUS
<1>4. CASE n = 0
  <2> DEFINE w == [i \in 0..0 |-> Unscanned]
  <2>1. Unscanned \in ScanStates
    BY DEF Unscanned, ScanStates
  <2>2. IsScan(w, v, 0)
    BY <2>1 DEF IsScan
  <2> QED
    BY <1>3, <1>4, <2>2
<1>5. CASE n # 0
  <2>1. n - 1 \in Nat /\ n - 1 \notin T
    <3>1. n - 1 \in Nat /\ ~(n <= n - 1)
      BY <1>3, <1>5
    <3> HIDE DEF T
    <3> QED
      BY <1>2, <3>1
  <2>2. PICK u : IsScan(u, v, n - 1)
    BY <2>1
  <2> HIDE DEF T
  <2> DEFINE x == Scan(u[n - 1], v, n)
             w == [i \in 0..n |-> IF i = n THEN x ELSE u[i]]
  <2>3. \A i \in 0..(n - 1) : u[i] \in ScanStates
    BY <2>2 DEF IsScan
  <2>4. x \in ScanStates
    <3>1. n - 1 \in 0..(n - 1)
      BY <2>1
    <3> QED
      BY <1>3, <2>3, <3>1, ScanType
  <2>5. w[n] = x /\ \A i \in 0..(n - 1) : w[i] = u[i]
    <3>1. n \in 0..n /\ \A i \in 0..(n - 1) : i \in 0..n /\ i # n
      BY <1>3, <1>5
    <3> HIDE DEF x
    <3> QED
      BY <3>1
  <2>6. w \in [0..n -> ScanStates]
    <3>1. \A i \in 0..n : i = n \/ i \in 0..(n - 1)
      BY <1>3
    <3> HIDE DEF x
    <3>2. \A i \in 0..n : w[i] \in ScanStates
      BY <2>3, <2>4, <3>1
    <3> QED
      BY <3>2
  <2>7. w[0] = Unscanned
    <3>1. 0 \in 0..(n - 1)
      BY <2>1
    <3> QED
      BY <2>2, <2>5, <3>1 DEF IsScan
  <2>8. ASSUME NEW i \in 1..n PROVE w[i] = Scan(w[i - 1], v, i)
    <3> HIDE DEF w
    <3>1. CASE i = n
      <4>1. w[n - 1] = u[n - 1]
        BY <2>1, <2>5
      <4> QED
        BY <2>5, <3>1, <4>1
    <3>2. CASE i # n
      <4>1. i \in 1..(n - 1) /\ i \in 0..(n - 1) /\ i - 1 \in 0..(n - 1)
        BY <1>3, <3>2
      <4>2. u[i] = Scan(u[i - 1], v, i)
        BY <2>2, <4>1 DEF IsScan
      <4> QED
        BY <2>5, <4>1, <4>2
    <3> QED
      BY <3>1, <3>2
  <2> HIDE DEF w, x
  <2>9. IsScan(w, v, n)
    BY <2>6, <2>7, <2>8 DEF IsScan
  <2> QED
    BY <1>3, <2>9
<1> QED
  BY <1>4, <1>5

(* Where Scanned is content there is no byte that is no character.          *)
Stored == Tokens \ {"cut", "bad"}

(* What the scan accepts holds no byte that is no character.                *)
LEMMA ScannedIs ==
    ASSUME NEW v \in Seq(Tokens), Scanned(v).ok
    PROVE  v \in Seq(Stored)
<1> DEFINE n == Len(v)
           f == CHOOSE f : f = [i \in 0..n |-> IF i = 0 THEN Unscanned ELSE Scan(f[i - 1], v, i)]
<1>1. n \in Nat
  BY LenProperties
<1>2. PICK w : IsScan(w, v, n)
  BY <1>1, ScanExists
<1>3. w = [i \in 0..n |-> IF i = 0 THEN Unscanned ELSE Scan(w[i - 1], v, i)]
  <2>1. w = [i \in 0..n |-> w[i]]
    BY <1>2 DEF IsScan
  <2>2. ASSUME NEW i \in 0..n PROVE w[i] = IF i = 0 THEN Unscanned ELSE Scan(w[i - 1], v, i)
    <3>1. i = 0 \/ i \in 1..n
      BY <1>1
    <3> QED
      BY <1>2, <3>1 DEF IsScan
  <2> QED
    BY <2>1, <2>2, Zenon
<1>4. f = [i \in 0..n |-> IF i = 0 THEN Unscanned ELSE Scan(f[i - 1], v, i)]
  BY <1>3, Zenon
<1>5. Scanned(v) = f[n]
  BY Zenon DEF Scanned, Scan, Unscanned
<1> HIDE DEF f
<1>6. ASSUME NEW k \in 0..n
      PROVE  f[k] \in ScanStates /\ (f[k].ok => \A i \in 1..k : v[i] \notin {"cut", "bad"})
  <2> DEFINE Fine(j) == /\ f[j] \in ScanStates
                        /\ f[j].ok => \A i \in 1..j : v[i] \notin {"cut", "bad"}
             T == {j \in 0..n : ~Fine(j)}
  <2> SUFFICES ASSUME T # {} PROVE FALSE
    OBVIOUS
  <2>1. PICK j \in T : \A l \in T : j <= l
    <3>1. T \subseteq Nat
      OBVIOUS
    <3> HIDE DEF T
    <3> QED
      BY <3>1, LeastOf
  <2>2. j \in 0..n /\ ~Fine(j)
    OBVIOUS
  <2>3. f[j] = IF j = 0 THEN Unscanned ELSE Scan(f[j - 1], v, j)
    BY <1>4, <2>2, Zenon
  <2>4. CASE j = 0
    <3>1. f[j] \in ScanStates
      BY <2>3, <2>4 DEF Unscanned, ScanStates
    <3> QED
      BY <2>2, <2>4, <3>1
  <2>5. CASE j # 0
    <3>1. j \in Nat /\ j - 1 \in 0..n /\ ~(j <= j - 1) /\ \A i \in 1..j : i = j \/ i \in 1..(j - 1)
      BY <1>1, <2>2, <2>5
    <3>2. Fine(j - 1)
      <4>1. j - 1 \notin T
        <5> HIDE DEF T
        <5> QED
          BY <2>1, <3>1
      <4> QED
        BY <3>1, <4>1
    <3>3. Fine(j)
      <4>1. /\ f[j] \in ScanStates
            /\ f[j].ok => f[j - 1].ok /\ v[j] \notin {"cut", "bad"}
        <5>1. f[j] = Scan(f[j - 1], v, j) /\ f[j - 1] \in ScanStates /\ j \in Nat
          BY <2>3, <2>5, <3>1, <3>2
        <5>2. /\ Scan(f[j - 1], v, j) \in ScanStates
              /\ Scan(f[j - 1], v, j).ok => f[j - 1].ok /\ v[j] \notin {"cut", "bad"}
          BY <5>1, ScanType, Zenon
        <5> QED
          BY <5>1, <5>2
      <4> QED
        BY <3>1, <3>2, <4>1
    <3> QED
      BY <2>2, <3>3
  <2> QED
    BY <2>4, <2>5
<1>7. n \in 0..n
  BY <1>1
<1>8. \A i \in 1..n : v[i] \in Tokens /\ v[i] \notin {"cut", "bad"}
  BY <1>5, <1>6, <1>7, ElementOfSeq
<1>9. \A i \in 1..n : v[i] \in Stored
  BY <1>8 DEF Stored
<1> QED
  BY <1>1, <1>9, LenProperties

-----------------------------------------------------------------------------
(* The builder's message. *)

(* Finite maps. *)
Maps(D, R)  == UNION {[T -> R] : T \in {X \in SUBSET D : IsFiniteSet(X)}}
SDNames     == {t \in Seq(Tokens) : IsSDName(t)}
ParamMaps   == Maps(SDNames, Seq(Stored))
ElementMaps == Maps(SDNames, ParamMaps)

(* Finite maps.                                                             *)
LEMMA MapIs ==
    ASSUME NEW D, NEW R
    PROVE  /\ \A f \in Maps(D, R) : /\ f \in [DOMAIN f -> R] /\ DOMAIN f \subseteq D
                                    /\ IsFiniteSet(DOMAIN f)
           /\ \A T : \A f \in [T -> R] : T \subseteq D /\ IsFiniteSet(T) => f \in Maps(D, R)
<1>1. ASSUME NEW f \in Maps(D, R)
      PROVE  f \in [DOMAIN f -> R] /\ DOMAIN f \subseteq D /\ IsFiniteSet(DOMAIN f)
  <2>1. PICK T \in SUBSET D : IsFiniteSet(T) /\ f \in [T -> R]
    BY DEF Maps
  <2>2. DOMAIN f = T
    BY <2>1
  <2> QED
    BY <2>1, <2>2
<1>2. ASSUME NEW T, NEW f \in [T -> R], T \subseteq D, IsFiniteSet(T)
      PROVE  f \in Maps(D, R)
  BY <1>2 DEF Maps
<1> QED
  BY <1>1, <1>2

(* One entry more.                                                          *)
LEMMA PutMap ==
    ASSUME NEW D, NEW R, NEW f \in Maps(D, R), NEW k \in D, NEW v \in R
    PROVE  Put(f, k, v) \in Maps(D, R) /\ DOMAIN Put(f, k, v) = DOMAIN f \cup {k}
<1> DEFINE T == DOMAIN f \cup {k}
<1>1. f \in [DOMAIN f -> R] /\ DOMAIN f \subseteq D /\ IsFiniteSet(DOMAIN f)
  BY MapIs
<1>2. T \subseteq D /\ IsFiniteSet(T)
  BY <1>1, FS_AddElement
<1>3. Put(f, k, v) \in [T -> R]
  BY <1>1 DEF Put
<1> QED
  BY <1>2, <1>3, MapIs

(* The empty map.                                                           *)
LEMMA EmptyIs ==
    /\ DOMAIN EmptyMap = {}
    /\ \A f, T : T = {} => [x \in T |-> f[x]] = EmptyMap
    /\ \A D, R : EmptyMap \in Maps(D, R)
<1>1. DOMAIN EmptyMap = {}
  BY DEF EmptyMap
<1>2. \A f, T : T = {} => [x \in T |-> f[x]] = EmptyMap
  BY DEF EmptyMap
<1>3. ASSUME NEW D, NEW R PROVE EmptyMap \in Maps(D, R)
  <2>1. EmptyMap \in [{} -> R]
    BY DEF EmptyMap
  <2> QED
    BY <2>1, MapIs, FS_EmptySet
<1> QED
  BY <1>1, <1>2, <1>3

MessageFields == {"priority", "version", "timestamp", "name", "structuredData", "message"}
Priorities == {Absent} \cup 0..191
Versions   == 0..999
Timestamps == {"", "ts"}
FieldTexts == [NameFields -> Seq(Tokens)]
MessageTexts == Seq(Tokens)
IsMessage(x) ==
    /\ x = [f \in MessageFields |-> x[f]]
    /\ x.priority \in Priorities /\ x.version \in Versions /\ x.timestamp \in Timestamps
    /\ x.name \in FieldTexts /\ x.structuredData \in ElementMaps /\ x.message \in MessageTexts
NamesFit == \A f \in NameFields : sm.name[f] = <<>> \/ (IsName(sm.name[f], f) /\ sm.name[f] # <<"-">>)
BuilderInv == IsMessage(sm) /\ NamesFit

(* A setter leaves a message one when its value is one for the field. *)
LEMMA FieldSet ==
    ASSUME NEW x, IsMessage(x), NEW f \in MessageFields, NEW v,
           f = "priority" => v \in Priorities, f = "version" => v \in Versions,
           f = "timestamp" => v \in Timestamps, f = "name" => v \in FieldTexts,
           f = "structuredData" => v \in ElementMaps, f = "message" => v \in MessageTexts
    PROVE  IsMessage([x EXCEPT ![f] = v])
<1> DEFINE y == [x EXCEPT ![f] = v]
<1>1. x = [h \in MessageFields |-> x[h]]
  BY DEF IsMessage
<1>2. /\ y = [h \in MessageFields |-> y[h]]
      /\ \A h \in MessageFields : y[h] = IF h = f THEN v ELSE x[h]
  BY <1>1
<1> HIDE DEF y
<1>3. \A h : h \in MessageFields => y[h] = IF h = f THEN v ELSE x[h]
  BY <1>2
<1>4. /\ y.priority = IF f = "priority" THEN v ELSE x.priority
      /\ y.version = IF f = "version" THEN v ELSE x.version
      /\ y.timestamp = IF f = "timestamp" THEN v ELSE x.timestamp
      /\ y.name = IF f = "name" THEN v ELSE x.name
      /\ y.structuredData = IF f = "structuredData" THEN v ELSE x.structuredData
      /\ y.message = IF f = "message" THEN v ELSE x.message
  BY <1>3 DEF MessageFields
<1>5. IsMessage(y)
  BY <1>2, <1>4 DEF IsMessage
<1> QED
  BY <1>5 DEF y

(* The builder begins with a message,                                       *)
LEMMA BuilderBegins == BuilderInit => BuilderInv
<1> SUFFICES ASSUME BuilderInit PROVE BuilderInv
  OBVIOUS
<1>1. /\ NoOutput.priority = Absent /\ NoOutput.version = 0 /\ NoOutput.timestamp = ""
      /\ NoOutput.message = <<>> /\ NoOutput.hasElements = FALSE
      /\ \A f \in NameFields : NoOutput.name[f] = <<>>
  BY DEF NoOutput
<1> DEFINE N == [f \in NameFields |-> IF NoOutput.name[f] = <<"-">> THEN <<>> ELSE NoOutput.name[f]]
<1>2. sm = [priority |-> Absent, version |-> 0, timestamp |-> "", name |-> N,
            structuredData |-> EmptyMap, message |-> <<>>]
  BY <1>1 DEF BuilderInit, Nothing, export
<1>3. \A f \in NameFields : N[f] = <<>>
  BY <1>1
<1>4. N \in [NameFields -> Seq(Tokens)]
  <2>1. <<>> \in Seq(Tokens)
    BY EmptySeq
  <2>2. \A f \in NameFields : N[f] \in Seq(Tokens)
    BY <1>3, <2>1
  <2> QED
    BY <2>2
<1>5. EmptyMap \in ElementMaps
  BY EmptyIs DEF ElementMaps
<1> HIDE DEF N
<1>6. IsMessage(sm)
  <2>1. <<>> \in Seq(Tokens)
    BY EmptySeq
  <2>2. sm = [f \in MessageFields |-> sm[f]]
    BY <1>2 DEF MessageFields
  <2>3. /\ sm.priority = Absent /\ sm.version = 0 /\ sm.timestamp = "" /\ sm.name = N
        /\ sm.structuredData = EmptyMap /\ sm.message = <<>>
    BY <1>2
  <2>4. /\ Absent \in Priorities /\ 0 \in Versions /\ "" \in Timestamps
        /\ N \in FieldTexts /\ <<>> \in MessageTexts
    BY <1>4, <2>1 DEF Priorities, Versions, Timestamps, FieldTexts, MessageTexts
  <2> QED
    BY <1>5, <2>2, <2>3, <2>4 DEF IsMessage
<1>7. sm.name = N
  BY <1>2
<1> QED
  BY <1>3, <1>6, <1>7 DEF BuilderInv, NamesFit

(* an element more leaves its structured data such a map,                   *)
LEMMA ElementKept ==
    ASSUME NEW d \in ElementMaps, NEW id \in Seq(Tokens)
    PROVE  WithElement(d, id) \in ElementMaps
<1>1. EmptyMap \in ParamMaps
  BY EmptyIs DEF ParamMaps
<1>2. ASSUME IsSDName(id) PROVE Put(d, id, EmptyMap) \in ElementMaps
  <2>1. id \in SDNames
    BY <1>2 DEF SDNames
  <2> QED
    BY <1>1, <2>1, PutMap DEF ElementMaps
<1> QED
  BY <1>2 DEF WithElement

(* and so does a parameter,                                                 *)
LEMMA ParameterKept ==
    ASSUME NEW d \in ElementMaps, NEW id \in Seq(Tokens), NEW n \in Seq(Tokens),
           NEW v \in Seq(Tokens)
    PROVE  WithParameter(d, id, n, v) \in ElementMaps
<1> DEFINE x == IF IsValue(v) THEN RemoveBytes(v, Scanned(v).at) ELSE <<>>
<1>1. x \in Seq(Stored)
  <2>1. CASE IsValue(v)
    <3>1. v \in Seq(Stored)
      BY <2>1, ScannedIs DEF IsValue
    <3> QED
      BY <2>1, <3>1, RemoveAppend
  <2>2. CASE ~IsValue(v)
    BY <2>2
  <2> QED
    BY <2>1, <2>2
<1> HIDE DEF x
<1>2. ASSUME id \in DOMAIN d, IsSDName(n)
      PROVE  [d EXCEPT ![id] = Put(@, n, x)] \in ElementMaps
  <2>1. n \in SDNames
    BY <1>2 DEF SDNames
  <2>2. d \in [DOMAIN d -> ParamMaps] /\ DOMAIN d \subseteq SDNames /\ IsFiniteSet(DOMAIN d)
    BY MapIs DEF ElementMaps
  <2>3. d[id] \in ParamMaps
    BY <1>2, <2>2
  <2>4. Put(d[id], n, x) \in ParamMaps
    BY <1>1, <2>1, <2>3, PutMap DEF ParamMaps
  <2>5. [d EXCEPT ![id] = Put(@, n, x)] \in [DOMAIN d -> ParamMaps]
    BY <2>2, <2>4
  <2> QED
    BY <2>2, <2>5, MapIs DEF ElementMaps
<1> QED
  BY <1>2 DEF WithParameter, x

(* What the setters are handed are tokens. *)
LEMMA TextIs == \A x \in Texts \cup Values : x \in Seq(Tokens)
  BY BuilderAssumption

(* so that every setter leaves a message.                                   *)
LEMMA BuilderKept == BuilderInv /\ BuilderNext => BuilderInv'
<1> SUFFICES ASSUME BuilderInv, BuilderNext PROVE BuilderInv'
  OBVIOUS
<1>t. IsMessage(sm) /\ NamesFit
  BY DEF BuilderInv
<1>f. /\ sm.name \in [NameFields -> Seq(Tokens)] /\ sm.structuredData \in ElementMaps
  BY <1>t DEF IsMessage, FieldTexts
<1>x. (\A t \in Texts : t \in Seq(Tokens)) /\ \A t \in Values : t \in Seq(Tokens)
  BY TextIs
<1>u. ASSUME sm' = sm PROVE BuilderInv'
  BY <1>t, <1>u DEF BuilderInv, NamesFit
<1>v. ASSUME IsMessage(sm'), sm'.name = sm.name PROVE BuilderInv'
  BY <1>t, <1>v DEF BuilderInv, NamesFit
<1>d. sm = [h \in MessageFields |-> sm[h]]
  BY <1>t DEF IsMessage
<1>1. ASSUME NEW v \in Numbers, SetPriority(v) PROVE BuilderInv'
  <2>1. sm' = sm \/ (v \in 0..191 /\ sm' = [sm EXCEPT !.priority = v])
    BY <1>1 DEF SetPriority, Set, ValidPriority
  <2>2. ASSUME v \in 0..191, sm' = [sm EXCEPT !.priority = v] PROVE BuilderInv'
    <3>1. v \in Priorities
      BY <2>2 DEF Priorities
    <3>2. IsMessage(sm')
      BY <1>t, <2>2, <3>1, FieldSet DEF MessageFields
    <3>3. sm'.name = sm.name
      BY <1>d, <2>2 DEF MessageFields
    <3> QED
      BY <1>v, <3>2, <3>3
  <2> QED
    BY <1>u, <2>1, <2>2
<1>2. ASSUME NEW v \in Numbers, SetVersion(v) PROVE BuilderInv'
  <2>1. sm' = sm \/ (v \in 1..999 /\ sm' = [sm EXCEPT !.version = v])
    BY <1>2 DEF SetVersion, Set, ValidVersion
  <2>2. ASSUME v \in 1..999, sm' = [sm EXCEPT !.version = v] PROVE BuilderInv'
    <3>1. v \in Versions
      BY <2>2 DEF Versions
    <3>2. IsMessage(sm')
      BY <1>t, <2>2, <3>1, FieldSet DEF MessageFields
    <3>3. sm'.name = sm.name
      BY <1>d, <2>2 DEF MessageFields
    <3> QED
      BY <1>v, <3>2, <3>3
  <2> QED
    BY <1>u, <2>1, <2>2
<1>3. ASSUME NEW t \in Texts, SetTimestamp(t) PROVE BuilderInv'
  <2>1. sm' = sm \/ sm' = [sm EXCEPT !.timestamp = "ts"]
    BY <1>3 DEF SetTimestamp, Set
  <2>2. ASSUME sm' = [sm EXCEPT !.timestamp = "ts"] PROVE BuilderInv'
    <3>1. "ts" \in Timestamps
      BY DEF Timestamps
    <3>2. IsMessage(sm')
      BY <1>t, <2>2, <3>1, FieldSet DEF MessageFields
    <3>3. sm'.name = sm.name
      BY <1>d, <2>2 DEF MessageFields
    <3> QED
      BY <1>v, <3>2, <3>3
  <2> QED
    BY <1>u, <2>1, <2>2
<1>4. ASSUME NEW t \in Texts, NEW f \in NameFields, SetName(f, t) PROVE BuilderInv'
  <2>1. sm' = sm \/ (IsName(t, f) /\ t # <<"-">> /\ sm' = [sm EXCEPT !.name[f] = t])
    BY <1>4 DEF SetName, Set
  <2>2. CASE sm' = sm
    BY <1>t, <2>2 DEF BuilderInv, NamesFit
  <2>3. CASE IsName(t, f) /\ t # <<"-">> /\ sm' = [sm EXCEPT !.name[f] = t]
    <3>1. t \in Seq(Tokens)
      BY <1>x
    <3>2. sm'.name = [sm.name EXCEPT ![f] = t] /\ sm'.name \in [NameFields -> Seq(Tokens)]
      BY <1>t, <1>f, <2>3, <3>1 DEF IsMessage
    <3>3. IsMessage(sm')
      <4>1. sm' = [sm EXCEPT !.name = [sm.name EXCEPT ![f] = t]]
        BY <2>3
      <4>2. [sm.name EXCEPT ![f] = t] \in [NameFields -> Seq(Tokens)]
        BY <1>f, <3>1
      <4> QED
        BY <1>t, <4>1, <4>2, FieldSet DEF MessageFields, FieldTexts
    <3>4. ASSUME NEW h \in NameFields PROVE h = f \/ sm'.name[h] = sm.name[h]
      BY <1>f, <3>2
    <3>5. sm'.name[f] = t
      BY <1>f, <3>2
    <3> QED
      BY <1>t, <2>3, <3>3, <3>4, <3>5 DEF BuilderInv, NamesFit
  <2> QED
    BY <2>1, <2>2, <2>3
<1>5. ASSUME NEW d \in ElementMaps, sm' = [sm EXCEPT !.structuredData = d] PROVE BuilderInv'
  <2>1. IsMessage(sm')
    BY <1>t, <1>5, FieldSet DEF MessageFields
  <2>2. sm'.name = sm.name
    BY <1>d, <1>5 DEF MessageFields
  <2> QED
    BY <1>v, <2>1, <2>2
<1>6. ASSUME NEW t \in Texts, SetElementID(t) PROVE BuilderInv'
  <2>1. sm' = [sm EXCEPT !.structuredData = WithElement(sm.structuredData, t)]
    BY <1>6 DEF SetElementID, Set
  <2>2. WithElement(sm.structuredData, t) \in ElementMaps
    BY <1>f, <1>x, ElementKept
  <2> QED
    BY <1>5, <2>1, <2>2
<1>7. ASSUME NEW id \in Texts, NEW n \in Texts, NEW v \in Values, SetParameter(id, n, v)
      PROVE  BuilderInv'
  <2> DEFINE d == WithParameter(WithElement(sm.structuredData, id), id, n, v)
  <2>1. sm' = [sm EXCEPT !.structuredData = d]
    BY <1>7 DEF SetParameter, Set
  <2>2. d \in ElementMaps
    BY <1>f, <1>x, ElementKept, ParameterKept
  <2> HIDE DEF d
  <2> QED
    BY <1>5, <2>1, <2>2
<1>8. ASSUME NEW t \in Values, SetMessage(t) PROVE BuilderInv'
  <2>1. sm' = sm \/ sm' = [sm EXCEPT !.message = t]
    BY <1>8 DEF SetMessage, Set
  <2>2. ASSUME sm' = [sm EXCEPT !.message = t] PROVE BuilderInv'
    <3>1. t \in MessageTexts
      BY <1>x DEF MessageTexts
    <3>2. IsMessage(sm')
      BY <1>t, <2>2, <3>1, FieldSet DEF MessageFields
    <3>3. sm'.name = sm.name
      BY <1>d, <2>2 DEF MessageFields
    <3> QED
      BY <1>v, <3>2, <3>3
  <2> QED
    BY <1>u, <2>1, <2>2
<1> QED
  BY <1>1, <1>2, <1>3, <1>4, <1>6, <1>7, <1>8 DEF BuilderNext

(* Concatenations of tokens.                                                *)
LEMMA Joined ==
    ASSUME NEW a \in Seq(Tokens), NEW b \in Seq(Tokens)
    PROVE  a \o b \in Seq(Tokens)
  BY ConcatProperties

(* They associate.                                                          *)
LEMMA Assoc ==
    ASSUME NEW a \in Seq(Tokens), NEW b \in Seq(Tokens), NEW c \in Seq(Tokens)
    PROVE  (a \o b) \o c = a \o (b \o c)
  BY ConcatAssociative

(* The elements of the builder's message and their parameters, in order.    *)
LEMMA ElementsAre ==
    ASSUME BuilderInv
    PROVE  /\ Ids \in Seq(SDNames) /\ DOMAIN Ids = 1..Len(Ids) /\ Len(Ids) \in Nat
           /\ \A i, j \in 1..Len(Ids) : Ids[i] = Ids[j] => i = j
           /\ {Ids[i] : i \in 1..Len(Ids)} = DOMAIN sm.structuredData
           /\ DOMAIN sm.structuredData # {} <=> Len(Ids) # 0
           /\ \A i \in 1..Len(Ids) : Ids[i] \in SDNames /\ Params(i) \in ParamMaps
           /\ sm.structuredData \in [DOMAIN sm.structuredData -> ParamMaps]
<1> DEFINE D == sm.structuredData
<1>1. D \in ElementMaps
  BY DEF BuilderInv, IsMessage
<1>2. D \in [DOMAIN D -> ParamMaps] /\ DOMAIN D \subseteq SDNames /\ IsFiniteSet(DOMAIN D)
  BY <1>1, MapIs DEF ElementMaps
<1>3. /\ Ids \in Seq(DOMAIN D) /\ DOMAIN Ids = 1..Len(Ids) /\ Len(Ids) \in Nat
      /\ \A i, j \in 1..Len(Ids) : Ids[i] = Ids[j] => i = j
      /\ {Ids[i] : i \in 1..Len(Ids)} = DOMAIN D
      /\ DOMAIN D # {} <=> Len(Ids) # 0
  BY <1>2, ListIs DEF Ids
<1>4. \A i \in 1..Len(Ids) : Ids[i] \in DOMAIN D
  BY <1>3
<1>5. Ids \in Seq(SDNames)
  BY <1>2, <1>3
<1>6. \A i \in 1..Len(Ids) : Ids[i] \in SDNames /\ D[Ids[i]] \in ParamMaps
  BY <1>2, <1>4
<1> QED
  BY <1>2, <1>3, <1>5, <1>6 DEF Params

(* The parameters of an element.                                            *)
LEMMA ParamsAre ==
    ASSUME BuilderInv, NEW i \in 1..Len(Ids)
    PROVE  LET N == ParamNames(i)
           IN  /\ N \in Seq(SDNames) /\ DOMAIN N = 1..Len(N) /\ Len(N) \in Nat
               /\ \A j, k \in 1..Len(N) : N[j] = N[k] => j = k
               /\ {N[j] : j \in 1..Len(N)} = DOMAIN Params(i)
               /\ \A j \in 1..Len(N) : N[j] \in SDNames /\ Value(i, j) \in Seq(Stored)
               /\ Params(i) \in [DOMAIN Params(i) -> Seq(Stored)]
<1> DEFINE N == ParamNames(i)
           P == Params(i)
<1>1. P \in ParamMaps
  BY ElementsAre
<1> HIDE DEF P
<1>2. P \in [DOMAIN P -> Seq(Stored)] /\ DOMAIN P \subseteq SDNames /\ IsFiniteSet(DOMAIN P)
  BY <1>1, MapIs DEF ParamMaps
<1>d. N = SetToSeq(DOMAIN P)
  BY DEF ParamNames, P
<1> HIDE DEF N
<1>3. /\ N \in Seq(DOMAIN P) /\ DOMAIN N = 1..Len(N) /\ Len(N) \in Nat
      /\ \A j, k \in 1..Len(N) : N[j] = N[k] => j = k
      /\ {N[j] : j \in 1..Len(N)} = DOMAIN P
  <2> DEFINE S == DOMAIN P
  <2>1. IsFiniteSet(S) /\ N = SetToSeq(S)
    BY <1>2, <1>d
  <2> HIDE DEF S
  <2>2. /\ N \in Seq(S) /\ DOMAIN N = 1..Len(N) /\ Len(N) \in Nat
        /\ \A j, k \in 1..Len(N) : N[j] = N[k] => j = k
        /\ {N[j] : j \in 1..Len(N)} = S
    BY <2>1, ListIs
  <2> QED
    BY <2>2 DEF S
<1>4. \A j \in 1..Len(N) : N[j] \in DOMAIN P
  BY <1>3
<1>5. N \in Seq(SDNames)
  BY <1>2, <1>3
<1>6. \A j \in 1..Len(N) : N[j] \in SDNames /\ P[N[j]] \in Seq(Stored)
  BY <1>2, <1>4
<1> QED
  BY <1>2, <1>3, <1>5, <1>6 DEF Value, N, P

(* The names in structured data.                                            *)
LEMMA SDNameIs ==
    ASSUME NEW t \in SDNames
    PROVE  /\ t \in Seq(Tokens) /\ Len(t) \in 1..NameRange["sdname"]
           /\ \A k \in 1..Len(t) : t[k] \in NameTokens
  BY DEF SDNames, IsSDName, IsName

(* A stored value is made of tokens.                                        *)
LEMMA StoredIs ==
    ASSUME NEW v \in Seq(Stored)
    PROVE  v \in Seq(Tokens)
  BY DEF Stored

(* Texts of one token,                                                      *)
LEMMA OneToken ==
    ASSUME NEW c \in Tokens
    PROVE  <<c>> \in Seq(Tokens)
  OBVIOUS

(* the grammar's own among them.                                            *)
LEMMA Signs ==
    /\ <<" ">> \in Seq(Tokens) /\ <<"\"">> \in Seq(Tokens) /\ <<"=", "\"">> \in Seq(Tokens)
    /\ <<"[">> \in Seq(Tokens) /\ <<"]">> \in Seq(Tokens) /\ <<"-">> \in Seq(Tokens)
    /\ <<"<">> \in Seq(Tokens) /\ <<">">> \in Seq(Tokens) /\ <<"ts">> \in Seq(Tokens)
    /\ <<>> \in Seq(Tokens)
<1>1. /\ " " \in Tokens /\ "\"" \in Tokens /\ "=" \in Tokens /\ "[" \in Tokens /\ "]" \in Tokens
      /\ "-" \in Tokens /\ "<" \in Tokens /\ ">" \in Tokens /\ "ts" \in Tokens
  BY DEF Tokens, NotGraph, Delims, Stamps
<1>2. <<"=", "\"">> \in Seq(Tokens)
  <2>1. ASSUME NEW c \in Tokens, NEW d \in Tokens PROVE <<c, d>> \in Seq(Tokens)
    OBVIOUS
  <2> QED
    BY <1>1, <2>1
<1>3. <<>> \in Seq(Tokens)
  BY EmptySeq
<1> QED
  BY <1>1, <1>2, <1>3, OneToken

(* A parameter and an element, piece by piece. *)
LEMMA ParamStringIs ==
    ASSUME BuilderInv, NEW i \in 1..Len(Ids), NEW j \in 1..Len(ParamNames(i)),
           NEW r \in Seq(Tokens)
    PROVE  LET n == ParamNames(i)[j]
               e == EscapeBytes(Value(i, j))
           IN  /\ e \in Seq(Tokens) /\ ParamString(Params(i), n) \in Seq(Tokens)
               /\ ParamString(Params(i), n) \o r
                    = <<" ">> \o (n \o (<<"=", "\"">> \o (e \o (<<"\"">> \o r))))
<1> DEFINE n == ParamNames(i)[j]
           e == EscapeBytes(Value(i, j))
           s == <<" ">>
           q == <<"=", "\"">>
           d == <<"\"">>
<1>1. n \in Seq(Tokens)
  BY ParamsAre, SDNameIs
<1>2. e \in Seq(Tokens)
  BY ParamsAre, StoredIs, EscapeCons
<1>3. ParamString(Params(i), n) = (((s \o n) \o q) \o e) \o d
  BY Zenon DEF ParamString, Value
<1>4. s \in Seq(Tokens) /\ q \in Seq(Tokens) /\ d \in Seq(Tokens)
  BY Signs
<1> HIDE DEF n, e, s, q, d
<1> DEFINE x1 == s \o n
           x2 == x1 \o q
           x3 == x2 \o e
           y1 == d \o r
           y2 == e \o y1
           y3 == q \o y2
<1>5. x1 \in Seq(Tokens) /\ y1 \in Seq(Tokens)
  BY <1>1, <1>4, Joined
<1>6. x2 \in Seq(Tokens) /\ y2 \in Seq(Tokens)
  <2> HIDE DEF x1, y1
  <2> QED
    BY <1>2, <1>4, <1>5, Joined
<1>7. x3 \in Seq(Tokens) /\ y3 \in Seq(Tokens)
  <2> HIDE DEF x2, y2
  <2> QED
    BY <1>2, <1>4, <1>6, Joined
<1>8. (x3 \o d) \o r = x3 \o y1 /\ x3 \o d \in Seq(Tokens)
  <2> HIDE DEF x3
  <2>0. x3 \in Seq(Tokens) /\ d \in Seq(Tokens) /\ r \in Seq(Tokens)
    BY <1>4, <1>7
  <2>1. (x3 \o d) \o r = x3 \o (d \o r)
    BY <2>0, Assoc, SMTT(30)
  <2>2. x3 \o d \in Seq(Tokens)
    BY <1>4, <1>7, Joined
  <2> QED
    BY <2>1, <2>2, Zenon
<1>9. x3 \o y1 = x2 \o y2
  <2> HIDE DEF x2, y1
  <2>0. x2 \in Seq(Tokens) /\ e \in Seq(Tokens) /\ y1 \in Seq(Tokens)
    BY <1>2, <1>5, <1>6
  <2>1. (x2 \o e) \o y1 = x2 \o (e \o y1)
    BY <2>0, Assoc, SMTT(30)
  <2> QED
    BY <2>1, Zenon
<1>10. x2 \o y2 = x1 \o y3
  <2> HIDE DEF x1, y2
  <2>1. x1 \in Seq(Tokens) /\ q \in Seq(Tokens) /\ y2 \in Seq(Tokens)
    BY <1>4, <1>5, <1>6
  <2>2. (x1 \o q) \o y2 = x1 \o (q \o y2)
    BY <2>1, Assoc, SMTT(30)
  <2> QED
    BY <2>2, Zenon
<1>11. x1 \o y3 = s \o (n \o y3)
  <2> HIDE DEF y3
  <2>0. s \in Seq(Tokens) /\ n \in Seq(Tokens) /\ y3 \in Seq(Tokens)
    BY <1>1, <1>4, <1>7
  <2>1. (s \o n) \o y3 = s \o (n \o y3)
    BY <2>0, Assoc, SMTT(30)
  <2> QED
    BY <2>1, Zenon
<1> QED
  BY <1>2, <1>3, <1>8, <1>9, <1>10, <1>11, Zenon DEF n, e, s, q, d

(* The parameters of an element as a list of texts.                         *)
LEMMA ParamStringsAre ==
    ASSUME BuilderInv, NEW i \in 1..Len(Ids)
    PROVE  /\ ParamStrings(i) \in Seq(Seq(Tokens)) /\ Len(ParamStrings(i)) = Len(ParamNames(i))
           /\ \A j \in 1..Len(ParamNames(i)) :
                 ParamStrings(i)[j] = ParamString(Params(i), ParamNames(i)[j])
           /\ FlattenSeq(ParamStrings(i)) \in Seq(Tokens)
<1> DEFINE n == Len(ParamNames(i))
           S(j) == ParamString(Params(i), ParamNames(i)[j])
<1>1. n \in Nat /\ DOMAIN ParamNames(i) = 1..n
  BY ParamsAre
<1>2. ASSUME NEW j \in 1..n PROVE S(j) \in Seq(Tokens)
  <2>1. <<>> \in Seq(Tokens)
    BY Signs
  <2> QED
    BY <2>1, ParamStringIs
<1>3. ParamStrings(i) = [j \in 1..n |-> S(j)]
  BY <1>1 DEF ParamStrings
<1> HIDE DEF S, n
<1>4. ParamStrings(i) \in Seq(Seq(Tokens)) /\ Len(ParamStrings(i)) = n
      /\ \A j \in 1..n : ParamStrings(i)[j] = S(j)
  BY <1>1, <1>2, <1>3
<1>5. FlattenSeq(ParamStrings(i)) \in Seq(Tokens)
  BY <1>4, FlattenAppend
<1> QED
  BY <1>4, <1>5 DEF n, S

(* An element, piece by piece. *)
LEMMA ElementStringIs ==
    ASSUME BuilderInv, NEW i \in 1..Len(Ids), NEW r \in Seq(Tokens)
    PROVE  LET p == FlattenSeq(ParamStrings(i))
               e == ElementString(sm.structuredData, Ids[i])
           IN  /\ e \in Seq(Tokens) /\ e # <<>>
               /\ e \o r = <<"[">> \o (Ids[i] \o (p \o (<<"]">> \o r)))
<1> DEFINE p == FlattenSeq(ParamStrings(i))
           e == ElementString(sm.structuredData, Ids[i])
           s == <<"[">>
           n == Ids[i]
           d == <<"]">>
           x1 == s \o n
           x2 == x1 \o p
           y1 == d \o r
           y2 == p \o y1
<1>1. p \in Seq(Tokens)
  BY ParamStringsAre
<1>2. n \in Seq(Tokens)
  BY ElementsAre, SDNameIs
<1>3. e = ((s \o n) \o p) \o d
  BY Zenon DEF ElementString, ParamStrings, ParamNames, Params
<1>4. s \in Seq(Tokens) /\ d \in Seq(Tokens)
  BY Signs
<1>l. s # <<>> /\ s \in Seq(Tokens) /\ Len(s) = 1
  BY Signs
<1> HIDE DEF p, e, s, n, d
<1>5. x1 \in Seq(Tokens) /\ y1 \in Seq(Tokens)
  BY <1>2, <1>4, Joined
<1>6. x2 \in Seq(Tokens) /\ y2 \in Seq(Tokens)
  <2> HIDE DEF x1, y1
  <2> QED
    BY <1>1, <1>5, Joined
<1>7. (x2 \o d) \o r = x2 \o y1 /\ x2 \o d \in Seq(Tokens)
  <2> HIDE DEF x2
  <2>1. x2 \in Seq(Tokens) /\ d \in Seq(Tokens)
    BY <1>4, <1>6
  <2>2. (x2 \o d) \o r = x2 \o (d \o r)
    BY <2>1, Assoc, SMTT(30)
  <2>3. x2 \o d \in Seq(Tokens)
    BY <2>1, Joined
  <2> QED
    BY <2>2, <2>3, Zenon
<1>8. x2 \o y1 = x1 \o y2
  <2> HIDE DEF x1, y1
  <2>1. x1 \in Seq(Tokens) /\ y1 \in Seq(Tokens) /\ p \in Seq(Tokens)
    BY <1>1, <1>5
  <2>2. (x1 \o p) \o y1 = x1 \o (p \o y1)
    BY <2>1, Assoc, SMTT(30)
  <2> QED
    BY <2>2, Zenon
<1>9. x1 \o y2 = s \o (n \o y2)
  <2> HIDE DEF y2
  <2>1. s \in Seq(Tokens) /\ n \in Seq(Tokens) /\ y2 \in Seq(Tokens)
    BY <1>2, <1>4, <1>6
  <2>2. (s \o n) \o y2 = s \o (n \o y2)
    BY <2>1, Assoc, SMTT(30)
  <2> QED
    BY <2>2, Zenon
<1>10. e \in Seq(Tokens)
  BY <1>3, <1>7, Zenon
<1>11. e # <<>>
  <2> DEFINE v == n \o (p \o d)
  <2>1. e = s \o v /\ v \in Seq(Tokens)
    <3>1. p \o d \in Seq(Tokens)
      BY <1>1, <1>4, Joined
    <3> DEFINE g == p \o d
    <3> HIDE DEF g
    <3>2. g \in Seq(Tokens)
      BY <3>1 DEF g
    <3>3. n \o g \in Seq(Tokens)
      BY <1>2, <3>2, Joined
    <3>4. (s \o n) \o g = s \o (n \o g)
      BY <1>2, <1>4, <3>2, Assoc, SMTT(30)
    <3>5. ((s \o n) \o p) \o d = (s \o n) \o (p \o d)
      <4> HIDE DEF x1
      <4>1. x1 \in Seq(Tokens) /\ p \in Seq(Tokens) /\ d \in Seq(Tokens)
        BY <1>1, <1>4, <1>5
      <4>2. (x1 \o p) \o d = x1 \o (p \o d)
        BY <4>1, Assoc, SMTT(30)
      <4> QED
        BY <4>2, Zenon DEF x1
    <3> QED
      BY <1>3, <3>3, <3>4, <3>5, Zenon DEF g
  <2> HIDE DEF v
  <2>2. Len(s \o v) = Len(s) + Len(v) /\ Len(v) \in Nat
    BY <1>l, <2>1, ConcatProperties, LenProperties
  <2> QED
    BY <1>l, <2>1, <2>2
<1> QED
  BY <1>3, <1>7, <1>8, <1>9, <1>10, <1>11, Zenon DEF p, e, s, n, d

(* The elements of the string, one by one.                                  *)
LEMMA ElementStringsAre ==
    ASSUME BuilderInv
    PROVE  /\ Elements \in Seq(Seq(Tokens)) /\ Len(Elements) = Len(Ids)
           /\ \A i \in 1..Len(Ids) : Elements[i] = ElementString(sm.structuredData, Ids[i])
<1> DEFINE n == Len(Ids)
           E(i) == ElementString(sm.structuredData, Ids[i])
<1>1. n \in Nat /\ DOMAIN Ids = 1..n
  BY ElementsAre
<1>2. ASSUME NEW i \in 1..n PROVE E(i) \in Seq(Tokens)
  <2>1. <<>> \in Seq(Tokens)
    BY Signs
  <2> QED
    BY <2>1, ElementStringIs
<1>3. Elements = [i \in 1..n |-> E(i)]
  BY <1>1 DEF Elements
<1> HIDE DEF E, n
<1> QED
  BY <1>1, <1>2, <1>3 DEF n, E

(* The string from the message on.                                          *)
LEMMA FromMessageIs ==
    ASSUME BuilderInv
    PROVE  /\ FromMessage \in Seq(Tokens) /\ sm.message \in Seq(Tokens)
           /\ sm.message = <<>> => FromMessage = <<>>
           /\ sm.message # <<>> => FromMessage = <<" ">> \o sm.message
<1>1. sm.message \in Seq(Tokens)
  BY DEF BuilderInv, IsMessage, MessageTexts
<1>2. <<" ">> \in Seq(Tokens) /\ <<>> \in Seq(Tokens)
  BY Signs
<1>3. <<" ">> \o sm.message \in Seq(Tokens)
  BY <1>1, <1>2, Joined
<1> QED
  BY <1>1, <1>2, <1>3 DEF FromMessage

(* From an element on. *)
LEMMA FromElementIs ==
    ASSUME BuilderInv
    PROVE  /\ \A i \in 1..(Len(Ids) + 1) : FromElement(i) \in Seq(Tokens)
           /\ FromElement(Len(Ids) + 1) = FromMessage
           /\ \A i \in 1..Len(Ids) :
                 FromElement(i) = <<"[">> \o (Ids[i] \o (FlattenSeq(ParamStrings(i))
                                              \o (<<"]">> \o FromElement(i + 1))))
<1> DEFINE L == Len(Elements)
           F(i) == FlattenSeq(SubSeq(Elements, i, L))
<1>1. Elements \in Seq(Seq(Tokens)) /\ L = Len(Ids) /\ L \in Nat
  BY ElementStringsAre, ElementsAre
<1>2. FromMessage \in Seq(Tokens)
  BY FromMessageIs
<1>3. \A i : FromElement(i) = F(i) \o FromMessage
  BY Zenon DEF FromElement
<1>4. ASSUME NEW i \in 1..(L + 1)
      PROVE  /\ F(i) \in Seq(Tokens) /\ (i = L + 1 => F(i) = <<>>)
             /\ i # L + 1 => F(i) = Elements[i] \o F(i + 1)
  <2>1. i \in Nat \ {0} /\ (i = L + 1 => i > L) /\ (i # L + 1 => i <= L)
    BY <1>1
  <2> QED
    BY <1>1, <2>1, FlattenFrom
<1> HIDE DEF F
<1>5. ASSUME NEW i \in 1..(L + 1) PROVE FromElement(i) \in Seq(Tokens)
  BY <1>2, <1>3, <1>4, Joined
<1>6. FromElement(L + 1) = FromMessage
  <2>1. L + 1 \in 1..(L + 1)
    BY <1>1
  <2>2. F(L + 1) = <<>>
    BY <1>4, <2>1
  <2>3. <<>> \o FromMessage = FromMessage
    BY <1>2, ConcatEmptySeq
  <2> QED
    BY <1>3, <2>2, <2>3, Zenon
<1>7. ASSUME NEW i \in 1..L
      PROVE  FromElement(i) = <<"[">> \o (Ids[i] \o (FlattenSeq(ParamStrings(i))
                                          \o (<<"]">> \o FromElement(i + 1))))
  <2> DEFINE e == Elements[i]
             f == F(i + 1)
             r == FromElement(i + 1)
             g == FromMessage
  <2>1. i \in 1..(L + 1) /\ i # L + 1 /\ i + 1 \in 1..(L + 1) /\ i \in 1..Len(Ids)
    BY <1>1
  <2>2. F(i) = e \o f /\ f \in Seq(Tokens) /\ e \in Seq(Tokens)
    <3>1. e \in Seq(Tokens)
      BY <1>1, ElementOfSeq
    <3> QED
      BY <1>4, <2>1, <3>1
  <2>3. r \in Seq(Tokens) /\ r = f \o g
    BY <1>3, <1>5, <2>1
  <2>4. FromElement(i) = (e \o f) \o g
    BY <1>3, <2>2, Zenon
  <2>5. (e \o f) \o g = e \o (f \o g)
    <3>1. g \in Seq(Tokens)
      BY <1>2
    <3> HIDE DEF e, f, g
    <3> QED
      BY <2>2, <3>1, Assoc, SMTT(30)
  <2>6. e = ElementString(sm.structuredData, Ids[i])
    BY <2>1, ElementStringsAre
  <2> HIDE DEF e, f, r, g
  <2>7. FromElement(i) = e \o r
    BY <2>3, <2>4, <2>5, Zenon
  <2>8. e \o r = <<"[">> \o (Ids[i] \o (FlattenSeq(ParamStrings(i)) \o (<<"]">> \o r)))
    BY <2>1, <2>3, <2>6, ElementStringIs
  <2> QED
    BY <2>7, <2>8, Zenon DEF r
<1> QED
  BY <1>1, <1>5, <1>6, <1>7

(* From a parameter of an element on. *)
LEMMA FromParamIs ==
    ASSUME BuilderInv, NEW i \in 1..Len(Ids)
    PROVE  LET n == Len(ParamNames(i))
           IN  /\ n \in Nat
               /\ \A j \in 1..(n + 1) : FromParam(i, j) \in Seq(Tokens)
               /\ FromParam(i, n + 1) = <<"]">> \o FromElement(i + 1)
               /\ \A j \in 1..n : /\ FromParam(i, j) = <<" ">> \o (ParamNames(i)[j] \o BehindName(i, j))
                                  /\ BehindName(i, j) \in Seq(Tokens)
                                  /\ BehindValue(i, j) \in Seq(Tokens)
                                  /\ EscapeBytes(Value(i, j)) \o BehindValue(i, j) \in Seq(Tokens)
               /\ FromElement(i) = <<"[">> \o (Ids[i] \o FromParam(i, 1))
<1> DEFINE P == ParamStrings(i)
           n == Len(ParamNames(i))
           F(j) == FlattenSeq(SubSeq(P, j, Len(P)))
           T == <<"]">> \o FromElement(i + 1)
<1>1. P \in Seq(Seq(Tokens)) /\ Len(P) = n /\ n \in Nat
  BY ParamStringsAre, ParamsAre
<1>2. T \in Seq(Tokens)
  <2>1. i + 1 \in 1..(Len(Ids) + 1)
    BY ElementsAre
  <2>2. FromElement(i + 1) \in Seq(Tokens)
    BY <2>1, FromElementIs
  <2> QED
    BY <2>2, Signs, Joined
<1>3. \A j : FromParam(i, j) = F(j) \o T
  BY Zenon DEF FromParam
<1>4. ASSUME NEW j \in 1..(n + 1)
      PROVE  /\ F(j) \in Seq(Tokens) /\ (j = n + 1 => F(j) = <<>>)
             /\ j # n + 1 => F(j) = P[j] \o F(j + 1)
  <2>1. j \in Nat \ {0} /\ (j = n + 1 => j > Len(P)) /\ (j # n + 1 => j <= Len(P))
    BY <1>1
  <2> QED
    BY <1>1, <2>1, FlattenFrom
<1>t. F(1) = FlattenSeq(P)
  <2>1. SubSeq(P, 1, Len(P)) = P
    BY <1>1, SubSeqFull
  <2> QED
    BY <2>1, Zenon
<1> HIDE DEF F, T
<1>5. ASSUME NEW j \in 1..(n + 1) PROVE FromParam(i, j) \in Seq(Tokens)
  <2>1. F(j) \in Seq(Tokens) /\ T \in Seq(Tokens) /\ FromParam(i, j) = F(j) \o T
    BY <1>2, <1>3, <1>4
  <2> QED
    BY <2>1, Joined, SMTT(30)
<1>6. FromParam(i, n + 1) = T
  <2>1. n + 1 \in 1..(n + 1)
    BY <1>1
  <2>2. F(n + 1) = <<>>
    BY <1>4, <2>1
  <2>3. <<>> \o T = T
    BY <1>2, ConcatEmptySeq
  <2> QED
    BY <1>3, <2>2, <2>3, Zenon
<1>7. ASSUME NEW j \in 1..n
      PROVE  /\ FromParam(i, j) = <<" ">> \o (ParamNames(i)[j] \o BehindName(i, j))
             /\ BehindName(i, j) \in Seq(Tokens)
             /\ BehindValue(i, j) \in Seq(Tokens)
             /\ EscapeBytes(Value(i, j)) \o BehindValue(i, j) \in Seq(Tokens)
  <2> DEFINE e == P[j]
             f == F(j + 1)
             r == FromParam(i, j + 1)
             b == EscapeBytes(Value(i, j))
             v == BehindValue(i, j)
             w == b \o v
  <2>1. j \in 1..(n + 1) /\ j # n + 1 /\ j + 1 \in 1..(n + 1)
    BY <1>1
  <2>2. F(j) = e \o f /\ f \in Seq(Tokens) /\ e \in Seq(Tokens)
    <3>1. e \in Seq(Tokens)
      BY <1>1, ElementOfSeq
    <3> QED
      BY <1>4, <2>1, <3>1
  <2>3. r \in Seq(Tokens) /\ r = f \o T
    BY <1>3, <1>5, <2>1
  <2>4. FromParam(i, j) = (e \o f) \o T
    BY <1>3, <2>2, Zenon
  <2>5. (e \o f) \o T = e \o (f \o T)
    <3> HIDE DEF e, f
    <3> QED
      BY <1>2, <2>2, Assoc, SMTT(30)
  <2>6. e = ParamString(Params(i), ParamNames(i)[j])
    BY ParamStringsAre
  <2> HIDE DEF e, f, r
  <2>7. FromParam(i, j) = e \o r
    BY <2>3, <2>4, <2>5, Zenon
  <2>8. /\ e \o r = <<" ">> \o (ParamNames(i)[j] \o (<<"=", "\"">> \o (b \o (<<"\"">> \o r))))
        /\ b \in Seq(Tokens)
    BY <2>3, <2>6, ParamStringIs
  <2>9. v = <<"\"">> \o r
    BY Zenon DEF BehindValue, r
  <2>10. v \in Seq(Tokens)
    BY <2>3, <2>9, Signs, Joined
  <2>11. BehindName(i, j) = <<"=", "\"">> \o w
    BY Zenon DEF BehindName
  <2> HIDE DEF b, v
  <2>12. w \in Seq(Tokens)
    BY <2>8, <2>10, Joined
  <2> HIDE DEF w
  <2>13. <<"=", "\"">> \o w \in Seq(Tokens)
    BY <2>12, Signs, Joined
  <2> QED
    BY <2>7, <2>8, <2>9, <2>10, <2>11, <2>12, <2>13, Zenon DEF w, b, v
<1>8. FromElement(i) = <<"[">> \o (Ids[i] \o FromParam(i, 1))
  <2>1. FromParam(i, 1) = FlattenSeq(P) \o T
    BY <1>3, <1>t, Zenon
  <2>2. FromElement(i) = <<"[">> \o (Ids[i] \o (FlattenSeq(P) \o T))
    BY FromElementIs DEF T
  <2> QED
    BY <2>1, <2>2, Zenon
<1> QED
  BY <1>1, <1>5, <1>6, <1>7, <1>8 DEF T

(* What stands for the structured data. *)
LEMMA DataIs ==
    ASSUME BuilderInv
    PROVE  /\ FromData \in Seq(Tokens) /\ DataString(sm.structuredData) \in Seq(Tokens)
           /\ Len(Ids) = 0 => /\ sm.structuredData = EmptyMap
                              /\ FromData = <<"-">> \o FromMessage
           /\ Len(Ids) # 0 => /\ sm.structuredData # EmptyMap
                              /\ FromData = FromElement(1)
<1> DEFINE D == sm.structuredData
           s == FlattenSeq(Elements)
           g == FromMessage
<1>1. Elements \in Seq(Seq(Tokens)) /\ Len(Elements) = Len(Ids) /\ Len(Ids) \in Nat
  BY ElementStringsAre, ElementsAre
<1>2. g \in Seq(Tokens) /\ s \in Seq(Tokens)
  BY <1>1, FromMessageIs, FlattenAppend
<1>3. DataString(D) = IF s = <<>> THEN <<"-">> ELSE s
  BY Zenon DEF DataString, OrNil, Elements, Ids
<1>4. DataString(D) \in Seq(Tokens)
  BY <1>2, <1>3, Signs
<1>5. FromData = DataString(D) \o g
  BY Zenon DEF FromData
<1>6. FromData \in Seq(Tokens)
  BY <1>2, <1>4, <1>5, Joined
<1>7. ASSUME Len(Ids) = 0
      PROVE  D = EmptyMap /\ FromData = <<"-">> \o FromMessage
  <2>1. DOMAIN D = {} /\ D = [x \in DOMAIN D |-> D[x]]
    BY <1>7, ElementsAre
  <2>2. D = EmptyMap
    BY <2>1, EmptyIs
  <2>3. Elements = <<>>
    BY <1>1, <1>7
  <2>4. s = <<>>
    BY <2>3, FlattenAppend
  <2> QED
    BY <1>3, <1>5, <2>2, <2>4, Zenon
<1>8. ASSUME Len(Ids) # 0
      PROVE  D # EmptyMap /\ FromData = FromElement(1)
  <2>1. DOMAIN D # {}
    BY <1>8, ElementsAre
  <2>2. D # EmptyMap
    BY <2>1, EmptyIs
  <2> DEFINE e == Elements[1]
             f == FlattenSeq(SubSeq(Elements, 2, Len(Elements)))
  <2>3. FlattenSeq(SubSeq(Elements, 1, Len(Elements))) = e \o f /\ f \in Seq(Tokens)
    <3>1. 1 <= Len(Elements) /\ 1 \in Nat \ {0} /\ 2 \in Nat \ {0} /\ 1 + 1 = 2
      BY <1>1, <1>8
    <3> QED
      BY <1>1, <3>1, FlattenFrom
  <2>4. SubSeq(Elements, 1, Len(Elements)) = Elements
    BY <1>1, SubSeqFull
  <2>5. 1 \in 1..Len(Ids) /\ e = ElementString(D, Ids[1])
    BY <1>1, <1>8, ElementStringsAre
  <2>6. e \in Seq(Tokens) /\ e # <<>>
    <3>1. <<>> \in Seq(Tokens)
      BY Signs
    <3> QED
      BY <2>5, <3>1, ElementStringIs
  <2> HIDE DEF e, f
  <2>7. s = e \o f
    BY <2>3, <2>4, Zenon
  <2>8. s # <<>>
    <3>1. Len(e \o f) = Len(e) + Len(f) /\ Len(e) \in Nat /\ Len(f) \in Nat
      BY <2>3, <2>6, ConcatProperties, LenProperties
    <3>2. Len(e) # 0
      BY <2>6
    <3> QED
      BY <2>7, <3>1, <3>2
  <2>9. FromElement(1) = s \o g
    BY <2>4, Zenon DEF FromElement
  <2> QED
    BY <1>3, <1>5, <2>2, <2>8, <2>9, Zenon
<1> QED
  BY <1>4, <1>6, <1>7, <1>8

(* The text of a field fits it, and stands for what the builder has.        *)
LEMMA NamesAre ==
    ASSUME BuilderInv, NEW f \in NameFields
    PROVE  /\ Text(f) \in Seq(Tokens) /\ Len(Text(f)) \in 1..NameRange[f]
           /\ \A k \in 1..Len(Text(f)) : Text(f)[k] \in Tokens \ NotGraph
           /\ sm.name[f] = IF Text(f) = <<"-">> THEN <<>> ELSE Text(f)
<1> DEFINE t == sm.name[f]
<1>1. t \in Seq(Tokens)
  BY DEF BuilderInv, IsMessage, FieldTexts
<1>2. t = <<>> \/ (IsName(t, f) /\ t # <<"-">>)
  BY DEF BuilderInv, NamesFit
<1>3. NameRange[f] \in Nat \ {0}
  BY Rfc5424Assumption
<1>4. Text(f) = IF t = <<>> THEN <<"-">> ELSE t
  BY DEF Text, OrNil
<1> HIDE DEF t
<1>5. CASE t = <<>>
  <2>1. Text(f) = <<"-">>
    BY <1>4, <1>5
  <2>2. "-" \in Tokens \ NotGraph
    BY DEF Tokens, NotGraph
  <2>3. Text(f) \in Seq(Tokens) /\ Len(Text(f)) = 1 /\ Text(f)[1] = "-"
    <3>1. Len(<<"-">>) = 1 /\ <<"-">>[1] = "-"
      OBVIOUS
    <3>2. <<"-">> \in Seq(Tokens)
      BY Signs
    <3> QED
      BY <2>1, <3>1, <3>2, Zenon
  <2>4. Len(Text(f)) \in 1..NameRange[f]
    BY <1>3, <2>3
  <2>5. \A k \in 1..Len(Text(f)) : Text(f)[k] \in Tokens \ NotGraph
    BY <2>2, <2>3
  <2> QED
    BY <1>5, <2>1, <2>3, <2>4, <2>5 DEF t
<1>6. CASE t # <<>>
  <2>1. Text(f) = t /\ t # <<"-">> /\ IsName(t, f)
    BY <1>2, <1>4, <1>6
  <2>2. \A k \in 1..Len(t) : t[k] \in Tokens \ NotGraph
    BY <1>1, <2>1 DEF IsName
  <2> QED
    BY <1>1, <2>1, <2>2 DEF IsName, t
<1> QED
  BY <1>5, <1>6

(* The numbers of a message that has a string.                              *)
LEMMA NumbersAre ==
    ASSUME BuilderInv, HasString
    PROVE  /\ sm.priority \in 0..191 /\ sm.version \in 1..999
           /\ Numeral(Decimal(sm.priority), sm.priority) /\ Numeral(Decimal(sm.version), sm.version)
           /\ Decimal(sm.priority) \in Seq(Tokens) /\ Decimal(sm.version) \in Seq(Tokens)
           /\ Stamp \in Tokens /\ sm.timestamp \in {"", "ts"}
<1>1. sm.priority \in 0..191 /\ sm.version \in 1..999
  BY DEF BuilderInv, IsMessage, HasString, Valid, ValidVersion, ValidPriority
<1>2. sm.priority \in 0..999 /\ sm.version \in 0..999
  BY <1>1
<1>3. Numeral(Decimal(sm.priority), sm.priority) /\ Numeral(Decimal(sm.version), sm.version)
  <2> DEFINE R == 0..999
             p == sm.priority
             v == sm.version
  <2>1. \A q \in R : Numeral(Decimal(q), q)
    BY DecimalIs
  <2>2. p \in R /\ v \in R
    BY <1>2
  <2> HIDE DEF R, p, v
  <2>3. Numeral(Decimal(p), p) /\ Numeral(Decimal(v), v)
    BY <2>1, <2>2, Zenon
  <2> QED
    BY <2>3 DEF p, v
<1>4. \A t \in Seq(Digits) : t \in Seq(Tokens)
  BY DEF Tokens
<1>5. Decimal(sm.priority) \in Seq(Tokens) /\ Decimal(sm.version) \in Seq(Tokens)
  BY <1>3, <1>4 DEF Numeral
<1>6. sm.timestamp \in {"", "ts"}
  BY DEF BuilderInv, IsMessage, Timestamps
<1>7. Stamp \in Tokens
  BY <1>6 DEF Stamp, Tokens, Stamps
<1> QED
  BY <1>1, <1>3, <1>5, <1>6, <1>7

(* What a text ends in may be split off.                                    *)
LEMMA Shift ==
    ASSUME NEW w \in Seq(Tokens), NEW x \in Seq(Tokens), NEW r \in Seq(Tokens)
    PROVE  (w \o x) \o r = w \o (x \o r) /\ x \o r \in Seq(Tokens) /\ w \o x \in Seq(Tokens)
<1>1. x \o r \in Seq(Tokens) /\ w \o x \in Seq(Tokens)
  BY Joined
<1>2. (w \o x) \o r = w \o (x \o r)
  BY Assoc
<1> QED
  BY <1>1, <1>2, Zenon

(* A pair of tokens, one after the other.                                   *)
LEMMA Pair ==
    ASSUME NEW a, NEW b
    PROVE  <<a, b>> = <<a>> \o <<b>>
<1> DEFINE S == {a, b}
           x == <<a>>
<1>1. x \in Seq(S) /\ b \in S
  OBVIOUS
<1>2. Append(x, b) = <<a, b>>
  <2> DEFINE y == <<a, b>>
  <2>1. y \in Seq(S) /\ Len(y) = 2 /\ y[1] = a /\ y[2] = b /\ Len(x) = 1 /\ x[1] = a
    OBVIOUS
  <2> DEFINE z == Append(x, b)
  <2> HIDE DEF x, y, S
  <2>2. z \in Seq(S) /\ Len(z) = 2 /\ z[1] = a /\ z[2] = b
    <3>1. /\ z \in Seq(S) /\ Len(z) = Len(x) + 1
          /\ \A i \in 1..Len(x) : z[i] = x[i]
          /\ z[Len(x) + 1] = b
      BY <1>1, AppendProperties
    <3> HIDE DEF z
    <3> QED
      BY <2>1, <3>1
  <2> HIDE DEF z
  <2>3. \A i \in 1..2 : y[i] = z[i]
    BY <2>1, <2>2
  <2>4. y = z
    BY <2>1, <2>2, <2>3, SeqEqual
  <2> QED
    BY <2>4 DEF y, z
<1> HIDE DEF x, S
<1>3. Append(x, b) = x \o <<b>>
  BY <1>1, AppendIsConcat
<1> QED
  BY <1>2, <1>3, Zenon DEF x

(* What is behind the fields.                                               *)
LEMMA BehindIs ==
    ASSUME BuilderInv, HasString
    PROVE  /\ \A f \in NameFields : Behind(f) \in Seq(Tokens)
           /\ BehindStamp \in Seq(Tokens) /\ <<Stamp>> \o BehindStamp \in Seq(Tokens)
           /\ <<" ">> \o (<<Stamp>> \o BehindStamp) \in Seq(Tokens)
           /\ FromVersion \in Seq(Tokens) /\ <<">">> \o FromVersion \in Seq(Tokens)
           /\ FromPriority \in Seq(Tokens)
<1> DEFINE s == <<" ">>
<1>s. s \in Seq(Tokens)
  BY Signs
<1> HIDE DEF s
<1>1. BehindMsgid = s \o FromData /\ BehindMsgid \in Seq(Tokens)
  <2>1. BehindMsgid = s \o FromData
    BY Zenon DEF BehindMsgid, s
  <2> QED
    BY <1>s, <2>1, DataIs, Joined
<1>2. ASSUME NEW f \in NameFields, NEW b \in Seq(Tokens)
      PROVE  s \o (Text(f) \o b) \in Seq(Tokens)
  <2> DEFINE t == Text(f)
             x == t \o b
  <2>1. t \in Seq(Tokens)
    BY NamesAre
  <2> HIDE DEF t
  <2>2. x \in Seq(Tokens)
    BY <2>1, Joined
  <2> HIDE DEF x
  <2>3. s \o x \in Seq(Tokens)
    BY <1>s, <2>2, Joined
  <2> QED
    BY <2>3 DEF x, t
<1>n. "hostname" \in NameFields /\ "appname" \in NameFields /\ "procid" \in NameFields
      /\ "msgid" \in NameFields
  BY DEF NameFields
<1>3. BehindProcid \in Seq(Tokens)
  BY <1>1, <1>2, <1>n, Zenon DEF BehindProcid, s
<1>4. BehindAppname \in Seq(Tokens)
  BY <1>3, <1>2, <1>n, Zenon DEF BehindAppname, s
<1>5. BehindHostname \in Seq(Tokens)
  BY <1>4, <1>2, <1>n, Zenon DEF BehindHostname, s
<1>6. BehindStamp \in Seq(Tokens)
  BY <1>5, <1>2, <1>n, Zenon DEF BehindStamp, s
<1>7. \A f \in NameFields : Behind(f) \in Seq(Tokens)
  BY <1>1, <1>3, <1>4, <1>5, Zenon DEF Behind
<1>8. <<Stamp>> \in Seq(Tokens)
  BY NumbersAre, OneToken
<1> DEFINE x == <<Stamp>> \o BehindStamp
           y == s \o x
           z == Decimal(sm.version) \o y
           w == <<">">> \o z
           p == Decimal(sm.priority) \o w
<1>9. x \in Seq(Tokens)
  BY <1>6, <1>8, Joined
<1>10. y \in Seq(Tokens)
  <2> HIDE DEF x
  <2> QED
    BY <1>s, <1>9, Joined
<1>11. z \in Seq(Tokens)
  <2> HIDE DEF y
  <2>1. Decimal(sm.version) \in Seq(Tokens)
    BY NumbersAre
  <2> QED
    BY <1>10, <2>1, Joined
<1>12. w \in Seq(Tokens)
  <2> HIDE DEF z
  <2> QED
    BY <1>11, Signs, Joined
<1>13. p \in Seq(Tokens)
  <2> HIDE DEF w
  <2>1. Decimal(sm.priority) \in Seq(Tokens)
    BY NumbersAre
  <2> QED
    BY <1>12, <2>1, Joined
<1>14. FromVersion = z /\ FromPriority = p
  BY Zenon DEF FromVersion, FromPriority, s
<1> QED
  BY <1>6, <1>7, <1>9, <1>10, <1>11, <1>12, <1>13, <1>14, Zenon DEF s

(* String, from its front to its end. *)
LEMMA StringIs ==
    ASSUME BuilderInv, HasString
    PROVE  String = <<"<">> \o FromPriority /\ String \in Seq(Tokens)
<1> DEFINE l == <<"<">>
           p == Decimal(sm.priority)
           g == <<">">>
           v == Decimal(sm.version)
           s == <<" ">>
           t == <<" ", Stamp>>
           N(f) == s \o Text(f)
           d == DataString(sm.structuredData)
           e == FromMessage
           x1 == l \o p
           x2 == x1 \o g
           x3 == x2 \o v
           x4 == x3 \o t
           x5 == x4 \o N("hostname")
           x6 == x5 \o N("appname")
           x7 == x6 \o N("procid")
           x8 == x7 \o N("msgid")
           x9 == x8 \o s
           x10 == x9 \o d
<1>1. String = x10 \o e
  BY Zenon DEF String, NameString, Text, Stamp, FromMessage
<1>2. /\ l \in Seq(Tokens) /\ p \in Seq(Tokens) /\ g \in Seq(Tokens) /\ v \in Seq(Tokens)
      /\ s \in Seq(Tokens) /\ d \in Seq(Tokens) /\ e \in Seq(Tokens)
  BY Signs, NumbersAre, DataIs, FromMessageIs
<1>3. t \in Seq(Tokens) /\ t = s \o <<Stamp>> /\ <<Stamp>> \in Seq(Tokens)
  <2>1. <<Stamp>> \in Seq(Tokens)
    BY NumbersAre, OneToken
  <2>2. t = s \o <<Stamp>>
    BY Pair
  <2> HIDE DEF t, s
  <2> QED
    BY <1>2, <2>1, <2>2, Joined
<1>4. ASSUME NEW f \in NameFields
      PROVE  N(f) \in Seq(Tokens) /\ \A b \in Seq(Tokens) : N(f) \o b = s \o (Text(f) \o b)
  <2>1. Text(f) \in Seq(Tokens)
    BY NamesAre
  <2> HIDE DEF s
  <2> QED
    BY <1>2, <2>1, Shift, SMTT(30)
<1>n. "hostname" \in NameFields /\ "appname" \in NameFields /\ "procid" \in NameFields
      /\ "msgid" \in NameFields
  BY DEF NameFields
<1>b. /\ BehindMsgid = s \o FromData /\ FromData = d \o e
      /\ BehindProcid = s \o (Text("msgid") \o BehindMsgid)
      /\ BehindAppname = s \o (Text("procid") \o BehindProcid)
      /\ BehindHostname = s \o (Text("appname") \o BehindAppname)
      /\ BehindStamp = s \o (Text("hostname") \o BehindHostname)
      /\ FromVersion = v \o (s \o (<<Stamp>> \o BehindStamp))
      /\ FromPriority = p \o (g \o FromVersion)
  BY Zenon DEF BehindMsgid, FromData, BehindProcid, BehindAppname, BehindHostname, BehindStamp,
               FromVersion, FromPriority
<1>t. /\ BehindMsgid \in Seq(Tokens) /\ BehindProcid \in Seq(Tokens)
      /\ BehindAppname \in Seq(Tokens) /\ BehindHostname \in Seq(Tokens)
      /\ BehindStamp \in Seq(Tokens) /\ FromVersion \in Seq(Tokens) /\ FromData \in Seq(Tokens)
      /\ g \o FromVersion \in Seq(Tokens) /\ FromPriority \in Seq(Tokens)
  <2>1. /\ Behind("msgid") = BehindMsgid /\ Behind("procid") = BehindProcid
        /\ Behind("appname") = BehindAppname /\ Behind("hostname") = BehindHostname
    BY DEF Behind
  <2>2. \A f \in NameFields : Behind(f) \in Seq(Tokens)
    BY BehindIs
  <2> QED
    BY <1>n, <2>1, <2>2, BehindIs, DataIs
<1> HIDE DEF l, p, g, v, s, t, N, d, e
<1>5. x1 \in Seq(Tokens)
  BY <1>2, Joined
<1> HIDE DEF x1
<1>6. x2 \in Seq(Tokens)
  BY <1>2, <1>5, Joined
<1> HIDE DEF x2
<1>7. x3 \in Seq(Tokens)
  BY <1>2, <1>6, Joined
<1> HIDE DEF x3
<1>8. x4 \in Seq(Tokens)
  BY <1>3, <1>7, Joined
<1> HIDE DEF x4
<1>9. x5 \in Seq(Tokens)
  BY <1>4, <1>n, <1>8, Joined
<1> HIDE DEF x5
<1>10. x6 \in Seq(Tokens)
  BY <1>4, <1>n, <1>9, Joined
<1> HIDE DEF x6
<1>11. x7 \in Seq(Tokens)
  BY <1>4, <1>n, <1>10, Joined
<1> HIDE DEF x7
<1>12. x8 \in Seq(Tokens)
  BY <1>4, <1>n, <1>11, Joined
<1> HIDE DEF x8
<1>13. x9 \in Seq(Tokens)
  BY <1>2, <1>12, Joined
<1> HIDE DEF x9
<1>14. x10 \o e = x9 \o FromData
  <2>01. x9 \in Seq(Tokens) /\ d \in Seq(Tokens) /\ e \in Seq(Tokens)
    BY <1>2, <1>13
  <2>1. (x9 \o d) \o e = x9 \o (d \o e)
    BY <2>01, Assoc, SMTT(30)
  <2> QED
    BY <1>b, <2>1, Zenon
<1>15. x9 \o FromData = x8 \o BehindMsgid
  <2>01. x8 \in Seq(Tokens) /\ s \in Seq(Tokens) /\ FromData \in Seq(Tokens)
    BY <1>2, <1>12, <1>t
  <2>1. (x8 \o s) \o FromData = x8 \o (s \o FromData)
    BY <2>01, Assoc, SMTT(30)
  <2> QED
    BY <1>b, <2>1, Zenon DEF x9
<1>16. x8 \o BehindMsgid = x7 \o BehindProcid
  <2>01. x7 \in Seq(Tokens) /\ N("msgid") \in Seq(Tokens) /\ BehindMsgid \in Seq(Tokens)
    BY <1>4, <1>n, <1>11, <1>t
  <2>1. (x7 \o N("msgid")) \o BehindMsgid = x7 \o (N("msgid") \o BehindMsgid)
    BY <2>01, Assoc, SMTT(30)
  <2>2. N("msgid") \o BehindMsgid = s \o (Text("msgid") \o BehindMsgid)
    BY <1>4, <1>n, <1>t
  <2> QED
    BY <1>b, <2>1, <2>2, Zenon DEF x8
<1>17. x7 \o BehindProcid = x6 \o BehindAppname
  <2>01. x6 \in Seq(Tokens) /\ N("procid") \in Seq(Tokens) /\ BehindProcid \in Seq(Tokens)
    BY <1>4, <1>n, <1>10, <1>t
  <2>1. (x6 \o N("procid")) \o BehindProcid = x6 \o (N("procid") \o BehindProcid)
    BY <2>01, Assoc, SMTT(30)
  <2>2. N("procid") \o BehindProcid = s \o (Text("procid") \o BehindProcid)
    BY <1>4, <1>n, <1>t
  <2> QED
    BY <1>b, <2>1, <2>2, Zenon DEF x7
<1>18. x6 \o BehindAppname = x5 \o BehindHostname
  <2>01. x5 \in Seq(Tokens) /\ N("appname") \in Seq(Tokens) /\ BehindAppname \in Seq(Tokens)
    BY <1>4, <1>n, <1>9, <1>t
  <2>1. (x5 \o N("appname")) \o BehindAppname = x5 \o (N("appname") \o BehindAppname)
    BY <2>01, Assoc, SMTT(30)
  <2>2. N("appname") \o BehindAppname = s \o (Text("appname") \o BehindAppname)
    BY <1>4, <1>n, <1>t
  <2> QED
    BY <1>b, <2>1, <2>2, Zenon DEF x6
<1>19. x5 \o BehindHostname = x4 \o BehindStamp
  <2>01. x4 \in Seq(Tokens) /\ N("hostname") \in Seq(Tokens) /\ BehindHostname \in Seq(Tokens)
    BY <1>4, <1>n, <1>8, <1>t
  <2>1. (x4 \o N("hostname")) \o BehindHostname = x4 \o (N("hostname") \o BehindHostname)
    BY <2>01, Assoc, SMTT(30)
  <2>2. N("hostname") \o BehindHostname = s \o (Text("hostname") \o BehindHostname)
    BY <1>4, <1>n, <1>t
  <2> QED
    BY <1>b, <2>1, <2>2, Zenon DEF x5
<1>20. x4 \o BehindStamp = x3 \o (s \o (<<Stamp>> \o BehindStamp))
  <2>01. x3 \in Seq(Tokens) /\ t \in Seq(Tokens) /\ BehindStamp \in Seq(Tokens)
    BY <1>3, <1>7, <1>t
  <2>1. (x3 \o t) \o BehindStamp = x3 \o (t \o BehindStamp)
    BY <2>01, Assoc, SMTT(30)
  <2>02. s \in Seq(Tokens) /\ <<Stamp>> \in Seq(Tokens) /\ BehindStamp \in Seq(Tokens)
    BY <1>2, <1>3, <1>t
  <2>2. (s \o <<Stamp>>) \o BehindStamp = s \o (<<Stamp>> \o BehindStamp)
    BY <2>02, Assoc, SMTT(30)
  <2> QED
    BY <1>3, <2>1, <2>2, Zenon DEF x4
<1> DEFINE y == s \o (<<Stamp>> \o BehindStamp)
<1>21. y \in Seq(Tokens)
  BY BehindIs DEF s
<1> HIDE DEF y
<1>22. x3 \o y = x2 \o FromVersion
  <2>01. x2 \in Seq(Tokens) /\ v \in Seq(Tokens) /\ y \in Seq(Tokens)
    BY <1>2, <1>6, <1>21
  <2>1. (x2 \o v) \o y = x2 \o (v \o y)
    BY <2>01, Assoc, SMTT(30)
  <2> QED
    BY <1>b, <2>1, Zenon DEF x3, y
<1>23. x2 \o FromVersion = x1 \o (g \o FromVersion)
  <2>01. x1 \in Seq(Tokens) /\ g \in Seq(Tokens) /\ FromVersion \in Seq(Tokens)
    BY <1>2, <1>5, <1>t
  <2>1. (x1 \o g) \o FromVersion = x1 \o (g \o FromVersion)
    BY <2>01, Assoc, SMTT(30)
  <2> QED
    BY <2>1, Zenon DEF x2
<1>24. x1 \o (g \o FromVersion) = l \o FromPriority
  <2> DEFINE z == g \o FromVersion
  <2>1. z \in Seq(Tokens)
    BY <1>t
  <2> HIDE DEF z
  <2>02. l \in Seq(Tokens) /\ p \in Seq(Tokens) /\ z \in Seq(Tokens)
    BY <1>2, <2>1
  <2>2. (l \o p) \o z = l \o (p \o z)
    BY <2>02, Assoc, SMTT(30)
  <2> QED
    BY <1>b, <2>2, Zenon DEF x1, z
<1>25. String = l \o FromPriority
  <2>1. x3 \o (s \o (<<Stamp>> \o BehindStamp)) = x3 \o y
    BY Zenon DEF y
  <2> HIDE DEF x10
  <2> QED
    BY <1>1, <1>14, <1>15, <1>16, <1>17, <1>18, <1>19, <1>20, <1>22, <1>23, <1>24, <2>1, Zenon
       DEF x10
<1>26. l \o FromPriority \in Seq(Tokens)
  BY <1>2, <1>t, Joined
<1> QED
  BY <1>25, <1>26, Zenon DEF l

(* The first token of a text and the others. *)
LEMMA First ==
    ASSUME NEW c \in Tokens, NEW r \in Seq(Tokens)
    PROVE  LET w == <<c>> \o r
           IN  /\ w \in Seq(Tokens) /\ Len(w) = Len(r) + 1 /\ w[1] = c
               /\ \A i \in 1..Len(r) : w[i + 1] = r[i]
               /\ w # <<>>
<1> DEFINE o == <<c>>
           w == o \o r
<1>1. o \in Seq(Tokens) /\ Len(o) = 1 /\ o[1] = c /\ Len(r) \in Nat
  OBVIOUS
<1> HIDE DEF o
<1>2. w \in Seq(Tokens) /\ Len(w) = Len(o) + Len(r)
  BY <1>1, ConcatProperties
<1>3. ASSUME NEW i \in 1..Len(o) + Len(r) PROVE w[i] = IF i <= Len(o) THEN o[i] ELSE r[i - Len(o)]
  BY <1>1, ConcatProperties
<1> HIDE DEF w
<1>4. w[1] = c
  BY <1>1, <1>3
<1>5. ASSUME NEW i \in 1..Len(r) PROVE w[i + 1] = r[i]
  BY <1>1, <1>3
<1>6. w # <<>>
  BY <1>1, <1>2
<1> QED
  BY <1>1, <1>2, <1>4, <1>5, <1>6 DEF w, o

(* The first token of a text and its rest are what they are.                *)
LEMMA FirstOf ==
    ASSUME NEW c \in Tokens, NEW r \in Seq(Tokens), NEW d \in Tokens, NEW s \in Seq(Tokens),
           <<c>> \o r = <<d>> \o s
    PROVE  c = d /\ r = s
<1> DEFINE w == <<c>> \o r
           x == <<d>> \o s
<1>1. /\ Len(w) = Len(r) + 1 /\ w[1] = c
      /\ \A i \in 1..Len(r) : w[i + 1] = r[i]
  BY First
<1>2. /\ Len(x) = Len(s) + 1 /\ x[1] = d
      /\ \A i \in 1..Len(s) : x[i + 1] = s[i]
  BY First
<1>3. w = x
  OBVIOUS
<1> HIDE DEF w, x
<1>4. Len(r) \in Nat /\ Len(s) \in Nat
  BY LenProperties
<1>5. Len(r) = Len(s) /\ \A i \in 1..Len(r) : r[i] = s[i]
  BY <1>1, <1>2, <1>3, <1>4
<1> QED
  BY <1>1, <1>2, <1>3, <1>5, SeqEqual

(* Two texts that are one: the first token of each and what follows it.     *)
SameText(c, r, d, s) ==
    c \in Tokens /\ d \in Tokens /\ r \in Seq(Tokens) /\ s \in Seq(Tokens) /\ <<c>> \o r = <<d>> \o s

(* One first token, and one rest.                                           *)
LEMMA SameBegins ==
    ASSUME NEW c, NEW r, NEW d, NEW s, SameText(c, r, d, s)
    PROVE  c = d /\ r = s
<1>1. c \in Tokens /\ d \in Tokens /\ r \in Seq(Tokens) /\ s \in Seq(Tokens) /\ <<c>> \o r = <<d>> \o s
  BY DEF SameText
<1> QED
  BY <1>1, FirstOf

(* A text that begins with a pair of tokens.                                *)
LEMMA SecondOf ==
    ASSUME NEW d \in Tokens, NEW e \in Tokens, NEW s \in Seq(Tokens)
    PROVE  <<d, e>> \o s = <<d>> \o (<<e>> \o s) /\ <<e>> \o s \in Seq(Tokens)
<1> DEFINE o == <<d>>
           p == <<e>>
<1>1. <<d, e>> = o \o p /\ o \in Seq(Tokens) /\ p \in Seq(Tokens)
  BY Pair, OneToken
<1> HIDE DEF o, p
<1>2. (o \o p) \o s = o \o (p \o s)
  BY <1>1, Assoc, SMTT(30)
<1>3. p \o s \in Seq(Tokens)
  BY <1>1, Joined
<1>4. <<d, e>> \o s = o \o (p \o s)
  BY <1>1, <1>2, Zenon
<1> QED
  BY <1>3, <1>4 DEF o, p

(* The beginning of a text and the rest of it. *)
LEMMA Cut ==
    ASSUME NEW S, NEW w \in Seq(S), NEW k \in 0..Len(w)
    PROVE  /\ SubSeq(w, 1, k) \in Seq(S) /\ Len(SubSeq(w, 1, k)) = k
           /\ \A i \in 1..k : SubSeq(w, 1, k)[i] = w[i]
           /\ SubSeq(w, k + 1, Len(w)) \in Seq(S)
           /\ k = Len(w) => SubSeq(w, 1, k) = w /\ SubSeq(w, k + 1, Len(w)) = <<>>
           /\ k # Len(w) => /\ w[k + 1] \in S
                            /\ SubSeq(w, k + 1, Len(w)) = <<w[k + 1]>> \o SubSeq(w, k + 2, Len(w))
                            /\ SubSeq(w, k + 2, Len(w)) \in Seq(S)
                            /\ SubSeq(w, 1, k + 1) = Append(SubSeq(w, 1, k), w[k + 1])
<1> DEFINE n == Len(w)
<1>1. n \in Nat /\ k \in Nat /\ k <= n /\ \A i \in 1..n : w[i] \in S
  BY ElementOfSeq, LenProperties
<1>2. ASSUME NEW j \in Nat \ {0} PROVE SubSeq(w, j, n) \in Seq(S)
  <2>1. \A i \in j..n : w[i] \in S
    BY <1>1
  <2> QED
    BY <1>1, <2>1, SubSeqProperties
<1>3. SubSeq(w, 1, k) \in Seq(S) /\ Len(SubSeq(w, 1, k)) = k
      /\ \A i \in 1..k : SubSeq(w, 1, k)[i] = w[i]
  <2>1. \A i \in 1..k : w[i] \in S
    BY <1>1
  <2> QED
    BY <1>1, <2>1, SubSeqProperties
<1>4. ASSUME k = n PROVE SubSeq(w, 1, k) = w /\ SubSeq(w, k + 1, n) = <<>>
  <2>1. SubSeq(w, 1, n) = w
    BY SubSeqFull
  <2>2. n < n + 1 /\ n + 1 \in Int
    BY <1>1
  <2>3. SubSeq(w, n + 1, n) = <<>>
    BY <1>1, <2>2, SubSeqEmpty
  <2> QED
    BY <1>4, <2>1, <2>3
<1>5. ASSUME k # n
      PROVE  /\ w[k + 1] \in S
             /\ SubSeq(w, k + 1, n) = <<w[k + 1]>> \o SubSeq(w, k + 2, n)
             /\ SubSeq(w, 1, k + 1) = Append(SubSeq(w, 1, k), w[k + 1])
  <2>1. k + 1 \in 1..n /\ (k + 1) + 1 = k + 2 /\ (k + 1) - 1 = k /\ n \in (k + 1)..n
        /\ 1 \in 1..n /\ k + 1 \in 1..n
    BY <1>1, <1>5
  <2>2. w[k + 1] \in S
    BY <1>1, <2>1
  <2>3. SubSeq(w, k + 1, n) = <<w[k + 1]>> \o SubSeq(w, k + 2, n)
    BY <2>1, SubSeqRecursiveFirst
  <2>4. SubSeq(w, 1, k + 1) = SubSeq(w, 1, k) \o <<w[k + 1]>>
    BY <2>1, SubSeqRecursiveSecond
  <2>5. Append(SubSeq(w, 1, k), w[k + 1]) = SubSeq(w, 1, k) \o <<w[k + 1]>>
    BY <1>3, <2>2, AppendIsConcat
  <2> QED
    BY <2>2, <2>3, <2>4, <2>5, Zenon
<1>6. k + 1 \in Nat \ {0} /\ k + 2 \in Nat \ {0}
  BY <1>1
<1> QED
  BY <1>2, <1>3, <1>4, <1>5, <1>6

(* A part that is to be taken is one of which nothing has been taken.       *)
LEMMA MidBegins ==
    ASSUME NEW part \in Seq(Tokens), NEW tail \in Seq(Tokens)
    PROVE  Mid(<<>>, part \o tail, part, tail)
<1>1. 0 \in 0..Len(part) /\ 0 + 1 = 1
  BY LenProperties
<1>2. SubSeq(part, 1, 0) = <<>>
  BY SubSeqEmpty
<1>3. SubSeq(part, 1, Len(part)) = part
  BY SubSeqFull
<1> QED
  BY <1>1, <1>2, <1>3, Zenon DEF Mid

(* The next token is the part's next or, if there is none, the first one    *)
(* behind it.                                                               *)
LEMMA MidStep ==
    ASSUME NEW part \in Seq(Tokens), NEW tail \in Seq(Tokens), NEW c \in Tokens,
           NEW r \in Seq(Tokens), NEW text, Mid(text, <<c>> \o r, part, tail)
    PROVE  /\ text \in Seq(Tokens) /\ Len(text) \in 0..Len(part)
           /\ text = SubSeq(part, 1, Len(text))
           /\ \/ /\ Len(text) < Len(part) /\ c = part[Len(text) + 1]
                 /\ Append(text, c) = SubSeq(part, 1, Len(text) + 1)
                 /\ Mid(Append(text, c), r, part, tail)
              \/ text = part /\ <<c>> \o r = tail
<1>1. PICK k \in 0..Len(part) : /\ text = SubSeq(part, 1, k)
                                /\ <<c>> \o r = SubSeq(part, k + 1, Len(part)) \o tail
  BY DEF Mid
<1>2. text \in Seq(Tokens) /\ Len(text) = k /\ Len(part) \in Nat /\ k \in Nat
  BY <1>1, Cut, LenProperties
<1>3. CASE k = Len(part)
  <2>1. text = part /\ SubSeq(part, k + 1, Len(part)) = <<>>
    BY <1>1, <1>3, Cut
  <2>2. <<>> \o tail = tail
    BY ConcatEmptySeq
  <2>3. <<c>> \o r = tail
    BY <1>1, <2>1, <2>2, Zenon
  <2> QED
    BY <1>1, <1>2, <2>1, <2>3
<1>4. CASE k # Len(part)
  <2> DEFINE d == part[k + 1]
             o == <<d>>
             s == SubSeq(part, k + 2, Len(part))
             x == s \o tail
  <2>1. /\ d \in Tokens /\ s \in Seq(Tokens)
        /\ SubSeq(part, k + 1, Len(part)) = o \o s
        /\ SubSeq(part, 1, k + 1) = Append(SubSeq(part, 1, k), d)
    BY <1>4, Cut
  <2>2. o \in Seq(Tokens)
    BY <2>1, OneToken
  <2>3. x \in Seq(Tokens)
    BY <2>1, Joined
  <2>4. <<c>> \o r = o \o x
    <3> HIDE DEF o, s
    <3>1. (o \o s) \o tail = o \o (s \o tail)
      BY <2>1, <2>2, Assoc, Zenon
    <3> QED
      BY <1>1, <2>1, <3>1, Zenon
  <2>5. c = d /\ r = x
    <3> HIDE DEF x, d
    <3> QED
      BY <2>1, <2>3, <2>4, FirstOf
  <2>6. Append(text, c) = SubSeq(part, 1, k + 1)
    BY <1>1, <2>1, <2>5, Zenon
  <2>7. k + 1 \in 0..Len(part) /\ (k + 1) + 1 = k + 2 /\ k < Len(part)
    BY <1>2, <1>4
  <2>8. Mid(Append(text, c), r, part, tail)
    BY <2>5, <2>6, <2>7, Zenon DEF Mid
  <2> QED
    BY <1>1, <1>2, <2>5, <2>6, <2>7, <2>8
<1> QED
  BY <1>3, <1>4

(* What is left is not nothing while something is to come. *)
LEMMA MidEnds ==
    ASSUME NEW part \in Seq(Tokens), NEW tail \in Seq(Tokens), tail # <<>>, NEW text
    PROVE  ~Mid(text, <<>>, part, tail)
<1> SUFFICES ASSUME Mid(text, <<>>, part, tail) PROVE FALSE
  OBVIOUS
<1>1. PICK k \in 0..Len(part) : <<>> = SubSeq(part, k + 1, Len(part)) \o tail
  BY DEF Mid
<1> DEFINE s == SubSeq(part, k + 1, Len(part))
<1>2. s \in Seq(Tokens)
  BY Cut
<1> HIDE DEF s
<1>3. s \o tail = <<>> <=> s = <<>> /\ tail = <<>>
  BY <1>2, ConcatEqualIffEmpty
<1> QED
  BY <1>1, <1>3 DEF s

(* The maps that the machine fills: nothing at first, all of the message's  *)
(* elements in the end, and in between what String has said so far.         *)
LEMMA ElemsAre ==
    ASSUME BuilderInv
    PROVE  /\ Elems(0) = EmptyMap /\ Elems(Len(Ids)) = sm.structuredData
           /\ \A i \in 1..Len(Ids) : /\ Ids[i] \notin DOMAIN Elems(i - 1)
                                     /\ Put(Elems(i - 1), Ids[i], Params(i)) = Elems(i)
<1> DEFINE sd == sm.structuredData
           n == Len(Ids)
           Said(i) == {Ids[l] : l \in 1..i}
<1>1. /\ n \in Nat /\ \A i, j \in 1..n : Ids[i] = Ids[j] => i = j
      /\ Said(n) = DOMAIN sd /\ sd = [id \in DOMAIN sd |-> sd[id]]
  BY ElementsAre
<1>2. \A i : Elems(i) = [id \in Said(i) |-> sd[id]]
  BY DEF Elems
<1>3. Elems(0) = EmptyMap
  <2>1. Said(0) = {}
    OBVIOUS
  <2> QED
    BY <1>2, <2>1, EmptyIs
<1>4. Elems(n) = sd
  BY <1>1, <1>2
<1>5. ASSUME NEW i \in 1..n
      PROVE  Ids[i] \notin DOMAIN Elems(i - 1) /\ Put(Elems(i - 1), Ids[i], Params(i)) = Elems(i)
  <2>1. Said(i) = Said(i - 1) \cup {Ids[i]}
    <3>1. 1..i = (1..(i - 1)) \cup {i}
      BY <1>1
    <3> QED
      BY <3>1
  <2>2. Ids[i] \notin Said(i - 1)
    <3>1. \A l \in 1..(i - 1) : l \in 1..n /\ l # i
      BY <1>1
    <3> QED
      BY <1>1, <3>1
  <2>3. DOMAIN Elems(i - 1) = Said(i - 1) /\ \A id \in Said(i - 1) : Elems(i - 1)[id] = sd[id]
    BY <1>2
  <2>4. Params(i) = sd[Ids[i]]
    BY DEF Params
  <2> HIDE DEF Said
  <2>5. Put(Elems(i - 1), Ids[i], Params(i)) = [id \in Said(i) |-> sd[id]]
    BY <2>1, <2>2, <2>3, <2>4 DEF Put
  <2> QED
    BY <1>2, <2>2, <2>3, <2>5
<1> QED
  BY <1>3, <1>4, <1>5

(* The same of the parameters of one element.                               *)
LEMMA ParsAre ==
    ASSUME BuilderInv, NEW i \in 1..Len(Ids)
    PROVE  /\ Pars(i, 0) = EmptyMap /\ Pars(i, Len(ParamNames(i))) = Params(i)
           /\ \A j \in 1..Len(ParamNames(i)) :
                 Put(Pars(i, j - 1), ParamNames(i)[j], Value(i, j)) = Pars(i, j)
<1> DEFINE N == ParamNames(i)
           n == Len(N)
           Said(j) == {N[l] : l \in 1..j}
<1>1. n \in Nat /\ (\A j, k \in 1..n : N[j] = N[k] => j = k) /\ Said(n) = DOMAIN Params(i)
  BY ParamsAre
<1>2. \A j : Pars(i, j) = [x \in Said(j) |-> Params(i)[x]]
  BY DEF Pars
<1>3. Pars(i, 0) = EmptyMap
  <2>1. Said(0) = {}
    OBVIOUS
  <2> QED
    BY <1>2, <2>1, EmptyIs
<1>4. Pars(i, n) = Params(i)
  <2>1. Params(i) = [x \in DOMAIN Params(i) |-> Params(i)[x]]
    BY ParamsAre
  <2> QED
    BY <1>1, <1>2, <2>1
<1>5. ASSUME NEW j \in 1..n
      PROVE  Put(Pars(i, j - 1), N[j], Value(i, j)) = Pars(i, j)
  <2>1. Said(j) = Said(j - 1) \cup {N[j]}
    <3>1. 1..j = (1..(j - 1)) \cup {j}
      BY <1>1
    <3> QED
      BY <3>1
  <2>2. N[j] \notin Said(j - 1)
    <3>1. \A l \in 1..(j - 1) : l \in 1..n /\ l # j
      BY <1>1
    <3> QED
      BY <1>1, <3>1
  <2>3. DOMAIN Pars(i, j - 1) = Said(j - 1) /\ \A x \in Said(j - 1) : Pars(i, j - 1)[x] = Params(i)[x]
    BY <1>2
  <2>4. Value(i, j) = Params(i)[N[j]]
    BY DEF Value
  <2> HIDE DEF Said, N
  <2>5. Put(Pars(i, j - 1), N[j], Value(i, j)) = [x \in Said(j) |-> Params(i)[x]]
    BY <2>1, <2>2, <2>3, <2>4 DEF Put
  <2> QED
    BY <1>2, <2>5
<1> QED
  BY <1>3, <1>4, <1>5

(* A value put into one entry of a map.                                     *)
LEMMA PutInto ==
    ASSUME NEW f, NEW k, NEW u, NEW v, NEW d, d = Put(f, k, u)
    PROVE  [d EXCEPT ![k] = v] = Put(f, k, v) /\ d[k] = u /\ k \in DOMAIN d
  BY DEF Put

(* What the actions make of a machine, field by field.                      *)
Else(o, p, F) == \A h \in OutputFields \ F : p[h] = o[h]
Same(a, x, F) == \A h \in Fields \ F : x[h] = a[h]

(* What the actions do to a machine: a state is entered,                    *)
LEMMA GotoIs ==
    ASSUME NEW a, IsMachine(a), NEW s, NEW x, x = Goto(a, s)
    PROVE  IsMachine(x) /\ x.cs = s /\ x.text = <<>> /\ Same(a, x, {"cs", "text"})
  BY DEF IsMachine, Fields, Goto, Same

(* a token is taken,                                                        *)
LEMMA TakeIs ==
    ASSUME NEW a, IsMachine(a), NEW c, NEW x, x = Take(a, c)
    PROVE  IsMachine(x) /\ x.text = Append(a.text, c) /\ Same(a, x, {"text"})
  BY DEF IsMachine, Fields, Take, Same

(* an error is reported.                                                    *)
LEMMA FailIs ==
    ASSUME NEW a, IsMachine(a), NEW e, NEW x, x = Fail(a, e)
    PROVE  IsMachine(x) /\ x.cs = "fail" /\ x.err = e /\ Same(a, x, {"cs", "err"})
  BY DEF IsMachine, Fields, Fail, Same

(* One field of the message.                                                *)
LEMMA OutputIs ==
    ASSUME NEW a, IsMachine(a), NEW h \in OutputFields, NEW v, NEW x,
           x = [a EXCEPT !.output[h] = v]
    PROVE  IsMachine(x) /\ Same(a, x, {"output"}) /\ x.output[h] = v /\ Else(a.output, x.output, {h})
  BY DEF IsMachine, Fields, OutputFields, Same, Else

(* The setters of the header and of the message.                            *)
LEMMA SettersAre ==
    ASSUME NEW a, IsMachine(a)
    PROVE  /\ \A x : x = set_prival(a) =>
                 /\ IsMachine(x) /\ Same(a, x, {"output"}) /\ Else(a.output, x.output, {"priority"})
                 /\ x.output.priority = UnsafeUTF8DecimalCodePointsToInt(a.text)
           /\ \A x : x = set_version(a) =>
                 /\ IsMachine(x) /\ Same(a, x, {"output"}) /\ Else(a.output, x.output, {"version"})
                 /\ x.output.version = UnsafeUTF8DecimalCodePointsToInt(a.text)
           /\ \A x : x = set_timestamp(a) /\ a.text = <<"ts">> =>
                 /\ IsMachine(x) /\ Same(a, x, {"output"}) /\ Else(a.output, x.output, {"timestamp"})
                 /\ x.output.timestamp = "ts"
           /\ \A x : x = set_msg(a) =>
                 /\ IsMachine(x) /\ Same(a, x, {"output"}) /\ Else(a.output, x.output, {"message"})
                 /\ x.output.message = a.text
<1> USE DEF OutputFields
<1>1. ASSUME NEW x, x = set_prival(a)
      PROVE  /\ IsMachine(x) /\ Same(a, x, {"output"}) /\ Else(a.output, x.output, {"priority"})
             /\ x.output.priority = UnsafeUTF8DecimalCodePointsToInt(a.text)
  <2> DEFINE v == UnsafeUTF8DecimalCodePointsToInt(a.text)
  <2>1. x = [a EXCEPT !.output.priority = v]
    BY <1>1, Zenon DEF set_prival
  <2> HIDE DEF v
  <2>2. x = [a EXCEPT !.output["priority"] = v]
    BY <2>1
  <2>3. /\ IsMachine(x) /\ Same(a, x, {"output"}) /\ Else(a.output, x.output, {"priority"})
        /\ x.output["priority"] = v
    BY <2>2, OutputIs
  <2> QED
    BY <2>3 DEF v
<1>2. ASSUME NEW x, x = set_version(a)
      PROVE  /\ IsMachine(x) /\ Same(a, x, {"output"}) /\ Else(a.output, x.output, {"version"})
             /\ x.output.version = UnsafeUTF8DecimalCodePointsToInt(a.text)
  <2> DEFINE v == UnsafeUTF8DecimalCodePointsToInt(a.text)
  <2>1. x = [a EXCEPT !.output.version = v]
    BY <1>2, Zenon DEF set_version
  <2> HIDE DEF v
  <2>2. x = [a EXCEPT !.output["version"] = v]
    BY <2>1
  <2>3. /\ IsMachine(x) /\ Same(a, x, {"output"}) /\ Else(a.output, x.output, {"version"})
        /\ x.output["version"] = v
    BY <2>2, OutputIs
  <2> QED
    BY <2>3 DEF v
<1>3. ASSUME NEW x, x = set_timestamp(a), a.text = <<"ts">>
      PROVE  /\ IsMachine(x) /\ Same(a, x, {"output"}) /\ Else(a.output, x.output, {"timestamp"})
             /\ x.output.timestamp = "ts"
  <2>1. x = [a EXCEPT !.output.timestamp = "ts"]
    BY <1>3, Zenon DEF set_timestamp
  <2>2. x = [a EXCEPT !.output["timestamp"] = "ts"]
    BY <2>1
  <2> QED
    BY <2>2, OutputIs
<1>4. ASSUME NEW x, x = set_msg(a)
      PROVE  /\ IsMachine(x) /\ Same(a, x, {"output"}) /\ Else(a.output, x.output, {"message"})
             /\ x.output.message = a.text
  <2>1. x = [a EXCEPT !.output["message"] = a.text]
    BY <1>4 DEF set_msg
  <2> QED
    BY <2>1, OutputIs
<1> QED
  BY <1>1, <1>2, <1>3, <1>4

(* One of the four names.                                                   *)
LEMMA SetNameIs ==
    ASSUME NEW a, IsMachine(a), DOMAIN a.output.name = NameFields, NEW f \in NameFields,
           NEW x, x = set_name(a, f)
    PROVE  /\ IsMachine(x) /\ Same(a, x, {"output"}) /\ Else(a.output, x.output, {"name"})
           /\ DOMAIN x.output.name = NameFields /\ x.output.name[f] = a.text
           /\ \A g \in NameFields \ {f} : x.output.name[g] = a.output.name[g]
<1> DEFINE w == [a.output.name EXCEPT ![f] = a.text]
<1>1. x = [a EXCEPT !.output["name"] = w]
  BY DEF set_name
<1>2. /\ DOMAIN w = NameFields /\ w[f] = a.text
      /\ \A g \in NameFields \ {f} : w[g] = a.output.name[g]
  OBVIOUS
<1> HIDE DEF w
<1>3. "name" \in OutputFields
  BY DEF OutputFields
<1>4. IsMachine(x) /\ Same(a, x, {"output"}) /\ x.output["name"] = w /\ Else(a.output, x.output, {"name"})
  BY <1>1, <1>3, OutputIs
<1> QED
  BY <1>2, <1>4

(* The actions of the structured data.                                      *)
LEMMA DataSettersAre ==
    ASSUME NEW a, IsMachine(a)
    PROVE  /\ \A x : x = set_id(a) /\ a.text \notin DOMAIN Data(a) =>
                 /\ IsMachine(x) /\ Same(a, x, {"output", "currentelem"})
                 /\ Else(a.output, x.output, {"structuredData", "hasElements"})
                 /\ Data(x) = Put(Data(a), a.text, EmptyMap)
                 /\ x.output.hasElements = TRUE /\ x.currentelem = a.text
           /\ \A x : x = set_paramvalue(a) =>
                 /\ IsMachine(x) /\ Same(a, x, {"output"})
                 /\ Else(a.output, x.output, {"structuredData"})
                 /\ Data(x) = [Data(a) EXCEPT ![a.currentelem] =
                                 Put(Data(a)[a.currentelem], a.currentparam,
                                     RemoveBytes(a.text, a.backslashat))]
           /\ \A x : x = set_paramname(a) =>
                 /\ IsMachine(x) /\ Same(a, x, {"currentparam"}) /\ x.currentparam = a.text
           /\ \A x : x = ini_sdparam(a) =>
                 /\ IsMachine(x) /\ Same(a, x, {"backslashat"}) /\ x.backslashat = {}
<1>1. ASSUME NEW x, x = set_id(a), a.text \notin DOMAIN Data(a)
      PROVE  /\ IsMachine(x) /\ Same(a, x, {"output", "currentelem"})
             /\ Else(a.output, x.output, {"structuredData", "hasElements"})
             /\ Data(x) = Put(Data(a), a.text, EmptyMap)
             /\ x.output.hasElements = TRUE /\ x.currentelem = a.text
  <2> DEFINE d == Put(Data(a), a.text, EmptyMap)
  <2>1. x = [a EXCEPT !.output.structuredData = d, !.output.hasElements = TRUE,
                      !.currentelem = a.text]
    BY <1>1, Zenon DEF set_id, Data
  <2> HIDE DEF d
  <2> QED
    <3>1. /\ IsMachine(x) /\ Data(x) = d
          /\ x.output.hasElements = TRUE /\ x.currentelem = a.text
      BY <2>1 DEF IsMachine, Fields, OutputFields, Data
    <3>2. Same(a, x, {"output", "currentelem"})
      BY <2>1 DEF IsMachine, Fields, Same
    <3>3. Else(a.output, x.output, {"structuredData", "hasElements"})
      BY <2>1 DEF IsMachine, Fields, OutputFields, Else
    <3> QED
      BY <3>1, <3>2, <3>3 DEF d
<1>2. ASSUME NEW x, x = set_paramvalue(a)
      PROVE  /\ IsMachine(x) /\ Same(a, x, {"output"})
             /\ Else(a.output, x.output, {"structuredData"})
             /\ Data(x) = [Data(a) EXCEPT ![a.currentelem] =
                             Put(Data(a)[a.currentelem], a.currentparam,
                                 RemoveBytes(a.text, a.backslashat))]
  <2> DEFINE d == [Data(a) EXCEPT ![a.currentelem] =
                    Put(Data(a)[a.currentelem], a.currentparam, RemoveBytes(a.text, a.backslashat))]
  <2>1. x = [a EXCEPT !.output.structuredData = d]
    BY <1>2, Zenon DEF set_paramvalue, Data
  <2> HIDE DEF d
  <2>3. /\ IsMachine(x) /\ Same(a, x, {"output"}) /\ x.output["structuredData"] = d
        /\ Else(a.output, x.output, {"structuredData"})
    <3>1. IsMachine(x) /\ Same(a, x, {"output"})
      BY <2>1 DEF IsMachine, Fields, OutputFields, Same
    <3>2. x.output["structuredData"] = d /\ Else(a.output, x.output, {"structuredData"})
      BY <2>1 DEF IsMachine, Fields, OutputFields, Else
    <3> QED
      BY <3>1, <3>2
  <2> QED
    BY <2>3 DEF d, Data
<1>3. ASSUME NEW x, x = set_paramname(a)
      PROVE  IsMachine(x) /\ Same(a, x, {"currentparam"}) /\ x.currentparam = a.text
  BY <1>3 DEF set_paramname, IsMachine, Fields, Same
<1>4. ASSUME NEW x, x = ini_sdparam(a)
      PROVE  IsMachine(x) /\ Same(a, x, {"backslashat"}) /\ x.backslashat = {}
  BY <1>4 DEF ini_sdparam, IsMachine, Fields, Same
<1> QED
  <2>1. \A x : x = set_id(a) /\ a.text \notin DOMAIN Data(a) =>
                 /\ IsMachine(x) /\ Same(a, x, {"output", "currentelem"})
                 /\ Else(a.output, x.output, {"structuredData", "hasElements"})
                 /\ Data(x) = Put(Data(a), a.text, EmptyMap)
                 /\ x.output.hasElements = TRUE /\ x.currentelem = a.text
    BY <1>1, Zenon
  <2>2. \A x : x = set_paramvalue(a) =>
                 /\ IsMachine(x) /\ Same(a, x, {"output"})
                 /\ Else(a.output, x.output, {"structuredData"})
                 /\ Data(x) = [Data(a) EXCEPT ![a.currentelem] =
                                 Put(Data(a)[a.currentelem], a.currentparam,
                                     RemoveBytes(a.text, a.backslashat))]
    BY <1>2, Zenon
  <2> QED
    BY <2>1, <2>2, <1>3, <1>4, Zenon

(* Elements do not disturb the other fields.                                *)
LEMMA GotKept ==
    ASSUME NEW o, NEW p, NEW F, Got(o, F), Else(o, p, {"structuredData", "hasElements"})
    PROVE  Got(p, F)
  BY DEF Got, Else, OutputFields

(* The first states, at a token of the string.                              *)
LEMMA MainPlace ==
    ASSUME NEW a, IsMachine(a), BuilderInv, HasString, NEW c \in Tokens, NEW r \in Seq(Tokens),
           AtMain(a, <<c>> \o r)
    PROVE  At(Step(a, c), r)
<1> DEFINE x == Goto(a, "prival")
           part == Decimal(sm.priority)
           tail == <<">">> \o FromVersion
<1>1. FromPriority \in Seq(Tokens) /\ "<" \in Tokens /\ part \in Seq(Tokens) /\ tail \in Seq(Tokens)
  BY BehindIs, NumbersAre DEF Tokens
<1>2. c = "<" /\ r = FromPriority
  <2>1. <<c>> \o r = <<"<">> \o FromPriority
    BY DEF AtMain
  <2> QED
    BY <1>1, <2>1, FirstOf, Zenon
<1>3. Step(a, c) = x
  <2>1. Step(a, c) = main(a, c)
    BY StepOf DEF AtMain
  <2> QED
    BY <1>2, <2>1, Zenon DEF main
<1> HIDE DEF x
<1>4. x.cs = "prival" /\ x.text = <<>> /\ x.output = a.output
  BY GotoIs DEF x, Same, Fields
<1>5. Mid(x.text, r, part, tail)
  <2> HIDE DEF part, tail
  <2>1. FromPriority = part \o tail
    BY DEF FromPriority, part, tail
  <2> QED
    BY <1>1, <1>2, <1>4, <2>1, MidBegins
<1>6. AtPrival(x, r)
  BY <1>4, <1>5 DEF AtPrival, AtMain
<1> QED
  BY <1>3, <1>6 DEF At

(* Three digits are enough for both numbers.                                *)
LEMMA SmallNumbers ==
    ASSUME BuilderInv, HasString
    PROVE  /\ sm.priority \in Nat /\ sm.priority <= 191
           /\ sm.version \in Nat /\ sm.version # 0
           /\ \A n \in 1..3 : n # 0
<1> DEFINE p == sm.priority
           v == sm.version
<1>1. p \in 0..191 /\ v \in 1..999
  BY NumbersAre
<1> HIDE DEF p, v
<1>2. p \in Nat /\ p <= 191 /\ v \in Nat /\ v # 0
  BY <1>1
<1> QED
  BY <1>2 DEF p, v

(* In the priority the machine sees its digits, then the bracket.           *)
LEMMA PrivalPlace ==
    ASSUME NEW a, IsMachine(a), BuilderInv, HasString, NEW c \in Tokens, NEW r \in Seq(Tokens),
           AtPrival(a, <<c>> \o r)
    PROVE  At(Step(a, c), r)
<1> DEFINE part == Decimal(sm.priority)
           tail == <<">">> \o FromVersion
           n == IF NotMarked(a) THEN a ELSE set_prival(a)
<1>1. /\ part \in Seq(Tokens) /\ tail \in Seq(Tokens) /\ FromVersion \in Seq(Tokens)
      /\ part \in Seq(Digits) /\ Len(part) \in 1..3
      /\ UnsafeUTF8DecimalCodePointsToInt(part) = sm.priority
      /\ \A k \in 1..Len(part) : SubSeq(part, 1, k) \in Privals
  <2>1. Numeral(part, sm.priority) /\ sm.priority \in 0..191 /\ part \in Seq(Tokens)
    BY NumbersAre
  <2> HIDE DEF part
  <2>2. sm.priority \in Nat /\ sm.priority <= 191
    BY SmallNumbers
  <2>3. \A k \in 1..Len(part) : SubSeq(part, 1, k) \in Privals
    BY <2>1, <2>2, NumeralBegins
  <2> QED
    BY <2>1, <2>3, BehindIs DEF Numeral
<1>2. Step(a, c) = prival(a, c) /\ Mid(a.text, <<c>> \o r, part, tail)
  BY StepOf DEF AtPrival
<1> HIDE DEF part, tail
<1>3. a.text \in Seq(Tokens) /\ Len(a.text) \in Nat /\ (NotMarked(a) <=> Len(a.text) = 0)
  BY <1>1, <1>2, MidStep DEF NotMarked
<1>4. IsMachine(n) /\ Same(a, n, {"output"}) /\ Else(a.output, n.output, {"priority"})
      /\ (~NotMarked(a) => n.output.priority = UnsafeUTF8DecimalCodePointsToInt(a.text))
  BY SettersAre DEF Same, Else
<1> HIDE DEF n
<1>5. CASE /\ Len(a.text) < Len(part) /\ c = part[Len(a.text) + 1]
           /\ Append(a.text, c) = SubSeq(part, 1, Len(a.text) + 1)
           /\ Mid(Append(a.text, c), r, part, tail)
  <2> DEFINE x == Take(n, c)
  <2>1. c \in Digits /\ Append(a.text, c) \in Privals
    BY <1>1, <1>3, <1>5
  <2>2. c # ">"
    BY <2>1 DEF Digits
  <2>3. Step(a, c) = x
    BY <1>2, <2>1, <2>2, Zenon DEF prival, n
  <2> HIDE DEF x
  <2>4. x.text = Append(a.text, c) /\ x.cs = "prival" /\ x.output = n.output
    BY <1>4, TakeIs DEF x, Same, Fields, AtPrival
  <2>5. Got(x.output, {}) /\ NoData(x.output)
    BY <1>4, <2>4 DEF Got, NoData, Else, OutputFields, AtPrival
  <2>6. AtPrival(x, r)
    BY <1>5, <2>4, <2>5 DEF AtPrival, part, tail
  <2> QED
    BY <2>3, <2>6 DEF At
<1>6. CASE a.text = part /\ <<c>> \o r = tail
  <2> DEFINE x == Goto(n, "version")
             part2 == Decimal(sm.version)
             tail2 == <<" ">> \o (<<Stamp>> \o BehindStamp)
  <2>1. c = ">" /\ r = FromVersion
    <3>1. ">" \in Tokens
      BY DEF Tokens
    <3>2. <<c>> \o r = <<">">> \o FromVersion
      BY <1>6 DEF tail
    <3>3. SameText(c, r, ">", FromVersion)
      BY <1>1, <3>1, <3>2 DEF SameText
    <3> QED
      BY <3>3, SameBegins
  <2>2. ~NotMarked(a)
    <3>1. Len(part) \in 1..3 /\ a.text = part
      BY <1>1, <1>6
    <3>2. Len(a.text) # 0
      BY <3>1, SmallNumbers, Zenon
    <3> QED
      BY <1>3, <3>2, Zenon
  <2>3. Step(a, c) = x
    BY <1>2, <2>1, <2>2, Zenon DEF prival, n
  <2> HIDE DEF x
  <2>4. x.text = <<>> /\ x.cs = "version" /\ x.output = n.output
    <3>1. x.text = <<>> /\ x.cs = "version" /\ Same(n, x, {"cs", "text"})
      BY <1>4, GotoIs DEF x
    <3> QED
      BY <3>1 DEF Same, Fields
  <2>5. Got(x.output, {"priority"}) /\ NoData(x.output)
    <3>1. x.output.priority = sm.priority
      BY <1>1, <1>4, <1>6, <2>2, <2>4
    <3>2. Got(a.output, {}) /\ NoData(a.output) /\ Else(a.output, x.output, {"priority"})
      BY <1>4, <2>4 DEF AtPrival
    <3> QED
      BY <3>1, <3>2 DEF Got, NoData, Else, OutputFields, NameFields
  <2>6. Mid(x.text, r, part2, tail2)
    <3>1. part2 \in Seq(Tokens) /\ tail2 \in Seq(Tokens) /\ r = part2 \o tail2
      BY <2>1, NumbersAre, BehindIs DEF FromVersion
    <3> HIDE DEF part2, tail2
    <3> QED
      BY <2>4, <3>1, MidBegins
  <2>7. AtVersion(x, r)
    BY <2>4, <2>5, <2>6 DEF AtVersion
  <2> QED
    BY <2>3, <2>7 DEF At
<1> QED
  BY <1>1, <1>2, <1>5, <1>6, MidStep, SMTT(30)

(* In the version it sees its digits, then a space.                         *)
LEMMA VersionPlace ==
    ASSUME NEW a, IsMachine(a), BuilderInv, HasString, NEW c \in Tokens, NEW r \in Seq(Tokens),
           AtVersion(a, <<c>> \o r)
    PROVE  At(Step(a, c), r)
<1> DEFINE part == Decimal(sm.version)
           tail == <<" ">> \o (<<Stamp>> \o BehindStamp)
           n == set_version(a)
<1>1. /\ part \in Seq(Tokens) /\ tail \in Seq(Tokens) /\ <<Stamp>> \o BehindStamp \in Seq(Tokens)
      /\ part \in Seq(Digits) /\ Len(part) \in 1..3 /\ part[1] # "0"
      /\ UnsafeUTF8DecimalCodePointsToInt(part) = sm.version
  <2>1. Numeral(part, sm.version) /\ sm.version \in 1..999 /\ part \in Seq(Tokens)
    BY NumbersAre
  <2> HIDE DEF part
  <2>2. sm.version \in Nat /\ sm.version # 0
    BY SmallNumbers
  <2>3. part[1] # "0"
    BY <2>1, <2>2, NumeralBegins
  <2> QED
    BY <2>1, <2>3, BehindIs DEF Numeral
<1>2. Step(a, c) = version(a, c) /\ Mid(a.text, <<c>> \o r, part, tail)
  BY StepOf DEF AtVersion
<1> HIDE DEF part, tail
<1>3. a.text \in Seq(Tokens) /\ Len(a.text) \in Nat /\ (NotMarked(a) <=> Len(a.text) = 0)
  BY <1>1, <1>2, MidStep DEF NotMarked
<1>4. IsMachine(n) /\ Same(a, n, {"output"}) /\ Else(a.output, n.output, {"version"})
      /\ n.output.version = UnsafeUTF8DecimalCodePointsToInt(a.text)
  BY SettersAre
<1> HIDE DEF n
<1>5. CASE /\ Len(a.text) < Len(part) /\ c = part[Len(a.text) + 1]
           /\ Append(a.text, c) = SubSeq(part, 1, Len(a.text) + 1)
           /\ Mid(Append(a.text, c), r, part, tail)
  <2> DEFINE x == Step(a, c)
  <2>1. c \in Digits /\ c # " "
    <3>1. c \in Digits
      BY <1>1, <1>3, <1>5
    <3> QED
      BY <3>1 DEF Digits
  <2>2. x = Take(a, c) \/ x = Take(n, c)
    <3>1. CASE NotMarked(a)
      <4>1. c # "0"
        BY <1>1, <1>3, <1>5, <3>1
      <4> QED
        BY <1>2, <2>1, <3>1, <4>1, Zenon DEF version
    <3>2. CASE ~NotMarked(a)
      <4>1. Len(a.text) < 3
        BY <1>1, <1>3, <1>5
      <4> QED
        BY <1>2, <2>1, <3>2, <4>1, Zenon DEF version, n
    <3> QED
      BY <3>1, <3>2
  <2> HIDE DEF x
  <2>3. x.text = Append(a.text, c) /\ x.cs = "version" /\ Else(a.output, x.output, {"version"})
    <3>1. CASE x = Take(a, c)
      <4>1. Same(a, x, {"text"}) /\ x.text = Append(a.text, c) /\ a.cs = "version"
        BY <3>1, TakeIs DEF AtVersion
      <4> QED
        BY <4>1 DEF Same, Fields, Else
    <3>2. CASE x = Take(n, c)
      <4>1. Same(n, x, {"text"}) /\ x.text = Append(n.text, c) /\ a.cs = "version"
        BY <1>4, <3>2, TakeIs DEF AtVersion
      <4> QED
        BY <1>4, <4>1 DEF Same, Fields, Else
    <3> QED
      BY <2>2, <3>1, <3>2
  <2>4. Got(x.output, {"priority"}) /\ NoData(x.output)
    BY <2>3 DEF Got, NoData, Else, OutputFields, AtVersion
  <2>5. AtVersion(x, r)
    BY <1>5, <2>3, <2>4 DEF AtVersion, part, tail
  <2> QED
    BY <2>5 DEF At, x
<1>6. CASE a.text = part /\ <<c>> \o r = tail
  <2> DEFINE x == Goto(n, "timestamp")
  <2>1. c = " " /\ r = <<Stamp>> \o BehindStamp
    <3>1. " " \in Tokens
      BY DEF Tokens, NotGraph
    <3> DEFINE s == <<Stamp>> \o BehindStamp
    <3> HIDE DEF s
    <3>2. s \in Seq(Tokens) /\ <<c>> \o r = <<" ">> \o s
      BY <1>1, <1>6 DEF tail, s
    <3>3. SameText(c, r, " ", s)
      BY <3>1, <3>2 DEF SameText
    <3> QED
      BY <3>3, SameBegins DEF s
  <2>2. ~NotMarked(a)
    <3>1. Len(part) \in 1..3 /\ a.text = part
      BY <1>1, <1>6
    <3>2. Len(a.text) # 0
      BY <3>1, SmallNumbers, Zenon
    <3> QED
      BY <1>3, <3>2, Zenon
  <2>3. Step(a, c) = x
    BY <1>2, <2>1, <2>2, Zenon DEF version, n
  <2> HIDE DEF x
  <2>4. x.text = <<>> /\ x.cs = "timestamp" /\ x.output = n.output
    <3>1. x.text = <<>> /\ x.cs = "timestamp" /\ Same(n, x, {"cs", "text"})
      BY <1>4, GotoIs DEF x
    <3> QED
      BY <3>1 DEF Same, Fields
  <2>5. Got(x.output, {"priority", "version"}) /\ NoData(x.output)
    <3>1. x.output.version = sm.version
      BY <1>1, <1>4, <1>6, <2>4
    <3>2. Got(a.output, {"priority"}) /\ NoData(a.output) /\ Else(a.output, x.output, {"version"})
      BY <1>4, <2>4 DEF AtVersion
    <3> QED
      BY <3>1, <3>2 DEF Got, NoData, Else, OutputFields, NameFields
  <2>6. Mid(x.text, r, <<Stamp>>, BehindStamp)
    BY <2>1, <2>4, NumbersAre, BehindIs, OneToken, MidBegins
  <2>7. AtTimestamp(x, r)
    BY <2>4, <2>5, <2>6 DEF AtTimestamp
  <2> QED
    BY <2>3, <2>7 DEF At
<1> QED
  BY <1>1, <1>2, <1>5, <1>6, MidStep, SMTT(30)

(* The timestamp is one token, and a space follows.                         *)
LEMMA TimestampPlace ==
    ASSUME NEW a, IsMachine(a), BuilderInv, HasString, NEW c \in Tokens, NEW r \in Seq(Tokens),
           AtTimestamp(a, <<c>> \o r)
    PROVE  At(Step(a, c), r)
<1> DEFINE part == <<Stamp>>
           tail == BehindStamp
           rest == Text("hostname") \o BehindHostname
           T(k) == IF k.text = <<"-">> THEN k ELSE set_timestamp(k)
           F(k) == IF k.cs = "fail" THEN k
                   ELSE IF c = " " THEN Goto(k, "hostname") ELSE Fail(k, "ErrParse")
           n == T(a)
<1>1. /\ part \in Seq(Tokens) /\ tail \in Seq(Tokens) /\ Stamp \in Tokens /\ Len(part) = 1
      /\ sm.timestamp \in {"", "ts"} /\ "hostname" \in NameFields
      /\ Text("hostname") \in Seq(Tokens) /\ BehindHostname \in Seq(Tokens)
  <2>1. "hostname" \in NameFields /\ Behind("hostname") = BehindHostname
    BY DEF NameFields, Behind
  <2> QED
    BY <2>1, NumbersAre, BehindIs, NamesAre, OneToken
<1>b. part \in Seq(Tokens) /\ tail \in Seq(Tokens)
  BY <1>1
<1>c. Len(part) = 1 /\ part[1] = Stamp
  BY DEF part
<1>2. Step(a, c) = timestamp(a, c) /\ Mid(a.text, <<c>> \o r, part, tail) /\ a.cs = "timestamp"
  BY StepOf DEF AtTimestamp
<1>3. rest \in Seq(Tokens) /\ tail = <<" ">> \o rest
  BY <1>1, Joined DEF BehindStamp
<1> HIDE DEF part, tail, rest, T, F, n
<1>4. a.text \in Seq(Tokens) /\ Len(a.text) \in Nat /\ (NotMarked(a) <=> Len(a.text) = 0)
  <2>1. Mid(a.text, <<c>> \o r, part, tail)
    BY <1>2
  <2>2. a.text \in Seq(Tokens)
    BY <1>b, <2>1, MidStep
  <2> QED
    BY <2>2 DEF NotMarked
<1>5. CASE /\ Len(a.text) < Len(part) /\ c = part[Len(a.text) + 1]
           /\ Append(a.text, c) = SubSeq(part, 1, Len(a.text) + 1)
           /\ Mid(Append(a.text, c), r, part, tail)
  <2> DEFINE x == Take(a, c)
  <2>1. NotMarked(a) /\ c = Stamp
    BY <1>c, <1>4, <1>5
  <2>2. c \in Stamps \cup {"-"}
    BY <1>1, <2>1 DEF Stamp, Stamps
  <2>3. Step(a, c) = x
    BY <1>2, <2>1, <2>2, Zenon DEF timestamp
  <2> HIDE DEF x
  <2>4. x.text = Append(a.text, c) /\ Same(a, x, {"text"})
    BY TakeIs DEF x
  <2>5. x.cs = "timestamp" /\ x.output = a.output
    BY <1>2, <2>4 DEF Same, Fields
  <2>6. AtTimestamp(x, r)
    BY <1>5, <2>4, <2>5 DEF AtTimestamp, tail, part
  <2> QED
    BY <2>3, <2>6 DEF At
<1>6. CASE a.text = part /\ <<c>> \o r = tail
  <2> DEFINE x == Goto(n, "hostname")
  <2>1. c = " " /\ r = rest
    <3>1. " " \in Tokens
      BY DEF Tokens, NotGraph
    <3>2. <<c>> \o r = <<" ">> \o rest
      BY <1>3, <1>6
    <3> QED
      BY <1>3, <3>1, <3>2, FirstOf
  <2>2. ~NotMarked(a)
    <3>1. a.text = part
      BY <1>6
    <3>2. Len(a.text) = 1
      BY <1>c, <3>1, Zenon
    <3> QED
      BY <1>4, <3>2
  <2>3. /\ IsMachine(n) /\ Same(a, n, {"output"}) /\ Else(a.output, n.output, {"timestamp"})
        /\ n.output.timestamp = sm.timestamp
    <3>1. CASE sm.timestamp = ""
      <4>1. a.text = <<"-">>
        BY <1>6, <3>1 DEF Stamp, part
      <4>2. n = a
        BY <4>1, Zenon DEF n, T
      <4>3. a.output.timestamp = ""
        BY DEF AtTimestamp, Got
      <4> QED
        BY <3>1, <4>2, <4>3 DEF Same, Else
    <3>2. CASE sm.timestamp = "ts"
      <4>1. a.text = <<"ts">>
        BY <1>6, <3>2 DEF Stamp, part
      <4>2. n = set_timestamp(a)
        BY <4>1 DEF n, T
      <4> QED
        BY <3>2, <4>1, <4>2, SettersAre
    <3> QED
      BY <1>1, <3>1, <3>2
  <2>4. timestamp(a, c) = F(n)
    BY <2>2, Zenon DEF timestamp, Then, F, n, T
  <2>5. n.cs = "timestamp"
    BY <1>2, <2>3 DEF Same, Fields
  <2>6. Step(a, c) = x
    BY <1>2, <2>1, <2>4, <2>5 DEF F
  <2> HIDE DEF x
  <2>7. x.text = <<>> /\ x.cs = "hostname" /\ Same(n, x, {"cs", "text"})
    BY <2>3, GotoIs DEF x
  <2>8. x.output = n.output
    BY <2>7 DEF Same, Fields
  <2>9. Got(x.output, Before("hostname")) /\ NoData(x.output)
    <3>1. Got(a.output, {"priority", "version"}) /\ NoData(a.output)
      BY DEF AtTimestamp
    <3>2. Before("hostname") = {"priority", "version", "timestamp"}
      BY DEF Before
    <3> QED
      BY <2>3, <2>8, <3>1, <3>2 DEF Got, NoData, Else, OutputFields, NameFields
  <2>10. Mid(x.text, r, Text("hostname"), Behind("hostname"))
    <3>1. Mid(<<>>, rest, Text("hostname"), BehindHostname)
      BY <1>1, MidBegins DEF rest
    <3> QED
      BY <2>1, <2>7, <3>1 DEF Behind
  <2>11. AtName(x, r)
    BY <1>1, <2>7, <2>9, <2>10 DEF AtName
  <2> QED
    BY <2>6, <2>11 DEF At
<1> QED
  <2>1. Mid(a.text, <<c>> \o r, part, tail)
    BY <1>2
  <2> QED
    BY <1>b, <1>5, <1>6, <2>1, MidStep

(* Which rule reads a token behind the timestamp.                           *)
LEMMA StepLater ==
    ASSUME NEW n, NEW c
    PROVE  /\ n.cs \in NameFields => Step(n, c) = nameField(n, c, n.cs)
           /\ n.cs = "structureddata" => Step(n, c) = structureddata(n, c)
           /\ n.cs = "nilvalue" => Step(n, c) = nilvalue(n, c)
           /\ n.cs = "sdid" => Step(n, c) = sdid(n, c)
           /\ n.cs = "sdparam" => Step(n, c) = sdparam(n, c)
           /\ n.cs = "dq" => Step(n, c) = dq(n, c)
           /\ n.cs = "paramvalue" => Step(n, c) = paramvalue(n, c)
           /\ n.cs = "escapes" => Step(n, c) = escapes(n, c)
           /\ n.cs = "paramend" => Step(n, c) = paramend(n, c)
           /\ n.cs = "sdend" => Step(n, c) = sdend(n, c)
           /\ n.cs = "msg" => Step(n, c) = msg(n, c)
  BY DEF Step, NameFields

(* What is behind a name is a space and the next field.                     *)
Next4(f) == IF f = "msgid" THEN FromData
            ELSE Text(Following[f]) \o Behind(Following[f])

(* Behind a name there is a space and what follows.                         *)
LEMMA BehindNameIs ==
    ASSUME BuilderInv, HasString, NEW f \in NameFields
    PROVE  Next4(f) \in Seq(Tokens) /\ Behind(f) = <<" ">> \o Next4(f) /\ Behind(f) \in Seq(Tokens)
<1>1. Behind(f) \in Seq(Tokens)
  BY BehindIs
<1>2. CASE f = "msgid"
  BY <1>1, <1>2, DataIs DEF Next4, Behind, BehindMsgid
<1>3. CASE f # "msgid"
  <2> DEFINE g == Following[f]
  <2>1. g \in NameFields /\ Next4(f) = Text(g) \o Behind(g)
    BY <1>3 DEF NameFields, Following, Next4
  <2>2. Behind(f) = <<" ">> \o (Text(g) \o Behind(g))
    <3>1. CASE f = "hostname"
      BY <3>1 DEF Following, Behind, BehindHostname
    <3>2. CASE f = "appname"
      BY <3>2 DEF Following, Behind, BehindAppname
    <3>3. CASE f = "procid"
      BY <3>3 DEF Following, Behind, BehindProcid
    <3> QED
      BY <1>3, <3>1, <3>2, <3>3 DEF NameFields
  <2> HIDE DEF g
  <2>3. Text(g) \in Seq(Tokens) /\ Behind(g) \in Seq(Tokens)
    BY <2>1, NamesAre, BehindIs
  <2>4. Text(g) \o Behind(g) \in Seq(Tokens)
    BY <2>3, Joined
  <2> QED
    BY <1>1, <2>1, <2>2, <2>4
<1> QED
  BY <1>2, <1>3

(* In a name the machine sees a token of it, or the space behind it.        *)
LEMMA NamePlace ==
    ASSUME NEW a, IsMachine(a), BuilderInv, HasString, NEW c \in Tokens, NEW r \in Seq(Tokens),
           AtName(a, <<c>> \o r)
    PROVE  At(Step(a, c), r)
<1> DEFINE f == a.cs
           part == Text(f)
           tail == Behind(f)
           most == NameRange[f]
<1>1. f \in NameFields /\ Got(a.output, Before(f)) /\ NoData(a.output)
  BY DEF AtName
<1>2. Step(a, c) = nameField(a, c, f) /\ Mid(a.text, <<c>> \o r, part, tail)
  BY <1>1, StepLater DEF AtName
<1>3. /\ part \in Seq(Tokens) /\ tail \in Seq(Tokens) /\ Len(part) \in 1..NameRange[f]
      /\ \A k \in 1..Len(part) : part[k] \in Tokens \ NotGraph
  BY <1>1, NamesAre, BehindNameIs
<1>4. NameRange[f] \in Nat /\ Next4(f) \in Seq(Tokens) /\ tail = <<" ">> \o Next4(f)
  BY <1>1, BehindNameIs, Rfc5424Assumption
<1> HIDE DEF f, part, tail, most
<1>e. most \in Nat /\ Len(part) \in 1..most
  BY <1>3, <1>4 DEF most
<1>5. a.text \in Seq(Tokens) /\ Len(a.text) \in Nat /\ (NotMarked(a) <=> Len(a.text) = 0)
  <2>1. a.text \in Seq(Tokens)
    BY <1>2, <1>3, MidStep
  <2> QED
    BY <2>1 DEF NotMarked
<1>6. CASE /\ Len(a.text) < Len(part) /\ c = part[Len(a.text) + 1]
           /\ Append(a.text, c) = SubSeq(part, 1, Len(a.text) + 1)
           /\ Mid(Append(a.text, c), r, part, tail)
  <2> DEFINE x == Take(a, c)
  <2>1. c \in Tokens \ NotGraph /\ Fits(a, f)
    <3>1. Len(a.text) + 1 \in 1..Len(part) /\ Len(a.text) < NameRange[f]
      <4>1. Len(a.text) + 1 \in 1..Len(part) /\ Len(a.text) < most
        BY <1>e, <1>5, <1>6
      <4> QED
        BY <4>1 DEF most
    <3>2. c = part[Len(a.text) + 1]
      BY <1>6
    <3> QED
      BY <1>3, <3>1, <3>2 DEF Fits
  <2>2. Step(a, c) = x
    BY <1>2, <2>1, Zenon DEF nameField
  <2> HIDE DEF x
  <2>3. x.text = Append(a.text, c) /\ Same(a, x, {"text"})
    BY TakeIs DEF x
  <2>4. x.cs = f /\ x.output = a.output
    BY <2>3 DEF Same, Fields, f
  <2>5. AtName(x, r)
    <3>1. Mid(x.text, r, Text(x.cs), Behind(x.cs))
      BY <1>6, <2>3, <2>4, Zenon DEF part, tail
    <3> QED
      BY <1>1, <2>4, <3>1 DEF AtName
  <2> QED
    BY <2>2, <2>5 DEF At
<1>7. CASE a.text = part /\ <<c>> \o r = tail
  <2> DEFINE n == set_name(a, f)
             x == Goto(n, Following[f])
  <2>1. c = " " /\ r = Next4(f)
    <3>1. " " \in Tokens
      BY DEF Tokens, NotGraph
    <3>2. <<c>> \o r = <<" ">> \o Next4(f)
      BY <1>4, <1>7
    <3> QED
      BY <1>4, <3>1, <3>2, FirstOf
  <2>2. ~NotMarked(a)
    <3>1. Len(part) # 0
      BY <1>e
    <3>2. Len(a.text) # 0
      BY <1>7, <3>1, Zenon
    <3> QED
      BY <1>5, <3>2
  <2>3. c \in NotGraph
    BY <2>1 DEF NotGraph
  <2>4. Step(a, c) = x
    BY <1>2, <2>1, <2>2, <2>3, Zenon DEF nameField
  <2> HIDE DEF n, x
  <2>5. /\ IsMachine(n) /\ Same(a, n, {"output"}) /\ Else(a.output, n.output, {"name"})
        /\ DOMAIN n.output.name = NameFields /\ n.output.name[f] = Text(f)
        /\ \A g \in NameFields \ {f} : n.output.name[g] = a.output.name[g]
    <3>1. a.text = Text(f)
      BY <1>7 DEF part
    <3>2. DOMAIN a.output.name = NameFields
      BY <1>1 DEF Got
    <3>3. n.output.name[f] = a.text
      BY <1>1, <3>2, SetNameIs DEF n
    <3> QED
      BY <1>1, <3>1, <3>2, <3>3, SetNameIs DEF n
  <2>6. x.text = <<>> /\ x.cs = Following[f] /\ x.output = n.output
    <3>1. Same(n, x, {"cs", "text"}) /\ x.text = <<>> /\ x.cs = Following[f]
      BY <2>5, GotoIs DEF x
    <3> QED
      BY <3>1 DEF Same, Fields
  <2>7. Got(x.output, Before(f) \cup {f}) /\ NoData(x.output)
    <3>1. NoData(x.output)
      BY <1>1, <2>5, <2>6 DEF NoData, Else, OutputFields
    <3>2. /\ x.output.message = <<>> /\ x.output.timestamp = a.output.timestamp
          /\ x.output.priority = a.output.priority /\ x.output.version = a.output.version
      BY <1>1, <2>5, <2>6 DEF Got, Else, OutputFields
    <3>3. /\ a.output.priority = sm.priority /\ a.output.version = sm.version
          /\ a.output.timestamp = sm.timestamp
      BY <1>1 DEF Got, Before
    <3>4. \A g \in NameFields \cap (Before(f) \cup {f}) : x.output.name[g] = Text(g)
      BY <1>1, <2>5, <2>6 DEF Got
    <3>5. DOMAIN x.output.name = NameFields /\ "timestamp" \in Before(f)
      BY <2>5, <2>6 DEF Before
    <3>6. Got(x.output, Before(f) \cup {f})
      BY <3>2, <3>3, <3>4, <3>5 DEF Got
    <3> QED
      BY <3>1, <3>6
  <2>8. CASE f = "msgid"
    <3>1. x.cs = "structureddata" /\ r = FromData
      BY <2>1, <2>6, <2>8 DEF Following, Next4
    <3>2. Before(f) \cup {f} = Header
      BY <2>8 DEF Before, Header, NameFields
    <3>3. AtData(x, r)
      BY <2>6, <2>7, <3>1, <3>2 DEF AtData
    <3> QED
      BY <2>4, <3>3 DEF At
  <2>9. CASE f # "msgid"
    <3> DEFINE g == Following[f]
    <3>1. g \in NameFields /\ Before(g) = Before(f) \cup {f} /\ x.cs = g
      BY <1>1, <2>6, <2>9 DEF NameFields, Following, Before
    <3>2. r = Text(g) \o Behind(g)
      BY <2>1, <2>9 DEF Next4
    <3> HIDE DEF g
    <3>3. Text(g) \in Seq(Tokens) /\ Behind(g) \in Seq(Tokens)
      BY <3>1, NamesAre, BehindIs
    <3>4. Mid(<<>>, r, Text(g), Behind(g))
      BY <3>2, <3>3, MidBegins
    <3>5. AtName(x, r)
      BY <2>6, <2>7, <3>1, <3>4 DEF AtName
    <3> QED
      BY <2>4, <3>5 DEF At
  <2> QED
    BY <2>8, <2>9
<1> QED
  BY <1>2, <1>3, <1>6, <1>7, MidStep

(* Into the MSG.                                                            *)
LEMMA MessageBegins ==
    ASSUME NEW a, IsMachine(a), BuilderInv, NEW c \in Tokens, NEW r \in Seq(Tokens),
           <<c>> \o r = FromMessage, Got(a.output, Header),
           a.output.structuredData = sm.structuredData,
           a.output.hasElements \/ sm.structuredData = EmptyMap
    PROVE  c = " " /\ At(Goto(a, "msg"), r)
<1> DEFINE x == Goto(a, "msg")
           text == sm.message
<1>1. text # <<>>
  BY FromMessageIs, First
<1>2. text \in Seq(Tokens) /\ FromMessage = <<" ">> \o text
  BY <1>1, FromMessageIs
<1> HIDE DEF x, text
<1>3. c = " " /\ r = text
  <2>1. " " \in Tokens
    BY DEF Tokens, NotGraph
  <2> QED
    <3>1. SameText(c, r, " ", text)
      BY <1>2, <2>1 DEF SameText
    <3> QED
      BY <3>1, SameBegins
<1>4. x.text = <<>> /\ x.cs = "msg" /\ x.output = a.output
  <2>1. Same(a, x, {"cs", "text"}) /\ x.text = <<>> /\ x.cs = "msg"
    BY GotoIs DEF x
  <2> QED
    BY <2>1 DEF Same, Fields
<1>5. <<>> = SubSeq(text, 1, 0) /\ r = SubSeq(text, 0 + 1, Len(text)) /\ 0 \in 0..Len(text)
  <2>0. text \in Seq(Tokens)
    BY <1>2
  <2>1. 0 \in 0..Len(text) /\ 0 + 1 = 1
    BY <2>0, LenProperties
  <2>2. SubSeq(text, 1, 0) = <<>> /\ SubSeq(text, 1, Len(text)) = text
    BY <2>0, SubSeqEmpty, SubSeqFull
  <2> QED
    BY <1>3, <2>1, <2>2
<1>6. AtMessage(x, r)
  <2>1. \A l \in 1..0 : text[l] \notin {"bad", "cut"}
    OBVIOUS
  <2>2. \E k \in 0..Len(text) :
          /\ x.text = SubSeq(text, 1, k) /\ r = SubSeq(text, k + 1, Len(text))
          /\ config.compliantMsg /\ text[1] = "BOM" =>
                \A l \in 1..k : text[l] \notin {"bad", "cut"}
    BY <1>4, <1>5, <2>1, Zenon
  <2> QED
    BY <1>1, <1>4, <2>2 DEF AtMessage, text
<1> QED
  BY <1>3, <1>6 DEF At, x

(* Structured data begins with a dash or with the first element.            *)
LEMMA DataPlace ==
    ASSUME NEW a, IsMachine(a), BuilderInv, HasString, NEW c \in Tokens, NEW r \in Seq(Tokens),
           AtData(a, <<c>> \o r)
    PROVE  At(Step(a, c), r)
<1>1. Step(a, c) = structureddata(a, c) /\ <<c>> \o r = FromData
      /\ Got(a.output, Header) /\ NoData(a.output)
  BY StepLater DEF AtData
<1>2. Len(Ids) \in Nat
  BY ElementsAre
<1>3. CASE Len(Ids) = 0
  <2> DEFINE x == Goto(a, "nilvalue")
  <2>1. c = "-" /\ r = FromMessage
    <3>1. "-" \in Tokens
      BY DEF Tokens
    <3>2. <<c>> \o r = <<"-">> \o FromMessage /\ FromMessage \in Seq(Tokens)
      BY <1>1, <1>3, DataIs, FromMessageIs
    <3> QED
      BY <3>1, <3>2, FirstOf
  <2>2. Step(a, c) = x
    BY <1>1, <2>1, Zenon DEF structureddata
  <2> HIDE DEF x
  <2>3. x.text = <<>> /\ x.cs = "nilvalue" /\ x.output = a.output
    <3>1. Same(a, x, {"cs", "text"}) /\ x.text = <<>> /\ x.cs = "nilvalue"
      BY GotoIs DEF x
    <3> QED
      BY <3>1 DEF Same, Fields
  <2>4. AtNil(x, r)
    BY <1>1, <1>3, <2>1, <2>3, DataIs DEF AtNil
  <2> QED
    BY <2>2, <2>4 DEF At
<1>4. CASE Len(Ids) # 0
  <2> DEFINE x == Goto(a, "sdid")
             rest == Ids[1] \o FromParam(1, 1)
  <2>1. 1 \in 1..Len(Ids)
    BY <1>2, <1>4
  <2>2. Ids[1] \in Seq(Tokens) /\ FromParam(1, 1) \in Seq(Tokens)
    <3>1. Ids[1] \in SDNames
      BY <2>1, ElementsAre
    <3>2. Len(ParamNames(1)) \in Nat /\ \A j \in 1..(Len(ParamNames(1)) + 1) : FromParam(1, j) \in Seq(Tokens)
      BY <2>1, FromParamIs
    <3>3. 1 \in 1..(Len(ParamNames(1)) + 1)
      BY <3>2
    <3> QED
      BY <3>1, <3>2, <3>3, SDNameIs
  <2>3. rest \in Seq(Tokens) /\ FromData = <<"[">> \o rest
    <3>1. FromElement(1) = <<"[">> \o rest
      BY <2>1, FromParamIs
    <3>2. FromData = FromElement(1)
      BY <1>4, DataIs
    <3> QED
      BY <2>2, <3>1, <3>2, Joined
  <2> HIDE DEF rest, x
  <2>4. c = "[" /\ r = rest
    <3>1. "[" \in Tokens
      BY DEF Tokens
    <3>2. <<c>> \o r = <<"[">> \o rest
      BY <1>1, <2>3
    <3> QED
      BY <2>3, <3>1, <3>2, FirstOf, Zenon
  <2>5. Step(a, c) = x
    BY <1>1, <2>4, Zenon DEF structureddata, x
  <2>6. x.text = <<>> /\ x.cs = "sdid" /\ x.output = a.output
    <3>1. Same(a, x, {"cs", "text"}) /\ x.text = <<>> /\ x.cs = "sdid"
      BY GotoIs DEF x
    <3> QED
      BY <3>1 DEF Same, Fields
  <2>7. HasWhole(x.output, 1 - 1)
    <3>1. 1 - 1 = 0 /\ ~(0 > 0)
      OBVIOUS
    <3>2. x.output.structuredData = Elems(0)
      BY <1>1, <2>6, ElemsAre DEF NoData
    <3>3. x.output.hasElements = FALSE
      BY <1>1, <2>6 DEF NoData
    <3> QED
      BY <3>1, <3>2, <3>3 DEF HasWhole
  <2>8. Mid(x.text, r, Ids[1], FromParam(1, 1))
    BY <2>2, <2>4, <2>6, MidBegins DEF rest
  <2>9. AtId(x, r)
    <3>1. 1 \in DOMAIN Ids
      BY <2>1, ElementsAre
    <3> QED
      BY <1>1, <2>6, <2>7, <2>8, <3>1 DEF AtId
  <2> QED
    BY <2>5, <2>9 DEF At
<1> QED
  BY <1>3, <1>4

(* Behind the dash there is the message.                                    *)
LEMMA NilPlace ==
    ASSUME NEW a, IsMachine(a), BuilderInv, HasString, NEW c \in Tokens, NEW r \in Seq(Tokens),
           AtNil(a, <<c>> \o r)
    PROVE  At(Step(a, c), r)
<1>1. Step(a, c) = nilvalue(a, c) /\ <<c>> \o r = FromMessage
      /\ Got(a.output, Header) /\ NoData(a.output) /\ sm.structuredData = EmptyMap
  BY StepLater DEF AtNil
<1>2. c = " " /\ At(Goto(a, "msg"), r)
  BY <1>1, MessageBegins DEF NoData
<1>3. Step(a, c) = Goto(a, "msg")
  BY <1>1, <1>2, Zenon DEF nilvalue
<1> QED
  BY <1>2, <1>3

(* What is behind an element's name or one of its parameters.               *)
LEMMA ElementBegins ==
    ASSUME BuilderInv, NEW i \in 1..Len(Ids), NEW j \in 0..Len(ParamNames(i)),
           NEW a, IsMachine(a), NEW c \in Tokens, NEW r \in Seq(Tokens),
           <<c>> \o r = FromParam(i, j + 1), Got(a.output, Header), HasPart(a, i, j)
    PROVE  \/ c = " " /\ At(Goto(a, "sdparam"), r)
           \/ c = "]" /\ At(Goto(a, "sdend"), r)
<1> DEFINE n == Len(ParamNames(i))
           x == Goto(a, "sdparam")
           y == Goto(a, "sdend")
<1>1. n \in Nat /\ DOMAIN Ids = 1..Len(Ids) /\ DOMAIN ParamNames(i) = 1..n /\ Len(Ids) \in Nat
  BY ElementsAre, ParamsAre
<1> HIDE DEF n, x, y
<1>2. i \in Nat /\ i \in DOMAIN Ids /\ i + 1 \in 1..(Len(Ids) + 1) /\ i > 0 /\ j \in 0..n /\ j \in Nat
  BY <1>1 DEF n
<1>3. CASE j # n
  <2> DEFINE k == j + 1
             rest == ParamNames(i)[k] \o BehindName(i, k)
  <2>1. k \in 1..n /\ k - 1 = j
    BY <1>1, <1>2, <1>3
  <2> HIDE DEF k
  <2>2. k \in 1..Len(ParamNames(i))
    BY <2>1 DEF n
  <2>3. /\ FromParam(i, k) = <<" ">> \o rest
        /\ ParamNames(i)[k] \in Seq(Tokens) /\ BehindName(i, k) \in Seq(Tokens)
    BY <2>2, FromParamIs, ParamsAre, SDNameIs
  <2>4. rest \in Seq(Tokens) /\ <<c>> \o r = <<" ">> \o rest
    BY <2>3, Joined DEF k
  <2> HIDE DEF rest
  <2>5. c = " " /\ r = rest
    <3>1. " " \in Tokens
      BY DEF Tokens, NotGraph
    <3> QED
      BY <2>4, <3>1, FirstOf
  <2>6. /\ x.text = <<>> /\ x.cs = "sdparam" /\ x.output = a.output
        /\ x.currentelem = a.currentelem
    <3>1. Same(a, x, {"cs", "text"}) /\ x.text = <<>> /\ x.cs = "sdparam"
      BY GotoIs DEF x
    <3> QED
      BY <3>1 DEF Same, Fields
  <2>7. Mid(x.text, r, ParamNames(i)[k], BehindName(i, k))
    BY <2>3, <2>5, <2>6, MidBegins DEF rest
  <2>8. HasPart(x, i, k - 1)
    BY <2>1, <2>6 DEF HasPart
  <2>9. k \in DOMAIN ParamNames(i) /\ (x.text # <<>> => x.backslashat = {})
    BY <1>1, <2>1, <2>6
  <2>10. AtParam(x, r)
    BY <1>2, <2>6, <2>7, <2>8, <2>9 DEF AtParam
  <2> QED
    BY <2>5, <2>10 DEF At, x
<1>4. CASE j = n
  <2>1. FromParam(i, j + 1) = <<"]">> \o FromElement(i + 1)
    BY <1>4, FromParamIs DEF n
  <2>2. FromElement(i + 1) \in Seq(Tokens)
    BY <1>2, FromElementIs
  <2>3. c = "]" /\ r = FromElement(i + 1)
    <3>1. "]" \in Tokens
      BY DEF Tokens, Delims
    <3> QED
      BY <2>1, <2>2, <3>1, FirstOf
  <2>4. y.text = <<>> /\ y.cs = "sdend" /\ y.output = a.output
    <3>1. Same(a, y, {"cs", "text"}) /\ y.text = <<>> /\ y.cs = "sdend"
      BY GotoIs DEF y
    <3> QED
      BY <3>1 DEF Same, Fields
  <2>5. HasWhole(y.output, i)
    <3>1. Pars(i, j) = Params(i)
      BY <1>4, ParsAre DEF n
    <3>2. y.output.structuredData = Put(Elems(i - 1), Ids[i], Params(i)) /\ y.output.hasElements
      BY <2>4, <3>1 DEF HasPart
    <3>3. y.output.structuredData = Elems(i)
      BY <3>2, ElemsAre
    <3> QED
      BY <1>2, <3>2, <3>3 DEF HasWhole
  <2>6. AtDataEnd(y, r)
    BY <1>2, <2>3, <2>4, <2>5 DEF AtDataEnd
  <2> QED
    BY <2>3, <2>6 DEF At, y
<1> QED
  BY <1>3, <1>4

(* In an identifier the machine sees a token of it, or what ends it.        *)
LEMMA IdPlace ==
    ASSUME NEW a, IsMachine(a), BuilderInv, HasString, NEW c \in Tokens, NEW r \in Seq(Tokens),
           AtId(a, <<c>> \o r)
    PROVE  At(Step(a, c), r)
<1>1. PICK i \in DOMAIN Ids : HasWhole(a.output, i - 1)
                              /\ Mid(a.text, <<c>> \o r, Ids[i], FromParam(i, 1))
  BY DEF AtId
<1> DEFINE part == Ids[i]
           tail == FromParam(i, 1)
           most == NameRange["sdname"]
<1>2. Step(a, c) = sdid(a, c) /\ Got(a.output, Header) /\ a.cs = "sdid"
  BY StepLater DEF AtId
<1>3. i \in 1..Len(Ids) /\ Ids[i] \in SDNames /\ Len(Ids) \in Nat
  BY ElementsAre
<1>4. /\ part \in Seq(Tokens) /\ Len(part) \in 1..most
      /\ \A k \in 1..Len(part) : part[k] \in NameTokens
  BY <1>3, SDNameIs
<1>5. tail \in Seq(Tokens)
  <2>1. 1 \in 1..(Len(ParamNames(i)) + 1)
    <3>1. Len(ParamNames(i)) \in Nat
      BY <1>3, FromParamIs
    <3> QED
      BY <3>1
  <2> QED
    BY <1>3, <2>1, FromParamIs
<1>6. most \in Nat
  BY Rfc5424Assumption
<1>7. Mid(a.text, <<c>> \o r, part, tail)
  BY <1>1
<1> HIDE DEF part, tail, most
<1>8. a.text \in Seq(Tokens) /\ Len(a.text) \in Nat /\ (NotMarked(a) <=> Len(a.text) = 0)
  <2>1. a.text \in Seq(Tokens)
    BY <1>4, <1>5, <1>7, MidStep
  <2> QED
    BY <2>1 DEF NotMarked
<1>9. CASE /\ Len(a.text) < Len(part) /\ c = part[Len(a.text) + 1]
           /\ Append(a.text, c) = SubSeq(part, 1, Len(a.text) + 1)
           /\ Mid(Append(a.text, c), r, part, tail)
  <2> DEFINE x == Take(a, c)
  <2>1. c \in NameTokens /\ Fits(a, "sdname")
    <3>1. Len(a.text) + 1 \in 1..Len(part) /\ Len(a.text) < most
      BY <1>4, <1>6, <1>8, <1>9
    <3>2. c = part[Len(a.text) + 1]
      BY <1>9
    <3> QED
      BY <1>4, <3>1, <3>2 DEF Fits, most
  <2>2. Step(a, c) = x
    BY <1>2, <2>1, Zenon DEF sdid
  <2> HIDE DEF x
  <2>3. x.text = Append(a.text, c) /\ Same(a, x, {"text"})
    BY TakeIs DEF x
  <2>4. x.cs = "sdid" /\ x.output = a.output
    BY <1>2, <2>3 DEF Same, Fields
  <2>5. AtId(x, r)
    <3>1. Mid(x.text, r, Ids[i], FromParam(i, 1))
      BY <1>9, <2>3, Zenon DEF part, tail
    <3> QED
      BY <1>1, <1>2, <2>4, <3>1 DEF AtId
  <2> QED
    BY <2>2, <2>5 DEF At
<1>10. CASE a.text = part /\ <<c>> \o r = tail
  <2> DEFINE n == set_id(a)
             F(k) == IF k.cs = "fail" THEN k
                     ELSE IF c = " " THEN Goto(k, "sdparam")
                     ELSE IF c = "]" THEN Goto(k, "sdend") ELSE err_sdid(k)
  <2> HIDE DEF n, F
  <2>1. a.text = Ids[i]
    BY <1>10 DEF part
  <2>2. a.text \notin DOMAIN Data(a) /\ Data(a) = Elems(i - 1)
    BY <1>1, <1>3, <2>1, ElemsAre DEF HasWhole, Data
  <2>3. /\ IsMachine(n) /\ Same(a, n, {"output", "currentelem"})
        /\ Else(a.output, n.output, {"structuredData", "hasElements"})
        /\ Data(n) = Put(Elems(i - 1), Ids[i], EmptyMap)
        /\ n.output.hasElements = TRUE /\ n.currentelem = Ids[i]
    BY <2>1, <2>2, DataSettersAre DEF n
  <2>4. Got(n.output, Header) /\ HasPart(n, i, 0) /\ n.cs = "sdid"
    <3>1. Got(n.output, Header)
      BY <1>2, <2>3, GotKept
    <3>2. Pars(i, 0) = EmptyMap
      BY <1>3, ParsAre
    <3>3. HasPart(n, i, 0)
      BY <2>3, <3>2 DEF HasPart, Data
    <3> QED
      BY <1>2, <2>3, <3>1, <3>3 DEF Same, Fields
  <2>5. \/ c = " " /\ At(Goto(n, "sdparam"), r)
        \/ c = "]" /\ At(Goto(n, "sdend"), r)
    <3>1. 0 \in 0..Len(ParamNames(i)) /\ <<c>> \o r = FromParam(i, 0 + 1)
      <4>1. Len(ParamNames(i)) \in Nat
        BY <1>3, FromParamIs
      <4>2. <<c>> \o r = FromParam(i, 1)
        BY <1>10 DEF tail
      <4>3. 0 \in 0..Len(ParamNames(i)) /\ 0 + 1 = 1
        BY <4>1
      <4> QED
        BY <4>2, <4>3, Zenon
    <3> QED
      BY <1>3, <2>3, <2>4, <3>1, ElementBegins
  <2>6. c \notin NameTokens /\ ~NotMarked(a)
    <3>1. c \notin NameTokens
      BY <2>5 DEF NameTokens, NotGraph
    <3>2. Len(part) # 0
      BY <1>4, <1>6
    <3>3. Len(a.text) # 0
      BY <1>10, <3>2, Zenon
    <3> QED
      BY <1>8, <3>1, <3>3
  <2>7. Step(a, c) = F(n)
    BY <1>2, <2>6, Zenon DEF sdid, Then, F, n
  <2>8. At(F(n), r)
    BY <2>4, <2>5, Zenon DEF F
  <2> QED
    BY <2>7, <2>8
<1> QED
  BY <1>4, <1>5, <1>7, <1>9, <1>10, MidStep

(* In a parameter's name it sees a token of it, or the equals sign.         *)
LEMMA ParamPlace ==
    ASSUME NEW a, IsMachine(a), BuilderInv, HasString, NEW c \in Tokens, NEW r \in Seq(Tokens),
           AtParam(a, <<c>> \o r)
    PROVE  At(Step(a, c), r)
<1>1. PICK i \in DOMAIN Ids : \E j \in DOMAIN ParamNames(i) :
          /\ HasPart(a, i, j - 1) /\ (a.text # <<>> => a.backslashat = {})
          /\ Mid(a.text, <<c>> \o r, ParamNames(i)[j], BehindName(i, j))
  BY DEF AtParam
<1>2. PICK j \in DOMAIN ParamNames(i) :
          /\ HasPart(a, i, j - 1) /\ (a.text # <<>> => a.backslashat = {})
          /\ Mid(a.text, <<c>> \o r, ParamNames(i)[j], BehindName(i, j))
  BY <1>1
<1> DEFINE part == ParamNames(i)[j]
           tail == BehindName(i, j)
           most == NameRange["sdname"]
           rest == EscapeBytes(Value(i, j)) \o BehindValue(i, j)
<1>3. Step(a, c) = sdparam(a, c) /\ Got(a.output, Header) /\ a.cs = "sdparam"
  BY StepLater DEF AtParam
<1>4. i \in 1..Len(Ids)
  BY ElementsAre
<1>5. j \in 1..Len(ParamNames(i)) /\ ParamNames(i)[j] \in SDNames
  BY <1>4, ParamsAre
<1>6. /\ part \in Seq(Tokens) /\ Len(part) \in 1..most
      /\ \A k \in 1..Len(part) : part[k] \in NameTokens
  BY <1>5, SDNameIs
<1>7. tail \in Seq(Tokens) /\ rest \in Seq(Tokens)
  BY <1>4, <1>5, FromParamIs
<1>8. most \in Nat
  BY Rfc5424Assumption
<1>9. Mid(a.text, <<c>> \o r, part, tail)
  BY <1>2
<1> HIDE DEF part, tail, most, rest
<1>10. a.text \in Seq(Tokens) /\ Len(a.text) \in Nat /\ (NotMarked(a) <=> Len(a.text) = 0)
  <2>1. a.text \in Seq(Tokens)
    BY <1>6, <1>7, <1>9, MidStep
  <2> QED
    BY <2>1 DEF NotMarked
<1>11. CASE /\ Len(a.text) < Len(part) /\ c = part[Len(a.text) + 1]
            /\ Append(a.text, c) = SubSeq(part, 1, Len(a.text) + 1)
            /\ Mid(Append(a.text, c), r, part, tail)
  <2> DEFINE n == IF NotMarked(a) THEN ini_sdparam(a) ELSE a
             x == Take(n, c)
  <2>1. c \in NameTokens /\ Fits(a, "sdname")
    <3>1. Len(a.text) + 1 \in 1..Len(part) /\ Len(a.text) < most
      BY <1>6, <1>8, <1>10, <1>11
    <3>2. c = part[Len(a.text) + 1]
      BY <1>11
    <3> QED
      BY <1>6, <3>1, <3>2 DEF Fits, most
  <2>2. Step(a, c) = x
    BY <1>3, <2>1, Zenon DEF sdparam
  <2>3. IsMachine(n) /\ Same(a, n, {"backslashat"}) /\ n.backslashat = {}
    <3>1. CASE NotMarked(a)
      BY <3>1, DataSettersAre
    <3>2. CASE ~NotMarked(a)
      <4>1. a.backslashat = {} /\ n = a
        BY <1>2, <3>2 DEF NotMarked
      <4> QED
        BY <4>1 DEF Same
    <3> QED
      BY <3>1, <3>2
  <2> HIDE DEF n, x
  <2>4. x.text = Append(n.text, c) /\ Same(n, x, {"text"})
    BY <2>3, TakeIs DEF x
  <2>5. x.cs = "sdparam" /\ x.output = a.output /\ x.currentelem = a.currentelem
        /\ x.backslashat = {} /\ x.text = Append(a.text, c)
    BY <1>3, <2>3, <2>4 DEF Same, Fields
  <2>6. AtParam(x, r)
    <3>1. Mid(x.text, r, ParamNames(i)[j], BehindName(i, j))
      BY <1>11, <2>5, Zenon DEF part, tail
    <3>2. HasPart(x, i, j - 1)
      BY <1>2, <2>5 DEF HasPart
    <3> QED
      BY <1>3, <2>5, <3>1, <3>2 DEF AtParam
  <2> QED
    BY <2>2, <2>6 DEF At
<1>12. CASE a.text = part /\ <<c>> \o r = tail
  <2> DEFINE n == set_paramname(a)
             x == Goto(n, "dq")
  <2> HIDE DEF n, x
  <2>1. c = "=" /\ r = <<"\"">> \o rest
    <3> DEFINE d == "="
               e == "\""
    <3>1. d \in Tokens /\ e \in Tokens
      BY DEF Tokens, Delims
    <3>2. <<c>> \o r = <<d, e>> \o rest
      BY <1>12 DEF tail, rest, BehindName
    <3> HIDE DEF d, e
    <3>3. rest \in Seq(Tokens)
      BY <1>7
    <3> DEFINE q == <<e>> \o rest
    <3>4. <<d, e>> \o rest = <<d>> \o q /\ q \in Seq(Tokens)
      BY <3>1, <3>3, SecondOf
    <3> HIDE DEF q
    <3>5. <<c>> \o r = <<d>> \o q
      BY <3>2, <3>4, Zenon
    <3>6. SameText(c, r, d, q)
      BY <3>1, <3>4, <3>5, Zenon DEF SameText
    <3>7. c = d /\ r = q
      BY <3>6, SameBegins
    <3> QED
      BY <3>7 DEF d, e, q
  <2>2. c \notin NameTokens /\ ~NotMarked(a)
    <3>1. c \notin NameTokens
      BY <2>1 DEF NameTokens
    <3>2. Len(part) # 0
      BY <1>6, <1>8
    <3>3. Len(a.text) # 0
      BY <1>12, <3>2, Zenon
    <3> QED
      BY <1>10, <3>1, <3>3
  <2>3. Step(a, c) = x
    BY <1>3, <2>1, <2>2, Zenon DEF sdparam, n, x
  <2>4. IsMachine(n) /\ Same(a, n, {"currentparam"}) /\ n.currentparam = a.text
    BY DataSettersAre DEF n
  <2>5. x.text = <<>> /\ x.cs = "dq" /\ Same(n, x, {"cs", "text"})
    BY <2>4, GotoIs DEF x
  <2>6. x.output = a.output /\ x.currentelem = a.currentelem /\ x.currentparam = a.text
        /\ x.backslashat = a.backslashat
    BY <2>4, <2>5 DEF Same, Fields
  <2>7. a.backslashat = {} /\ a.text = ParamNames(i)[j]
    BY <1>2, <1>12, <2>2 DEF NotMarked, part
  <2>8. HasPart(x, i, j - 1)
    BY <1>2, <2>6 DEF HasPart
  <2>9. AtDq(x, r)
    BY <1>3, <2>1, <2>5, <2>6, <2>7, <2>8 DEF AtDq, OfParam, rest
  <2> QED
    BY <2>3, <2>9 DEF At
<1> QED
  BY <1>6, <1>7, <1>9, <1>11, <1>12, MidStep

(* Behind the equals sign there is a quote.                                 *)
LEMMA DqPlace ==
    ASSUME NEW a, IsMachine(a), BuilderInv, HasString, NEW c \in Tokens, NEW r \in Seq(Tokens),
           AtDq(a, <<c>> \o r)
    PROVE  At(Step(a, c), r)
<1>1. PICK i \in DOMAIN Ids : \E j \in DOMAIN ParamNames(i) :
          /\ OfParam(a, i, j)
          /\ <<c>> \o r = <<"\"">> \o (EscapeBytes(Value(i, j)) \o BehindValue(i, j))
  BY DEF AtDq
<1>2. PICK j \in DOMAIN ParamNames(i) :
          /\ OfParam(a, i, j)
          /\ <<c>> \o r = <<"\"">> \o (EscapeBytes(Value(i, j)) \o BehindValue(i, j))
  BY <1>1
<1> DEFINE v == Value(i, j)
           rest == EscapeBytes(v) \o BehindValue(i, j)
           x == Goto(a, "paramvalue")
<1>3. Step(a, c) = dq(a, c) /\ a.backslashat = {}
  BY StepLater DEF AtDq
<1>4. i \in 1..Len(Ids)
  BY ElementsAre
<1>5. j \in 1..Len(ParamNames(i)) /\ v \in Seq(Stored)
  BY <1>4, ParamsAre
<1>6. rest \in Seq(Tokens)
  BY <1>4, <1>5, FromParamIs
<1> HIDE DEF rest, x
<1>7. c = "\"" /\ r = rest
  <2>1. "\"" \in Tokens
    BY DEF Tokens, Delims
  <2>2. <<c>> \o r = <<"\"">> \o rest
    BY <1>2 DEF rest
  <2> QED
    BY <1>6, <2>1, <2>2, FirstOf
<1>8. Step(a, c) = x
  BY <1>3, <1>7, Zenon DEF dq, x
<1>9. /\ x.text = <<>> /\ x.cs = "paramvalue" /\ x.output = a.output
      /\ x.currentelem = a.currentelem /\ x.currentparam = a.currentparam /\ x.backslashat = {}
  <2>1. x.text = <<>> /\ x.cs = "paramvalue" /\ Same(a, x, {"cs", "text"})
    BY GotoIs DEF x
  <2> QED
    BY <1>3, <2>1 DEF Same, Fields
<1> HIDE DEF v
<1>10. OfParam(x, i, j)
  BY <1>2, <1>9 DEF OfParam, HasPart
<1>11. 0 \in 0..Len(v) /\ 0 + 1 = 1 /\ SubSeq(v, 1, 0) = <<>> /\ SubSeq(v, 1, Len(v)) = v
  <2>1. 0 \in 0..Len(v) /\ 0 + 1 = 1
    BY <1>5, LenProperties
  <2> QED
    BY <1>5, <2>1, SubSeqEmpty, SubSeqFull
<1>12. Unescaped(x, v, 0)
  <2>1. RemoveBytes(<<>>, {}) = <<>> /\ <<>> \in Seq(Tokens)
    BY RemoveAppend
  <2> QED
    BY <1>9, <1>11, <2>1 DEF Unescaped
<1>13. r = ValueFrom(v, 0, BehindValue(i, j))
  BY <1>7, <1>11 DEF rest, ValueFrom
<1>14. AtValue(x, r)
  <2>1. \E k \in 0..Len(v) :
          Unescaped(x, v, k) /\ r = ValueFrom(v, k, BehindValue(i, j))
    BY <1>11, <1>12, <1>13, Zenon
  <2> QED
    BY <1>9, <1>10, <2>1, Zenon DEF AtValue, v
<1> QED
  BY <1>8, <1>14 DEF At

(* The value is complete: the parameter is stored as the message has it.    *)
LEMMA ValueEnds ==
    ASSUME NEW a, IsMachine(a), BuilderInv, NEW c \in Tokens, NEW r \in Seq(Tokens),
           NEW i \in 1..Len(Ids), NEW j \in 1..Len(ParamNames(i)),
           a.cs = "paramvalue", OfParam(a, i, j),
           RemoveBytes(a.text, a.backslashat) = Value(i, j),
           <<c>> \o r = BehindValue(i, j)
    PROVE  At(Step(a, c), r)
<1> DEFINE rest == FromParam(i, j + 1)
           name == ParamNames(i)[j]
           p == Pars(i, j - 1)
           n == set_paramvalue(a)
           x == Goto(n, "paramend")
<1>1. rest \in Seq(Tokens)
  <2>1. Len(ParamNames(i)) \in Nat
    BY FromParamIs
  <2>2. j + 1 \in 1..(Len(ParamNames(i)) + 1)
    BY <2>1
  <2> QED
    BY <2>2, FromParamIs
<1> HIDE DEF rest, n, x, name, p
<1>2. c = "\"" /\ r = rest
  <2>1. "\"" \in Tokens
    BY DEF Tokens, Delims
  <2>2. <<c>> \o r = <<"\"">> \o rest
    BY DEF BehindValue, rest
  <2> QED
    BY <1>1, <2>1, <2>2, FirstOf
<1>3. Step(a, c) = x
  <2>1. Step(a, c) = paramvalue(a, c)
    BY StepLater
  <2> QED
    BY <1>2, <2>1, Zenon DEF paramvalue, n, x
<1>4. /\ Data(a) = Put(Elems(i - 1), Ids[i], p) /\ a.currentelem = Ids[i] /\ a.currentparam = name
      /\ a.output.hasElements /\ Got(a.output, Header)
  BY DEF OfParam, HasPart, Data, name, p
<1>5. IsMachine(n) /\ Same(a, n, {"output"}) /\ Else(a.output, n.output, {"structuredData"})
      /\ Data(n) = [Data(a) EXCEPT ![Ids[i]] = Put(Data(a)[Ids[i]], name, Value(i, j))]
  <2>1. Data(n) = [Data(a) EXCEPT ![a.currentelem] =
                     Put(Data(a)[a.currentelem], a.currentparam,
                         RemoveBytes(a.text, a.backslashat))]
    BY DataSettersAre DEF n
  <2>2. IsMachine(n) /\ Same(a, n, {"output"}) /\ Else(a.output, n.output, {"structuredData"})
    BY DataSettersAre DEF n
  <2>3. RemoveBytes(a.text, a.backslashat) = Value(i, j)
    OBVIOUS
  <2> QED
    BY <1>4, <2>1, <2>2, <2>3, Zenon
<1>6. Data(n) = Put(Elems(i - 1), Ids[i], Pars(i, j))
  <2>1. Data(a)[Ids[i]] = p
    BY <1>4, PutInto
  <2>2. Put(p, name, Value(i, j)) = Pars(i, j)
    BY ParsAre DEF p, name
  <2>3. Data(n) = [Data(a) EXCEPT ![Ids[i]] = Pars(i, j)]
    BY <1>5, <2>1, <2>2, Zenon
  <2> DEFINE d == Data(a)
  <2> HIDE DEF d
  <2>4. d = Put(Elems(i - 1), Ids[i], p) /\ Data(n) = [d EXCEPT ![Ids[i]] = Pars(i, j)]
    BY <1>4, <2>3 DEF d
  <2> QED
    BY <2>4, PutInto
<1>7. x.text = <<>> /\ x.cs = "paramend" /\ x.output = n.output /\ x.currentelem = Ids[i]
  <2>1. Same(n, x, {"cs", "text"}) /\ x.text = <<>> /\ x.cs = "paramend"
    BY <1>5, GotoIs DEF x
  <2> QED
    BY <1>4, <1>5, <2>1 DEF Same, Fields
<1>8. HasPart(x, i, j)
  <2>1. n.output.hasElements
    BY <1>4, <1>5 DEF Else, OutputFields
  <2> QED
    BY <1>6, <1>7, <2>1 DEF HasPart, Data
<1>9. Got(x.output, Header)
  <2>1. Else(a.output, n.output, {"structuredData", "hasElements"})
    BY <1>5 DEF Else
  <2> QED
    BY <1>4, <1>7, <2>1, GotKept
<1>10. i \in DOMAIN Ids /\ j \in DOMAIN ParamNames(i)
  BY ElementsAre, ParamsAre
<1>11. AtParamEnd(x, r)
  <2>1. HasPart(x, i, j) /\ r = FromParam(i, j + 1)
    BY <1>2, <1>8 DEF rest
  <2> QED
    BY <1>7, <1>9, <1>10, <2>1 DEF AtParamEnd
<1> QED
  BY <1>3, <1>11 DEF At

(* What is left of a value and what is behind it.                           *)
LEMMA ValueLeft ==
    ASSUME NEW v \in Seq(Tokens), NEW k \in 0..Len(v), k # Len(v), NEW w \in Seq(Tokens)
    PROVE  /\ ValueFrom(v, k + 1, w) \in Seq(Tokens) /\ v[k + 1] \in Tokens
           /\ v[k + 1] \notin Delims => ValueFrom(v, k, w) = <<v[k + 1]>> \o ValueFrom(v, k + 1, w)
           /\ v[k + 1] \in Delims =>
                /\ ValueFrom(v, k, w) = <<"\\">> \o (<<v[k + 1]>> \o ValueFrom(v, k + 1, w))
                /\ <<v[k + 1]>> \o ValueFrom(v, k + 1, w) \in Seq(Tokens)
<1> DEFINE d == v[k + 1]
           p == SubSeq(v, k + 1, Len(v))
           t == SubSeq(v, k + 2, Len(v))
           b == Escaped(d)
           e == EscapeBytes(t)
           u == ValueFrom(v, k, w)
           later == ValueFrom(v, k + 1, w)
<1>1. d \in Tokens /\ p = <<d>> \o t /\ t \in Seq(Tokens)
  BY Cut
<1>2. u = EscapeBytes(p) \o w
  BY DEF ValueFrom
<1>3. later = e \o w
  <2>1. (k + 1) + 1 = k + 2
    OBVIOUS
  <2> QED
    BY <2>1, Zenon DEF ValueFrom
<1> HIDE DEF d, p, t, b, e, u, later
<1>4. e \in Seq(Tokens) /\ b \in Seq(Tokens) /\ EscapeBytes(<<d>> \o t) = b \o e
  BY <1>1, EscapeCons, EscapedType DEF b, e
<1>5. (b \o e) \o w = b \o (e \o w)
  BY <1>4, Assoc, SMTT(30)
<1>6. later \in Seq(Tokens)
  BY <1>3, <1>4, Joined
<1>7. u = b \o later
  BY <1>1, <1>2, <1>3, <1>4, <1>5, Zenon
<1>8. d \notin Delims => u = <<d>> \o later
  <2>1. d \notin Delims => b = <<d>>
    BY DEF b, Escaped
  <2> QED
    BY <1>7, <2>1, Zenon
<1>9. d \in Delims => u = <<"\\">> \o (<<d>> \o later) /\ <<d>> \o later \in Seq(Tokens)
  <2> DEFINE s == "\\"
  <2>1. s \in Tokens
    BY DEF Tokens, Delims
  <2>2. d \in Delims => b = <<s, d>>
    BY DEF b, Escaped
  <2> HIDE DEF s
  <2>3. <<s, d>> \o later = <<s>> \o (<<d>> \o later) /\ <<d>> \o later \in Seq(Tokens)
    BY <1>1, <1>6, <2>1, SecondOf
  <2>4. d \in Delims => u = <<s>> \o (<<d>> \o later) /\ <<d>> \o later \in Seq(Tokens)
    BY <1>7, <2>2, <2>3, Zenon
  <2> QED
    BY <2>4 DEF s
<1> QED
  BY <1>1, <1>6, <1>8, <1>9 DEF d, u, later

(* A byte of a value, or the backslash before one.                          *)
LEMMA Unescape ==
    ASSUME NEW a, NEW v \in Seq(Tokens), NEW k \in 0..Len(v), k # Len(v), Unescaped(a, v, k),
           NEW x
    PROVE  /\ x.text = Append(a.text, v[k + 1]) /\ x.backslashat = a.backslashat =>
                 Unescaped(x, v, k + 1)
           /\ x.text = Append(a.text, "\\") /\ x.backslashat = a.backslashat \cup {Len(a.text) + 1}
                 => Unescaped(x, v, k)
<1> DEFINE t == a.text
           P == a.backslashat
           l == Len(t)
           Q == P \cup {l + 1}
<1>1. t \in Seq(Tokens) /\ P \subseteq 1..l /\ RemoveBytes(t, P) = SubSeq(v, 1, k)
  BY DEF Unescaped
<1>2. v[k + 1] \in Tokens /\ SubSeq(v, 1, k + 1) = Append(SubSeq(v, 1, k), v[k + 1])
  BY Cut
<1>s. "\\" \in Tokens
  BY DEF Tokens, Delims
<1> HIDE DEF t, P
<1>3. l \in Nat
  BY <1>1
<1>4. \A d \in Tokens : Append(t, d) \in Seq(Tokens) /\ Len(Append(t, d)) = l + 1
  BY <1>1
<1>5. l + 1 \notin P /\ P \subseteq 1..(l + 1) /\ Q \subseteq 1..(l + 1)
  <2> HIDE DEF l
  <2> QED
    BY <1>1, <1>3
<1>6. \A d \in Tokens : \A S : RemoveBytes(Append(t, d), S)
                                  = IF l + 1 \in S THEN RemoveBytes(t, S)
                                    ELSE Append(RemoveBytes(t, S), d)
  BY <1>1, RemoveAppend
<1>7. RemoveBytes(t, Q) = RemoveBytes(t, P)
  BY <1>1, RemoveAppend
<1> HIDE DEF l
<1>8. RemoveBytes(Append(t, v[k + 1]), P) = SubSeq(v, 1, k + 1)
  BY <1>1, <1>2, <1>5, <1>6, Zenon
<1>9. RemoveBytes(Append(t, "\\"), Q) = SubSeq(v, 1, k)
  <2>1. l + 1 \in Q
    OBVIOUS
  <2> HIDE DEF Q
  <2> QED
    BY <1>1, <1>s, <1>6, <1>7, <2>1, Zenon
<1>10. ASSUME x.text = Append(t, v[k + 1]), x.backslashat = P
       PROVE  Unescaped(x, v, k + 1)
  <2>1. x.text \in Seq(Tokens) /\ Len(x.text) = l + 1
    BY <1>2, <1>4, <1>10
  <2> QED
    BY <1>5, <1>8, <1>10, <2>1 DEF Unescaped
<1>11. ASSUME x.text = Append(t, "\\"), x.backslashat = Q
       PROVE  Unescaped(x, v, k)
  <2>1. x.text \in Seq(Tokens) /\ Len(x.text) = l + 1
    BY <1>s, <1>4, <1>11
  <2> HIDE DEF Q
  <2> QED
    BY <1>5, <1>9, <1>11, <2>1 DEF Unescaped
<1> QED
  BY <1>10, <1>11 DEF t, P, l

(* In the middle of a value the machine sees a token of it, or a backslash. *)
LEMMA ValueGoes ==
    ASSUME NEW a, IsMachine(a), BuilderInv, NEW c \in Tokens, NEW r \in Seq(Tokens),
           NEW i \in 1..Len(Ids), NEW j \in 1..Len(ParamNames(i)),
           a.cs = "paramvalue", OfParam(a, i, j), NEW v, v = Value(i, j),
           NEW w, w = BehindValue(i, j),
           NEW k \in 0..Len(v), k # Len(v), Unescaped(a, v, k),
           <<c>> \o r = ValueFrom(v, k, w)
    PROVE  At(Step(a, c), r)
<1> DEFINE d == v[k + 1]
           later == ValueFrom(v, k + 1, w)
           u == <<c>> \o r
           n == Take(a, c)
<1>1. v \in Seq(Stored) /\ w \in Seq(Tokens)
  BY ParamsAre, FromParamIs
<1>2. v \in Seq(Tokens)
  BY <1>1, StoredIs
<1>3. u = ValueFrom(v, k, w) /\ k \in 0..Len(v) /\ k # Len(v)
      /\ Unescaped(a, v, k)
  OBVIOUS
<1>4. i \in DOMAIN Ids /\ j \in DOMAIN ParamNames(i)
  BY ElementsAre, ParamsAre
<1> HIDE DEF later, u, n, d
<1>5. /\ later \in Seq(Tokens) /\ d \in Tokens
      /\ d \notin Delims => u = <<d>> \o later
      /\ d \in Delims => u = <<"\\">> \o (<<d>> \o later) /\ <<d>> \o later \in Seq(Tokens)
  <2>1. k \in 0..Len(v) /\ k # Len(v) /\ w \in Seq(Tokens) /\ v \in Seq(Tokens)
    BY <1>1, <1>2, <1>3
  <2>2. u = ValueFrom(v, k, w)
    BY <1>3
  <2> QED
    BY <2>1, <2>2, ValueLeft, ZenonT(40) DEF d, later
<1>6. d \notin {"cut", "bad"}
  <2>1. d \in Stored
    BY <1>1, <1>3, Cut DEF d
  <2> QED
    BY <2>1 DEF Stored
<1>7. Step(a, c) = paramvalue(a, c)
  BY StepLater
<1>8. k \in Nat /\ k + 1 \in 0..Len(v) /\ k + 1 \in 1..Len(v) /\ (k + 1) - 1 = k
  <2>1. Len(v) \in Nat
    BY <1>2
  <2> DEFINE l == Len(v)
  <2> HIDE DEF l
  <2>2. l \in Nat /\ k \in 0..l /\ k # l
    BY <1>3, <2>1 DEF l
  <2> QED
    BY <2>2 DEF l
<1>9. /\ n.text = Append(a.text, c) /\ n.cs = "paramvalue" /\ n.backslashat = a.backslashat
      /\ n.output = a.output /\ n.currentelem = a.currentelem /\ n.currentparam = a.currentparam
      /\ IsMachine(n)
  <2>1. n.text = Append(a.text, c) /\ Same(a, n, {"text"}) /\ IsMachine(n)
    BY TakeIs DEF n
  <2> QED
    BY <2>1 DEF Same, Fields
<1>10. CASE d \notin Delims
  <2>1. c = d /\ r = later
    BY <1>5, <1>10, FirstOf DEF u
  <2>2. c \notin {"\"", "\\", "]", "bad", "cut"}
    BY <1>6, <1>10, <2>1 DEF Delims
  <2>3. Step(a, c) = n
    BY <1>7, <2>2, Zenon DEF paramvalue, n
  <2>4. Unescaped(n, v, k + 1)
    BY <1>2, <1>3, <1>9, <2>1, Unescape DEF d
  <2>5. OfParam(n, i, j)
    BY <1>9 DEF OfParam, HasPart
  <2>7. AtValue(n, r)
    <3>1. \E q \in 0..Len(v) :
            Unescaped(n, v, q) /\ r = ValueFrom(v, q, w)
      BY <1>8, <2>1, <2>4, Zenon DEF later
    <3> QED
      BY <1>4, <1>9, <2>5, <3>1, Zenon DEF AtValue
  <2> QED
    BY <2>3, <2>7 DEF At
<1>11. CASE d \in Delims
  <2> DEFINE rest == <<d>> \o later
             Q == a.backslashat \cup {Len(a.text) + 1}
             x == [n EXCEPT !.cs = "escapes", !.backslashat = Q]
  <2>1. c = "\\" /\ r = rest
    <3>1. "\\" \in Tokens
      BY DEF Tokens, Delims
    <3> HIDE DEF rest
    <3>2. <<c>> \o r = <<"\\">> \o rest /\ rest \in Seq(Tokens)
      BY <1>5, <1>11 DEF u, rest
    <3> QED
      BY <3>1, <3>2, FirstOf
  <2>2. Step(a, c) = x
    <3>1. Step(a, c) = [n EXCEPT !.cs = "escapes", !.backslashat = @ \cup {Len(a.text) + 1}]
      BY <1>7, <2>1, Zenon DEF paramvalue, n
    <3> QED
      BY <1>9, <3>1
  <2> HIDE DEF Q
  <2>3. /\ x.text = Append(a.text, c) /\ x.cs = "escapes" /\ x.backslashat = Q
        /\ x.output = a.output /\ x.currentelem = a.currentelem /\ x.currentparam = a.currentparam
    BY <1>9 DEF IsMachine, Fields
  <2> HIDE DEF x
  <2>4. Unescaped(x, v, k)
    BY <1>2, <1>3, <2>1, <2>3, Unescape DEF Q
  <2>5. OfParam(x, i, j)
    BY <2>3 DEF OfParam, HasPart
  <2>6. /\ Unescaped(x, v, (k + 1) - 1) /\ v[k + 1] \in Delims
        /\ r = <<v[k + 1]>> \o ValueFrom(v, k + 1, w)
    BY <1>8, <1>11, <2>1, <2>4, Zenon DEF later, d
  <2>7. AtEscape(x, r)
    <3>1. \E q \in 1..Len(v) :
            /\ Unescaped(x, v, q - 1) /\ v[q] \in Delims
            /\ r = <<v[q]>> \o ValueFrom(v, q, w)
      BY <1>8, <2>6, Zenon
    <3> QED
      BY <1>4, <2>3, <2>5, <3>1, Zenon DEF AtEscape
  <2> QED
    BY <2>2, <2>7 DEF At
<1> QED
  BY <1>10, <1>11

(* At the end of a value it sees the quote.                                 *)
LEMMA ValuePlace ==
    ASSUME NEW a, IsMachine(a), BuilderInv, HasString, NEW c \in Tokens, NEW r \in Seq(Tokens),
           AtValue(a, <<c>> \o r)
    PROVE  At(Step(a, c), r)
<1>1. PICK i \in DOMAIN Ids : \E j \in DOMAIN ParamNames(i) :
          /\ OfParam(a, i, j)
          /\ \E k \in 0..Len(Value(i, j)) :
                Unescaped(a, Value(i, j), k) /\ <<c>> \o r = ValueFrom(Value(i, j), k, BehindValue(i, j))
  BY DEF AtValue
<1>2. PICK j \in DOMAIN ParamNames(i) :
          /\ OfParam(a, i, j)
          /\ \E k \in 0..Len(Value(i, j)) :
                Unescaped(a, Value(i, j), k) /\ <<c>> \o r = ValueFrom(Value(i, j), k, BehindValue(i, j))
  BY <1>1
<1> DEFINE v == Value(i, j)
           w == BehindValue(i, j)
<1>3. PICK k \in 0..Len(v) : Unescaped(a, v, k) /\ <<c>> \o r = ValueFrom(v, k, w)
  BY <1>2
<1>4. i \in 1..Len(Ids)
  BY ElementsAre
<1>5. j \in 1..Len(ParamNames(i)) /\ v \in Seq(Stored)
  BY <1>4, ParamsAre
<1>6. w \in Seq(Tokens) /\ v \in Seq(Tokens)
  BY <1>4, <1>5, FromParamIs, StoredIs
<1>7. a.cs = "paramvalue" /\ v = Value(i, j) /\ w = BehindValue(i, j) /\ OfParam(a, i, j)
  BY <1>2 DEF AtValue
<1> HIDE DEF v, w
<1>8. CASE k = Len(v)
  <2>1. SubSeq(v, 1, k) = v /\ SubSeq(v, k + 1, Len(v)) = <<>>
    BY <1>6, <1>8, Cut
  <2>2. RemoveBytes(a.text, a.backslashat) = Value(i, j)
    BY <1>3, <1>7, <2>1 DEF Unescaped
  <2>3. EscapeBytes(<<>>) = <<>> /\ <<>> \o w = w
    BY <1>6, EscapeCons, ConcatEmptySeq
  <2>4. ValueFrom(v, k, w) = w
    BY <2>1, <2>3, Zenon DEF ValueFrom
  <2>5. <<c>> \o r = BehindValue(i, j)
    BY <1>3, <1>7, <2>4, Zenon
  <2> QED
    BY <1>4, <1>5, <1>7, <2>2, <2>5, ValueEnds
<1>9. CASE k # Len(v)
  BY <1>3, <1>4, <1>5, <1>7, <1>9, ValueGoes, Zenon
<1> QED
  BY <1>8, <1>9

(* Behind a backslash it sees what was escaped.                             *)
LEMMA EscapeGoes ==
    ASSUME NEW a, IsMachine(a), BuilderInv, NEW c \in Tokens, NEW r \in Seq(Tokens),
           NEW i \in 1..Len(Ids), NEW j \in 1..Len(ParamNames(i)),
           a.cs = "escapes", OfParam(a, i, j), NEW v, v = Value(i, j),
           NEW w, w = BehindValue(i, j),
           NEW k \in 0..Len(v), k # Len(v), Unescaped(a, v, k), v[k + 1] \in Delims,
           <<c>> \o r = <<v[k + 1]>> \o ValueFrom(v, k + 1, w)
    PROVE  At(Step(a, c), r)
<1> DEFINE d == v[k + 1]
           later == ValueFrom(v, k + 1, w)
           n == Take(a, c)
           x == [n EXCEPT !.cs = "paramvalue"]
<1>1. v \in Seq(Stored) /\ w \in Seq(Tokens)
  BY ParamsAre, FromParamIs
<1>2. v \in Seq(Tokens)
  BY <1>1, StoredIs
<1>3. i \in DOMAIN Ids /\ j \in DOMAIN ParamNames(i)
  BY ElementsAre, ParamsAre
<1>4. d \in Tokens /\ later \in Seq(Tokens)
  BY <1>1, <1>2, ValueLeft
<1>5. <<c>> \o r = <<d>> \o later /\ d \in Delims
  OBVIOUS
<1> HIDE DEF d, later, n
<1>6. c = d /\ r = later
  BY <1>4, <1>5, FirstOf
<1>7. k + 1 \in 0..Len(v)
  <2> DEFINE l == Len(v)
  <2>1. l \in Nat /\ k \in 0..l /\ k # l
    BY <1>2
  <2> HIDE DEF l
  <2>2. k + 1 \in 0..l
    BY <2>1
  <2> QED
    BY <2>2 DEF l
<1>8. Step(a, c) = x
  <2>1. Step(a, c) = escapes(a, c)
    BY StepLater
  <2> QED
    BY <1>5, <1>6, <2>1, Zenon DEF escapes, n
<1>9. /\ x.text = Append(a.text, c) /\ x.cs = "paramvalue" /\ x.backslashat = a.backslashat
      /\ x.output = a.output /\ x.currentelem = a.currentelem /\ x.currentparam = a.currentparam
  <2>1. n.text = Append(a.text, c) /\ Same(a, n, {"text"}) /\ IsMachine(n)
    BY TakeIs DEF n
  <2>2. /\ n.backslashat = a.backslashat /\ n.output = a.output
        /\ n.currentelem = a.currentelem /\ n.currentparam = a.currentparam
    BY <2>1 DEF Same, Fields
  <2> QED
    BY <2>1, <2>2 DEF IsMachine, Fields
<1> HIDE DEF x
<1>10. Unescaped(x, v, k + 1)
  BY <1>2, <1>6, <1>9, Unescape DEF d
<1>11. OfParam(x, i, j)
  BY <1>9 DEF OfParam, HasPart
<1>12. AtValue(x, r)
  <2>1. \E q \in 0..Len(v) : Unescaped(x, v, q) /\ r = ValueFrom(v, q, w)
    BY <1>6, <1>7, <1>10, Zenon DEF later
  <2> QED
    BY <1>3, <1>9, <1>11, <2>1, Zenon DEF AtValue
<1> QED
  BY <1>8, <1>12 DEF At

(* So it does wherever the backslash is.                                    *)
LEMMA EscapePlace ==
    ASSUME NEW a, IsMachine(a), BuilderInv, HasString, NEW c \in Tokens, NEW r \in Seq(Tokens),
           AtEscape(a, <<c>> \o r)
    PROVE  At(Step(a, c), r)
<1>1. PICK i \in DOMAIN Ids : \E j \in DOMAIN ParamNames(i) :
          /\ OfParam(a, i, j)
          /\ \E k \in 1..Len(Value(i, j)) :
                /\ Unescaped(a, Value(i, j), k - 1) /\ Value(i, j)[k] \in Delims
                /\ <<c>> \o r = <<Value(i, j)[k]>> \o ValueFrom(Value(i, j), k, BehindValue(i, j))
  BY DEF AtEscape
<1>2. PICK j \in DOMAIN ParamNames(i) :
          /\ OfParam(a, i, j)
          /\ \E k \in 1..Len(Value(i, j)) :
                /\ Unescaped(a, Value(i, j), k - 1) /\ Value(i, j)[k] \in Delims
                /\ <<c>> \o r = <<Value(i, j)[k]>> \o ValueFrom(Value(i, j), k, BehindValue(i, j))
  BY <1>1
<1> DEFINE v == Value(i, j)
           w == BehindValue(i, j)
<1>3. PICK k \in 1..Len(v) : /\ Unescaped(a, v, k - 1) /\ v[k] \in Delims
                             /\ <<c>> \o r = <<v[k]>> \o ValueFrom(v, k, w)
  BY <1>2
<1>4. i \in 1..Len(Ids)
  BY ElementsAre
<1>5. j \in 1..Len(ParamNames(i)) /\ v \in Seq(Stored)
  BY <1>4, ParamsAre
<1>6. Len(v) \in Nat
  BY <1>5
<1>7. a.cs = "escapes" /\ v = Value(i, j) /\ w = BehindValue(i, j) /\ OfParam(a, i, j)
  BY <1>2 DEF AtEscape
<1> HIDE DEF v, w
<1> DEFINE q == k - 1
<1>8. q \in 0..Len(v) /\ q # Len(v) /\ q + 1 = k
  <2> DEFINE l == Len(v)
  <2>1. l \in Nat /\ k \in 1..l
    BY <1>6
  <2> HIDE DEF l
  <2>2. q \in 0..l /\ q # l /\ q + 1 = k
    BY <2>1
  <2> QED
    BY <2>2 DEF l
<1>9. Unescaped(a, v, q) /\ v[q + 1] \in Delims /\ <<c>> \o r = <<v[q + 1]>> \o ValueFrom(v, q + 1, w)
  BY <1>3, <1>8, Zenon
<1> HIDE DEF q
<1> QED
  BY <1>4, <1>5, <1>7, <1>8, <1>9, EscapeGoes, Zenon

(* Behind a value there is another parameter or the end of the element.     *)
LEMMA ParamEndPlace ==
    ASSUME NEW a, IsMachine(a), BuilderInv, HasString, NEW c \in Tokens, NEW r \in Seq(Tokens),
           AtParamEnd(a, <<c>> \o r)
    PROVE  At(Step(a, c), r)
<1>1. PICK i \in DOMAIN Ids : \E j \in DOMAIN ParamNames(i) :
          HasPart(a, i, j) /\ <<c>> \o r = FromParam(i, j + 1)
  BY DEF AtParamEnd
<1>2. PICK j \in DOMAIN ParamNames(i) : HasPart(a, i, j) /\ <<c>> \o r = FromParam(i, j + 1)
  BY <1>1
<1>3. i \in 1..Len(Ids)
  BY ElementsAre
<1>4. j \in 0..Len(ParamNames(i))
  <2>1. j \in 1..Len(ParamNames(i))
    BY <1>3, ParamsAre
  <2> DEFINE l == Len(ParamNames(i))
  <2> HIDE DEF l
  <2>2. j \in 1..l
    BY <2>1 DEF l
  <2>3. j \in 0..l
    BY <2>2
  <2> QED
    BY <2>3 DEF l
<1>5. \/ c = " " /\ At(Goto(a, "sdparam"), r)
      \/ c = "]" /\ At(Goto(a, "sdend"), r)
  BY <1>2, <1>3, <1>4, ElementBegins DEF AtParamEnd
<1>6. Step(a, c) = paramend(a, c)
  BY StepLater DEF AtParamEnd
<1> QED
  BY <1>5, <1>6, Zenon DEF paramend

(* Behind an element there is another one or the message.                   *)
LEMMA DataEndPlace ==
    ASSUME NEW a, IsMachine(a), BuilderInv, HasString, NEW c \in Tokens, NEW r \in Seq(Tokens),
           AtDataEnd(a, <<c>> \o r)
    PROVE  At(Step(a, c), r)
<1>1. PICK i \in DOMAIN Ids : HasWhole(a.output, i) /\ <<c>> \o r = FromElement(i + 1)
  BY DEF AtDataEnd
<1> DEFINE n == Len(Ids)
           x == Goto(a, "sdid")
           k == i + 1
           rest == Ids[k] \o FromParam(k, 1)
<1>2. i \in 1..n /\ n \in Nat /\ DOMAIN Ids = 1..n
  BY ElementsAre
<1>3. Step(a, c) = sdend(a, c) /\ Got(a.output, Header)
  BY StepLater DEF AtDataEnd
<1> HIDE DEF n, x
<1>4. i > 0 /\ k - 1 = i /\ (i # n => k \in 1..n)
  BY <1>2
<1> HIDE DEF k, rest
<1>5. CASE i = n
  <2>1. <<c>> \o r = FromMessage
    BY <1>1, <1>5, FromElementIs DEF n
  <2>2. a.output.structuredData = sm.structuredData /\ a.output.hasElements
    BY <1>1, <1>4, <1>5, ElemsAre DEF HasWhole, n
  <2>3. c = " " /\ At(Goto(a, "msg"), r)
    BY <1>3, <2>1, <2>2, MessageBegins
  <2>4. Step(a, c) = Goto(a, "msg")
    BY <1>3, <2>3, Zenon DEF sdend
  <2> QED
    BY <2>3, <2>4
<1>6. CASE i # n
  <2>1. k \in 1..Len(Ids)
    BY <1>4, <1>6 DEF n
  <2>2. Ids[k] \in Seq(Tokens) /\ FromParam(k, 1) \in Seq(Tokens)
    <3>1. Ids[k] \in SDNames
      BY <2>1, ElementsAre
    <3>2. Len(ParamNames(k)) \in Nat /\ \A j \in 1..(Len(ParamNames(k)) + 1) : FromParam(k, j) \in Seq(Tokens)
      BY <2>1, FromParamIs
    <3>3. 1 \in 1..(Len(ParamNames(k)) + 1)
      BY <3>2
    <3> QED
      BY <3>1, <3>2, <3>3, SDNameIs
  <2>3. rest \in Seq(Tokens) /\ FromElement(k) = <<"[">> \o rest
    <3>1. FromElement(k) = <<"[">> \o rest
      BY <2>1, FromParamIs DEF rest
    <3> QED
      BY <2>2, <3>1, Joined DEF rest
  <2>4. c = "[" /\ r = rest
    <3>1. "[" \in Tokens
      BY DEF Tokens
    <3>2. <<c>> \o r = <<"[">> \o rest
      BY <1>1, <2>3, Zenon DEF k
    <3> QED
      BY <2>3, <3>1, <3>2, FirstOf
  <2>5. Step(a, c) = x
    BY <1>3, <2>4, Zenon DEF sdend, x
  <2>6. x.text = <<>> /\ x.cs = "sdid" /\ x.output = a.output
    <3>1. Same(a, x, {"cs", "text"}) /\ x.text = <<>> /\ x.cs = "sdid"
      BY GotoIs DEF x
    <3> QED
      BY <3>1 DEF Same, Fields
  <2>7. HasWhole(x.output, k - 1)
    BY <1>1, <1>4, <2>6, Zenon
  <2>8. Mid(x.text, r, Ids[k], FromParam(k, 1))
    BY <2>2, <2>4, <2>6, MidBegins DEF rest
  <2>9. AtId(x, r)
    <3>1. k \in DOMAIN Ids
      BY <2>1, ElementsAre
    <3> QED
      BY <1>3, <2>6, <2>7, <2>8, <3>1 DEF AtId
  <2> QED
    BY <2>5, <2>9 DEF At
<1> QED
  BY <1>5, <1>6

(* In the message: the machine takes the token, or the message is one that  *)
(* a compliant machine refuses.                                             *)
LEMMA MessagePlace ==
    ASSUME NEW a, IsMachine(a), BuilderInv, HasString, NEW c \in Tokens, NEW r \in Seq(Tokens),
           AtMessage(a, <<c>> \o r)
    PROVE  At(Step(a, c), r)
<1> DEFINE t == sm.message
           n == Take(a, c)
           strict == a.compliantMsg /\ a.text # <<>> /\ a.text[1] = "BOM"
<1>1. PICK k \in 0..Len(t) :
          /\ a.text = SubSeq(t, 1, k) /\ <<c>> \o r = SubSeq(t, k + 1, Len(t))
          /\ config.compliantMsg /\ t[1] = "BOM" => \A l \in 1..k : t[l] \notin {"bad", "cut"}
  BY DEF AtMessage
<1>2. t \in Seq(Tokens)
  BY FromMessageIs
<1>3. a.cs = "msg" /\ Got(a.output, Header) /\ t # <<>>
      /\ a.output.structuredData = sm.structuredData
      /\ (a.output.hasElements \/ sm.structuredData = EmptyMap)
  BY DEF AtMessage
<1>4. a.compliantMsg = config.compliantMsg
  BY DEF IsMachine
<1> HIDE DEF t
<1>5. k # Len(t)
  <2>1. <<c>> \o r # <<>>
    BY First
  <2>2. k = Len(t) => SubSeq(t, k + 1, Len(t)) = <<>>
    BY <1>2, Cut
  <2> QED
    BY <1>1, <2>1, <2>2
<1>6. /\ t[k + 1] \in Tokens
      /\ SubSeq(t, k + 1, Len(t)) = <<t[k + 1]>> \o SubSeq(t, k + 2, Len(t))
      /\ SubSeq(t, k + 2, Len(t)) \in Seq(Tokens)
      /\ SubSeq(t, 1, k + 1) = Append(SubSeq(t, 1, k), t[k + 1])
      /\ SubSeq(t, 1, k) \in Seq(Tokens) /\ Len(SubSeq(t, 1, k)) = k
      /\ \A i \in 1..k : SubSeq(t, 1, k)[i] = t[i]
  <2>1. /\ SubSeq(t, 1, k) \in Seq(Tokens) /\ Len(SubSeq(t, 1, k)) = k
        /\ \A i \in 1..k : SubSeq(t, 1, k)[i] = t[i]
    BY <1>2, Cut
  <2>2. /\ t[k + 1] \in Tokens
        /\ SubSeq(t, k + 1, Len(t)) = <<t[k + 1]>> \o SubSeq(t, k + 2, Len(t))
        /\ SubSeq(t, k + 2, Len(t)) \in Seq(Tokens)
    BY <1>2, <1>5, Cut
  <2>3. SubSeq(t, 1, k + 1) = Append(SubSeq(t, 1, k), t[k + 1])
    BY <1>2, <1>5, Cut
  <2> QED
    BY <2>1, <2>2, <2>3
<1>7. c = t[k + 1] /\ r = SubSeq(t, k + 2, Len(t))
  <2> DEFINE d == t[k + 1]
             s == SubSeq(t, k + 2, Len(t))
  <2>1. d \in Tokens /\ s \in Seq(Tokens) /\ <<c>> \o r = <<d>> \o s
    BY <1>1, <1>6, Zenon
  <2> HIDE DEF d, s
  <2>2. c = d /\ r = s
    BY <2>1, FirstOf
  <2> QED
    BY <2>2 DEF d, s
<1>8. /\ k + 1 \in 0..Len(t) /\ k + 1 \in 1..Len(t) /\ k \in Nat /\ (k + 1) + 1 = k + 2
      /\ \A l \in 1..(k + 1) : l \in 1..k \/ l = k + 1
      /\ k # 0 => 1 \in 1..k
  <2> DEFINE l == Len(t)
  <2>1. l \in Nat /\ k \in 0..l /\ k # l
    BY <1>2, <1>5
  <2> HIDE DEF l
  <2>2. /\ k + 1 \in 0..l /\ k + 1 \in 1..l /\ k \in Nat /\ (k + 1) + 1 = k + 2
        /\ \A i \in 1..(k + 1) : i \in 1..k \/ i = k + 1
        /\ k # 0 => 1 \in 1..k
    BY <2>1
  <2> QED
    BY <2>2 DEF l
<1>9. strict <=> config.compliantMsg /\ k # 0 /\ t[1] = "BOM"
  <2>1. k = 0 => a.text = <<>>
    <3>1. a.text \in Seq(Tokens) /\ Len(a.text) = k
      BY <1>1, <1>6, Zenon
    <3> QED
      BY <3>1
  <2>2. k # 0 => a.text # <<>> /\ a.text[1] = t[1]
    <3>1. k # 0 => Len(a.text) # 0 /\ a.text[1] = t[1]
      BY <1>1, <1>6, <1>8
    <3>2. Len(<<>>) = 0
      OBVIOUS
    <3> QED
      BY <3>1, <3>2
  <2> QED
    BY <1>4, <2>1, <2>2
<1>10. Step(a, c) = msg(a, c)
  BY <1>3, StepLater
<1> DEFINE e == Append(a.text, c)
<1> HIDE DEF n, strict, e
<1>11. CASE strict /\ c \in {"bad", "cut"}
  <2> DEFINE x == msg(a, c)
             y(u) == [a EXCEPT !.output.message = u]
  <2>1. Unsayable
    <3>1. k + 1 \in DOMAIN t
      BY <1>2, <1>8
    <3> QED
      BY <1>3, <1>7, <1>9, <1>11, <3>1 DEF Unsayable, t
  <2>2. \E u : x = Fail(y(u), "ErrMsgNotCompliant")
    <3>1. x = IF c = "bad" THEN err_msg(a, a.text) ELSE err_msg(a, e)
      <4>1. c # "bad" => c = "cut"
        BY <1>11
      <4> QED
        BY <1>11, <4>1, Zenon DEF msg, strict, e
    <3>2. \A u : err_msg(a, u) = Fail(y(u), "ErrMsgNotCompliant")
      <4>1. a.compliantMsg
        BY <1>11 DEF strict
      <4> QED
        BY <4>1, Zenon DEF err_msg
    <3> QED
      BY <3>1, <3>2, Zenon
  <2>3. PICK u : x = Fail(y(u), "ErrMsgNotCompliant")
    BY <2>2
  <2>4. \A w : w = y(u) => IsMachine(w)
    <3>1. "message" \in OutputFields
      BY DEF OutputFields
    <3> QED
      BY <3>1 DEF IsMachine, Fields, OutputFields
  <2>5. x.cs = "fail" /\ x.err = "ErrMsgNotCompliant"
    <3> DEFINE w == y(u)
    <3>1. IsMachine(w) /\ x = Fail(w, "ErrMsgNotCompliant")
      BY <2>3, <2>4
    <3> HIDE DEF w, x
    <3> QED
      BY <3>1, FailIs
  <2> HIDE DEF x
  <2>6. AtFail(x)
    BY <2>1, <2>5 DEF AtFail
  <2> QED
    BY <1>10, <2>6, Zenon DEF x, At
<1>12. CASE ~(strict /\ c \in {"bad", "cut"})
  <2>1. msg(a, c) = n
    <3>1. ~(strict /\ c = "bad") /\ ~(strict /\ c = "cut")
      BY <1>12
    <3> QED
      BY <3>1, Zenon DEF msg, strict, n
  <2>2. n.text = Append(a.text, c) /\ n.cs = "msg" /\ n.output = a.output
    <3>1. n.text = Append(a.text, c) /\ Same(a, n, {"text"})
      BY TakeIs DEF n
    <3> QED
      BY <1>3, <3>1 DEF Same, Fields
  <2>3. n.text = SubSeq(t, 1, k + 1)
    BY <1>1, <1>6, <1>7, <2>2, Zenon
  <2>4. config.compliantMsg /\ t[1] = "BOM" => \A l \in 1..(k + 1) : t[l] \notin {"bad", "cut"}
    <3>1. ASSUME config.compliantMsg, t[1] = "BOM" PROVE c \notin {"bad", "cut"}
      <4>1. CASE k = 0
        BY <1>7, <3>1, <4>1
      <4>2. CASE k # 0
        BY <1>9, <1>12, <3>1, <4>2
      <4> QED
        BY <4>1, <4>2
    <3> QED
      BY <1>1, <1>7, <1>8, <3>1
  <2>5. \E q \in 0..Len(t) :
            /\ n.text = SubSeq(t, 1, q) /\ r = SubSeq(t, q + 1, Len(t))
            /\ config.compliantMsg /\ t[1] = "BOM" => \A l \in 1..q : t[l] \notin {"bad", "cut"}
    <3> DEFINE q == k + 1
    <3>1. q \in 0..Len(t) /\ q + 1 = k + 2
      BY <1>8
    <3>2. n.text = SubSeq(t, 1, q) /\ r = SubSeq(t, q + 1, Len(t))
      BY <1>7, <2>3, <3>1
    <3>3. config.compliantMsg /\ t[1] = "BOM" => \A l \in 1..q : t[l] \notin {"bad", "cut"}
      BY <2>4
    <3> HIDE DEF q
    <3> QED
      BY <3>1, <3>2, <3>3, Zenon
  <2>6. AtMessage(n, r)
    BY <1>3, <2>2, <2>5, Zenon DEF AtMessage, t
  <2> QED
    BY <1>10, <2>1, <2>6, Zenon DEF At
<1> QED
  BY <1>11, <1>12

(* A machine that is where the builder is in the string stays there.        *)
LEMMA StepPlace ==
    ASSUME NEW a, IsMachine(a), BuilderInv, HasString, NEW c \in Tokens, NEW r \in Seq(Tokens),
           At(a, <<c>> \o r), a.cs # "fail"
    PROVE  At(Step(a, c), r)
<1>1. ~AtFail(a)
  BY DEF AtFail
<1>2. CASE AtMain(a, <<c>> \o r)
  BY <1>2, MainPlace
<1>3. CASE AtPrival(a, <<c>> \o r)
  BY <1>3, PrivalPlace
<1>4. CASE AtVersion(a, <<c>> \o r)
  BY <1>4, VersionPlace
<1>5. CASE AtTimestamp(a, <<c>> \o r)
  BY <1>5, TimestampPlace
<1>6. CASE AtName(a, <<c>> \o r)
  BY <1>6, NamePlace
<1>7. CASE AtData(a, <<c>> \o r)
  BY <1>7, DataPlace
<1>8. CASE AtNil(a, <<c>> \o r)
  BY <1>8, NilPlace
<1>9. CASE AtId(a, <<c>> \o r)
  BY <1>9, IdPlace
<1>10. CASE AtParam(a, <<c>> \o r)
  BY <1>10, ParamPlace
<1>11. CASE AtDq(a, <<c>> \o r)
  BY <1>11, DqPlace
<1>12. CASE AtValue(a, <<c>> \o r)
  BY <1>12, ValuePlace
<1>13. CASE AtEscape(a, <<c>> \o r)
  BY <1>13, EscapePlace
<1>14. CASE AtParamEnd(a, <<c>> \o r)
  BY <1>14, ParamEndPlace
<1>15. CASE AtDataEnd(a, <<c>> \o r)
  BY <1>15, DataEndPlace
<1>16. CASE AtMessage(a, <<c>> \o r)
  BY <1>16, MessagePlace
<1> QED
  BY <1>1, <1>2, <1>3, <1>4, <1>5, <1>6, <1>7, <1>8, <1>9, <1>10, <1>11, <1>12, <1>13, <1>14,
     <1>15, <1>16 DEF At

(* A text with a token in it is not empty.                                  *)
LEMMA NotEmpty ==
    /\ \A c \in Tokens : \A r \in Seq(Tokens) : <<c>> \o r # <<>>
    /\ \A p, w \in Seq(Tokens) : w # <<>> => p \o w # <<>>
<1>1. ASSUME NEW c \in Tokens, NEW r \in Seq(Tokens) PROVE <<c>> \o r # <<>>
  BY First
<1>2. ASSUME NEW p \in Seq(Tokens), NEW w \in Seq(Tokens), w # <<>> PROVE p \o w # <<>>
  <2>1. Len(p \o w) = Len(p) + Len(w) /\ Len(p) \in Nat /\ Len(w) \in Nat
    OBVIOUS
  <2>2. Len(w) # 0
    BY <1>2, EmptySeq
  <2>3. Len(p \o w) # 0
    BY <2>1, <2>2
  <2>4. Len(<<>>) = 0
    OBVIOUS
  <2> QED
    BY <2>3, <2>4
<1> QED
  BY <1>1, <1>2

(* Neither a parameter nor the end of an element is the end of the string.  *)
LEMMA ParamsLeft ==
    ASSUME BuilderInv, NEW i \in 1..Len(Ids), NEW j \in 0..Len(ParamNames(i))
    PROVE  FromParam(i, j + 1) # <<>> /\ FromParam(i, j + 1) \in Seq(Tokens)
<1> DEFINE n == Len(ParamNames(i))
           p == FromParam(i, j + 1)
<1>1. n \in Nat /\ j \in 0..n
  BY FromParamIs
<1> HIDE DEF n
<1>2. j + 1 \in 1..(n + 1) /\ (j # n => j + 1 \in 1..n)
  BY <1>1
<1>3. p \in Seq(Tokens)
  BY <1>2, FromParamIs DEF n
<1>4. CASE j = n
  <2>1. p = <<"]">> \o FromElement(i + 1)
    BY <1>4, FromParamIs DEF n
  <2>2. FromElement(i + 1) \in Seq(Tokens)
    <3> DEFINE l == Len(Ids)
    <3>1. l \in Nat /\ i \in 1..l
      BY ElementsAre
    <3> HIDE DEF l
    <3>2. i + 1 \in 1..(l + 1)
      BY <3>1
    <3> QED
      BY <3>2, FromElementIs DEF l
  <2>3. "]" \in Tokens
    BY DEF Tokens, Delims
  <2> QED
    BY <1>3, <2>1, <2>2, <2>3, NotEmpty
<1>5. CASE j # n
  <2> DEFINE k == j + 1
             later == ParamNames(i)[k] \o BehindName(i, k)
  <2>1. k \in 1..n
    BY <1>2, <1>5
  <2> HIDE DEF k
  <2>2. FromParam(i, k) = <<" ">> \o later /\ BehindName(i, k) \in Seq(Tokens)
    BY <2>1, FromParamIs DEF n
  <2>3. ParamNames(i)[k] \in Seq(Tokens)
    <3>1. ParamNames(i)[k] \in SDNames
      BY <2>1, ParamsAre DEF n
    <3> QED
      BY <3>1, SDNameIs
  <2>4. later \in Seq(Tokens)
    BY <2>2, <2>3, Joined
  <2> HIDE DEF later
  <2>5. " " \in Tokens
    BY DEF Tokens, NotGraph
  <2>6. FromParam(i, k) # <<>>
    BY <2>2, <2>4, <2>5, NotEmpty
  <2> QED
    BY <1>3, <2>6 DEF k
<1> QED
  BY <1>4, <1>5

(* The string does not end in its header.                                   *)
LEMMA HeaderGoesOn ==
    ASSUME NEW a, BuilderInv, HasString
    PROVE  /\ ~AtMain(a, <<>>) /\ ~AtPrival(a, <<>>) /\ ~AtVersion(a, <<>>)
           /\ ~AtTimestamp(a, <<>>) /\ ~AtName(a, <<>>) /\ ~AtData(a, <<>>)
<1>1. "<" \in Tokens /\ ">" \in Tokens /\ " " \in Tokens /\ "-" \in Tokens /\ "[" \in Tokens
  BY DEF Tokens, NotGraph
<1>2. /\ FromPriority \in Seq(Tokens) /\ FromVersion \in Seq(Tokens)
      /\ <<Stamp>> \o BehindStamp \in Seq(Tokens) /\ BehindStamp \in Seq(Tokens)
  BY BehindIs
<1>3. ~AtMain(a, <<>>)
  BY <1>1, <1>2, NotEmpty DEF AtMain
<1>4. ~AtPrival(a, <<>>)
  <2> DEFINE tail == <<">">> \o FromVersion
             part == Decimal(sm.priority)
  <2>1. tail \in Seq(Tokens) /\ tail # <<>> /\ part \in Seq(Tokens)
    BY <1>1, <1>2, NotEmpty, BehindIs, NumbersAre
  <2> HIDE DEF tail, part
  <2>2. ~Mid(a.text, <<>>, part, tail)
    BY <2>1, MidEnds
  <2> QED
    BY <2>2, Zenon DEF AtPrival, tail, part
<1>5. ~AtVersion(a, <<>>)
  <2> DEFINE tail == <<" ">> \o (<<Stamp>> \o BehindStamp)
             part == Decimal(sm.version)
  <2>1. tail \in Seq(Tokens) /\ tail # <<>> /\ part \in Seq(Tokens)
    BY <1>1, <1>2, NotEmpty, BehindIs, NumbersAre
  <2> HIDE DEF tail, part
  <2>2. ~Mid(a.text, <<>>, part, tail)
    BY <2>1, MidEnds
  <2> QED
    BY <2>2, Zenon DEF AtVersion, tail, part
<1>6. ~AtTimestamp(a, <<>>)
  <2> DEFINE tail == BehindStamp
             part == <<Stamp>>
             later == Text("hostname") \o BehindHostname
  <2>1. "hostname" \in NameFields
    BY DEF NameFields
  <2>2. Text("hostname") \in Seq(Tokens)
    BY <2>1, NamesAre
  <2>3. BehindHostname \in Seq(Tokens)
    <3>1. Behind("hostname") \in Seq(Tokens)
      BY <2>1, BehindIs
    <3> QED
      BY <3>1 DEF Behind
  <2>4. later \in Seq(Tokens)
    BY <2>2, <2>3, Joined
  <2> HIDE DEF later
  <2>5. tail # <<>>
    BY <1>1, <2>4, NotEmpty DEF BehindStamp, later
  <2>6. tail \in Seq(Tokens) /\ part \in Seq(Tokens)
    <3>1. Stamp \in Tokens
      BY NumbersAre
    <3> QED
      BY <1>2, <3>1, OneToken
  <2> HIDE DEF tail, part
  <2>7. ~Mid(a.text, <<>>, part, tail)
    BY <2>5, <2>6, MidEnds
  <2> QED
    BY <2>7, Zenon DEF AtTimestamp, tail, part
<1>7. ~AtName(a, <<>>)
  <2> SUFFICES ASSUME AtName(a, <<>>) PROVE FALSE
    OBVIOUS
  <2> DEFINE f == a.cs
             tail == Behind(f)
             part == Text(f)
  <2>1. f \in NameFields /\ Mid(a.text, <<>>, part, tail)
    BY DEF AtName
  <2> HIDE DEF f
  <2>2. part \in Seq(Tokens)
    BY <2>1, NamesAre
  <2>3. tail \in Seq(Tokens) /\ tail # <<>>
    BY <1>1, <2>1, BehindNameIs, NotEmpty
  <2> HIDE DEF tail, part
  <2> QED
    BY <2>1, <2>2, <2>3, MidEnds
<1>8. ~AtData(a, <<>>)
  <2>1. Len(Ids) \in Nat
    BY ElementsAre
  <2>2. CASE Len(Ids) = 0
    <3>1. FromData = <<"-">> \o FromMessage /\ FromMessage \in Seq(Tokens)
      BY <2>2, DataIs, FromMessageIs
    <3> QED
      BY <1>1, <3>1, NotEmpty DEF AtData
  <2>3. CASE Len(Ids) # 0
    <3>1. 1 \in 1..Len(Ids)
      BY <2>1, <2>3
    <3> DEFINE later == Ids[1] \o FromParam(1, 1)
    <3>2. FromData = <<"[">> \o later
      <4>1. FromData = FromElement(1)
        BY <2>3, DataIs
      <4> QED
        BY <3>1, <4>1, FromParamIs
    <3>3. later \in Seq(Tokens)
      <4>1. Ids[1] \in Seq(Tokens)
        BY <3>1, ElementsAre, SDNameIs
      <4>2. FromParam(1, 1) \in Seq(Tokens)
        <5>1. Len(ParamNames(1)) \in Nat
          BY <3>1, FromParamIs
        <5>2. 0 \in 0..Len(ParamNames(1)) /\ 0 + 1 = 1
          BY <5>1
        <5>3. FromParam(1, 0 + 1) \in Seq(Tokens)
          BY <3>1, <5>2, ParamsLeft
        <5> QED
          BY <5>2, <5>3
      <4> QED
        BY <4>1, <4>2, Joined
    <3> HIDE DEF later
    <3> QED
      BY <1>1, <3>2, <3>3, NotEmpty DEF AtData
  <2> QED
    BY <2>2, <2>3
<1> QED
  BY <1>3, <1>4, <1>5, <1>6, <1>7, <1>8

(* Nor in an element.                                                       *)
LEMMA ElementGoesOn ==
    ASSUME NEW a, BuilderInv
    PROVE  /\ ~AtId(a, <<>>) /\ ~AtParam(a, <<>>) /\ ~AtDq(a, <<>>) /\ ~AtParamEnd(a, <<>>)
<1>1. \A i \in DOMAIN Ids : i \in 1..Len(Ids) /\ Ids[i] \in Seq(Tokens)
  BY ElementsAre, SDNameIs
<1>2. ASSUME NEW i \in DOMAIN Ids
      PROVE  \A j \in DOMAIN ParamNames(i) : /\ j \in 1..Len(ParamNames(i))
                                             /\ ParamNames(i)[j] \in Seq(Tokens)
  BY <1>1, ParamsAre, SDNameIs
<1>3. ASSUME NEW i \in DOMAIN Ids, NEW j \in DOMAIN ParamNames(i)
      PROVE  /\ EscapeBytes(Value(i, j)) \o BehindValue(i, j) \in Seq(Tokens)
             /\ BehindName(i, j) \in Seq(Tokens) /\ BehindName(i, j) # <<>>
             /\ <<"\"">> \o (EscapeBytes(Value(i, j)) \o BehindValue(i, j)) # <<>>
  <2>1. i \in 1..Len(Ids) /\ j \in 1..Len(ParamNames(i))
    BY <1>1, <1>2
  <2> DEFINE q == "\""
             e == EscapeBytes(Value(i, j)) \o BehindValue(i, j)
  <2>2. e \in Seq(Tokens) /\ BehindName(i, j) \in Seq(Tokens)
    BY <2>1, FromParamIs
  <2>3. q \in Tokens /\ "=" \in Tokens
    BY DEF Tokens, Delims
  <2>4. BehindName(i, j) = <<"=", q>> \o e
    BY DEF BehindName
  <2> HIDE DEF q, e
  <2>5. <<"=", q>> \o e = <<"=">> \o (<<q>> \o e) /\ <<q>> \o e \in Seq(Tokens)
    BY <2>2, <2>3, SecondOf
  <2>6. <<q>> \o e # <<>> /\ <<"=">> \o (<<q>> \o e) # <<>>
    BY <2>2, <2>3, <2>5, NotEmpty
  <2>7. BehindName(i, j) # <<>>
    BY <2>4, <2>5, <2>6, Zenon
  <2> QED
    BY <2>2, <2>6, <2>7 DEF q, e
<1>4. ~AtId(a, <<>>)
  <2> SUFFICES ASSUME NEW i \in DOMAIN Ids, Mid(a.text, <<>>, Ids[i], FromParam(i, 1))
               PROVE  FALSE
    BY Zenon DEF AtId
  <2>1. i \in 1..Len(Ids) /\ Ids[i] \in Seq(Tokens)
    BY <1>1
  <2>2. 0 \in 0..Len(ParamNames(i)) /\ 0 + 1 = 1
    <3>1. Len(ParamNames(i)) \in Nat
      BY <2>1, FromParamIs
    <3> QED
      BY <3>1
  <2>3. FromParam(i, 1) # <<>> /\ FromParam(i, 1) \in Seq(Tokens)
    <3>1. FromParam(i, 0 + 1) # <<>> /\ FromParam(i, 0 + 1) \in Seq(Tokens)
      BY <2>1, <2>2, ParamsLeft
    <3> QED
      BY <2>2, <3>1
  <2> QED
    BY <2>1, <2>3, MidEnds
<1>5. ~AtParam(a, <<>>)
  <2> SUFFICES ASSUME NEW i \in DOMAIN Ids, NEW j \in DOMAIN ParamNames(i),
                      Mid(a.text, <<>>, ParamNames(i)[j], BehindName(i, j))
               PROVE  FALSE
    BY Zenon DEF AtParam
  <2> DEFINE part == ParamNames(i)[j]
             tail == BehindName(i, j)
  <2>1. part \in Seq(Tokens) /\ tail \in Seq(Tokens) /\ tail # <<>> /\ Mid(a.text, <<>>, part, tail)
    BY <1>2, <1>3, Zenon
  <2> HIDE DEF part, tail
  <2> QED
    BY <2>1, MidEnds
<1>6. ~AtDq(a, <<>>)
  <2> SUFFICES ASSUME NEW i \in DOMAIN Ids, NEW j \in DOMAIN ParamNames(i),
                      <<>> = <<"\"">> \o (EscapeBytes(Value(i, j)) \o BehindValue(i, j))
               PROVE  FALSE
    BY Zenon DEF AtDq
  <2> QED
    BY <1>3, Zenon
<1>7. ~AtParamEnd(a, <<>>)
  <2> SUFFICES ASSUME NEW i \in DOMAIN Ids, NEW j \in DOMAIN ParamNames(i),
                      <<>> = FromParam(i, j + 1)
               PROVE  FALSE
    BY Zenon DEF AtParamEnd
  <2>1. i \in 1..Len(Ids) /\ j \in 1..Len(ParamNames(i))
    BY <1>1, <1>2
  <2> DEFINE l == Len(ParamNames(i))
  <2>2. j \in 0..l
    <3> HIDE DEF l
    <3>1. j \in 1..l
      BY <2>1 DEF l
    <3> QED
      BY <3>1
  <2> QED
    BY <2>1, <2>2, ParamsLeft
<1> QED
  BY <1>4, <1>5, <1>6, <1>7

(* Nor in a value.                                                          *)
LEMMA ValueGoesOn ==
    ASSUME NEW a, BuilderInv
    PROVE  ~AtValue(a, <<>>) /\ ~AtEscape(a, <<>>)
<1>1. ASSUME NEW i \in DOMAIN Ids, NEW j \in DOMAIN ParamNames(i)
      PROVE  /\ Value(i, j) \in Seq(Tokens) /\ BehindValue(i, j) \in Seq(Tokens)
             /\ BehindValue(i, j) # <<>>
  <2>1. i \in 1..Len(Ids)
    BY ElementsAre
  <2>2. j \in 1..Len(ParamNames(i)) /\ Value(i, j) \in Seq(Stored)
    BY <2>1, ParamsAre
  <2> DEFINE l == Len(ParamNames(i))
             p == FromParam(i, j + 1)
  <2>3. j \in 0..l
    <3> HIDE DEF l
    <3>1. j \in 1..l
      BY <2>2 DEF l
    <3> QED
      BY <3>1
  <2>4. p \in Seq(Tokens)
    BY <2>1, <2>3, ParamsLeft
  <2>5. BehindValue(i, j) = <<"\"">> \o p /\ "\"" \in Tokens
    BY DEF BehindValue, Tokens, Delims
  <2> HIDE DEF p
  <2>6. BehindValue(i, j) # <<>>
    BY <2>4, <2>5, NotEmpty
  <2> QED
    BY <2>1, <2>2, <2>6, FromParamIs, StoredIs
<1>2. ASSUME NEW v \in Seq(Tokens), NEW k \in 0..Len(v), NEW w \in Seq(Tokens)
      PROVE  /\ ValueFrom(v, k, w) \in Seq(Tokens) /\ (w # <<>> => ValueFrom(v, k, w) # <<>>)
  <2> DEFINE e == EscapeBytes(SubSeq(v, k + 1, Len(v)))
  <2>1. SubSeq(v, k + 1, Len(v)) \in Seq(Tokens)
    BY Cut
  <2>2. e \in Seq(Tokens) /\ ValueFrom(v, k, w) = e \o w
    BY <2>1, EscapeCons DEF ValueFrom
  <2> HIDE DEF e
  <2> QED
    BY <2>2, Joined, NotEmpty
<1>3. ~AtValue(a, <<>>)
  <2> SUFFICES ASSUME NEW i \in DOMAIN Ids, NEW j \in DOMAIN ParamNames(i),
                      NEW k \in 0..Len(Value(i, j)),
                      <<>> = ValueFrom(Value(i, j), k, BehindValue(i, j))
               PROVE  FALSE
    BY Zenon DEF AtValue
  <2> QED
    BY <1>1, <1>2, Zenon
<1>4. ~AtEscape(a, <<>>)
  <2> SUFFICES ASSUME NEW i \in DOMAIN Ids, NEW j \in DOMAIN ParamNames(i),
                      NEW k \in 1..Len(Value(i, j)), Value(i, j)[k] \in Delims,
                      <<>> = <<Value(i, j)[k]>> \o ValueFrom(Value(i, j), k, BehindValue(i, j))
               PROVE  FALSE
    BY Zenon DEF AtEscape
  <2> DEFINE v == Value(i, j)
             l == Len(v)
             d == v[k]
             w == ValueFrom(v, k, BehindValue(i, j))
  <2>1. v \in Seq(Tokens) /\ BehindValue(i, j) \in Seq(Tokens)
    BY <1>1
  <2>2. k \in 0..l
    <3> HIDE DEF l
    <3>1. k \in 1..l
      BY DEF l
    <3> QED
      BY <3>1
  <2>3. w \in Seq(Tokens)
    BY <1>2, <2>1, <2>2, Zenon
  <2>4. d \in Tokens /\ <<>> = <<d>> \o w
    BY DEF Tokens
  <2> HIDE DEF d, w
  <2> QED
    BY <2>3, <2>4, NotEmpty
<1> QED
  BY <1>3, <1>4

(* The end of the input in a final state, and after an error.               *)
LEMMA EofLast ==
    ASSUME NEW a
    PROVE  /\ a.cs \in {"nilvalue", "sdend", "fail"} => Eof(a) = a
           /\ a.cs = "msg" => Eof(a) = set_msg(a)
  BY DEF Eof, NameFields

(* A message with the fields of the builder's is the builder's, once the    *)
(* absent names are absent again.                                           *)
LEMMA ExportIs ==
    ASSUME BuilderInv, NEW o, o.priority = sm.priority, o.version = sm.version,
           o.timestamp = sm.timestamp, \A f \in NameFields : o.name[f] = Text(f),
           o.structuredData = sm.structuredData,
           o.hasElements \/ sm.structuredData = EmptyMap, o.message = sm.message
    PROVE  export(o) = sm
<1> DEFINE names == [f \in NameFields |-> IF o.name[f] = <<"-">> THEN <<>> ELSE o.name[f]]
           data == IF o.hasElements THEN o.structuredData ELSE EmptyMap
           x == export(o)
<1>1. names = sm.name
  <2>1. \A f \in NameFields : (IF o.name[f] = <<"-">> THEN <<>> ELSE o.name[f]) = sm.name[f]
    BY NamesAre
  <2>2. sm.name = [f \in NameFields |-> sm.name[f]]
    BY DEF BuilderInv, IsMessage, FieldTexts
  <2> QED
    BY <2>1, <2>2
<1>2. data = sm.structuredData
  BY Zenon
<1>3. /\ x = [f \in MessageFields |-> x[f]]
      /\ x.priority = o.priority /\ x.version = o.version /\ x.timestamp = o.timestamp
      /\ x.name = names /\ x.structuredData = data /\ x.message = o.message
  <2> HIDE DEF names, data
  <2>1. x = [priority |-> o.priority, version |-> o.version, timestamp |-> o.timestamp,
             name |-> names, structuredData |-> data, message |-> o.message]
    BY Zenon DEF export, names, data
  <2> HIDE DEF x
  <2> QED
    BY <2>1 DEF MessageFields
<1> HIDE DEF names, data, x
<1>4. \A f \in MessageFields : x[f] = sm[f]
  BY <1>1, <1>2, <1>3 DEF MessageFields
<1>5. sm = [f \in MessageFields |-> sm[f]]
  BY DEF BuilderInv, IsMessage
<1>6. x = sm
  BY <1>3, <1>4, <1>5
<1> QED
  BY <1>6 DEF x

(* The string ends behind the dash,                                         *)
LEMMA NilEnds ==
    ASSUME NEW a, BuilderInv, AtNil(a, <<>>)
    PROVE  Ended(Eof(a))
<1>1. sm.message = <<>>
  <2>1. " " \in Tokens
    BY DEF Tokens, NotGraph
  <2>2. FromMessage = <<>>
    BY DEF AtNil
  <2> QED
    BY <2>1, <2>2, FromMessageIs, NotEmpty
<1>2. Eof(a) = a /\ a.cs \in final
  BY EofLast DEF AtNil, final
<1>3. /\ Got(a.output, Header) /\ NoData(a.output) /\ sm.structuredData = EmptyMap
  BY DEF AtNil
<1>4. /\ a.output.priority = sm.priority /\ a.output.version = sm.version
      /\ a.output.timestamp = sm.timestamp /\ a.output.message = <<>>
      /\ \A f \in NameFields : a.output.name[f] = Text(f)
  BY <1>3 DEF Got, Header
<1>5. export(a.output) = sm
  BY <1>1, <1>3, <1>4, ExportIs DEF NoData
<1>6. ~Unsayable
  BY <1>1 DEF Unsayable
<1> QED
  BY <1>2, <1>5, <1>6, Zenon DEF Ended

(* or behind the last element,                                              *)
LEMMA DataEnds ==
    ASSUME NEW a, BuilderInv, AtDataEnd(a, <<>>)
    PROVE  Ended(Eof(a))
<1>1. PICK i \in DOMAIN Ids : HasWhole(a.output, i) /\ <<>> = FromElement(i + 1)
  BY DEF AtDataEnd
<1> DEFINE n == Len(Ids)
           k == i + 1
<1>2. i \in 1..n /\ n \in Nat
  BY ElementsAre
<1> HIDE DEF n
<1>3. i > 0 /\ (i # n => k \in 1..n) /\ k - 1 = i
  BY <1>2
<1> HIDE DEF k
<1>4. i = n
  <2> SUFFICES ASSUME i # n PROVE FALSE
    OBVIOUS
  <2> DEFINE later == Ids[k] \o FromParam(k, 1)
  <2>1. k \in 1..Len(Ids)
    BY <1>3 DEF n
  <2>2. FromElement(k) = <<"[">> \o later
    BY <2>1, FromParamIs
  <2>3. later \in Seq(Tokens)
    <3>1. Ids[k] \in Seq(Tokens)
      BY <2>1, ElementsAre, SDNameIs
    <3>2. FromParam(k, 1) \in Seq(Tokens)
      <4>1. Len(ParamNames(k)) \in Nat
        BY <2>1, FromParamIs
      <4>2. 0 \in 0..Len(ParamNames(k)) /\ 0 + 1 = 1
        BY <4>1
      <4>3. FromParam(k, 0 + 1) \in Seq(Tokens)
        BY <2>1, <4>2, ParamsLeft
      <4> QED
        BY <4>2, <4>3
    <3> QED
      BY <3>1, <3>2, Joined
  <2> HIDE DEF later
  <2>4. "[" \in Tokens
    BY DEF Tokens
  <2>5. FromElement(k) # <<>>
    BY <2>2, <2>3, <2>4, NotEmpty
  <2> QED
    BY <1>1, <2>5 DEF k
<1>5. FromMessage = <<>>
  BY <1>1, <1>4, FromElementIs DEF n
<1>6. sm.message = <<>>
  <2>1. " " \in Tokens
    BY DEF Tokens, NotGraph
  <2> QED
    BY <1>5, <2>1, FromMessageIs, NotEmpty
<1>7. Eof(a) = a /\ a.cs \in final
  BY EofLast DEF AtDataEnd, final
<1>8. Got(a.output, Header)
  BY DEF AtDataEnd
<1>9. /\ a.output.priority = sm.priority /\ a.output.version = sm.version
      /\ a.output.timestamp = sm.timestamp /\ a.output.message = <<>>
      /\ \A f \in NameFields : a.output.name[f] = Text(f)
  BY <1>8 DEF Got, Header
<1>10. a.output.structuredData = sm.structuredData /\ a.output.hasElements
  BY <1>1, <1>3, <1>4, ElemsAre DEF HasWhole, n
<1>11. export(a.output) = sm
  BY <1>6, <1>9, <1>10, ExportIs
<1>12. ~Unsayable
  BY <1>6 DEF Unsayable
<1> QED
  BY <1>7, <1>11, <1>12, Zenon DEF Ended

(* or behind the message,                                                   *)
LEMMA MessageEnds ==
    ASSUME NEW a, IsMachine(a), BuilderInv, AtMessage(a, <<>>)
    PROVE  Ended(Eof(a))
<1> DEFINE t == sm.message
           x == set_msg(a)
<1>1. PICK k \in 0..Len(t) :
          /\ a.text = SubSeq(t, 1, k) /\ <<>> = SubSeq(t, k + 1, Len(t))
          /\ config.compliantMsg /\ t[1] = "BOM" => \A l \in 1..k : t[l] \notin {"bad", "cut"}
  BY DEF AtMessage
<1>2. t \in Seq(Tokens) /\ DOMAIN t = 1..Len(t)
  <2>1. t \in Seq(Tokens)
    BY FromMessageIs
  <2> HIDE DEF t
  <2> QED
    BY <2>1
<1>3. a.cs = "msg" /\ Got(a.output, Header)
      /\ a.output.structuredData = sm.structuredData
      /\ (a.output.hasElements \/ sm.structuredData = EmptyMap)
  BY DEF AtMessage
<1> HIDE DEF t
<1>4. k = Len(t)
  <2> SUFFICES ASSUME k # Len(t) PROVE FALSE
    OBVIOUS
  <2> DEFINE d == t[k + 1]
             s == SubSeq(t, k + 2, Len(t))
  <2>1. d \in Tokens /\ s \in Seq(Tokens) /\ SubSeq(t, k + 1, Len(t)) = <<d>> \o s
    BY <1>2, Cut
  <2> HIDE DEF d, s
  <2> QED
    BY <1>1, <2>1, NotEmpty
<1>5. a.text = t
  <2>1. SubSeq(t, 1, k) = t
    BY <1>2, <1>4, Cut
  <2> QED
    BY <1>1, <2>1, Zenon
<1>6. ~Unsayable
  BY <1>1, <1>2, <1>4 DEF Unsayable, t
<1>7. Eof(a) = x
  BY <1>3, EofLast
<1>8. /\ Same(a, x, {"output"}) /\ Else(a.output, x.output, {"message"})
      /\ x.output.message = a.text
  BY SettersAre
<1> HIDE DEF x
<1>9. x.cs = "msg"
  BY <1>3, <1>8 DEF Same, Fields
<1>10. /\ x.output.priority = sm.priority /\ x.output.version = sm.version
       /\ x.output.timestamp = sm.timestamp /\ x.output.message = sm.message
       /\ x.output.structuredData = sm.structuredData
       /\ (x.output.hasElements \/ sm.structuredData = EmptyMap)
       /\ \A f \in NameFields : x.output.name[f] = Text(f)
  <2>1. /\ a.output.priority = sm.priority /\ a.output.version = sm.version
        /\ a.output.timestamp = sm.timestamp
        /\ \A f \in NameFields : a.output.name[f] = Text(f)
    BY <1>3 DEF Got, Header
  <2>2. /\ x.output.priority = a.output.priority /\ x.output.version = a.output.version
        /\ x.output.timestamp = a.output.timestamp /\ x.output.name = a.output.name
        /\ x.output.structuredData = a.output.structuredData
        /\ x.output.hasElements = a.output.hasElements
    BY <1>8 DEF Else, OutputFields
  <2> QED
    BY <1>3, <1>5, <1>8, <2>1, <2>2 DEF t
<1>11. export(x.output) = sm
  BY <1>10, ExportIs
<1> QED
  BY <1>6, <1>7, <1>9, <1>11 DEF Ended, final

(* or where a compliant machine has refused it.                             *)
LEMMA FailEnds ==
    ASSUME NEW a, AtFail(a)
    PROVE  Ended(Eof(a))
<1>1. Eof(a) = a
  BY EofLast DEF AtFail
<1> QED
  BY <1>1, Zenon DEF Ended, AtFail

(* Where the string ends, the machine has the message, or refuses it.       *)
LEMMA EofPlace ==
    ASSUME NEW a, IsMachine(a), BuilderInv, HasString, At(a, <<>>)
    PROVE  Ended(Eof(a))
<1>1. AtNil(a, <<>>) \/ AtDataEnd(a, <<>>) \/ AtMessage(a, <<>>) \/ AtFail(a)
  BY HeaderGoesOn, ElementGoesOn, ValueGoesOn DEF At
<1> QED
  BY <1>1, NilEnds, DataEnds, MessageEnds, FailEnds

(* Once the message is made its string stays, and so does where a machine   *)
(* is in it.                                                                *)
LEMMA StringStays ==
    ASSUME sm' = sm
    PROVE  /\ Ids' = Ids /\ \A i : Params(i)' = Params(i) /\ ParamNames(i)' = ParamNames(i)
           /\ \A i, j : Value(i, j)' = Value(i, j)
           /\ FromMessage' = FromMessage /\ \A i : FromElement(i)' = FromElement(i)
           /\ \A i, j : /\ FromParam(i, j)' = FromParam(i, j)
                        /\ BehindValue(i, j)' = BehindValue(i, j)
                        /\ BehindName(i, j)' = BehindName(i, j)
           /\ FromData' = FromData
<1>1. Ids' = Ids
  BY DEF Ids
<1>2. \A i : Params(i)' = Params(i)
  BY <1>1 DEF Params
<1>3. \A i : ParamNames(i)' = ParamNames(i)
  BY <1>2 DEF ParamNames
<1>4. \A i, j : Value(i, j)' = Value(i, j)
  BY <1>2, <1>3 DEF Value
<1>5. FromMessage' = FromMessage
  BY DEF FromMessage
<1>6. Elements' = Elements
  BY <1>1 DEF Elements
<1>7. \A i : ParamStrings(i)' = ParamStrings(i)
  BY <1>2, <1>3 DEF ParamStrings
<1>8. \A i : FromElement(i)' = FromElement(i)
  BY <1>5, <1>6 DEF FromElement
<1>9. \A i, j : FromParam(i, j)' = FromParam(i, j)
  BY <1>7, <1>8 DEF FromParam
<1>10. \A i, j : BehindValue(i, j)' = BehindValue(i, j)
  BY <1>9 DEF BehindValue
<1>11. \A i, j : BehindName(i, j)' = BehindName(i, j)
  BY <1>4, <1>10 DEF BehindName
<1>12. FromData' = FromData
  BY <1>5 DEF FromData
<1> QED
  BY <1>1, <1>2, <1>3, <1>4, <1>5, <1>8, <1>9, <1>10, <1>11, <1>12

(* The same of the header and of the string as a whole,                     *)
LEMMA HeaderStays ==
    ASSUME sm' = sm
    PROVE  /\ \A f : Text(f)' = Text(f) /\ Behind(f)' = Behind(f)
           /\ Stamp' = Stamp /\ BehindStamp' = BehindStamp
           /\ FromVersion' = FromVersion /\ FromPriority' = FromPriority
           /\ String' = String /\ (HasString' <=> HasString)
           /\ \A o, F : Got(o, F)' <=> Got(o, F)
<1>1. \A f : Text(f)' = Text(f)
  BY DEF Text
<1>2. BehindMsgid' = BehindMsgid
  BY StringStays DEF BehindMsgid
<1>3. BehindProcid' = BehindProcid
  BY <1>1, <1>2 DEF BehindProcid
<1>4. BehindAppname' = BehindAppname
  BY <1>1, <1>3 DEF BehindAppname
<1>5. BehindHostname' = BehindHostname
  BY <1>1, <1>4 DEF BehindHostname
<1>6. \A f : Behind(f)' = Behind(f)
  BY <1>2, <1>3, <1>4, <1>5 DEF Behind
<1>7. Stamp' = Stamp
  BY DEF Stamp
<1>8. BehindStamp' = BehindStamp
  BY <1>1, <1>5 DEF BehindStamp
<1>9. FromVersion' = FromVersion
  BY <1>7, <1>8 DEF FromVersion
<1>10. FromPriority' = FromPriority
  BY <1>9 DEF FromPriority
<1>11. String' = String
  BY DEF String, NameString
<1>12. HasString' <=> HasString
  BY DEF HasString
<1>13. \A o, F : Got(o, F)' <=> Got(o, F)
  BY <1>1 DEF Got
<1> QED
  BY <1>1, <1>6, <1>7, <1>8, <1>9, <1>10, <1>11, <1>12, <1>13

(* of the places in the header,                                             *)
LEMMA HeaderPlaceStays ==
    ASSUME sm' = sm
    PROVE  /\ \A a, r : AtMain(a, r)' <=> AtMain(a, r)
           /\ \A a, r : AtPrival(a, r)' <=> AtPrival(a, r)
           /\ \A a, r : AtVersion(a, r)' <=> AtVersion(a, r)
           /\ \A a, r : AtTimestamp(a, r)' <=> AtTimestamp(a, r)
           /\ \A a, r : AtName(a, r)' <=> AtName(a, r)
           /\ \A a, r : AtData(a, r)' <=> AtData(a, r)
           /\ \A a, r : AtNil(a, r)' <=> AtNil(a, r)
<1>1. \A a, r : AtMain(a, r)' <=> AtMain(a, r)
  BY HeaderStays DEF AtMain
<1>2. \A a, r : AtPrival(a, r)' <=> AtPrival(a, r)
  BY HeaderStays DEF AtPrival
<1>3. \A a, r : AtVersion(a, r)' <=> AtVersion(a, r)
  BY HeaderStays DEF AtVersion
<1>4. \A a, r : AtTimestamp(a, r)' <=> AtTimestamp(a, r)
  BY HeaderStays DEF AtTimestamp
<1>5. \A a, r : AtName(a, r)' <=> AtName(a, r)
  BY HeaderStays DEF AtName
<1>6. \A a, r : AtData(a, r)' <=> AtData(a, r)
  BY HeaderStays, StringStays DEF AtData
<1>7. \A a, r : AtNil(a, r)' <=> AtNil(a, r)
  BY HeaderStays, StringStays DEF AtNil
<1> QED
  BY <1>1, <1>2, <1>3, <1>4, <1>5, <1>6, <1>7

(* of the places in the elements,                                           *)
LEMMA ElementPlaceStays ==
    ASSUME sm' = sm
    PROVE  /\ \A a, r : AtId(a, r)' <=> AtId(a, r)
           /\ \A a, r : AtParam(a, r)' <=> AtParam(a, r)
           /\ \A a, r : AtDq(a, r)' <=> AtDq(a, r)
           /\ \A a, r : AtValue(a, r)' <=> AtValue(a, r)
           /\ \A a, r : AtEscape(a, r)' <=> AtEscape(a, r)
           /\ \A a, r : AtParamEnd(a, r)' <=> AtParamEnd(a, r)
           /\ \A a, r : AtDataEnd(a, r)' <=> AtDataEnd(a, r)
<1>0. /\ \A o, F : Got(o, F)' <=> Got(o, F)
      /\ Ids' = Ids /\ \A i : ParamNames(i)' = ParamNames(i)
  BY HeaderStays, StringStays
<1>1. \A i : Elems(i)' = Elems(i)
  BY <1>0 DEF Elems
<1>2. \A i, j : Pars(i, j)' = Pars(i, j)
  BY <1>0, StringStays DEF Pars
<1>3. \A o, i : HasWhole(o, i)' <=> HasWhole(o, i)
  BY <1>1 DEF HasWhole
<1>4. \A a, i, j : HasPart(a, i, j)' <=> HasPart(a, i, j)
  BY <1>0, <1>1, <1>2 DEF HasPart
<1>5. \A a, i, j : OfParam(a, i, j)' <=> OfParam(a, i, j)
  BY <1>0, <1>4 DEF OfParam
<1>6. \A a, r : AtId(a, r)' <=> AtId(a, r)
  <2>1. ASSUME NEW a, NEW r PROVE AtId(a, r) => AtId(a, r)'
    BY <1>0, <1>3, StringStays DEF AtId
  <2>2. ASSUME NEW a, NEW r PROVE AtId(a, r)' => AtId(a, r)
    BY <1>0, <1>3, StringStays DEF AtId
  <2> QED
    BY <2>1, <2>2
<1>7. \A a, r : AtParam(a, r)' <=> AtParam(a, r)
  <2>1. ASSUME NEW a, NEW r PROVE AtParam(a, r) => AtParam(a, r)'
    BY <1>0, <1>4, StringStays DEF AtParam
  <2>2. ASSUME NEW a, NEW r PROVE AtParam(a, r)' => AtParam(a, r)
    BY <1>0, <1>4, StringStays DEF AtParam
  <2> QED
    BY <2>1, <2>2
<1>8. \A a, r : AtDq(a, r)' <=> AtDq(a, r)
  <2> DEFINE E(a, r, v, w) == a.text = <<>> /\ a.backslashat = {}
                              /\ r = <<"\"">> \o (EscapeBytes(v) \o w)
  <2>1. \A a, r : AtDq(a, r) <=>
          a.cs = "dq" /\ \E i \in DOMAIN Ids : \E j \in DOMAIN ParamNames(i) :
              OfParam(a, i, j) /\ E(a, r, Value(i, j), BehindValue(i, j))
    BY Zenon DEF AtDq
  <2>2. \A a, r : AtDq(a, r)' <=>
          a.cs = "dq" /\ \E i \in DOMAIN Ids' : \E j \in DOMAIN ParamNames(i)' :
              OfParam(a, i, j)' /\ E(a, r, Value(i, j)', BehindValue(i, j)')
    BY Zenon DEF AtDq
  <2>3. /\ \A i, j : Value(i, j)' = Value(i, j) /\ BehindValue(i, j)' = BehindValue(i, j)
        /\ \A a, i, j : OfParam(a, i, j)' <=> OfParam(a, i, j)
    BY <1>5, StringStays
  <2> HIDE DEF E
  <2>4. ASSUME NEW a, NEW r PROVE AtDq(a, r)' <=> AtDq(a, r)
    <3>1. AtDq(a, r) => AtDq(a, r)'
      BY <1>0, <2>1, <2>2, <2>3
    <3>2. AtDq(a, r)' => AtDq(a, r)
      BY <1>0, <2>1, <2>2, <2>3
    <3> QED
      BY <3>1, <3>2
  <2> QED
    BY <2>4
<1>9. \A a, r : AtValue(a, r)' <=> AtValue(a, r)
  <2> DEFINE E(a, r, v, w) ==
                 \E k \in 0..Len(v) : Unescaped(a, v, k) /\ r = ValueFrom(v, k, w)
  <2>1. \A a, r : AtValue(a, r) <=>
          a.cs = "paramvalue" /\ \E i \in DOMAIN Ids : \E j \in DOMAIN ParamNames(i) :
              OfParam(a, i, j) /\ E(a, r, Value(i, j), BehindValue(i, j))
    BY Zenon DEF AtValue
  <2>2. \A a, r : AtValue(a, r)' <=>
          a.cs = "paramvalue" /\ \E i \in DOMAIN Ids' : \E j \in DOMAIN ParamNames(i)' :
              OfParam(a, i, j)' /\ E(a, r, Value(i, j)', BehindValue(i, j)')
    BY Zenon DEF AtValue
  <2>3. /\ \A i, j : Value(i, j)' = Value(i, j) /\ BehindValue(i, j)' = BehindValue(i, j)
        /\ \A a, i, j : OfParam(a, i, j)' <=> OfParam(a, i, j)
    BY <1>5, StringStays
  <2> HIDE DEF E
  <2>4. ASSUME NEW a, NEW r PROVE AtValue(a, r)' <=> AtValue(a, r)
    <3>1. AtValue(a, r) => AtValue(a, r)'
      BY <1>0, <2>1, <2>2, <2>3
    <3>2. AtValue(a, r)' => AtValue(a, r)
      BY <1>0, <2>1, <2>2, <2>3
    <3> QED
      BY <3>1, <3>2
  <2> QED
    BY <2>4
<1>10. \A a, r : AtEscape(a, r)' <=> AtEscape(a, r)
  <2> DEFINE E(a, r, v, w) ==
                 \E k \in 1..Len(v) : /\ Unescaped(a, v, k - 1) /\ v[k] \in Delims
                                      /\ r = <<v[k]>> \o ValueFrom(v, k, w)
  <2>1. \A a, r : AtEscape(a, r) <=>
          a.cs = "escapes" /\ \E i \in DOMAIN Ids : \E j \in DOMAIN ParamNames(i) :
              OfParam(a, i, j) /\ E(a, r, Value(i, j), BehindValue(i, j))
    BY Zenon DEF AtEscape
  <2>2. \A a, r : AtEscape(a, r)' <=>
          a.cs = "escapes" /\ \E i \in DOMAIN Ids' : \E j \in DOMAIN ParamNames(i)' :
              OfParam(a, i, j)' /\ E(a, r, Value(i, j)', BehindValue(i, j)')
    BY Zenon DEF AtEscape
  <2>3. /\ \A i, j : Value(i, j)' = Value(i, j) /\ BehindValue(i, j)' = BehindValue(i, j)
        /\ \A a, i, j : OfParam(a, i, j)' <=> OfParam(a, i, j)
    BY <1>5, StringStays
  <2> HIDE DEF E
  <2>4. ASSUME NEW a, NEW r PROVE AtEscape(a, r)' <=> AtEscape(a, r)
    <3>1. AtEscape(a, r) => AtEscape(a, r)'
      BY <1>0, <2>1, <2>2, <2>3
    <3>2. AtEscape(a, r)' => AtEscape(a, r)
      BY <1>0, <2>1, <2>2, <2>3
    <3> QED
      BY <3>1, <3>2
  <2> QED
    BY <2>4
<1>11. \A a, r : AtParamEnd(a, r)' <=> AtParamEnd(a, r)
  <2>1. ASSUME NEW a, NEW r PROVE AtParamEnd(a, r) => AtParamEnd(a, r)'
    BY <1>0, <1>4, StringStays DEF AtParamEnd
  <2>2. ASSUME NEW a, NEW r PROVE AtParamEnd(a, r)' => AtParamEnd(a, r)
    BY <1>0, <1>4, StringStays DEF AtParamEnd
  <2> QED
    BY <2>1, <2>2
<1>12. \A a, r : AtDataEnd(a, r)' <=> AtDataEnd(a, r)
  <2>1. ASSUME NEW a, NEW r PROVE AtDataEnd(a, r) => AtDataEnd(a, r)'
    BY <1>0, <1>3, StringStays DEF AtDataEnd
  <2>2. ASSUME NEW a, NEW r PROVE AtDataEnd(a, r)' => AtDataEnd(a, r)
    BY <1>0, <1>3, StringStays DEF AtDataEnd
  <2> QED
    BY <2>1, <2>2
<1> QED
  BY <1>6, <1>7, <1>8, <1>9, <1>10, <1>11, <1>12

(* and of all places.                                                       *)
LEMMA PlaceStays ==
    ASSUME sm' = sm, config' = config
    PROVE  /\ \A a, r : At(a, r)' <=> At(a, r)
           /\ \A a : Ended(a)' <=> Ended(a)
<1>0. \A o, F : Got(o, F)' <=> Got(o, F)
  BY HeaderStays
<1>1. \A a, r : AtMessage(a, r)' <=> AtMessage(a, r)
  BY <1>0 DEF AtMessage
<1>2. Unsayable' <=> Unsayable
  BY DEF Unsayable
<1>3. \A a : AtFail(a)' <=> AtFail(a)
  BY <1>2 DEF AtFail
<1>4. \A a, r : At(a, r)' <=> At(a, r)
  BY <1>1, <1>3, HeaderPlaceStays, ElementPlaceStays, Zenon DEF At
<1>5. \A a : Ended(a)' <=> Ended(a)
  BY <1>2, Zenon DEF Ended
<1> QED
  BY <1>4, <1>5

(* A call that a step does not touch.                                       *)
LEMMA SentStays ==
    ASSUME sm' = sm, config' = config, calls > 0 => calls' > 0,
           NEW g \in Goroutines, call'[g] = call[g], Sent(g)
    PROVE  Sent(g)'
<1>1. String' = String /\ (HasString' <=> HasString)
  BY HeaderStays
<1>2. /\ \A a, r : At(a, r)' <=> At(a, r)
      /\ \A a : Ended(a)' <=> Ended(a)
  BY PlaceStays
<1> QED
  BY <1>1, <1>2 DEF Sent

(* The invariant holds when no one has called,                              *)
LEMMA RoundBegins == Init => RoundInv
<1> SUFFICES ASSUME Init PROVE RoundInv
  OBVIOUS
<1>1. \A g \in Goroutines : call[g] = NoCall(config)
  BY DEF Init
<1>2. \A g \in Goroutines : call[g].pc = "idle" /\ call[g].read = 0
  BY <1>1 DEF NoCall
<1>3. calls \in Nat
  BY DEF Init
<1> QED
  BY <1>2, <1>3 DEF RoundInv

(* The builder's setters come before the call that sends its string.        *)
LEMMA RoundBuild ==
    ASSUME RoundInv, Build
    PROVE  RoundInv'
<1>1. calls = 0 /\ calls' = calls /\ call' = call
  BY DEF Build, parserVars
<1>2. \A g \in Goroutines : Sent(g) => calls > 0
  BY DEF Sent
<1>3. calls \in Nat /\ calls' \in Nat /\ ~(calls > 0)
  BY <1>1 DEF RoundInv
<1>4. ASSUME NEW g \in Goroutines
      PROVE  /\ call'[g].pc = "idle" => call'[g].read = 0
             /\ ~(call'[g].src = "built" /\ call'[g].pc # "idle")
  BY <1>1, <1>2, <1>3 DEF RoundInv
<1> QED
  BY <1>3, <1>4 DEF RoundInv

(* A step of one call, the others as they were.                             *)
LEMMA RoundOthers ==
    ASSUME RoundInv, sm' = sm, config' = config, calls' \in Nat, calls > 0 => calls' > 0,
           NEW g \in Goroutines, \A h \in Goroutines \ {g} : call'[h] = call[h],
           call'[g].pc = "idle" => call'[g].read = 0,
           call'[g].src = "built" /\ call'[g].pc # "idle" => Sent(g)'
    PROVE  RoundInv'
<1>1. ASSUME NEW h \in Goroutines \ {g}
      PROVE  /\ call'[h].pc = "idle" => call'[h].read = 0
             /\ call'[h].src = "built" /\ call'[h].pc # "idle" => Sent(h)'
  <2>1. call'[h] = call[h]
    OBVIOUS
  <2> QED
    BY <2>1, SentStays DEF RoundInv
<1> QED
  BY <1>1 DEF RoundInv

(* when the string is sent,                                                 *)
LEMMA RoundCall ==
    ASSUME Inv, RoundInv, NEW g \in Goroutines, NEW src \in {"any", "built"}, Call(g, src)
    PROVE  RoundInv'
<1>1. /\ sm' = sm /\ config' = config /\ calls' = calls + 1 /\ call[g].pc = "idle"
      /\ src = "built" => HasString
  BY DEF Call, builderVars
<1>2. calls \in Nat /\ calls' \in Nat /\ calls' > 0
  BY <1>1 DEF RoundInv
<1>3. /\ call'[g].pc = "lock" /\ call'[g].src = src /\ call'[g].read = call[g].read
      /\ src = "built" => call'[g].built = String
      /\ \A h \in Goroutines \ {g} : call'[h] = call[h]
  BY DEF Call, Inv, CallInv, CallFields
<1>4. call'[g].read = 0
  BY <1>1, <1>3 DEF RoundInv
<1>5. String' = String /\ (HasString' <=> HasString)
  BY <1>1, HeaderStays
<1>6. call'[g].src = "built" => Sent(g)'
  BY <1>1, <1>2, <1>3, <1>4, <1>5 DEF Sent
<1> QED
  BY <1>1, <1>2, <1>3, <1>6, RoundOthers

(* The new machine is before the string.                                    *)
LEMMA NewPlace ==
    ASSUME BuilderInv, HasString
    PROVE  At(NewMachine(config), String)
<1> DEFINE a == NewMachine(config)
<1>1. a.cs = "main" /\ a.text = <<>> /\ a.output = NoOutput
  BY DEF NewMachine
<1>2. Got(NoOutput, {}) /\ NoData(NoOutput)
  <2>1. /\ NoOutput.message = <<>> /\ DOMAIN NoOutput.name = NameFields /\ NoOutput.timestamp = ""
        /\ NoOutput.structuredData = EmptyMap /\ NoOutput.hasElements = FALSE
    BY DEF NoOutput
  <2> QED
    BY <2>1 DEF Got, NoData
<1> HIDE DEF a
<1>3. AtMain(a, String)
  BY <1>1, <1>2, StringIs DEF AtMain
<1> QED
  BY <1>3 DEF At, a

(* when its goroutine gets the machine,                                     *)
LEMMA RoundLock ==
    ASSUME Inv, BuilderInv, RoundInv, NEW g \in Goroutines, Lock(g)
    PROVE  RoundInv'
<1>1. sm' = sm /\ config' = config /\ calls' = calls /\ call[g].pc = "lock"
  BY DEF Lock, builderVars
<1>2. /\ call'[g].pc = "read" /\ call'[g].src = call[g].src /\ call'[g].read = call[g].read
      /\ call'[g].built = call[g].built /\ call'[g].alone = call[g].alone
      /\ \A h \in Goroutines \ {g} : call'[h] = call[h]
  BY DEF Lock, Inv, CallInv, CallFields
<1>3. ASSUME call'[g].src = "built" PROVE Sent(g)'
  <2>1. HasString /\ calls > 0 /\ call[g].built = String /\ call[g].read = 0
    BY <1>1, <1>2, <1>3 DEF RoundInv, Sent
  <2>2. call[g].alone = NewMachine(config)
    BY <1>1 DEF Inv, CallInv
  <2>3. String \in Seq(Tokens)
    BY <2>1, StringIs
  <2> DEFINE l == Len(String)
  <2>4. l \in Nat
    BY <2>3
  <2> HIDE DEF l
  <2>5. l \in 0..l /\ 0 \in 0..l /\ 0 + 1 = 1
    BY <2>4
  <2>6. SubSeq(String, 0 + 1, Len(String)) = String
    <3>1. SubSeq(String, 1, l) = String
      BY <2>3, <2>5, Cut DEF l
    <3> QED
      BY <2>5, <3>1 DEF l
  <2>7. At(call[g].alone, SubSeq(String, 0 + 1, Len(String)))
    BY <2>1, <2>2, <2>6, NewPlace
  <2>8. String' = String /\ (HasString' <=> HasString) /\ \A a, r : At(a, r)' <=> At(a, r)
    BY <1>1, HeaderStays, PlaceStays
  <2>9. call'[g].read = 0 /\ call'[g].read \in 0..Len(String)
    BY <1>2, <2>1, <2>5 DEF l
  <2>10. At(call[g].alone, SubSeq(String, call[g].read + 1, Len(String)))'
    <3>1. At(call'[g].alone, SubSeq(String', call'[g].read + 1, Len(String')))
      BY <1>2, <2>7, <2>8, <2>9, Zenon
    <3> QED
      BY <2>8, <3>1, Zenon
  <2> QED
    BY <1>1, <1>2, <2>1, <2>8, <2>9, <2>10 DEF Sent
<1>4. calls' \in Nat
  BY <1>1 DEF RoundInv
<1> QED
  BY <1>1, <1>2, <1>3, <1>4, RoundOthers

(* Read: the next token of the string.                                      *)
LEMMA RoundRead ==
    ASSUME Inv, BuilderInv, RoundInv, NEW g \in Goroutines, Read(g)
    PROVE  RoundInv'
<1> DEFINE a == call[g].alone
           k == call[g].read
<1>1. /\ sm' = sm /\ config' = config /\ calls' = calls /\ call[g].pc = "read"
      /\ m.cs # "fail" /\ \E c : Reads(g, c)
  BY DEF Read, Reading, builderVars
<1>2. call[g].src = "built" => k < Len(call[g].built) /\ Reads(g, call[g].built[k + 1])
  <2>1. "built" # "any"
    OBVIOUS
  <2> QED
    BY <2>1, Zenon DEF Read
<1>3. /\ call'[g].pc = "read" /\ call'[g].src = call[g].src /\ call'[g].read = k + 1
      /\ call'[g].built = call[g].built
      /\ \A h \in Goroutines \ {g} : call'[h] = call[h]
  <2>1. PICK c : Reads(g, c)
    BY <1>1
  <2> QED
    BY <1>1, <2>1 DEF Reads, Inv, CallInv, CallFields
<1>4. ASSUME call[g].src = "built" PROVE Sent(g)'
  <2> DEFINE w == String
             l == Len(w)
             c == w[k + 1]
             r == SubSeq(w, k + 2, l)
  <2>1. /\ HasString /\ calls > 0 /\ call[g].built = w /\ k \in 0..l
        /\ At(a, SubSeq(w, k + 1, l))
    BY <1>1, <1>4 DEF RoundInv, Sent
  <2>2. k < l /\ Reads(g, c)
    BY <1>2, <1>4, <2>1
  <2>3. call'[g].alone = Step(a, c)
    BY <1>1, <2>2 DEF Reads, Inv, CallInv, CallFields
  <2>4. IsMachine(a) /\ a.cs # "fail"
    BY <1>1 DEF Inv, CallInv, Coupled, Alike
  <2>5. w \in Seq(Tokens)
    BY <2>1, StringIs
  <2> HIDE DEF w, a, k
  <2>6. l \in Nat /\ k # l
    <3>1. l \in Nat
      BY <2>5
    <3> HIDE DEF l
    <3> QED
      BY <2>1, <2>2, <3>1
  <2>7. c \in Tokens /\ SubSeq(w, k + 1, l) = <<c>> \o r /\ r \in Seq(Tokens)
    BY <2>1, <2>5, <2>6, Cut
  <2> HIDE DEF l
  <2>8. k + 1 \in 0..l /\ (k + 1) + 1 = k + 2
    BY <2>1, <2>6
  <2> HIDE DEF c
  <2>9. At(Step(a, c), SubSeq(w, (k + 1) + 1, l))
    <3>1. At(a, <<c>> \o r)
      BY <2>1, <2>7
    <3> HIDE DEF r
    <3>2. At(Step(a, c), r)
      BY <2>1, <2>4, <2>7, <3>1, StepPlace
    <3> QED
      BY <2>8, <3>2 DEF r
  <2>10. String' = String /\ (HasString' <=> HasString) /\ \A x, u : At(x, u)' <=> At(x, u)
    BY <1>1, HeaderStays, PlaceStays
  <2>11. At(call[g].alone, SubSeq(String, call[g].read + 1, Len(String)))'
    <3>1. At(call'[g].alone, SubSeq(String', call'[g].read + 1, Len(String')))
      BY <1>3, <2>3, <2>9, <2>10, Zenon DEF l, w
    <3> QED
      BY <2>10, <3>1, Zenon
  <2>12. call'[g].read \in 0..Len(String) /\ call'[g].built = String
    BY <1>3, <2>1, <2>8 DEF l, w
  <2> QED
    BY <1>1, <1>3, <2>1, <2>10, <2>11, <2>12 DEF Sent
<1>5. calls' \in Nat
  BY <1>1 DEF RoundInv
<1> QED
  BY <1>1, <1>3, <1>4, <1>5, RoundOthers

(* After an error the machine stays where it failed.                        *)
LEMMA FailedPlace ==
    ASSUME NEW a, NEW r, At(a, r), a.cs = "fail"
    PROVE  AtFail(a)
<1>1. /\ ~AtMain(a, r) /\ ~AtPrival(a, r) /\ ~AtVersion(a, r) /\ ~AtTimestamp(a, r)
      /\ ~AtName(a, r) /\ ~AtData(a, r) /\ ~AtNil(a, r)
  BY DEF AtMain, AtPrival, AtVersion, AtTimestamp, AtName, AtData, AtNil, NameFields
<1>2. /\ ~AtId(a, r) /\ ~AtParam(a, r) /\ ~AtDq(a, r) /\ ~AtValue(a, r) /\ ~AtEscape(a, r)
      /\ ~AtParamEnd(a, r) /\ ~AtDataEnd(a, r) /\ ~AtMessage(a, r)
  BY DEF AtId, AtParam, AtDq, AtValue, AtEscape, AtParamEnd, AtDataEnd, AtMessage
<1> QED
  BY <1>1, <1>2 DEF At

(* when the string is at its end or the machine has failed,                 *)
LEMMA RoundFinish ==
    ASSUME Inv, BuilderInv, RoundInv, NEW g \in Goroutines, Finish(g)
    PROVE  RoundInv'
<1> DEFINE a == call[g].alone
           k == call[g].read
<1>1. /\ sm' = sm /\ config' = config /\ calls' = calls /\ call[g].pc = "read"
      /\ m.cs = "fail" \/ AtEnd(g)
  BY DEF Finish, builderVars
<1>2. call' = [call EXCEPT ![g].pc = "parsed", ![g].res = Answer(Eof(m), bestEffort),
                           ![g].alone = Eof(@)]
  BY Zenon DEF Finish
<1>3. /\ call'[g].pc = "parsed" /\ call'[g].src = call[g].src
      /\ call'[g].built = call[g].built /\ call'[g].alone = Eof(a)
      /\ \A h \in Goroutines \ {g} : call'[h] = call[h]
  BY <1>2 DEF Inv, CallInv, CallFields
<1>4. ASSUME call[g].src = "built" PROVE Sent(g)'
  <2> DEFINE w == String
             l == Len(w)
  <2>1. /\ HasString /\ calls > 0 /\ call[g].built = w /\ k \in 0..l
        /\ At(a, SubSeq(w, k + 1, l))
    BY <1>1, <1>4 DEF RoundInv, Sent
  <2>2. IsMachine(a) /\ (m.cs = "fail" => a.cs = "fail")
    BY <1>1 DEF Inv, CallInv, Coupled, Alike
  <2>3. w \in Seq(Tokens)
    BY <2>1, StringIs
  <2>4. Ended(Eof(a))
    <3>1. CASE m.cs = "fail"
      <4>1. AtFail(a)
        BY <2>1, <2>2, <3>1, FailedPlace
      <4> QED
        BY <4>1, FailEnds
    <3>2. CASE AtEnd(g)
      <4>1. k = l
        BY <1>4, <2>1, <3>2 DEF AtEnd
      <4> HIDE DEF w
      <4>2. SubSeq(w, k + 1, l) = <<>>
        BY <2>1, <2>3, <4>1, Cut
      <4>3. At(a, <<>>)
        BY <2>1, <4>2
      <4> QED
        BY <2>1, <2>2, <4>3, EofPlace
    <3> QED
      BY <1>1, <3>1, <3>2
  <2>5. String' = String /\ (HasString' <=> HasString) /\ \A x : Ended(x)' <=> Ended(x)
    BY <1>1, HeaderStays, PlaceStays
  <2>6. Ended(call[g].alone)'
    BY <1>3, <2>4, <2>5
  <2> QED
    BY <1>1, <1>3, <2>1, <2>5, <2>6 DEF Sent
<1>5. calls' \in Nat
  BY <1>1 DEF RoundInv
<1> QED
  BY <1>1, <1>3, <1>4, <1>5, RoundOthers

(* when the lock is given back,                                             *)
LEMMA RoundUnlock ==
    ASSUME Inv, RoundInv, NEW g \in Goroutines, Unlock(g)
    PROVE  RoundInv'
<1> DEFINE q == call[g].res
           s == IF q.err # "nil" /\ ~bestEffort THEN Result(FALSE, Nothing, q.err) ELSE q
<1>1. sm' = sm /\ config' = config /\ calls' = calls /\ call[g].pc = "parsed"
  BY DEF Unlock, builderVars
<1>2. call' = [call EXCEPT ![g].pc = "done", ![g].res = s]
  BY Zenon DEF Unlock
<1> HIDE DEF s
<1>3. /\ call'[g].pc = "done" /\ call'[g].src = call[g].src
      /\ call'[g].built = call[g].built /\ call'[g].alone = call[g].alone
      /\ \A h \in Goroutines \ {g} : call'[h] = call[h]
  BY <1>2 DEF Inv, CallInv, CallFields
<1>4. ASSUME call[g].src = "built" PROVE Sent(g)'
  <2>1. HasString /\ calls > 0 /\ call[g].built = String /\ Ended(call[g].alone)
    BY <1>1, <1>4 DEF RoundInv, Sent
  <2>2. String' = String /\ (HasString' <=> HasString) /\ \A x : Ended(x)' <=> Ended(x)
    BY <1>1, HeaderStays, PlaceStays
  <2>3. Ended(call[g].alone)'
    BY <1>3, <2>1, <2>2
  <2> QED
    BY <1>1, <1>3, <2>1, <2>2, <2>3 DEF Sent
<1>5. calls' \in Nat
  BY <1>1 DEF RoundInv
<1> QED
  BY <1>1, <1>3, <1>4, <1>5, RoundOthers

(* and when the caller has its message.                                     *)
LEMMA RoundReturn ==
    ASSUME Inv, RoundInv, NEW g \in Goroutines, Return(g)
    PROVE  RoundInv'
<1>1. /\ sm' = sm /\ config' = config /\ calls' = calls
      /\ call' = [call EXCEPT ![g] = NoCall(config)]
  BY DEF Return, builderVars
<1>2. /\ call'[g] = NoCall(config) /\ \A h \in Goroutines \ {g} : call'[h] = call[h]
  BY <1>1 DEF Inv
<1>3. call'[g].pc = "idle" /\ call'[g].read = 0
  BY <1>2 DEF NoCall
<1>4. calls' \in Nat
  BY <1>1 DEF RoundInv
<1> QED
  BY <1>1, <1>2, <1>3, <1>4, RoundOthers

(* So every step keeps it.                                                  *)
LEMMA RoundStep == Inv /\ BuilderInv /\ RoundInv /\ [Next]_vars => BuilderInv' /\ RoundInv'
<1> SUFFICES ASSUME Inv, BuilderInv, RoundInv, [Next]_vars PROVE BuilderInv' /\ RoundInv'
  OBVIOUS
<1>0. ASSUME sm' = sm PROVE BuilderInv'
  BY <1>0 DEF BuilderInv, IsMessage, NamesFit
<1>1. CASE Build
  <2>1. BuilderInv'
    BY <1>1, BuilderKept DEF Build
  <2> QED
    BY <1>1, <2>1, RoundBuild
<1>2. CASE WithBestEffort \/ UNCHANGED vars
  <2>1. sm' = sm /\ config' = config /\ calls' = calls /\ call' = call
    BY <1>2 DEF WithBestEffort, vars, builderVars, parserVars
  <2>2. \A g \in Goroutines : Sent(g) => Sent(g)'
    BY <2>1, SentStays
  <2> QED
    BY <1>0, <2>1, <2>2 DEF RoundInv
<1>3. ASSUME NEW g \in Goroutines, NEW src \in {"any", "built"}, Call(g, src)
      PROVE  BuilderInv' /\ RoundInv'
  BY <1>0, <1>3, RoundCall DEF Call, builderVars
<1>4. ASSUME NEW g \in Goroutines, Parse(g) PROVE BuilderInv' /\ RoundInv'
  <2>1. sm' = sm
    BY <1>4 DEF Parse, Lock, Read, Finish, Unlock, builderVars
  <2> QED
    BY <1>0, <1>4, <2>1, RoundLock, RoundRead, RoundFinish, RoundUnlock DEF Parse
<1>5. ASSUME NEW g \in Goroutines, Return(g) PROVE BuilderInv' /\ RoundInv'
  BY <1>0, <1>5, RoundReturn DEF Return, builderVars
<1> QED
  BY <1>1, <1>2, <1>3, <1>4, <1>5 DEF Next

(* What a builder's String says, the parser reads back: every message the   *)
(* setters can make and that has a string comes back field for field        *)
(* (builder.go:9347, machine.go:118), unless a compliant machine refuses a  *)
(* message that begins with a BOM and is no text (machine.go:1697).         *)
THEOREM BuiltIsReadBack == Spec => []RoundTrip
<1>1. Init => BuilderInv /\ RoundInv
  BY BuilderBegins, RoundBegins DEF Init
<1>2. Inv /\ BuilderInv /\ RoundInv => RoundTrip
  <2> SUFFICES ASSUME Inv, RoundInv, NEW g \in Goroutines, Returned(g), call[g].src = "built"
               PROVE  IF Unsayable THEN call[g].res.err = "ErrMsgNotCompliant"
                      ELSE call[g].res = Result(TRUE, sm, "nil")
    BY Zenon DEF RoundTrip, Unsayable
  <2> DEFINE a == call[g].alone
  <2>1. Ended(a) /\ AnsweredAlone(g)
    BY DEF Returned, RoundInv, Sent, Inv, CallInv
  <2>2. PICK be : call[g].res = Answer(a, be)
    BY <2>1, Zenon DEF AnsweredAlone
  <2> HIDE DEF a
  <2>3. CASE Unsayable
    <3>1. a.cs \notin final /\ a.err = "ErrMsgNotCompliant"
      BY <2>1, <2>3 DEF Ended, final
    <3>2. call[g].res = IF be /\ minimal(a) THEN Result(TRUE, export(a.output), a.err)
                        ELSE Result(FALSE, Nothing, a.err)
      BY <2>2, <3>1, Zenon DEF Answer
    <3>3. call[g].res.err = a.err
      BY <3>2 DEF Result
    <3> QED
      BY <2>3, <3>1, <3>3, Zenon
  <2>4. CASE ~Unsayable
    <3>1. a.cs \in final /\ export(a.output) = sm
      BY <2>1, <2>4, Zenon DEF Ended
    <3>2. call[g].res = Result(TRUE, sm, "nil")
      BY <2>2, <3>1, Zenon DEF Answer
    <3> QED
      BY <2>4, <3>2, Zenon
  <2> QED
    BY <2>3, <2>4
<1>3. Inv /\ [Next]_vars => Inv'
  BY StepInv
<1> QED
  BY <1>1, <1>2, InitInv, <1>3, RoundStep, PTL DEF Spec
==============================================================================
