--------------------------- MODULE Rfc3164Proofs ---------------------------
(***************************************************************************)
(* The RFC 3164 machine, for every set of options, alphabet, tag range and *)
(* number of calls: a call on a used machine answers as on a new one, and  *)
(* leaves the options, the flags for Cisco's extras among them, as they    *)
(* were made; where a refusal may be silent; that Cisco's options only add *)
(* to what is accepted; and that of what is accepted nothing is lost.      *)
(***************************************************************************)
EXTENDS Rfc3164Machine, SequenceTheorems, TLAPS

-----------------------------------------------------------------------------
(* What no token changes. *)

Fields == {"bestEffort", "optionalPriority", "newline", "rfc3339", "secfrac", "lenientDay",
           "flags", "cs", "at", "data", "pb", "err", "output"}

(* n is a machine with the options c, whatever its flags now are. *)
HasOptions(n, c) ==
    /\ DOMAIN n = Fields
    /\ n.bestEffort = c.bestEffort /\ n.optionalPriority = c.optionalPriority
    /\ n.newline = c.newline /\ n.rfc3339 = c.rfc3339
    /\ n.secfrac = c.secfrac /\ n.lenientDay = c.lenientDay

(* And an error is set only where the machine stopped for it. *)
Sound(n, c) == HasOptions(n, c) /\ (n.cs # "fail" => n.err = "nil")

(* A machine with these options and flags is, once begun anew, the new one. *)
LEMMA BegunIsNew ==
    ASSUME NEW n, NEW c, HasOptions(n, c), n.flags = Flags(c)
    PROVE  Begin(n, "main", {}) = NewMachine(c)
<1> DEFINE b == Begin(n, "main", {})
           a == NewMachine(c)
<1>b. b = [f \in Fields |-> b[f]]
  BY DEF Begin, HasOptions, Fields
<1>a. a = [f \in Fields |-> a[f]]
  BY DEF NewMachine, Fields
<1>1. /\ b["cs"] = "main" /\ b["at"] = {} /\ b["data"] = <<>> /\ b["pb"] = 0
      /\ b["err"] = "nil" /\ b["output"] = NoOutput /\ b["flags"] = Flags(c)
      /\ b["bestEffort"] = c.bestEffort /\ b["optionalPriority"] = c.optionalPriority
      /\ b["newline"] = c.newline /\ b["rfc3339"] = c.rfc3339
      /\ b["secfrac"] = c.secfrac /\ b["lenientDay"] = c.lenientDay
  BY DEF Begin, HasOptions, Fields
<1>2. /\ a["cs"] = "main" /\ a["at"] = {} /\ a["data"] = <<>> /\ a["pb"] = 0
      /\ a["err"] = "nil" /\ a["output"] = NoOutput /\ a["flags"] = Flags(c)
      /\ a["bestEffort"] = c.bestEffort /\ a["optionalPriority"] = c.optionalPriority
      /\ a["newline"] = c.newline /\ a["rfc3339"] = c.rfc3339
      /\ a["secfrac"] = c.secfrac /\ a["lenientDay"] = c.lenientDay
  BY DEF NewMachine, Fields
<1> HIDE DEF a, b
<1>3. \A f \in Fields : b[f] = a[f]
  <2>1. /\ b["cs"] = a["cs"] /\ b["at"] = a["at"] /\ b["data"] = a["data"] /\ b["pb"] = a["pb"]
        /\ b["err"] = a["err"] /\ b["output"] = a["output"] /\ b["flags"] = a["flags"]
        /\ b["bestEffort"] = a["bestEffort"] /\ b["optionalPriority"] = a["optionalPriority"]
        /\ b["newline"] = a["newline"] /\ b["rfc3339"] = a["rfc3339"]
        /\ b["secfrac"] = a["secfrac"] /\ b["lenientDay"] = a["lenientDay"]
    BY <1>1, <1>2, Zenon
  <2> QED
    BY <2>1, Zenon DEF Fields
<1>4. a = b
  BY <1>a, <1>b, <1>3, Zenon
<1> QED
  BY <1>4 DEF a, b

(* The new machine is sound. *)
LEMMA NewIsSound ==
    ASSUME NEW c
    PROVE  Sound(NewMachine(c), c) /\ NewMachine(c).flags = Flags(c)
  BY DEF Sound, HasOptions, NewMachine, Fields

-----------------------------------------------------------------------------
(* The actions of the grammar. *)

(* None touches an option, and only an error action sets an error. *)
LEMMA ActionsSound ==
    ASSUME NEW n, NEW c, Sound(n, c)
    PROVE  /\ Sound(mark(n), c) /\ mark(n).cs = n.cs
           /\ \A s : s # "fail" /\ n.cs # "fail" => Sound(Goto(n, s), c) /\ Goto(n, s).cs = s
           /\ \A t : Sound(Take(n, t), c) /\ Take(n, t).cs = n.cs
           /\ \A places : /\ Sound([n EXCEPT !.at = places], c)
                          /\ [n EXCEPT !.at = places].cs = n.cs
           /\ \A e : Sound(Fail(n, e), c)
           /\ n.cs # "fail" => Sound(Stop(n), c)
           /\ \A f : Sound([n EXCEPT !.flags = f], c)
           /\ \A start, places : start # "fail" => Sound(Begin(n, start, places), c)
<1>1. Sound(mark(n), c) /\ mark(n).cs = n.cs
  BY DEF Sound, HasOptions, Fields, mark
<1>2. ASSUME NEW s, s # "fail", n.cs # "fail" PROVE Sound(Goto(n, s), c) /\ Goto(n, s).cs = s
  BY <1>2 DEF Sound, HasOptions, Fields, Goto
<1>3. ASSUME NEW t PROVE Sound(Take(n, t), c) /\ Take(n, t).cs = n.cs
  BY DEF Sound, HasOptions, Fields, Take
<1>4. ASSUME NEW places
      PROVE  Sound([n EXCEPT !.at = places], c) /\ [n EXCEPT !.at = places].cs = n.cs
  BY DEF Sound, HasOptions, Fields
<1>5. ASSUME NEW e PROVE Sound(Fail(n, e), c)
  BY DEF Sound, HasOptions, Fields, Fail
<1>6. n.cs # "fail" => Sound(Stop(n), c)
  BY DEF Sound, HasOptions, Fields, Stop
<1>7. ASSUME NEW f PROVE Sound([n EXCEPT !.flags = f], c)
  BY DEF Sound, HasOptions, Fields
<1>8. ASSUME NEW start, NEW places, start # "fail" PROVE Sound(Begin(n, start, places), c)
  BY <1>8 DEF Sound, HasOptions, Fields, Begin
<1> QED
  BY <1>1, <1>2, <1>3, <1>4, <1>5, <1>6, <1>7, <1>8, Zenon

(* What sets a field of the output sets no more. *)
LEMMA OutputSound ==
    ASSUME NEW n, NEW c, Sound(n, c)
    PROVE  /\ Sound(set_prival(n), c) /\ set_prival(n).cs = n.cs
           /\ Sound(set_hostname(n), c) /\ set_hostname(n).cs = n.cs
           /\ \A f : Sound(set_number(n, f), c) /\ set_number(n, f).cs = n.cs
           /\ \A f : Sound(Set(n, f), c) /\ Set(n, f).cs = n.cs
           /\ Sound(set_timestamp(n), c) /\ set_timestamp(n).cs \in {n.cs, "fail"}
           /\ Sound(set_rfc3339(n), c) /\ set_rfc3339(n).cs \in {n.cs, "fail"}
<1>1. Sound(set_prival(n), c) /\ set_prival(n).cs = n.cs
  BY DEF Sound, HasOptions, Fields, set_prival
<1>2. Sound(set_hostname(n), c) /\ set_hostname(n).cs = n.cs
  BY DEF Sound, HasOptions, Fields, set_hostname
<1>3. ASSUME NEW f PROVE Sound(set_number(n, f), c) /\ set_number(n, f).cs = n.cs
  BY DEF Sound, HasOptions, Fields, set_number
<1>4. ASSUME NEW f PROVE Sound(Set(n, f), c) /\ Set(n, f).cs = n.cs
  BY DEF Sound, HasOptions, Fields, Set
<1>5. Sound(set_timestamp(n), c) /\ set_timestamp(n).cs \in {n.cs, "fail"}
  BY DEF Sound, HasOptions, Fields, set_timestamp, Fail
<1>6. Sound(set_rfc3339(n), c) /\ set_rfc3339(n).cs \in {n.cs, "fail"}
  BY DEF Sound, HasOptions, Fields, set_rfc3339, Fail
<1> QED
  BY <1>1, <1>2, <1>3, <1>4, <1>5, <1>6, Zenon

(* The error actions of the header and of the body. *)
LEMMA ErrorsSound ==
    ASSUME NEW n, NEW c, Sound(n, c), n.cs # "fail"
    PROVE  Sound(header_error(n), c) /\ Sound(body_error(n), c)
<1>1. Sound(Stop(n), c) /\ \A e : Sound(Fail(n, e), c)
  BY ActionsSound
<1>2. header_error(n) = Stop(n) \/ \E e : header_error(n) = Fail(n, e)
  BY Zenon DEF header_error
<1>3. body_error(n) = Stop(n) \/ \E e : body_error(n) = Fail(n, e)
  BY Zenon DEF body_error
<1> QED
  BY <1>1, <1>2, <1>3, Zenon

-----------------------------------------------------------------------------
(* The rules. *)

LEMMA PrivalSound ==
    ASSUME NEW n, NEW c, NEW t, Sound(n, c), n.cs = "prival"
    PROVE  Sound(prival(n, t), c)
<1>1. PICK o : /\ o = IF n.data # <<>> THEN set_prival(n) ELSE n
               /\ prival(n, t) = CASE n.data # <<>> /\ t = ">" -> [Goto(o, "header") EXCEPT !.at = {"pri_sp"}]
                                   [] t = "9" /\ Len(n.data) < 2 -> Take(o, t)
                                   [] OTHER -> Fail(o, "errPrival")
  BY Zenon DEF prival
<1>2. Sound(o, c) /\ o.cs # "fail"
  BY <1>1, OutputSound
<1>3. Sound([Goto(o, "header") EXCEPT !.at = {"pri_sp"}], c)
  <2>1. Sound(Goto(o, "header"), c)
    BY <1>2, ActionsSound
  <2> QED
    BY <2>1, ActionsSound
<1>4. Sound(Take(o, t), c) /\ Sound(Fail(o, "errPrival"), c)
  BY <1>2, ActionsSound
<1> QED
  BY <1>1, <1>3, <1>4

LEMMA HeaderSound ==
    ASSUME NEW n, NEW c, NEW t, Sound(n, c), n.cs = "header"
    PROVE  Sound(header(n, t), c)
<1> DEFINE moves  == Taken(n, t, ExtraMoves(n) \cup StampMoves(n) \cup FullMoves(n))
           marked(o) == IF \E move \in moves : Begins(move) THEN mark(o) ELSE o
           behind == {"sp", "ciscocolon"}
           number == CASE Leaves(moves, {"pri_sp", "start"}, {"counted"}) -> set_number(mark(n), "msgcount")
                       [] Leaves(moves, {"msgcountval"}, {"counted"}) -> set_number(n, "msgcount")
                       [] Leaves(moves, {"sequenceval"}, {"sequenced"}) -> set_number(n, "sequence")
                       [] OTHER -> n
           host   == IF Leaves(moves, {"ciscoHostname"}, {"named"}) THEN set_hostname(number)
                     ELSE number
           stamp  == IF Leaves(moves, {"stamp", "stamp_secfrac"}, behind) THEN set_timestamp(host)
                     ELSE IF Leaves(moves, {"rfc3339"}, behind) THEN set_rfc3339(host)
                     ELSE host
<1>1. header(n, t) = IF moves = {} THEN header_error(n)
                     ELSE IF stamp.cs = "fail" THEN stamp
                     ELSE IF "sp" \in To(moves) THEN [Goto(stamp, "body") EXCEPT !.at = {"sp"}]
                     ELSE [Take(marked(stamp), t) EXCEPT !.at = To(moves)]
  BY Zenon DEF header
<1> HIDE DEF moves
<1>2. Sound(number, c) /\ number.cs = "header"
  <2>1. Sound(mark(n), c) /\ mark(n).cs = "header"
    BY ActionsSound
  <2>2. \A f : /\ Sound(set_number(mark(n), f), c) /\ set_number(mark(n), f).cs = "header"
               /\ Sound(set_number(n, f), c) /\ set_number(n, f).cs = "header"
    BY <2>1, OutputSound
  <2> QED
    BY <2>2, Zenon
<1> HIDE DEF number
<1>3. Sound(host, c) /\ host.cs = "header"
  <2>1. Sound(set_hostname(number), c) /\ set_hostname(number).cs = "header"
    BY <1>2, OutputSound
  <2> QED
    BY <1>2, <2>1, Zenon
<1> HIDE DEF host
<1>4. Sound(stamp, c)
  <2>1. Sound(set_timestamp(host), c) /\ Sound(set_rfc3339(host), c)
    BY <1>3, OutputSound
  <2> QED
    BY <1>3, <2>1, Zenon
<1> HIDE DEF stamp
<1>5. stamp.cs # "fail" => Sound([Goto(stamp, "body") EXCEPT !.at = {"sp"}], c)
  <2>1. stamp.cs # "fail" => Sound(Goto(stamp, "body"), c)
    BY <1>4, ActionsSound
  <2> QED
    BY <2>1, ActionsSound
<1>6. Sound([Take(marked(stamp), t) EXCEPT !.at = To(moves)], c)
  <2>1. Sound(marked(stamp), c)
    BY <1>4, ActionsSound, Zenon
  <2> HIDE DEF marked
  <2>2. Sound(Take(marked(stamp), t), c)
    BY <2>1, ActionsSound
  <2> QED
    BY <2>2, ActionsSound
<1>7. Sound(header_error(n), c)
  BY ErrorsSound
<1> QED
  BY <1>1, <1>4, <1>5, <1>6, <1>7, Zenon

LEMMA BodySound ==
    ASSUME NEW n, NEW c, NEW t, Sound(n, c), n.cs = "body"
    PROVE  Sound(body(n, t), c)
<1> DEFINE moves   == Taken(n, t, BodyMoves(n))
           host    == IF Leaves(moves, {"hostname"}, {"hostname_sp"}) THEN set_hostname(n) ELSE n
           tag     == IF Leaves(moves, {"tag"}, {"content", "colon"}) THEN Set(host, "tag") ELSE host
           marked  == IF \E move \in moves : Begins(move) THEN mark(tag) ELSE tag
           content == IF "content_end" \in To(moves) THEN Set(marked, "content") ELSE marked
           message == IF "end" \in To(moves) THEN Set(content, "message") ELSE content
<1>1. body(n, t) = IF moves = {} THEN body_error(n) ELSE [Take(message, t) EXCEPT !.at = To(moves)]
  BY Zenon DEF body
<1> HIDE DEF moves
<1>2. Sound(host, c)
  BY OutputSound, Zenon
<1> HIDE DEF host
<1>3. Sound(tag, c)
  BY <1>2, OutputSound, Zenon
<1> HIDE DEF tag
<1>4. Sound(marked, c)
  BY <1>3, ActionsSound, Zenon
<1> HIDE DEF marked
<1>5. Sound(content, c)
  BY <1>4, OutputSound, Zenon
<1> HIDE DEF content
<1>6. Sound(message, c)
  BY <1>5, OutputSound, Zenon
<1> HIDE DEF message
<1>7. Sound([Take(message, t) EXCEPT !.at = To(moves)], c)
  <2>1. Sound(Take(message, t), c)
    BY <1>6, ActionsSound
  <2> QED
    BY <2>1, ActionsSound
<1>8. Sound(body_error(n), c)
  BY ErrorsSound
<1> QED
  BY <1>1, <1>7, <1>8, Zenon

(* A token changes no option, and sets an error only where it stops.        *)
LEMMA StepSound ==
    ASSUME NEW n, NEW c, NEW t, Sound(n, c)
    PROVE  Sound(Step(n, t), c)
<1>1. CASE n.cs = "main"
  <2>1. Step(n, t) = IF t = "<" THEN Goto(n, "prival") ELSE Fail(n, "errPri")
    BY <1>1 DEF Step
  <2>2. Sound(Goto(n, "prival"), c) /\ Sound(Fail(n, "errPri"), c)
    BY <1>1, ActionsSound
  <2> QED
    BY <2>1, <2>2, Zenon
<1>2. CASE n.cs = "prival"
  BY <1>2, PrivalSound DEF Step
<1>3. CASE n.cs = "header"
  BY <1>3, HeaderSound DEF Step
<1>4. CASE n.cs = "body"
  BY <1>4, BodySound DEF Step
<1>5. CASE n.cs \notin {"main", "prival", "header", "body"}
  BY <1>5 DEF Step
<1> QED
  BY <1>1, <1>2, <1>3, <1>4, <1>5

(* Nor does the end of the input. *)
LEMMA EofSound ==
    ASSUME NEW n, NEW c, Sound(n, c)
    PROVE  Sound(Eof(n), c)
<1>1. CASE n.cs = "prival"
  BY <1>1, ActionsSound DEF Eof
<1>2. CASE n.cs = "header"
  BY <1>2, ErrorsSound DEF Eof
<1>3. CASE n.cs = "body"
  <2>1. Sound(Set(n, "message"), c) /\ Sound(body_error(n), c)
    BY <1>3, OutputSound, ErrorsSound
  <2>2. Eof(n) \in {Set(n, "message"), n, body_error(n)}
    BY <1>3 DEF Eof
  <2> QED
    BY <2>1, <2>2
<1>4. CASE n.cs \notin {"prival", "header", "body"}
  BY <1>4 DEF Eof
<1> QED
  BY <1>1, <1>2, <1>3, <1>4

-----------------------------------------------------------------------------
(* The invariant. *)

CallFields == {"pc", "saved", "before", "res", "alone", "plain"}

(* Between calls the machine is a new one; within a call it does what the   *)
(* one made for this input does, and the flags put aside are its own; after *)
(* one, they are back.                                                      *)
FreshInv ==
    /\ DOMAIN call = CallFields /\ call.pc \in {"idle", "read", "end", "done"}
    /\ HasOptions(m, config)
    /\ call.pc = "idle" => m = NewMachine(config) /\ call.alone = NewMachine(config)
    /\ call.pc \in {"read", "end"} => /\ m = call.alone /\ Sound(m, config)
                                      /\ call.saved = Flags(config)
    /\ call.pc = "done" => /\ m.flags = Flags(config)
                           /\ call.res = Answer(call.alone) /\ m.err = call.res.err

(* A call not begun. *)
LEMMA NoCallFields ==
    ASSUME NEW c
    PROVE  /\ DOMAIN NoCall(c) = CallFields /\ NoCall(c).pc = "idle"
           /\ NoCall(c).alone = NewMachine(c)
<1> DEFINE a == NewMachine(c)
           b == NewMachine(WithoutCisco(c))
<1>1. NoCall(c) = [pc |-> "idle", saved |-> Flags(c), before |-> NoCall(c).before, res |-> Nothing,
                   alone |-> a, plain |-> b]
  BY Zenon DEF NoCall
<1> HIDE DEF a, b
<1>2. DOMAIN NoCall(c) = CallFields /\ NoCall(c).pc = "idle" /\ NoCall(c).alone = a
  BY <1>1 DEF CallFields
<1> QED
  BY <1>2 DEF a

(* The new machine has read no PRI, so it has no least message unless the   *)
(* PRI is optional.                                                         *)
LEMMA NothingMinimal ==
    ASSUME NEW n, n.output = NoOutput, ~n.optionalPriority
    PROVE  ~minimal(n)
<1>1. NoOutput.priority = Absent
  BY Zenon DEF NoOutput
<1> QED
  BY <1>1, Zenon DEF minimal

LEMMA FreshInit == Init => FreshInv
<1> SUFFICES ASSUME Init PROVE FreshInv
  OBVIOUS
<1>1. m = NewMachine(config) /\ call = NoCall(config)
  BY DEF Init
<1>2. HasOptions(m, config)
  BY <1>1, NewIsSound DEF Sound
<1> QED
  BY <1>1, <1>2, NoCallFields DEF FreshInv

(* The head of Parse. *)
LEMMA FreshCall ==
    ASSUME FreshInv, NEW first, Call(first)
    PROVE  FreshInv'
<1> DEFINE off == first # "<"
           New(n) == IF off THEN Begin([n EXCEPT !.flags = NoFlags], "header", {"start"})
                     ELSE Begin(n, "main", {})
           First(n) == IF first = "EOF" THEN New(n) ELSE Step(New(n), first)
<1>0. /\ call.pc = "idle" /\ DOMAIN call = CallFields /\ config' = config
      /\ m = NewMachine(config) /\ call.alone = m /\ m.flags = Flags(config)
      /\ Sound(m, config)
  BY NewIsSound DEF Call, FreshInv
<1>1. CASE off /\ ~m.optionalPriority
  <2>1. /\ m' = [m EXCEPT !.err = "errPri"]
        /\ call' = [call EXCEPT !.pc = "done", !.res = Result(FALSE, NoOutput, "errPri"),
                                !.alone.err = "errPri"]
    BY <1>1, Zenon DEF Call
  <2> DEFINE r == Result(FALSE, NoOutput, "errPri")
             a == [call.alone EXCEPT !.err = "errPri"]
  <2>2. call' = [call EXCEPT !.pc = "done", !.res = r, !.alone = a]
    BY <2>1
  <2> HIDE DEF r, a
  <2>3. DOMAIN call' = CallFields /\ call'.pc = "done" /\ call'.res = r /\ call'.alone = a
    BY <1>0, <2>2 DEF CallFields
  <2>4. HasOptions(m', config) /\ m'.flags = Flags(config) /\ m'.err = "errPri"
    BY <1>0, <2>1 DEF Sound, HasOptions, Fields
  <2>5. r = Answer(a) /\ r.err = "errPri"
    <3>1. /\ a.cs = "main" /\ a.output = NoOutput /\ a.err = "errPri"
          /\ a.optionalPriority = m.optionalPriority
      BY <1>0 DEF a, NewMachine
    <3>2. ~Final(a) /\ ~minimal(a)
      BY <1>1, <3>1, NothingMinimal DEF Final
    <3>3. Answer(a) = Result(FALSE, NoOutput, "errPri")
      <4>1. (a.bestEffort /\ minimal(a)) = FALSE
        BY <3>2
      <4>2. Answer(a) = Result(a.bestEffort /\ minimal(a),
                               IF a.bestEffort /\ minimal(a) THEN a.output ELSE NoOutput, a.err)
        BY <3>2, Zenon DEF Answer
      <4> QED
        BY <3>1, <4>1, <4>2
    <3> QED
      BY <3>3 DEF r, Result
  <2> QED
    BY <1>0, <2>3, <2>4, <2>5 DEF FreshInv
<1>2. CASE ~(off /\ ~m.optionalPriority)
  <2>1. /\ m' = First(m)
        /\ call' = [call EXCEPT !.pc = IF first = "EOF" THEN "end" ELSE "read",
                                !.saved = m.flags, !.before = first,
                                !.alone = First(@), !.plain = First(@)]
    BY <1>2, Zenon DEF Call
  <2>2. Sound(First(m), config)
    <3>1. Sound([m EXCEPT !.flags = NoFlags], config)
      BY <1>0, ActionsSound
    <3>2. Sound(Begin([m EXCEPT !.flags = NoFlags], "header", {"start"}), config)
      BY <3>1, ActionsSound
    <3>3. Sound(Begin(m, "main", {}), config)
      BY <1>0, ActionsSound
    <3>4. Sound(New(m), config)
      BY <3>2, <3>3, Zenon
    <3> HIDE DEF New
    <3>5. Sound(Step(New(m), first), config)
      BY <3>4, StepSound
    <3> QED
      BY <3>4, <3>5, Zenon
  <2> DEFINE p == IF first = "EOF" THEN "end" ELSE "read"
             f == m.flags
             q == First(call.plain)
             a == First(call.alone)
  <2>3. call' = [call EXCEPT !.pc = p, !.saved = f, !.before = first, !.alone = a, !.plain = q]
    BY <2>1, Zenon
  <2>4. p \in {"read", "end"} /\ a = First(m) /\ f = Flags(config)
    BY <1>0
  <2> HIDE DEF First, New, p, f, q, a
  <2>5. DOMAIN call' = CallFields /\ call'.pc = p /\ call'.alone = a /\ call'.saved = f
    BY <1>0, <2>3 DEF CallFields
  <2> QED
    BY <1>0, <2>1, <2>2, <2>4, <2>5 DEF FreshInv, Sound
<1> QED
  BY <1>1, <1>2

(* A token. *)
LEMMA FreshRead ==
    ASSUME FreshInv, Read
    PROVE  FreshInv'
<1>0. /\ call.pc = "read" /\ DOMAIN call = CallFields /\ config' = config
      /\ m = call.alone /\ Sound(m, config) /\ call.saved = Flags(config)
  BY DEF Read, FreshInv
<1>1. PICK c : /\ m' = Step(m, c)
               /\ call' = [call EXCEPT !.before = IF Stopped(m') THEN @ ELSE c,
                                       !.alone = Step(@, c), !.plain = Step(@, c)]
  BY Zenon DEF Read
<1> DEFINE b == IF Stopped(m') THEN call.before ELSE c
           a == Step(call.alone, c)
           q == Step(call.plain, c)
<1>2. call' = [call EXCEPT !.before = b, !.alone = a, !.plain = q]
  BY <1>1, Zenon
<1>3. a = m' /\ Sound(m', config)
  BY <1>0, <1>1, StepSound
<1> HIDE DEF a, b, q
<1>4. DOMAIN call' = CallFields /\ call'.pc = "read" /\ call'.alone = a /\ call'.saved = call.saved
  BY <1>0, <1>2 DEF CallFields
<1> QED
  BY <1>0, <1>3, <1>4 DEF FreshInv, Sound

(* The tail of Parse and the deferred function. *)
LEMMA FreshFinish ==
    ASSUME FreshInv, Finish
    PROVE  FreshInv'
<1> DEFINE e == Eof(m)
           r == Answer(e)
           q == Eof(call.plain)
<1>0. /\ DOMAIN call = CallFields /\ config' = config
      /\ m = call.alone /\ Sound(m, config) /\ call.saved = Flags(config)
  BY DEF Finish, FreshInv
<1>1. /\ m' = [e EXCEPT !.flags = call.saved]
      /\ call' = [call EXCEPT !.pc = "done", !.res = r, !.alone = e, !.plain = q]
  BY <1>0, Zenon DEF Finish
<1>2. Sound(e, config)
  BY <1>0, EofSound
<1>3. r.err = e.err
  BY <1>2 DEF Answer, Final, Result, Sound
<1>r. r = Answer(e)
  OBVIOUS
<1> HIDE DEF e, r, q
<1>4. /\ HasOptions(m', config) /\ m'.flags = Flags(config) /\ m'.err = e.err
  BY <1>0, <1>1, <1>2 DEF Sound, HasOptions, Fields
<1>5. DOMAIN call' = CallFields /\ call'.pc = "done" /\ call'.res = r /\ call'.alone = e
  BY <1>0, <1>1 DEF CallFields
<1> QED
  BY <1>0, <1>3, <1>4, <1>5, <1>r DEF FreshInv

(* The caller has its result: what is left of the machine is a new one. *)
LEMMA FreshReturn ==
    ASSUME FreshInv, Return
    PROVE  FreshInv'
<1>0. /\ HasOptions(m, config) /\ m.flags = Flags(config) /\ config' = config
      /\ call' = NoCall(config) /\ m' = Begin(m, "main", {})
  BY DEF Return, FreshInv
<1>1. m' = NewMachine(config)
  BY <1>0, BegunIsNew
<1>2. HasOptions(m', config)
  BY <1>1, NewIsSound DEF Sound
<1> QED
  BY <1>0, <1>1, <1>2, NoCallFields DEF FreshInv

LEMMA FreshStep ==
    ASSUME FreshInv, [Next]_vars
    PROVE  FreshInv'
<1>1. CASE UNCHANGED vars
  <2>1. config' = config /\ m' = m /\ call' = call
    BY <1>1 DEF vars
  <2> QED
    BY <2>1 DEF FreshInv
<1>2. CASE \E first \in Alphabet["main"] \cup Alphabet["start"] \cup {"EOF"} : Call(first)
  BY <1>2, FreshCall
<1> QED
  BY <1>1, <1>2, FreshRead, FreshFinish, FreshReturn DEF Next

-----------------------------------------------------------------------------
(* Silent refusals.  What is known at each place of the header: of what was *)
(* read, d, the mark being behind its first p tokens.                       *)

Numbers == {"msgcountval", "sequenceval", "not_a_number", "year", "fulldate"}
Colon1  == {"hour_colon", "fullhour_colon"}
Minutes == {"minute", "fullminute"}
Colon2  == {"minute_colon", "fullminute_colon"}
Seconds == {"second", "fullsecond"}
Clocks  == {"stamp", "partialtime"}
(* Behind a month, or the 'Z'; behind a time; where a timestamp may end.    *)
Dated   == {"datemmm", "datemday", "datemday_sp", "day", "hour", "hour_colon", "minute",
            "minute_colon", "second", "stamp", "timesecfrac", "stamp_secfrac", "ciscocolon",
            "rfc3339"}
Clocked == Clocks \cup {"timesecfrac", "stamp_secfrac", "fullsecfrac", "partialtime_secfrac",
                        "rfc3339", "ciscocolon"}
Ends    == {"stamp", "stamp_secfrac", "rfc3339", "ciscocolon"}
HeaderPlaces == Extras \cup Numbers \cup Dated \cup Clocked \cup Colon1 \cup Minutes \cup Colon2
                \cup Seconds \cup {"ciscoHostname", "ciscostar", "fullhour"}

Known(q, d, p) ==
    /\ q \in Numbers => p < Len(d) /\ \A i \in p + 1..Len(d) : d[i] \in Digits \cup Dates
    /\ q \in Dated => \E i \in 1..Len(d) : d[i] \in MonthNames \cup {"Z"}
    /\ q \in Colon1 => Len(d) >= 1
    /\ q \in Minutes => Len(d) >= 2 /\ d[Len(d)] = ":"
    /\ q \in Colon2 => Len(d) >= 3 /\ d[Len(d) - 1] = ":"
    /\ q \in Seconds => Len(d) >= 4 /\ d[Len(d)] = ":" /\ d[Len(d) - 2] = ":"
    /\ q \in Clocked => \E h \in 1..Len(d) - 4 :
                            d[h + 1] = ":" /\ d[h + 3] = ":" /\ d[h + 4] \in Digits
    /\ q \in Ends => Len(d) # 0 /\ d[Len(d)] # "."

(* What the grammar says of a move of the header with the token c.          *)
Leads(from, c, to) ==
    /\ to \in HeaderPlaces \cup {"sp"} /\ c \in Tokens
    /\ to \in Numbers => c \in Digits \cup Dates
    /\ to \in Dated => from \in Dated \/ c \in MonthNames \cup {"Z"}
    /\ to \in Minutes => from \in Colon1 /\ c = ":"
    /\ to \in Colon2 => from \in Minutes
    /\ to \in Seconds => from \in Colon2 /\ c = ":"
    /\ to \in Clocks => from \in Seconds /\ c \in Digits
    /\ to \in Clocked \ Clocks => from \in Clocked
    /\ to \in Ends => c # "."

(* The refusals without an error.                                           *)
Inside(n) ==
    LET clock(h) == {n.data[h + 1], n.data[h + 3]} = {":"} /\ n.data[h + 4] \in Digits
    IN  \/ n.at \cap {"mex", "end"} # {}
        \/ text(n) # <<>> /\ ToSet(text(n)) \subseteq Digits \cup Dates
        \/ /\ \E h \in 1..Len(n.data) - 4 : clock(h)
           /\ Last(n.data) # "." /\ ToSet(n.data) \cap (MonthNames \cup {"Z"}) # {}

(* Behind the timestamp: until the first visible byte nothing but spaces,   *)
(* then there is always the message, until the '\n' that ends it.           *)
InBody(at) == at = {"sp"} \/ at = {"end"} \/ "mex" \in at

(* The places of a machine within a call.                                   *)
Placed(n) ==
    /\ n.cs \in {"prival", "header", "body", "fail", "st0"}
    /\ n.data \in Seq(Tokens) /\ n.pb \in 0..Len(n.data)
    /\ n.cs = "header" => /\ n.at # {} /\ n.at \subseteq HeaderPlaces
                          /\ \A q \in n.at : Known(q, n.data, n.pb)
    /\ n.cs = "body" => InBody(n.at)
    /\ n.cs = "fail" => n.err # "nil"
    /\ n.cs = "st0" => Inside(n)

HeaderMoves(n) == ExtraMoves(n) \cup StampMoves(n) \cup FullMoves(n)

(* Places where nothing is known, and those where only digits are.          *)
Elsewhere == Extras \cup {"ciscoHostname", "ciscostar", "fullhour"}

LEMMA PlaceKinds ==
    /\ \A q \in Elsewhere : /\ q \in HeaderPlaces
                             /\ q \notin Numbers /\ q \notin Dated /\ q \notin Minutes
                             /\ q \notin Colon2 /\ q \notin Seconds /\ q \notin Clocked
    /\ \A q \in Numbers : /\ q \in HeaderPlaces
                           /\ q \notin Dated /\ q \notin Minutes
                           /\ q \notin Colon2 /\ q \notin Seconds /\ q \notin Clocked
    /\ Ends \subseteq Clocked /\ Clocks \subseteq Clocked
<1>1. ASSUME NEW q \in Elsewhere PROVE q \in HeaderPlaces
  BY DEF Elsewhere, HeaderPlaces
<1>2. ASSUME NEW q \in Elsewhere
      PROVE  q \notin Numbers /\ q \notin Minutes /\ q \notin Colon2 /\ q \notin Seconds
  BY DEF Elsewhere, Extras, Numbers, Minutes, Colon2, Seconds
<1>3. ASSUME NEW q \in Elsewhere PROVE q \notin Dated /\ q \notin Clocked
  BY DEF Elsewhere, Extras, Dated, Clocked, Clocks
<1>4. ASSUME NEW q \in Numbers
      PROVE  q \in HeaderPlaces /\ q \notin Minutes /\ q \notin Colon2 /\ q \notin Seconds
  BY DEF Numbers, HeaderPlaces, Minutes, Colon2, Seconds
<1>5. ASSUME NEW q \in Numbers PROVE q \notin Dated /\ q \notin Clocked
  BY DEF Numbers, Dated, Clocked, Clocks
<1>6. Ends \subseteq Clocked /\ Clocks \subseteq Clocked
  BY DEF Ends, Clocked, Clocks
<1> QED
  BY <1>1, <1>2, <1>3, <1>4, <1>5, <1>6, Zenon

LEMMA TokenKinds ==
    /\ Digits \subseteq Tokens /\ TwoDigits \subseteq Digits /\ Dates \subseteq Tokens
    /\ MonthNames \subseteq Tokens /\ HostChars \subseteq Tokens
    /\ {" ", ":", "*", ".", "T", "Z"} \subseteq Tokens
    /\ "." \notin Digits
<1>1. /\ Digits \subseteq Tokens /\ Dates \subseteq Tokens /\ MonthNames \subseteq Tokens
      /\ TwoDigits \subseteq Digits
  BY DEF Tokens, StampParts, Digits
<1>2. {"T", "Z", "."} \subseteq Tokens /\ {"<", ">", "a", "*", "[", "]", " ", ":"} \subseteq Tokens
  BY DEF Tokens, StampParts, BodyTokens
<1>3. HostChars \subseteq Tokens
  BY <1>1, <1>2 DEF HostChars
<1>4. "." \notin Digits
  BY DEF Digits, TwoDigits
<1> QED
  BY <1>1, <1>2, <1>3, <1>4

(* To such a place every token may lead, or every digit.                    *)
LEMMA LeadsPlainly ==
    ASSUME NEW from, NEW c \in Tokens, NEW to,
           to \in Elsewhere \/ (to \in Numbers /\ c \in Digits \cup Dates)
    PROVE  Leads(from, c, to)
  BY PlaceKinds DEF Leads

LEMMA ExtrasLead ==
    ASSUME NEW n, NEW move \in ExtraMoves(n), NEW c \in move[2]
    PROVE  Leads(move[1], c, move[3])
<1> DEFINE Of(from) ==
              { <<from, If(from # "start", {" "}), from>>,
                <<from, If(Counter(n, from) = "msgcountval", {":"}), "counted">>,
                <<from, If(Counter(n, from) # "none", Digits), Counter(n, from)>>,
                <<from, If(Counter(n, from) # "none", Dates), "not_a_number">>,
                <<from, If(n.flags.ciscoHostname /\ from # "named", Open(n, from, HostChars)),
                  "ciscoHostname">>,
                <<from, If(Cisco(n), {"*"}), "ciscostar">> }
           Rest == { <<"msgcountval", Digits, "msgcountval">>, <<"msgcountval", {":"}, "counted">>,
                     <<"sequenceval", Digits, "sequenceval">>, <<"sequenceval", {":"}, "sequenced">>,
                     <<"ciscoHostname", HostChars, "ciscoHostname">>,
                     <<"ciscoHostname", {":"}, "named">> }
<1>1. move \in UNION {Of(from) : from \in Extras} \/ move \in Rest
  <2>1. move \in (UNION {Of(from) : from \in Extras}) \cup Rest
    BY Zenon DEF ExtraMoves
  <2> HIDE DEF Of, Rest
  <2> QED
    BY <2>1
<1>2. ASSUME NEW from \in Extras, move \in Of(from) PROVE Leads(move[1], c, move[3])
  <2>1. Counter(n, from) \in {"msgcountval", "sequenceval", "none"}
    BY DEF Counter
  <2>2. \A k, s : c \in If(k, s) => k /\ c \in s
    BY DEF If
  <2> DEFINE q == Counter(n, from)
  <2> HIDE DEF q
  <2>3. Open(n, from, HostChars) \subseteq HostChars
    BY DEF Open
  <2>4. \/ move[1] = from /\ move[3] = from /\ c \in {" "}
        \/ move[1] = from /\ move[3] = "counted" /\ c \in {":"}
        \/ move[1] = from /\ move[3] = q /\ q # "none" /\ c \in Digits
        \/ move[1] = from /\ move[3] = "not_a_number" /\ c \in Dates
        \/ move[1] = from /\ move[3] = "ciscoHostname" /\ c \in HostChars
        \/ move[1] = from /\ move[3] = "ciscostar" /\ c \in {"*"}
    <3>1. \/ move = <<from, If(from # "start", {" "}), from>>
          \/ move = <<from, If(Counter(n, from) = "msgcountval", {":"}), "counted">>
          \/ move = <<from, If(q # "none", Digits), q>>
          \/ move = <<from, If(q # "none", Dates), "not_a_number">>
          \/ move = <<from, If(n.flags.ciscoHostname /\ from # "named", Open(n, from, HostChars)),
                      "ciscoHostname">>
          \/ move = <<from, If(Cisco(n), {"*"}), "ciscostar">>
      BY <1>2 DEF q
    <3>2. \A k, s, x, y : move = <<x, If(k, s), y>> =>
                             move[1] = x /\ move[3] = y /\ k /\ c \in s
      <4>1. ASSUME NEW x, NEW y, NEW z, move = <<x, y, z>>
            PROVE  move[1] = x /\ move[2] = y /\ move[3] = z
        BY <4>1
      <4> QED
        BY <4>1, <2>2
    <3>3. CASE move = <<from, If(from # "start", {" "}), from>>
      BY <3>2, <3>3, <2>3
    <3>4. CASE move = <<from, If(Counter(n, from) = "msgcountval", {":"}), "counted">>
      BY <3>2, <3>4, <2>3
    <3>5. CASE move = <<from, If(q # "none", Digits), q>>
      BY <3>2, <3>5, <2>3
    <3>6. CASE move = <<from, If(q # "none", Dates), "not_a_number">>
      BY <3>2, <3>6, <2>3
    <3>7. CASE move = <<from, If(n.flags.ciscoHostname /\ from # "named", Open(n, from, HostChars)),
                        "ciscoHostname">>
      BY <3>2, <3>7, <2>3
    <3>8. CASE move = <<from, If(Cisco(n), {"*"}), "ciscostar">>
      BY <3>2, <3>8, <2>3
    <3> QED
      BY <3>1, <3>3, <3>4, <3>5, <3>6, <3>7, <3>8
  <2>5. move[3] \in Elsewhere \/ (move[3] \in Numbers /\ c \in Digits \cup Dates)
    BY <2>1, <2>4 DEF Elsewhere, Extras, Numbers, q
  <2>6. c \in Tokens
    BY <2>4, TokenKinds
  <2> QED
    BY <2>5, <2>6, LeadsPlainly
<1>3. ASSUME move \in Rest PROVE Leads(move[1], c, move[3])
  <2>1. \/ move[3] = "msgcountval" /\ c \in Digits
        \/ move[3] = "counted" /\ c \in {":"}
        \/ move[3] = "sequenceval" /\ c \in Digits
        \/ move[3] = "sequenced" /\ c \in {":"}
        \/ move[3] = "ciscoHostname" /\ c \in HostChars
        \/ move[3] = "named" /\ c \in {":"}
    BY <1>3
  <2>2. move[3] \in Elsewhere \/ (move[3] \in Numbers /\ c \in Digits \cup Dates)
    BY <2>1 DEF Elsewhere, Extras, Numbers
  <2>3. c \in Tokens
    BY <2>1, TokenKinds
  <2> QED
    BY <2>2, <2>3, LeadsPlainly
<1> HIDE DEF Of, Rest
<1>4. move \in Rest \/ \E from \in Extras : move \in Of(from)
  BY <1>1
<1> QED
  BY <1>2, <1>3, <1>4, Zenon

(* A move with the token c is one of those listed.                          *)
LEMMA MoveOf ==
    ASSUME NEW move, NEW x, NEW y, NEW z, move = <<x, y, z>>, NEW c \in move[2]
    PROVE  move[1] = x /\ c \in y /\ move[3] = z
  OBVIOUS

LEMMA ClockMoves ==
    ASSUME NEW p1, NEW p2, NEW p3, NEW p4, NEW p5, NEW p6,
           NEW move \in Clock(<<p1, p2, p3, p4, p5, p6>>), NEW c \in move[2]
    PROVE  \/ move[1] = p1 /\ c \in Digits /\ move[3] = p2
           \/ move[1] = p2 /\ c = ":" /\ move[3] = p3
           \/ move[1] = p3 /\ c \in Digits /\ move[3] = p4
           \/ move[1] = p4 /\ c = ":" /\ move[3] = p5
           \/ move[1] = p5 /\ c \in Digits /\ move[3] = p6
<1> DEFINE q == <<p1, p2, p3, p4, p5, p6>>
           s(i) == CASE i = 1 -> TwoDigits
                     [] i \in {3, 5} -> TwoDigits \cup {"30"}
                     [] OTHER -> {":"}
<1>1. PICK i \in 1..5 : move = <<q[i], s(i), q[i + 1]>>
  BY DEF Clock
<1>2. q[1] = p1 /\ q[2] = p2 /\ q[3] = p3 /\ q[4] = p4 /\ q[5] = p5 /\ q[6] = p6
  OBVIOUS
<1> HIDE DEF q
<1>3. s(i) \subseteq Digits \/ (i \in {2, 4} /\ s(i) = {":"})
  BY DEF Digits
<1>4. i \in {2, 4} => s(i) = {":"}
  OBVIOUS
<1> HIDE DEF s
<1>5. move[1] = q[i] /\ c \in s(i) /\ move[3] = q[i + 1]
  BY <1>1, MoveOf
<1>6. i \in {1, 3, 5} => c \in Digits
  BY <1>3, <1>5
<1>7. i \in {2, 4} => c = ":"
  BY <1>4, <1>5
<1> QED
  BY <1>2, <1>5, <1>6, <1>7

(* The places of an RFC 3164 timestamp, and what may lead from one to the   *)
(* next.                                                                    *)
LEMMA LeadsStamp ==
    ASSUME NEW c \in Tokens
    PROVE  /\ c \in MonthNames => \A from : Leads(from, c, "datemmm")
           /\ Leads("datemmm", c, "datemday") /\ Leads("datemday", c, "datemday_sp")
           /\ Leads("datemday_sp", c, "day") /\ Leads("datemday", c, "day")
           /\ Leads("day", c, "hour") /\ Leads("hour", c, "hour_colon")
           /\ c = ":" => Leads("hour_colon", c, "minute")
           /\ Leads("minute", c, "minute_colon")
           /\ c = ":" => Leads("minute_colon", c, "second")
           /\ c \in Digits => Leads("second", c, "stamp")
           /\ Leads("stamp", c, "timesecfrac")
           /\ c \in Digits => Leads("timesecfrac", c, "stamp_secfrac")
           /\ \A from : Leads(from, c, "sp")
           /\ c = ":" => \A from \in {"stamp", "stamp_secfrac", "rfc3339"} :
                             Leads(from, c, "ciscocolon")
<1> USE DEF Leads, HeaderPlaces, Extras, Numbers, Dated, Clocks, Clocked, Ends, Colon1, Minutes,
            Colon2, Seconds
<1>1. c \in MonthNames => \A from : Leads(from, c, "datemmm")
  OBVIOUS
<1>2. Leads("datemmm", c, "datemday") /\ Leads("datemday", c, "datemday_sp")
  OBVIOUS
<1>3. Leads("datemday_sp", c, "day") /\ Leads("datemday", c, "day")
  OBVIOUS
<1>4. Leads("day", c, "hour") /\ Leads("hour", c, "hour_colon")
  OBVIOUS
<1>5. c = ":" => Leads("hour_colon", c, "minute")
  OBVIOUS
<1>6. Leads("minute", c, "minute_colon")
  OBVIOUS
<1>7. c = ":" => Leads("minute_colon", c, "second")
  OBVIOUS
<1>8. c \in Digits => Leads("second", c, "stamp")
  BY TokenKinds
<1>9. Leads("stamp", c, "timesecfrac")
  OBVIOUS
<1>10. c \in Digits => Leads("timesecfrac", c, "stamp_secfrac")
  BY TokenKinds
<1>11. \A from : Leads(from, c, "sp")
  OBVIOUS
<1>12. c = ":" => \A from \in {"stamp", "stamp_secfrac", "rfc3339"} : Leads(from, c, "ciscocolon")
  OBVIOUS
<1> HIDE DEF Leads
<1> QED
  BY <1>1, <1>2, <1>3, <1>4, <1>5, <1>6, <1>7, <1>8, <1>9, <1>10, <1>11, <1>12

LEMMA AfterLeads ==
    ASSUME NEW n, NEW from \in {"stamp", "stamp_secfrac", "rfc3339"},
           NEW move \in After(n, from), NEW c \in move[2]
    PROVE  Leads(move[1], c, move[3])
<1>1. \/ move = <<from, {" "}, "sp">>
      \/ move = <<from, If(Cisco(n), {":"}), "ciscocolon">>
      \/ move = <<"ciscocolon", {" "}, "sp">>
  BY DEF After
<1>2. If(Cisco(n), {":"}) \subseteq {":"}
  BY DEF If
<1>3. \/ move[1] = from /\ c = " " /\ move[3] = "sp"
      \/ move[1] = from /\ c = ":" /\ move[3] = "ciscocolon"
      \/ move[1] = "ciscocolon" /\ c = " " /\ move[3] = "sp"
  <2>1. CASE move = <<from, {" "}, "sp">>
    BY <2>1, MoveOf
  <2>2. CASE move = <<from, If(Cisco(n), {":"}), "ciscocolon">>
    BY <1>2, <2>2, MoveOf
  <2>3. CASE move = <<"ciscocolon", {" "}, "sp">>
    BY <2>3, MoveOf
  <2> QED
    BY <1>1, <2>1, <2>2, <2>3
<1> QED
  BY <1>3, LeadsStamp, TokenKinds

LEMMA StampLead ==
    ASSUME NEW n, NEW move \in StampMoves(n), NEW c \in move[2]
    PROVE  Leads(move[1], c, move[3])
<1> DEFINE First == {<<from, Months(n, from), "datemmm">> : from \in Extras \cup {"ciscostar"}}
           Day   == {<<"datemmm", {" "}, "datemday">>,
                     <<"datemday", {" "}, "datemday_sp">>, <<"datemday_sp", {"9"}, "day">>,
                     <<"datemday", {"dd", "30"} \cup If(n.lenientDay, {"0d"}), "day">>,
                     <<"day", {" "}, "hour">>}
           Time  == Clock(<<"hour", "hour_colon", "minute", "minute_colon", "second", "stamp">>)
           Frac  == {<<"stamp", If(n.secfrac, {"."}), "timesecfrac">>,
                     <<"timesecfrac", Digits, "stamp_secfrac">>}
<1>1. \/ move \in First \/ move \in Day \/ move \in Time \/ move \in Frac
      \/ move \in After(n, "stamp") \/ move \in After(n, "stamp_secfrac")
  <2>1. StampMoves(n) = First \cup Day \cup Time \cup Frac \cup After(n, "stamp")
                        \cup After(n, "stamp_secfrac")
    BY Zenon DEF StampMoves
  <2> HIDE DEF First, Day, Time, Frac
  <2> QED
    BY <2>1
<1>2. ASSUME move \in First PROVE Leads(move[1], c, move[3])
  <2>1. PICK from : move = <<from, Months(n, from), "datemmm">>
    BY <1>2
  <2>2. move[3] = "datemmm" /\ c \in MonthNames
    BY <2>1, MoveOf DEF Months
  <2> QED
    BY <2>2, LeadsStamp, TokenKinds
<1>3. ASSUME move \in Day PROVE Leads(move[1], c, move[3])
  <2>1. {"dd", "30"} \cup If(n.lenientDay, {"0d"}) \subseteq Digits
    BY DEF If, Digits, TwoDigits
  <2> DEFINE days == {"dd", "30"} \cup If(n.lenientDay, {"0d"})
  <2>2. \/ move = <<"datemmm", {" "}, "datemday">> \/ move = <<"datemday", {" "}, "datemday_sp">>
        \/ move = <<"datemday_sp", {"9"}, "day">> \/ move = <<"datemday", days, "day">>
        \/ move = <<"day", {" "}, "hour">>
    BY <1>3
  <2> HIDE DEF days
  <2>3. \/ move[1] = "datemmm" /\ c = " " /\ move[3] = "datemday"
        \/ move[1] = "datemday" /\ c = " " /\ move[3] = "datemday_sp"
        \/ move[1] = "datemday_sp" /\ c = "9" /\ move[3] = "day"
        \/ move[1] = "datemday" /\ c \in days /\ move[3] = "day"
        \/ move[1] = "day" /\ c = " " /\ move[3] = "hour"
    <3>1. CASE move = <<"datemmm", {" "}, "datemday">>
      BY <3>1, MoveOf
    <3>2. CASE move = <<"datemday", {" "}, "datemday_sp">>
      BY <3>2, MoveOf
    <3>3. CASE move = <<"datemday_sp", {"9"}, "day">>
      BY <3>3, MoveOf
    <3>4. CASE move = <<"datemday", days, "day">>
      BY <3>4, MoveOf
    <3>5. CASE move = <<"day", {" "}, "hour">>
      BY <3>5, MoveOf
    <3> QED
      BY <2>2, <3>1, <3>2, <3>3, <3>4, <3>5
  <2>4. "9" \in Digits
    BY DEF Digits
  <2>5. c \in Tokens
    BY <2>1, <2>3, <2>4, TokenKinds DEF days
  <2> QED
    BY <2>3, <2>5, LeadsStamp
<1>4. ASSUME move \in Time PROVE Leads(move[1], c, move[3])
  <2>1. \/ move[1] = "hour" /\ c \in Digits /\ move[3] = "hour_colon"
        \/ move[1] = "hour_colon" /\ c = ":" /\ move[3] = "minute"
        \/ move[1] = "minute" /\ c \in Digits /\ move[3] = "minute_colon"
        \/ move[1] = "minute_colon" /\ c = ":" /\ move[3] = "second"
        \/ move[1] = "second" /\ c \in Digits /\ move[3] = "stamp"
    BY <1>4, ClockMoves
  <2>2. c \in Tokens
    BY <2>1, TokenKinds
  <2> QED
    BY <2>1, <2>2, LeadsStamp
<1>5. ASSUME move \in Frac PROVE Leads(move[1], c, move[3])
  <2>1. If(n.secfrac, {"."}) \subseteq {"."}
    BY DEF If
  <2>2. \/ move[1] = "stamp" /\ c = "." /\ move[3] = "timesecfrac"
        \/ move[1] = "timesecfrac" /\ c \in Digits /\ move[3] = "stamp_secfrac"
    BY <1>5, <2>1
  <2>3. c \in Tokens
    BY <2>2, TokenKinds
  <2> QED
    BY <2>2, <2>3, LeadsStamp
<1>6. ASSUME NEW from \in {"stamp", "stamp_secfrac"}, move \in After(n, from)
      PROVE  Leads(move[1], c, move[3])
  BY <1>6, AfterLeads
<1> HIDE DEF First, Day, Time, Frac
<1> QED
  BY <1>1, <1>2, <1>3, <1>4, <1>5, <1>6

(* The same for RFC 3339.                                                   *)
LEMMA LeadsFull ==
    ASSUME NEW c \in Tokens
    PROVE  /\ Leads("fullhour", c, "fullhour_colon")
           /\ c = ":" => Leads("fullhour_colon", c, "fullminute")
           /\ Leads("fullminute", c, "fullminute_colon")
           /\ c = ":" => Leads("fullminute_colon", c, "fullsecond")
           /\ c \in Digits => Leads("fullsecond", c, "partialtime")
           /\ Leads("partialtime", c, "fullsecfrac")
           /\ Leads("fullsecfrac", c, "partialtime_secfrac")
           /\ c = "Z" => \A from \in {"partialtime", "partialtime_secfrac"} :
                             Leads(from, c, "rfc3339")
<1> USE DEF Leads, HeaderPlaces, Numbers, Dated, Clocks, Clocked, Ends, Colon1, Minutes, Colon2,
            Seconds
<1>1. Leads("fullhour", c, "fullhour_colon")
  OBVIOUS
<1>2. c = ":" => Leads("fullhour_colon", c, "fullminute")
  OBVIOUS
<1>3. Leads("fullminute", c, "fullminute_colon")
  OBVIOUS
<1>4. c = ":" => Leads("fullminute_colon", c, "fullsecond")
  OBVIOUS
<1>5. c \in Digits => Leads("fullsecond", c, "partialtime")
  OBVIOUS
<1>6. Leads("partialtime", c, "fullsecfrac")
  OBVIOUS
<1>7. Leads("fullsecfrac", c, "partialtime_secfrac")
  OBVIOUS
<1>8. c = "Z" => \A from \in {"partialtime", "partialtime_secfrac"} : Leads(from, c, "rfc3339")
  OBVIOUS
<1> HIDE DEF Leads
<1> QED
  BY <1>1, <1>2, <1>3, <1>4, <1>5, <1>6, <1>7, <1>8

LEMMA FullLead ==
    ASSUME NEW n, NEW move \in FullMoves(n), NEW c \in move[2]
    PROVE  Leads(move[1], c, move[3])
<1> DEFINE Of(from) == {<<from, If(n.rfc3339, Open(n, from, Digits)), "year">>,
                        <<from, If(n.rfc3339, Open(n, from, Dates)), "fulldate">>}
           First == UNION {Of(from) : from \in Extras \cup {"ciscostar"}}
           Date  == {<<"year", Digits, "year">>, <<"fulldate", {"T"}, "fullhour">>}
           Time  == Clock(<<"fullhour", "fullhour_colon", "fullminute", "fullminute_colon",
                            "fullsecond", "partialtime">>)
           Frac  == {<<"partialtime", {"."}, "fullsecfrac">>,
                     <<"fullsecfrac", Digits, "partialtime_secfrac">>,
                     <<"partialtime", {"Z"}, "rfc3339">>, <<"partialtime_secfrac", {"Z"}, "rfc3339">>}
<1>1. \/ move \in First \/ move \in Date \/ move \in Time \/ move \in Frac
      \/ move \in After(n, "rfc3339")
  <2>1. FullMoves(n) = First \cup Date \cup Time \cup Frac \cup After(n, "rfc3339")
    BY Zenon DEF FullMoves
  <2> HIDE DEF First, Date, Time, Frac
  <2> QED
    BY <2>1
<1>2. ASSUME move \in First PROVE Leads(move[1], c, move[3])
  <2>1. PICK from : move \in Of(from)
    <3> HIDE DEF Of
    <3> QED
      BY <1>2
  <2>2. \A s : If(n.rfc3339, Open(n, from, s)) \subseteq s
    BY DEF If, Open
  <2>3. \/ move = <<from, If(n.rfc3339, Open(n, from, Digits)), "year">>
        \/ move = <<from, If(n.rfc3339, Open(n, from, Dates)), "fulldate">>
    BY <2>1
  <2>4. move[3] \in {"year", "fulldate"} /\ c \in Digits \cup Dates
    <3>1. CASE move = <<from, If(n.rfc3339, Open(n, from, Digits)), "year">>
      BY <2>2, <3>1, MoveOf
    <3>2. CASE move = <<from, If(n.rfc3339, Open(n, from, Dates)), "fulldate">>
      BY <2>2, <3>2, MoveOf
    <3> QED
      BY <2>3, <3>1, <3>2
  <2> QED
    BY <2>4, TokenKinds, LeadsPlainly DEF Numbers
<1>3. ASSUME move \in Date PROVE Leads(move[1], c, move[3])
  <2>1. \/ c \in Digits /\ move[3] = "year"
        \/ c = "T" /\ move[3] = "fullhour"
    BY <1>3
  <2> QED
    BY <2>1, TokenKinds, LeadsPlainly DEF Numbers, Elsewhere
<1>4. ASSUME move \in Time PROVE Leads(move[1], c, move[3])
  <2>1. \/ move[1] = "fullhour" /\ c \in Digits /\ move[3] = "fullhour_colon"
        \/ move[1] = "fullhour_colon" /\ c = ":" /\ move[3] = "fullminute"
        \/ move[1] = "fullminute" /\ c \in Digits /\ move[3] = "fullminute_colon"
        \/ move[1] = "fullminute_colon" /\ c = ":" /\ move[3] = "fullsecond"
        \/ move[1] = "fullsecond" /\ c \in Digits /\ move[3] = "partialtime"
    BY <1>4, ClockMoves
  <2>2. c \in Tokens
    BY <2>1, TokenKinds
  <2> QED
    BY <2>1, <2>2, LeadsFull
<1>5. ASSUME move \in Frac PROVE Leads(move[1], c, move[3])
  <2>1. \/ move[1] = "partialtime" /\ c = "." /\ move[3] = "fullsecfrac"
        \/ move[1] = "fullsecfrac" /\ c \in Digits /\ move[3] = "partialtime_secfrac"
        \/ move[1] = "partialtime" /\ c = "Z" /\ move[3] = "rfc3339"
        \/ move[1] = "partialtime_secfrac" /\ c = "Z" /\ move[3] = "rfc3339"
    BY <1>5
  <2>2. c \in Tokens
    BY <2>1, TokenKinds
  <2> QED
    BY <2>1, <2>2, LeadsFull
<1>6. ASSUME move \in After(n, "rfc3339") PROVE Leads(move[1], c, move[3])
  BY <1>6, AfterLeads
<1> HIDE DEF First, Date, Time, Frac
<1> QED
  BY <1>1, <1>2, <1>3, <1>4, <1>5, <1>6

LEMMA HeaderLeads ==
    ASSUME NEW n, NEW move \in HeaderMoves(n), NEW c \in move[2]
    PROVE  Leads(move[1], c, move[3])
  BY ExtrasLead, StampLead, FullLead DEF HeaderMoves

(* What is known at a place is known at the next one, with one token more.  *)
LEMMA KnownStep ==
    ASSUME NEW d \in Seq(Tokens), NEW p \in 0..Len(d), NEW c \in Tokens, NEW r \in {p, Len(d)},
           NEW from, NEW to \in HeaderPlaces, Known(from, d, p), Leads(from, c, to),
           to \in Numbers => r = Len(d) \/ from = to
    PROVE  Known(to, Append(d, c), r)
<1> DEFINE e == Append(d, c)
           l == Len(d)
<1>1. Len(e) = l + 1 /\ e[l + 1] = c /\ (\A i \in 1..l : e[i] = d[i]) /\ l \in Nat
  OBVIOUS
<1> HIDE DEF e
<1>2. to \in Numbers => r < Len(e) /\ \A i \in r + 1..Len(e) : e[i] \in Digits \cup Dates
  <2>1. ASSUME to \in Numbers, r = l
        PROVE  r < Len(e) /\ \A i \in r + 1..Len(e) : e[i] \in Digits \cup Dates
    BY <1>1, <2>1 DEF Leads
  <2>2. ASSUME to \in Numbers, from = to, r = p
        PROVE  r < Len(e) /\ \A i \in r + 1..Len(e) : e[i] \in Digits \cup Dates
    <3>1. c \in Digits \cup Dates /\ \A i \in p + 1..l : d[i] \in Digits \cup Dates
      BY <2>2 DEF Leads, Known
    <3> QED
      BY <1>1, <2>2, <3>1
  <2> QED
    BY <2>1, <2>2
<1>3. to \in Dated => \E i \in 1..Len(e) : e[i] \in MonthNames \cup {"Z"}
  <2>1. CASE from \in Dated
    BY <1>1, <2>1 DEF Known
  <2>2. CASE c \in MonthNames \cup {"Z"}
    BY <1>1, <2>2
  <2> QED
    BY <2>1, <2>2 DEF Leads
<1>4. to \in Colon1 => Len(e) >= 1
  BY <1>1
<1>5. to \in Minutes => Len(e) >= 2 /\ e[Len(e)] = ":"
  BY <1>1 DEF Leads, Known
<1>6. to \in Colon2 => Len(e) >= 3 /\ e[Len(e) - 1] = ":"
  BY <1>1 DEF Leads, Known
<1>7. to \in Seconds => Len(e) >= 4 /\ e[Len(e)] = ":" /\ e[Len(e) - 2] = ":"
  <2>1. ASSUME to \in Seconds PROVE c = ":" /\ l >= 3 /\ d[l - 1] = ":"
    BY <2>1 DEF Leads, Known
  <2> QED
    BY <1>1, <2>1
<1>8. to \in Clocked => \E h \in 1..Len(e) - 4 :
                            e[h + 1] = ":" /\ e[h + 3] = ":" /\ e[h + 4] \in Digits
  <2>1. CASE to \in Clocks
    <3>1. c \in Digits /\ l >= 4 /\ d[l] = ":" /\ d[l - 2] = ":"
      BY <2>1 DEF Leads, Known
    <3>2. l - 3 \in 1..Len(e) - 4 /\ e[l - 2] = ":" /\ e[l] = ":" /\ e[l + 1] \in Digits
      BY <1>1, <3>1
    <3>3. (l - 3) + 1 = l - 2 /\ (l - 3) + 3 = l /\ (l - 3) + 4 = l + 1
      BY <1>1
    <3> QED
      BY <3>2, <3>3
  <2>2. CASE to \in Clocked \ Clocks
    <3>1. PICK h \in 1..l - 4 : d[h + 1] = ":" /\ d[h + 3] = ":" /\ d[h + 4] \in Digits
      BY <2>2 DEF Leads, Known
    <3>2. e[h + 1] = ":" /\ e[h + 3] = ":" /\ e[h + 4] \in Digits /\ h \in 1..Len(e) - 4
      BY <1>1, <3>1
    <3> QED
      BY <3>2
  <2> QED
    BY <2>1, <2>2
<1>9. to \in Ends => Len(e) # 0 /\ e[Len(e)] # "."
  BY <1>1 DEF Leads
<1> QED
  BY <1>2, <1>3, <1>4, <1>5, <1>6, <1>7, <1>8, <1>9 DEF Known, e

(* Where the header begins nothing is known.                                *)
LEMMA HeaderBegins ==
    ASSUME NEW q \in {"pri_sp", "start"}, NEW d, NEW p
    PROVE  q \in HeaderPlaces /\ Known(q, d, p)
<1>1. q \in Elsewhere
  BY DEF Elsewhere, Extras
<1>2. /\ q \in HeaderPlaces /\ q \notin Numbers /\ q \notin Dated /\ q \notin Minutes
      /\ q \notin Colon2 /\ q \notin Seconds /\ q \notin Clocked /\ q \notin Ends
  BY <1>1, PlaceKinds
<1>3. q \notin Colon1
  BY DEF Colon1
<1> QED
  BY <1>2, <1>3 DEF Known

(* What is behind the mark.                                                 *)
LEMMA BehindMark ==
    ASSUME NEW s \in Seq(Tokens), NEW a \in 1..Len(s), NEW l, l = Len(s)
    PROVE  /\ Len(SubSeq(s, a, l)) = (l - a) + 1
           /\ \A i \in 1..(l - a) + 1 : SubSeq(s, a, l)[i] = s[(a + i) - 1]
  OBVIOUS

(* Where no error action is left in the header, the refusal is silent: the  *)
(* machine is within a number or a date, or at the end of a timestamp.      *)
LEMMA KnownIsInside ==
    ASSUME NEW n, n.data \in Seq(Tokens), n.pb \in 0..Len(n.data),
           NEW q \in n.at, q \in Numbers \cup Ends, Known(q, n.data, n.pb)
    PROVE  Inside(n)
<1> DEFINE d == n.data
           p == n.pb
<1>0. d \in Seq(Tokens) /\ p \in 0..Len(d) /\ Len(d) \in Nat /\ DOMAIN d = 1..Len(d)
  OBVIOUS
<1>1. CASE q \in Numbers
  <2>1. p < Len(d) /\ \A i \in p + 1..Len(d) : d[i] \in Digits \cup Dates
    BY <1>1 DEF Known
  <2> DEFINE a == p + 1
             l == Len(d)
             t == SubSeq(d, a, l)
  <2>2. text(n) = t
    BY DEF text
  <2>3. a \in 1..l /\ l \in Nat /\ a - 1 = p
    BY <1>0, <2>1
  <2>a. \A i \in a..l : d[i] \in Digits \cup Dates
    BY <2>1
  <2>l. l = Len(d)
    OBVIOUS
  <2> HIDE DEF d, p, a, l
  <2>4. Len(t) = (l - a) + 1 /\ \A i \in 1..(l - a) + 1 : t[i] = d[(a + i) - 1]
    BY <1>0, <2>3, <2>l, BehindMark
  <2>5. DOMAIN t = 1..(l - a) + 1 /\ t # <<>> /\ \A i \in DOMAIN t : t[i] \in Digits \cup Dates
    <3>1. t \in Seq(Tokens)
      BY <1>0, <2>3, <2>l
    <3> HIDE DEF t
    <3>2. DOMAIN t = 1..(l - a) + 1 /\ t # <<>>
      BY <2>3, <2>4, <3>1
    <3>3. ASSUME NEW i \in 1..(l - a) + 1 PROVE t[i] \in Digits \cup Dates
      <4>1. (a + i) - 1 \in a..l
        BY <2>3
      <4> QED
        BY <2>a, <2>4, <4>1
    <3> QED
      BY <3>2, <3>3
  <2> HIDE DEF t
  <2>6. text(n) # <<>> /\ ToSet(text(n)) \subseteq Digits \cup Dates
    BY <2>2, <2>5 DEF ToSet
  <2> QED
    BY <2>6 DEF Inside
<1>2. CASE q \in Ends
  <2>1. q \in Dated /\ q \in Clocked
    BY <1>2 DEF Ends, Dated, Clocked, Clocks
  <2>2. PICK h \in 1..Len(d) - 4 : d[h + 1] = ":" /\ d[h + 3] = ":" /\ d[h + 4] \in Digits
    BY <2>1 DEF Known
  <2>3. PICK i \in 1..Len(d) : d[i] \in MonthNames \cup {"Z"}
    BY <2>1 DEF Known
  <2>4. d[Len(d)] # "."
    BY <1>2 DEF Known
  <2>5. ToSet(d) \cap (MonthNames \cup {"Z"}) # {}
    BY <1>0, <2>3 DEF ToSet
  <2>6. Last(d) # "."
    BY <2>4 DEF Last
  <2>7. {d[h + 1], d[h + 3]} = {":"} /\ d[h + 4] \in Digits
    BY <2>2
  <2> QED
    BY <2>5, <2>6, <2>7 DEF Inside
<1> QED
  BY <1>1, <1>2

(* The actions that set something touch neither the places nor what was     *)
(* read; where time.Parse refuses, the machine stops with its error.        *)
Sets(n, o) == /\ DOMAIN o = Fields /\ o.data = n.data /\ o.pb = n.pb /\ o.at = n.at
              /\ o.cs = n.cs \/ (o.cs = "fail" /\ o.err # "nil")

LEMMA ActionsSet ==
    ASSUME NEW n, DOMAIN n = Fields
    PROVE  /\ Sets(n, n) /\ Sets(n, set_prival(n)) /\ Sets(n, set_hostname(n))
           /\ \A f : Sets(n, set_number(n, f)) /\ Sets(n, Set(n, f))
           /\ Sets(n, set_timestamp(n)) /\ Sets(n, set_rfc3339(n))
<1>1. Sets(n, n) /\ Sets(n, set_prival(n)) /\ Sets(n, set_hostname(n))
  BY DEF Sets, Fields, set_prival, set_hostname
<1>2. ASSUME NEW f PROVE Sets(n, set_number(n, f)) /\ Sets(n, Set(n, f))
  BY DEF Sets, Fields, set_number, Set
<1>3. Sets(n, set_timestamp(n)) /\ Sets(n, set_rfc3339(n))
  BY DEF Sets, Fields, set_timestamp, set_rfc3339, Fail
<1> QED
  BY <1>1, <1>2, <1>3

LEMMA SetsThen ==
    ASSUME NEW n, NEW o, NEW u, Sets(n, o), Sets(o, u), o.cs # "fail"
    PROVE  Sets(n, u)
  BY DEF Sets

(* Stopping, with an error or without.                                      *)
LEMMA FailPlaced ==
    ASSUME NEW n, NEW e, DOMAIN n = Fields, n.data \in Seq(Tokens), n.pb \in 0..Len(n.data),
           e # "nil"
    PROVE  Placed(Fail(n, e)) /\ Fail(n, e).cs = "fail"
  BY DEF Placed, Fail, Fields

LEMMA StopPlaced ==
    ASSUME NEW n, DOMAIN n = Fields, n.data \in Seq(Tokens), n.pb \in 0..Len(n.data), Inside(n)
    PROVE  Placed(Stop(n)) /\ Stop(n).cs = "st0"
<1> DEFINE s == Stop(n)
<1>1. s.cs = "st0" /\ s.data = n.data /\ s.pb = n.pb /\ s.at = n.at
  BY DEF Stop, Fields
<1> HIDE DEF s
<1>2. Inside(s)
  BY <1>1 DEF Inside, text
<1>3. Placed(s)
  BY <1>1, <1>2 DEF Placed
<1> QED
  BY <1>1, <1>3 DEF s

LEMMA HeaderErrorPlaced ==
    ASSUME NEW n, DOMAIN n = Fields, Placed(n), n.cs = "header"
    PROVE  Placed(header_error(n)) /\ header_error(n).cs \in {"fail", "st0"}
<1>0. n.data \in Seq(Tokens) /\ n.pb \in 0..Len(n.data)
  BY DEF Placed
<1>1. /\ n.at # {} /\ n.at \subseteq HeaderPlaces
      /\ \A q \in n.at : Known(q, n.data, n.pb)
  BY DEF Placed
<1> DEFINE A == {"pri_sp", "start", "counted"}
           B == {"sequenced", "ciscoHostname"}
           C == {"named", "ciscostar", "datemmm", "datemday", "datemday_sp", "day", "hour",
                 "hour_colon", "minute", "minute_colon", "second", "timesecfrac"}
           D == {"fullhour", "fullhour_colon", "fullminute", "fullminute_colon", "fullsecond",
                 "partialtime", "fullsecfrac", "partialtime_secfrac"}
<1>2. header_error(n) = IF n.at \cap A # {} THEN Fail(n, "errSequence")
                        ELSE IF n.at \cap B # {} THEN Fail(n, "errHostname")
                        ELSE IF n.at \cap C # {} THEN Fail(n, "errTimestamp")
                        ELSE IF n.at \cap D # {} THEN Fail(n, "errRFC3339")
                        ELSE Stop(n)
  BY Zenon DEF header_error
<1>3. HeaderPlaces \subseteq A \cup B \cup C \cup D \cup Numbers \cup Ends
  BY DEF HeaderPlaces, Extras, Dated, Clocked, Clocks, Colon1, Minutes, Colon2, Seconds, Numbers,
         Ends
<1> HIDE DEF A, B, C, D
<1>4. CASE n.at \cap A = {} /\ n.at \cap B = {} /\ n.at \cap C = {} /\ n.at \cap D = {}
  <2>1. PICK q \in n.at : q \in Numbers \cup Ends
    BY <1>1, <1>3, <1>4
  <2>2. Inside(n)
    BY <1>0, <1>1, <2>1, KnownIsInside
  <2>3. header_error(n) = Stop(n)
    BY <1>2, <1>4
  <2> QED
    BY <1>0, <2>2, <2>3, StopPlaced
<1>5. CASE ~(n.at \cap A = {} /\ n.at \cap B = {} /\ n.at \cap C = {} /\ n.at \cap D = {})
  <2>1. PICK e \in {"errSequence", "errHostname", "errTimestamp", "errRFC3339"} :
            header_error(n) = Fail(n, e)
    BY <1>2, <1>5
  <2>2. Placed(Fail(n, e)) /\ Fail(n, e).cs = "fail"
    BY <1>0, FailPlaced
  <2> QED
    BY <2>1, <2>2
<1> QED
  BY <1>4, <1>5

(* A token in the header.                                                   *)
LEMMA HeaderPlaced ==
    ASSUME NEW n, NEW t, DOMAIN n = Fields, Placed(n), n.cs = "header"
    PROVE  Placed(header(n, t))
<1> DEFINE moves  == Taken(n, t, HeaderMoves(n))
           begins == \E move \in moves : Begins(move)
           marked(o) == IF begins THEN mark(o) ELSE o
           counts == Leaves(moves, {"pri_sp", "start"}, {"counted"})
           number == CASE counts -> set_number(mark(n), "msgcount")
                       [] Leaves(moves, {"msgcountval"}, {"counted"}) -> set_number(n, "msgcount")
                       [] Leaves(moves, {"sequenceval"}, {"sequenced"}) -> set_number(n, "sequence")
                       [] OTHER -> n
           host   == IF Leaves(moves, {"ciscoHostname"}, {"named"}) THEN set_hostname(number)
                     ELSE number
           behind == {"sp", "ciscocolon"}
           stamp  == IF Leaves(moves, {"stamp", "stamp_secfrac"}, behind) THEN set_timestamp(host)
                     ELSE IF Leaves(moves, {"rfc3339"}, behind) THEN set_rfc3339(host)
                     ELSE host
<1>0. n.data \in Seq(Tokens) /\ n.pb \in 0..Len(n.data) /\ Len(n.data) \in Nat
  BY DEF Placed
<1>1. header(n, t) = IF moves = {} THEN header_error(n)
                     ELSE IF stamp.cs = "fail" THEN stamp
                     ELSE IF "sp" \in To(moves) THEN [Goto(stamp, "body") EXCEPT !.at = {"sp"}]
                     ELSE [Take(marked(stamp), t) EXCEPT !.at = To(moves)]
  BY Zenon DEF header, HeaderMoves
<1>2. \A move \in moves : /\ move[1] \in n.at /\ move[3] \in To(moves)
                          /\ t \in Tokens /\ Leads(move[1], t, move[3])
  <2>1. ASSUME NEW move \in moves
        PROVE  move \in HeaderMoves(n) /\ t \in move[2] /\ move[1] \in n.at /\ move[3] \in To(moves)
    BY DEF Taken, To
  <2>2. ASSUME NEW move \in moves PROVE Leads(move[1], t, move[3])
    BY <2>1, HeaderLeads
  <2> QED
    BY <2>1, <2>2 DEF Leads
<1>3. \A q \in To(moves) : \E move \in moves : move[3] = q
  BY DEF To
<1> HIDE DEF moves
<1> DEFINE k == mark(n)
<1>4. DOMAIN k = Fields /\ k.data = n.data /\ k.pb = Len(n.data) /\ k.at = n.at /\ k.cs = "header"
  BY DEF mark, Fields
<1>5. /\ DOMAIN number = Fields /\ number.data = n.data /\ number.pb \in {n.pb, Len(n.data)}
      /\ number.cs = "header"
  <2>1. \A f : Sets(k, set_number(k, f)) /\ Sets(n, set_number(n, f))
    BY <1>4, ActionsSet
  <2>2. \A f : set_number(k, f).cs = "header" /\ set_number(n, f).cs = "header"
    BY <1>4 DEF set_number, Fields
  <2> HIDE DEF counts
  <2>3. number \in {n} \cup {set_number(k, f) : f \in {"msgcount", "sequence"}}
                   \cup {set_number(n, f) : f \in {"msgcount", "sequence"}}
    <3> HIDE DEF k
    <3>1. number = CASE counts -> set_number(k, "msgcount")
                     [] Leaves(moves, {"msgcountval"}, {"counted"}) -> set_number(n, "msgcount")
                     [] Leaves(moves, {"sequenceval"}, {"sequenced"}) -> set_number(n, "sequence")
                     [] OTHER -> n
      BY Zenon DEF k
    <3> HIDE DEF number
    <3> QED
      BY <3>1
  <2> HIDE DEF k, number
  <2> QED
    BY <1>4, <2>1, <2>2, <2>3 DEF Sets
<1> HIDE DEF k, number
<1>6. Sets(number, host) /\ host.cs = "header"
  <2>1. Sets(number, number) /\ Sets(number, set_hostname(number))
    BY <1>5, ActionsSet
  <2>2. set_hostname(number).cs = "header"
    BY <1>5 DEF set_hostname, Fields
  <2> QED
    BY <1>5, <2>1, <2>2, Zenon
<1> HIDE DEF host
<1>7. Sets(number, stamp)
  <2>1. DOMAIN host = Fields
    BY <1>6 DEF Sets
  <2>2. Sets(host, host) /\ Sets(host, set_timestamp(host)) /\ Sets(host, set_rfc3339(host))
    BY <2>1, ActionsSet
  <2>3. Sets(host, stamp)
    BY <2>2, Zenon
  <2> HIDE DEF stamp
  <2> QED
    BY <1>6, <2>3, SetsThen
<1> HIDE DEF stamp
<1>8. /\ DOMAIN stamp = Fields /\ stamp.data = n.data /\ stamp.pb \in {n.pb, Len(n.data)}
      /\ stamp.cs = "header" \/ (stamp.cs = "fail" /\ stamp.err # "nil")
  BY <1>5, <1>7 DEF Sets
<1>9. CASE moves = {}
  BY <1>1, <1>9, HeaderErrorPlaced
<1>10. CASE moves # {} /\ stamp.cs = "fail"
  BY <1>0, <1>1, <1>8, <1>10 DEF Placed
<1>11. CASE moves # {} /\ stamp.cs # "fail" /\ "sp" \in To(moves)
  <2> DEFINE b == [Goto(stamp, "body") EXCEPT !.at = {"sp"}]
  <2>1. b.cs = "body" /\ b.data = <<>> /\ b.pb = 0 /\ b.at = {"sp"}
    BY <1>8 DEF Goto, Fields
  <2>2. header(n, t) = b
    BY <1>1, <1>11, Zenon
  <2> HIDE DEF b
  <2>3. b.data \in Seq(Tokens) /\ b.pb \in 0..Len(b.data) /\ InBody(b.at)
    BY <2>1 DEF InBody
  <2>4. Placed(b)
    BY <2>1, <2>3 DEF Placed
  <2> QED
    BY <2>2, <2>4
<1>12. CASE moves # {} /\ stamp.cs # "fail" /\ "sp" \notin To(moves)
  <2> DEFINE b == [Take(marked(stamp), t) EXCEPT !.at = To(moves)]
             r == IF begins THEN Len(n.data) ELSE stamp.pb
  <2>1. b.cs = "header" /\ b.data = Append(n.data, t) /\ b.pb = r /\ b.at = To(moves)
    <3>1. CASE begins
      <4>1. b = [Take(mark(stamp), t) EXCEPT !.at = To(moves)]
        BY <3>1, Zenon
      <4> HIDE DEF b
      <4> QED
        BY <1>8, <1>12, <3>1, <4>1 DEF Take, mark, Fields
    <3>2. CASE ~begins
      <4>1. b = [Take(stamp, t) EXCEPT !.at = To(moves)]
        BY <3>2, Zenon
      <4> HIDE DEF b
      <4> QED
        BY <1>8, <1>12, <3>2, <4>1 DEF Take, Fields
    <3> QED
      BY <3>1, <3>2
  <2>2. header(n, t) = b
    BY <1>1, <1>12, Zenon
  <2>3. t \in Tokens /\ To(moves) # {}
    BY <1>2, <1>12
  <2>4. r \in {n.pb, Len(n.data)} /\ (begins => r = Len(n.data))
    BY <1>8
  <2> HIDE DEF b, r
  <2>5. ASSUME NEW q \in To(moves)
        PROVE  q \in HeaderPlaces /\ Known(q, Append(n.data, t), r)
    <3>1. PICK move \in moves : move[3] = q
      BY <1>3
    <3>2. move[1] \in n.at /\ Leads(move[1], t, q) /\ Known(move[1], n.data, n.pb)
      BY <1>2, <3>1 DEF Placed
    <3>3. q \in HeaderPlaces
      BY <1>12, <2>5, <3>2 DEF Leads
    <3>4. ASSUME q \in Numbers, move[1] # q PROVE r = Len(n.data)
      <4>1. q \in Marked
        BY <3>4 DEF Numbers, Marked
      <4>2. Begins(move)
        BY <3>1, <3>4, <4>1 DEF Begins
      <4> QED
        BY <2>4, <4>2
    <3> QED
      BY <1>0, <2>3, <2>4, <3>2, <3>3, <3>4, KnownStep
  <2>6. Append(n.data, t) \in Seq(Tokens) /\ r \in 0..Len(Append(n.data, t))
    BY <1>0, <2>3, <2>4
  <2>7. b.at # {} /\ b.at \subseteq HeaderPlaces /\ \A q \in b.at : Known(q, b.data, b.pb)
    BY <2>1, <2>3, <2>5
  <2>8. b.data \in Seq(Tokens) /\ b.pb \in 0..Len(b.data)
    BY <2>1, <2>6
  <2>9. Placed(b)
    BY <2>1, <2>7, <2>8 DEF Placed
  <2> QED
    BY <2>2, <2>9
<1> QED
  BY <1>9, <1>10, <1>11, <1>12

LEMMA VisibleKinds ==
    ASSUME NEW n
    PROVE  /\ HostChars \subseteq Visible(n) /\ TagChars \subseteq Visible(n)
           /\ {" ", ":", "[", "]"} \subseteq Visible(n) /\ InContent(n) \subseteq Visible(n)
           /\ Visible(n) \subseteq FirstVisible(n)
           /\ n.at # {"sp"} => FirstVisible(n) = Visible(n)
<1>1. HostChars \subseteq Visible(n) /\ {" ", ":"} \subseteq Visible(n)
  BY DEF Visible
<1>2. TagChars \subseteq HostChars /\ InContent(n) \subseteq Visible(n)
  BY DEF TagChars, InContent
<1>3. {"[", "]"} \subseteq HostChars
  BY DEF HostChars
<1>4. Visible(n) \subseteq FirstVisible(n) /\ (n.at # {"sp"} => FirstVisible(n) = Visible(n))
  BY DEF FirstVisible
<1> QED
  BY <1>1, <1>2, <1>3, <1>4

(* Where a token leads in the body. *)
TagGrows(n) == IF Len(text(n)) < TagRange THEN TagChars ELSE {}
Goes(n, f, t, q) ==
    \/ f = "sp" /\ \/ q = "sp" /\ t = " "
                   \/ q = "hostname" /\ t \in HostChars
                   \/ q = "tag" /\ t \in TagChars
                   \/ q = "mex" /\ t \in FirstVisible(n)
    \/ f = "hostname" /\ \/ q = "hostname" /\ t \in HostChars
                         \/ q = "hostname_sp" /\ t = " "
    \/ f = "hostname_sp" /\ \/ q = "hostname_sp" /\ t = " "
                            \/ q = "tag" /\ t \in TagChars
                            \/ q = "mex" /\ t \in Visible(n)
    \/ f = "tag" /\ \/ q = "tag" /\ t \in TagGrows(n)
                    \/ q = "content" /\ t = "["
                    \/ q = "colon" /\ t = ":"
    \/ f \in {"content", "contentval"} /\ \/ q = "contentval" /\ t \in InContent(n)
                                          \/ q = "content_end" /\ t = "]"
    \/ f = "content_end" /\ q = "colon" /\ t = ":"
    \/ f = "colon" /\ q = "colon_sp" /\ t = " "
    \/ f = "colon_sp" /\ q = "mex" /\ t \in Visible(n)
    \/ f = "mex" /\ \/ q = "mex" /\ t \in Visible(n)
                    \/ q = "end" /\ t = "\n"

(* A move is one that leads there. *)
LEMMA BodyGoes ==
    ASSUME NEW n, NEW move \in BodyMoves(n), NEW c \in move[2]
    PROVE  Goes(n, move[1], c, move[3])
<1> DEFINE tags == IF Len(text(n)) < TagRange THEN TagChars ELSE {}
           A == { <<"sp", {" "}, "sp">>, <<"sp", HostChars, "hostname">>, <<"sp", TagChars, "tag">>,
                  <<"sp", FirstVisible(n), "mex">> }
           B == { <<"hostname", HostChars, "hostname">>, <<"hostname", {" "}, "hostname_sp">>,
                  <<"hostname_sp", {" "}, "hostname_sp">>, <<"hostname_sp", TagChars, "tag">>,
                  <<"hostname_sp", Visible(n), "mex">> }
           C == { <<"tag", tags, "tag">>, <<"tag", {"["}, "content">>, <<"tag", {":"}, "colon">> }
           D == { <<"content", InContent(n), "contentval">>, <<"content", {"]"}, "content_end">>,
                  <<"contentval", InContent(n), "contentval">>,
                  <<"contentval", {"]"}, "content_end">> }
           E == { <<"content_end", {":"}, "colon">>, <<"colon", {" "}, "colon_sp">>,
                  <<"colon_sp", Visible(n), "mex">>, <<"mex", Visible(n), "mex">>,
                  <<"mex", {"\n"}, "end">> }
<1>1. move \in A \cup B \cup C \cup D \cup E
  BY DEF BodyMoves
<1>m. ASSUME NEW x, NEW y, NEW z, move = <<x, y, z>>, \A d \in y : Goes(n, x, d, z)
      PROVE  Goes(n, move[1], c, move[3])
  BY <1>m, MoveOf
<1>n. ASSUME NEW x, NEW d, NEW z, move = <<x, {d}, z>>, Goes(n, x, d, z)
      PROVE  Goes(n, move[1], c, move[3])
  <2>1. move[1] = x /\ c = d /\ move[3] = z
    BY <1>n
  <2> QED
    BY <1>n, <2>1
<1>2. CASE move \in A
  <2>1. \/ move = <<"sp", {" "}, "sp">>
        \/ move = <<"sp", HostChars, "hostname">>
        \/ move = <<"sp", TagChars, "tag">>
        \/ move = <<"sp", FirstVisible(n), "mex">>
    BY <1>2
  <2>2. /\ Goes(n, "sp", " ", "sp")
        /\ \A d \in HostChars : Goes(n, "sp", d, "hostname")
        /\ \A d \in TagChars : Goes(n, "sp", d, "tag")
        /\ \A d \in FirstVisible(n) : Goes(n, "sp", d, "mex")
    BY DEF Goes
  <2>3. move = <<"sp", {" "}, "sp">> => Goes(n, move[1], c, move[3])
    BY <2>2, <1>n
  <2>4. move = <<"sp", HostChars, "hostname">> => Goes(n, move[1], c, move[3])
    BY <2>2, <1>m
  <2>5. move = <<"sp", TagChars, "tag">> => Goes(n, move[1], c, move[3])
    BY <2>2, <1>m
  <2>6. move = <<"sp", FirstVisible(n), "mex">> => Goes(n, move[1], c, move[3])
    BY <2>2, <1>m
  <2> QED
    BY <2>1, <2>3, <2>4, <2>5, <2>6
<1>3. CASE move \in B
  <2>1. \/ move = <<"hostname", HostChars, "hostname">>
        \/ move = <<"hostname", {" "}, "hostname_sp">>
        \/ move = <<"hostname_sp", {" "}, "hostname_sp">>
        \/ move = <<"hostname_sp", TagChars, "tag">>
        \/ move = <<"hostname_sp", Visible(n), "mex">>
    BY <1>3
  <2>2. /\ \A d \in HostChars : Goes(n, "hostname", d, "hostname")
        /\ Goes(n, "hostname", " ", "hostname_sp")
        /\ Goes(n, "hostname_sp", " ", "hostname_sp")
        /\ \A d \in TagChars : Goes(n, "hostname_sp", d, "tag")
        /\ \A d \in Visible(n) : Goes(n, "hostname_sp", d, "mex")
    BY DEF Goes
  <2>3. move = <<"hostname", HostChars, "hostname">> => Goes(n, move[1], c, move[3])
    BY <2>2, <1>m
  <2>4. move = <<"hostname", {" "}, "hostname_sp">> => Goes(n, move[1], c, move[3])
    BY <2>2, <1>n
  <2>5. move = <<"hostname_sp", {" "}, "hostname_sp">> => Goes(n, move[1], c, move[3])
    BY <2>2, <1>n
  <2>6. move = <<"hostname_sp", TagChars, "tag">> => Goes(n, move[1], c, move[3])
    BY <2>2, <1>m
  <2>7. move = <<"hostname_sp", Visible(n), "mex">> => Goes(n, move[1], c, move[3])
    BY <2>2, <1>m
  <2> QED
    BY <2>1, <2>3, <2>4, <2>5, <2>6, <2>7
<1>4. CASE move \in C
  <2> HIDE DEF tags
  <2>1. \/ move = <<"tag", tags, "tag">>
        \/ move = <<"tag", {"["}, "content">>
        \/ move = <<"tag", {":"}, "colon">>
    BY <1>4
  <2>2. /\ \A d \in tags : Goes(n, "tag", d, "tag")
        /\ Goes(n, "tag", "[", "content")
        /\ Goes(n, "tag", ":", "colon")
    BY DEF Goes, TagGrows, tags
  <2>3. move = <<"tag", tags, "tag">> => Goes(n, move[1], c, move[3])
    BY <2>2, <1>m
  <2>4. move = <<"tag", {"["}, "content">> => Goes(n, move[1], c, move[3])
    BY <2>2, <1>n
  <2>5. move = <<"tag", {":"}, "colon">> => Goes(n, move[1], c, move[3])
    BY <2>2, <1>n
  <2> QED
    BY <2>1, <2>3, <2>4, <2>5
<1>5. CASE move \in D
  <2>1. \/ move = <<"content", InContent(n), "contentval">>
        \/ move = <<"content", {"]"}, "content_end">>
        \/ move = <<"contentval", InContent(n), "contentval">>
        \/ move = <<"contentval", {"]"}, "content_end">>
    BY <1>5
  <2>2. \A f \in {"content", "contentval"} :
           /\ \A d \in InContent(n) : Goes(n, f, d, "contentval")
           /\ Goes(n, f, "]", "content_end")
    BY DEF Goes
  <2>3. move = <<"content", InContent(n), "contentval">> => Goes(n, move[1], c, move[3])
    BY <2>2, <1>m
  <2>4. move = <<"content", {"]"}, "content_end">> => Goes(n, move[1], c, move[3])
    BY <2>2, <1>n
  <2>5. move = <<"contentval", InContent(n), "contentval">> => Goes(n, move[1], c, move[3])
    BY <2>2, <1>m
  <2>6. move = <<"contentval", {"]"}, "content_end">> => Goes(n, move[1], c, move[3])
    BY <2>2, <1>n
  <2> QED
    BY <2>1, <2>3, <2>4, <2>5, <2>6
<1>6. CASE move \in E
  <2>1. \/ move = <<"content_end", {":"}, "colon">>
        \/ move = <<"colon", {" "}, "colon_sp">>
        \/ move = <<"colon_sp", Visible(n), "mex">>
        \/ move = <<"mex", Visible(n), "mex">>
        \/ move = <<"mex", {"\n"}, "end">>
    BY <1>6
  <2>2. /\ Goes(n, "content_end", ":", "colon")
        /\ Goes(n, "colon", " ", "colon_sp")
        /\ \A d \in Visible(n) : Goes(n, "colon_sp", d, "mex") /\ Goes(n, "mex", d, "mex")
        /\ Goes(n, "mex", "\n", "end")
    BY DEF Goes
  <2>3. move = <<"content_end", {":"}, "colon">> => Goes(n, move[1], c, move[3])
    BY <2>2, <1>n
  <2>4. move = <<"colon", {" "}, "colon_sp">> => Goes(n, move[1], c, move[3])
    BY <2>2, <1>n
  <2>5. move = <<"colon_sp", Visible(n), "mex">> => Goes(n, move[1], c, move[3])
    BY <2>2, <1>m
  <2>6. move = <<"mex", Visible(n), "mex">> => Goes(n, move[1], c, move[3])
    BY <2>2, <1>m
  <2>7. move = <<"mex", {"\n"}, "end">> => Goes(n, move[1], c, move[3])
    BY <2>2, <1>n
  <2> QED
    BY <2>1, <2>3, <2>4, <2>5, <2>6, <2>7
<1> HIDE DEF A, B, C, D, E
<1> QED
  BY <1>1, <1>2, <1>3, <1>4, <1>5, <1>6

(* All but the last move take what a message may begin with, and the last   *)
(* ends it.                                                                 *)
LEMMA BodyLeads ==
    ASSUME NEW n, NEW move \in BodyMoves(n), NEW c \in move[2]
    PROVE  \/ move[1] = "sp" /\ c \in FirstVisible(n)
           \/ move[1] \notin {"sp", "end"} /\ c \in Visible(n)
           \/ move[1] = "mex" /\ move[3] = "end"
<1>1. ASSUME NEW f, NEW q, Goes(n, f, c, q)
      PROVE  \/ f = "sp" /\ c \in FirstVisible(n)
             \/ f \notin {"sp", "end"} /\ c \in Visible(n)
             \/ f = "mex" /\ q = "end"
  <2>1. /\ HostChars \subseteq Visible(n) /\ TagChars \subseteq Visible(n)
        /\ {" ", ":", "[", "]"} \subseteq Visible(n) /\ InContent(n) \subseteq Visible(n)
        /\ Visible(n) \subseteq FirstVisible(n) /\ TagGrows(n) \subseteq TagChars
    BY VisibleKinds DEF TagGrows
  <2>2. CASE f = "sp"
    BY <1>1, <2>1, <2>2 DEF Goes
  <2>3. CASE f \in {"hostname", "hostname_sp", "tag"}
    BY <1>1, <2>1, <2>3 DEF Goes
  <2>4. CASE f \in {"content", "contentval", "content_end", "colon", "colon_sp", "mex"}
    BY <1>1, <2>1, <2>4 DEF Goes
  <2> QED
    BY <1>1, <2>2, <2>3, <2>4 DEF Goes
<1>2. Goes(n, move[1], c, move[3])
  BY BodyGoes
<1> QED
  BY <1>1, <1>2

(* The places behind a token.                                               *)
LEMMA BodyPlaces ==
    ASSUME NEW n, NEW t, InBody(n.at), Taken(n, t, BodyMoves(n)) # {}
    PROVE  InBody(To(Taken(n, t, BodyMoves(n))))
<1> DEFINE moves == Taken(n, t, BodyMoves(n))
<1>1. \A move \in moves :
          /\ move[1] \in n.at
          /\ \/ move[1] = "sp" /\ t \in FirstVisible(n)
             \/ move[1] \notin {"sp", "end"} /\ t \in Visible(n)
             \/ move[1] = "mex" /\ move[3] = "end"
  <2>1. ASSUME NEW move \in moves PROVE move \in BodyMoves(n) /\ t \in move[2] /\ move[1] \in n.at
    BY DEF Taken
  <2> QED
    BY <2>1, BodyLeads
<1>2. /\ "sp" \in n.at /\ t \in FirstVisible(n) => "mex" \in To(moves)
      /\ "mex" \in n.at /\ t \in Visible(n) => "mex" \in To(moves)
  <2> DEFINE a == <<"sp", FirstVisible(n), "mex">>
             b == <<"mex", Visible(n), "mex">>
  <2>1. a \in BodyMoves(n) /\ b \in BodyMoves(n)
    BY DEF BodyMoves
  <2>2. /\ a[1] = "sp" /\ a[2] = FirstVisible(n) /\ a[3] = "mex"
        /\ b[1] = "mex" /\ b[2] = Visible(n) /\ b[3] = "mex"
    OBVIOUS
  <2> HIDE DEF a, b
  <2>3. /\ "sp" \in n.at /\ t \in FirstVisible(n) => a \in moves
        /\ "mex" \in n.at /\ t \in Visible(n) => b \in moves
    BY <2>1, <2>2 DEF Taken
  <2> QED
    BY <2>2, <2>3 DEF To
<1> HIDE DEF moves
<1>3. CASE n.at = {"sp"}
  BY <1>1, <1>2, <1>3 DEF InBody, moves
<1>4. CASE n.at = {"end"}
  BY <1>1, <1>4 DEF moves
<1>5. CASE "mex" \in n.at
  <2>1. FirstVisible(n) = Visible(n)
    <3>1. n.at # {"sp"}
      BY <1>5
    <3> QED
      BY <3>1, VisibleKinds
  <2>2. CASE t \in Visible(n)
    BY <1>2, <1>5, <2>2 DEF InBody, moves
  <2>3. CASE t \notin Visible(n)
    <3>1. \A move \in moves : move[3] = "end"
      BY <1>1, <2>1, <2>3
    <3>2. To(moves) = {"end"}
      BY <3>1 DEF To, moves
    <3> QED
      BY <3>2 DEF InBody, moves
  <2> QED
    BY <2>2, <2>3
<1> QED
  BY <1>3, <1>4, <1>5 DEF InBody

LEMMA BodyErrorPlaced ==
    ASSUME NEW n, DOMAIN n = Fields, Placed(n), n.cs = "body"
    PROVE  Placed(body_error(n)) /\ body_error(n).cs \in {"fail", "st0"}
<1>0. n.data \in Seq(Tokens) /\ n.pb \in 0..Len(n.data) /\ InBody(n.at)
  BY DEF Placed
<1>1. CASE \E e \in {"errHostname", "errTag", "errContentStart"} : body_error(n) = Fail(n, e)
  BY <1>0, <1>1, FailPlaced
<1>2. CASE body_error(n) = Stop(n) /\ "sp" \notin n.at
  <2>1. Inside(n)
    BY <1>0, <1>2 DEF InBody, Inside
  <2> QED
    BY <1>0, <1>2, <2>1, StopPlaced
<1> QED
  BY <1>1, <1>2 DEF body_error

LEMMA BodyPlaced ==
    ASSUME NEW n, NEW t \in Tokens, DOMAIN n = Fields, Placed(n), n.cs = "body"
    PROVE  Placed(body(n, t))
<1> DEFINE moves   == Taken(n, t, BodyMoves(n))
           host    == IF Leaves(moves, {"hostname"}, {"hostname_sp"}) THEN set_hostname(n) ELSE n
           tag     == IF Leaves(moves, {"tag"}, {"content", "colon"}) THEN Set(host, "tag") ELSE host
           marked  == IF \E move \in moves : Begins(move) THEN mark(tag) ELSE tag
           content == IF "content_end" \in To(moves) THEN Set(marked, "content") ELSE marked
           message == IF "end" \in To(moves) THEN Set(content, "message") ELSE content
           Reads(o) == DOMAIN o = Fields /\ o.data = n.data /\ o.cs = "body"
                       /\ o.pb \in {n.pb, Len(n.data)}
<1>0. n.data \in Seq(Tokens) /\ n.pb \in 0..Len(n.data) /\ InBody(n.at)
  BY DEF Placed
<1>1. body(n, t) = IF moves = {} THEN body_error(n) ELSE [Take(message, t) EXCEPT !.at = To(moves)]
  BY Zenon DEF body
<1>2. moves # {} => InBody(To(moves))
  BY <1>0, BodyPlaces
<1>3. ASSUME NEW o, Reads(o)
      PROVE  Reads(set_hostname(o)) /\ Reads(mark(o)) /\ \A f : Reads(Set(o, f))
  BY <1>3 DEF set_hostname, mark, Set, Fields
<1>4. Reads(n)
  OBVIOUS
<1> HIDE DEF moves, Reads
<1>5. Reads(host)
  BY <1>3, <1>4, Zenon
<1> HIDE DEF host
<1>6. Reads(tag)
  BY <1>3, <1>5, Zenon
<1> HIDE DEF tag
<1>7. Reads(marked)
  BY <1>3, <1>6, Zenon
<1> HIDE DEF marked
<1>8. Reads(content)
  BY <1>3, <1>7, Zenon
<1> HIDE DEF content
<1>9. Reads(message)
  BY <1>3, <1>8, Zenon
<1> HIDE DEF message
<1>10. CASE moves = {}
  BY <1>1, <1>10, BodyErrorPlaced
<1>11. CASE moves # {}
  <2> DEFINE b == [Take(message, t) EXCEPT !.at = To(moves)]
  <2>1. /\ b.cs = "body" /\ b.data = Append(n.data, t) /\ b.at = To(moves)
        /\ b.pb \in {n.pb, Len(n.data)}
    BY <1>9 DEF Reads, Take, Fields
  <2>2. body(n, t) = b
    BY <1>1, <1>11, Zenon
  <2> HIDE DEF b
  <2>3. b.data \in Seq(Tokens) /\ b.pb \in 0..Len(b.data)
    BY <1>0, <2>1
  <2>4. Placed(b)
    BY <1>2, <1>11, <2>1, <2>3 DEF Placed
  <2> QED
    BY <2>2, <2>4
<1> QED
  BY <1>10, <1>11

LEMMA PrivalPlaced ==
    ASSUME NEW n, NEW t, DOMAIN n = Fields, Placed(n), n.cs = "prival"
    PROVE  Placed(prival(n, t))
<1>0. n.data \in Seq(Tokens) /\ n.pb \in 0..Len(n.data)
  BY DEF Placed
<1>1. PICK o : /\ o = IF n.data # <<>> THEN set_prival(n) ELSE n
               /\ prival(n, t) = CASE n.data # <<>> /\ t = ">" -> [Goto(o, "header") EXCEPT !.at = {"pri_sp"}]
                                   [] t = "9" /\ Len(n.data) < 2 -> Take(o, t)
                                   [] OTHER -> Fail(o, "errPrival")
  BY Zenon DEF prival
<1>2. DOMAIN o = Fields /\ o.data = n.data /\ o.pb = n.pb /\ o.cs = "prival"
  BY <1>1 DEF set_prival, Fields
<1>3. Placed([Goto(o, "header") EXCEPT !.at = {"pri_sp"}])
  <2> DEFINE b == [Goto(o, "header") EXCEPT !.at = {"pri_sp"}]
  <2>1. b.cs = "header" /\ b.data = <<>> /\ b.pb = 0 /\ b.at = {"pri_sp"}
    BY <1>2 DEF Goto, Fields
  <2> HIDE DEF b
  <2>2. "pri_sp" \in HeaderPlaces /\ Known("pri_sp", b.data, b.pb)
    BY HeaderBegins
  <2>3. b.data \in Seq(Tokens) /\ b.pb \in 0..Len(b.data)
    BY <2>1
  <2>4. Placed(b)
    BY <2>1, <2>2, <2>3 DEF Placed
  <2> QED
    BY <2>4 DEF b
<1>4. t = "9" => Placed(Take(o, t))
  <2> DEFINE b == Take(o, t)
  <2>1. b.cs = "prival" /\ b.data = Append(n.data, t) /\ b.pb = n.pb
    BY <1>2 DEF Take, Fields
  <2>2. "9" \in Tokens
    BY DEF Tokens, BodyTokens
  <2> HIDE DEF b
  <2>3. t = "9" => b.data \in Seq(Tokens) /\ b.pb \in 0..Len(b.data)
    BY <1>0, <2>1, <2>2
  <2>4. t = "9" => Placed(b)
    BY <2>1, <2>3 DEF Placed
  <2> QED
    BY <2>4 DEF b
<1>5. Placed(Fail(o, "errPrival"))
  BY <1>0, <1>2, FailPlaced
<1> QED
  BY <1>1, <1>3, <1>4, <1>5

(* A token, and the end of the input.                                       *)
LEMMA StepPlaced ==
    ASSUME NEW n, NEW t \in Tokens, DOMAIN n = Fields, Placed(n)
    PROVE  Placed(Step(n, t))
<1>1. CASE n.cs = "prival"
  BY <1>1, PrivalPlaced DEF Step
<1>2. CASE n.cs = "header"
  BY <1>2, HeaderPlaced DEF Step
<1>3. CASE n.cs = "body"
  BY <1>3, BodyPlaced DEF Step
<1>4. CASE n.cs \in {"fail", "st0"}
  BY <1>4 DEF Step
<1> QED
  BY <1>1, <1>2, <1>3, <1>4 DEF Placed

LEMMA EofPlaced ==
    ASSUME NEW n, DOMAIN n = Fields, Placed(n)
    PROVE  Placed(Eof(n)) /\ Eof(n).cs \in {"body", "fail", "st0"}
<1>0. n.data \in Seq(Tokens) /\ n.pb \in 0..Len(n.data)
  BY DEF Placed
<1>1. CASE n.cs = "prival"
  BY <1>0, <1>1, FailPlaced DEF Eof
<1>2. CASE n.cs = "header"
  BY <1>2, HeaderErrorPlaced DEF Eof
<1>3. CASE n.cs = "body"
  <2>1. Placed(body_error(n)) /\ body_error(n).cs \in {"fail", "st0"}
    BY <1>3, BodyErrorPlaced
  <2> DEFINE b == Set(n, "message")
  <2>2. b.cs = "body" /\ b.data = n.data /\ b.pb = n.pb /\ b.at = n.at
    BY <1>3 DEF Set, Fields
  <2>3. Eof(n) \in {b, n, body_error(n)}
    BY <1>3 DEF Eof
  <2> HIDE DEF b
  <2>4. Placed(b)
    BY <1>0, <1>3, <2>2 DEF Placed
  <2> QED
    BY <1>3, <2>1, <2>2, <2>3, <2>4
<1>4. CASE n.cs \in {"fail", "st0"}
  BY <1>4 DEF Eof
<1> QED
  BY <1>1, <1>2, <1>3, <1>4 DEF Placed

(* The invariant.                                                           *)
SilentInv ==
    /\ call.pc \in {"read", "end"} => Placed(m)
    /\ call.pc = "done" /\ ~Final(m) /\ m.err = "nil" => Inside(m)

LEMMA SilentCall ==
    ASSUME FreshInv, NEW first, Call(first)
    PROVE  SilentInv'
<1> DEFINE off == first # "<"
           New(n) == IF off THEN Begin([n EXCEPT !.flags = NoFlags], "header", {"start"})
                     ELSE Begin(n, "main", {})
           First(n) == IF first = "EOF" THEN New(n) ELSE Step(New(n), first)
<1>0. DOMAIN m = Fields /\ DOMAIN call = CallFields
  BY DEF FreshInv, HasOptions
<1>1. CASE off /\ ~m.optionalPriority
  <2>1. /\ m' = [m EXCEPT !.err = "errPri"]
        /\ call' = [call EXCEPT !.pc = "done", !.res = Result(FALSE, NoOutput, "errPri"),
                                !.alone.err = "errPri"]
    BY <1>1, Zenon DEF Call
  <2>2. m'.err = "errPri" /\ call'.pc = "done"
    <3> DEFINE r == Result(FALSE, NoOutput, "errPri")
               a == [call.alone EXCEPT !.err = "errPri"]
    <3>1. call' = [call EXCEPT !.pc = "done", !.res = r, !.alone = a]
      BY <2>1
    <3> HIDE DEF r, a
    <3> QED
      BY <1>0, <2>1, <3>1 DEF Fields, CallFields
  <2> QED
    BY <2>2 DEF SilentInv
<1>2. CASE ~(off /\ ~m.optionalPriority)
  <2>1. /\ m' = First(m)
        /\ call' = [call EXCEPT !.pc = IF first = "EOF" THEN "end" ELSE "read",
                                !.saved = m.flags, !.before = first,
                                !.alone = First(@), !.plain = First(@)]
    BY <1>2, Zenon DEF Call
  <2>2. call'.pc \in {"read", "end"}
    <3> DEFINE p == IF first = "EOF" THEN "end" ELSE "read"
               f == m.flags
               q == First(call.plain)
               a == First(call.alone)
    <3>1. call' = [call EXCEPT !.pc = p, !.saved = f, !.before = first, !.alone = a, !.plain = q]
      BY <2>1, Zenon
    <3>2. p \in {"read", "end"}
      OBVIOUS
    <3> HIDE DEF p, f, q, a
    <3> QED
      BY <1>0, <3>1, <3>2 DEF CallFields
  <2>3. CASE off
    <3> DEFINE x == Begin([m EXCEPT !.flags = NoFlags], "header", {"start"})
    <3>1. /\ DOMAIN x = Fields /\ x.cs = "header" /\ x.data = <<>> /\ x.pb = 0
          /\ x.at = {"start"}
      BY <1>0 DEF Begin, Fields
    <3>2. m' = x \/ m' = Step(x, first)
      BY <2>1, <2>3, Zenon
    <3> HIDE DEF x
    <3>3. "start" \in HeaderPlaces /\ Known("start", x.data, x.pb)
      BY HeaderBegins
    <3>4. x.data \in Seq(Tokens) /\ x.pb \in 0..Len(x.data)
      BY <3>1
    <3>5. Placed(x)
      BY <3>1, <3>3, <3>4 DEF Placed
    <3>6. Placed(Step(x, first))
      BY <3>1, <3>5, HeaderPlaced DEF Step
    <3> QED
      BY <2>2, <3>2, <3>5, <3>6 DEF SilentInv
  <2>4. CASE ~off
    <3> DEFINE x == Begin(m, "main", {})
    <3>1. DOMAIN x = Fields /\ x.cs = "main"
      BY <1>0 DEF Begin, Fields
    <3>2. m' = Step(x, first)
      BY <2>1, <2>4, Zenon
    <3> HIDE DEF x
    <3>3. m' = Goto(x, "prival")
      BY <2>4, <3>1, <3>2 DEF Step
    <3>4. m'.cs = "prival" /\ m'.data = <<>> /\ m'.pb = 0
      BY <3>1, <3>3 DEF Goto, Fields
    <3>5. m'.data \in Seq(Tokens) /\ m'.pb \in 0..Len(m'.data)
      BY <3>4
    <3>6. Placed(m')
      BY <3>4, <3>5 DEF Placed
    <3> QED
      BY <2>2, <3>6 DEF SilentInv
  <2> QED
    BY <2>3, <2>4
<1> QED
  BY <1>1, <1>2

LEMMA SilentRead ==
    ASSUME FreshInv, SilentInv, Read
    PROVE  SilentInv'
<1>0. DOMAIN m = Fields /\ Placed(m) /\ DOMAIN call = CallFields /\ call.pc = "read"
  BY DEF Read, FreshInv, HasOptions, SilentInv
<1>1. PICK c \in Offered(m) \cup Offered(call.plain) :
          /\ m' = Step(m, c)
          /\ call' = [call EXCEPT !.before = IF Stopped(m') THEN @ ELSE c,
                                  !.alone = Step(@, c), !.plain = Step(@, c)]
  BY Zenon DEF Read
<1>2. \A n : Offered(n) \subseteq Tokens
  BY Rfc3164Assumption DEF Offered, Tokens
<1>3. Placed(m')
  BY <1>0, <1>1, <1>2, StepPlaced
<1> DEFINE b == IF Stopped(m') THEN call.before ELSE c
           a == Step(call.alone, c)
           q == Step(call.plain, c)
<1>4. call' = [call EXCEPT !.before = b, !.alone = a, !.plain = q]
  BY <1>1, Zenon
<1> HIDE DEF a, b, q
<1>5. call'.pc = "read"
  BY <1>0, <1>4 DEF CallFields
<1> QED
  BY <1>3, <1>5 DEF SilentInv

LEMMA SilentFinish ==
    ASSUME FreshInv, SilentInv, Finish
    PROVE  SilentInv'
<1> DEFINE e == Eof(m)
           r == Answer(e)
           q == Eof(call.plain)
           a == Eof(call.alone)
<1>0. DOMAIN m = Fields /\ Placed(m) /\ DOMAIN call = CallFields /\ Sound(m, config)
  BY DEF Finish, FreshInv, HasOptions, SilentInv
<1>1. /\ m' = [e EXCEPT !.flags = call.saved]
      /\ call' = [call EXCEPT !.pc = "done", !.res = r, !.alone = a, !.plain = q]
  BY Zenon DEF Finish
<1>2. Placed(e) /\ e.cs \in {"body", "fail", "st0"}
  BY <1>0, EofPlaced
<1>3. DOMAIN e = Fields
  BY <1>0, EofSound DEF Sound, HasOptions
<1> HIDE DEF e, r, q, a
<1>4. call'.pc = "done"
  BY <1>0, <1>1 DEF CallFields
<1>5. m'.cs = e.cs /\ m'.err = e.err /\ m'.data = e.data /\ m'.pb = e.pb /\ m'.at = e.at
  BY <1>1, <1>3 DEF Fields
<1>6. ASSUME ~Final(e), e.err = "nil" PROVE Inside(e)
  BY <1>2, <1>6 DEF Final, Placed
<1> DEFINE x == m'
<1>7. x.cs = e.cs /\ x.err = e.err /\ x.data = e.data /\ x.pb = e.pb /\ x.at = e.at
  BY <1>5
<1>8. ~Final(x) /\ x.err = "nil" => Inside(x)
  <2> HIDE DEF x
  <2> QED
    BY <1>6, <1>7 DEF Final, Inside, text
<1>9. ~Final(m)' /\ m'.err = "nil" => Inside(m)'
  BY <1>8, Zenon DEF Final, Inside, text
<1> QED
  BY <1>4, <1>9 DEF SilentInv

LEMMA SilentStep ==
    ASSUME FreshInv, SilentInv, [Next]_vars
    PROVE  SilentInv'
<1>1. CASE UNCHANGED vars
  <2>1. m' = m /\ call' = call
    BY <1>1 DEF vars
  <2> QED
    BY <2>1, Zenon DEF SilentInv, Placed, Final, Inside, text
<1>2. CASE \E first \in Alphabet["main"] \cup Alphabet["start"] \cup {"EOF"} : Call(first)
  BY <1>2, SilentCall
<1>3. CASE Return
  <2>1. call'.pc = "idle"
    BY <1>3, NoCallFields DEF Return
  <2> QED
    BY <2>1 DEF SilentInv
<1> QED
  BY <1>1, <1>2, <1>3, SilentRead, SilentFinish DEF Next

-----------------------------------------------------------------------------
(* Cisco's options.  Two machines with the same options but for those, that *)
(* have read the same and answered the same so far.                         *)
Alike(n, p) ==
    /\ DOMAIN n = Fields /\ DOMAIN p = Fields
    /\ n.bestEffort = p.bestEffort /\ n.optionalPriority = p.optionalPriority
    /\ n.newline = p.newline /\ n.rfc3339 = p.rfc3339
    /\ n.secfrac = p.secfrac /\ n.lenientDay = p.lenientDay
    /\ n.cs = p.cs /\ n.data = p.data /\ n.pb = p.pb /\ n.err = p.err /\ n.output = p.output

(* The places of the two kinds of timestamps, without Cisco's colon.        *)
StampPlaces == {"datemmm", "datemday", "datemday_sp", "day", "hour", "hour_colon", "minute",
                "minute_colon", "second", "stamp", "timesecfrac", "stamp_secfrac"}
FullPlaces  == {"year", "fulldate", "fullhour", "fullhour_colon", "fullminute",
                "fullminute_colon", "fullsecond", "partialtime", "fullsecfrac",
                "partialtime_secfrac", "rfc3339"}

(* Of one that has read no RFC 3164 timestamp.                              *)
Unstamped(p) == "timestamp" \in DOMAIN p.output /\ p.output.timestamp # "stamp"

(* Until the timestamp is behind them the machine n may have one more       *)
(* alternative than the one without Cisco's options, p: a host name that    *)
(* begins with the name of a month.                                         *)
Beside(n, p) ==
    /\ Alike(n, p) /\ p.flags = NoFlags
    /\ \/ p.cs = "prival" /\ Unstamped(p) /\ n.at = p.at
       \/ p.cs = "header" /\ Unstamped(p) /\ p.at = {"pri_sp"} /\ n.at = {"pri_sp"}
       \/ p.cs = "header" /\ p.at = {"datemmm"} /\ n.at = {"datemmm", "ciscoHostname"}
       \/ p.cs = "header" /\ n.at = p.at /\ \E s \in StampPlaces : p.at = {s}
       \/ p.cs = "body" /\ n.at = p.at

(* Or p has refused, or its timestamp is one of RFC 3339.                   *)
Aside(p) ==
    /\ DOMAIN p = Fields
    /\ \/ p.cs \in {"fail", "st0"}
       \/ p.cs = "header" /\ p.flags = NoFlags /\ p.at \subseteq FullPlaces /\ Unstamped(p)
       \/ p.cs = "body" /\ Unstamped(p)

Coupled(n, p) == n = p \/ Beside(n, p) \/ Aside(p)

(* What an action does to one it does to the other.                         *)
LEMMA ActionsAlike ==
    ASSUME NEW n, NEW p, Alike(n, p)
    PROVE  /\ Alike(mark(n), mark(p))
           /\ \A s : Alike(Goto(n, s), Goto(p, s))
           /\ \A t : Alike(Take(n, t), Take(p, t))
           /\ \A a, b : Alike([n EXCEPT !.at = a], [p EXCEPT !.at = b])
           /\ \A e : Alike(Fail(n, e), Fail(p, e))
           /\ Alike(Stop(n), Stop(p))
<1>1. Alike(mark(n), mark(p))
  BY DEF Alike, Fields, mark
<1>2. ASSUME NEW s PROVE Alike(Goto(n, s), Goto(p, s))
  BY DEF Alike, Fields, Goto
<1>3. ASSUME NEW t PROVE Alike(Take(n, t), Take(p, t))
  BY DEF Alike, Fields, Take
<1>4. ASSUME NEW a, NEW b PROVE Alike([n EXCEPT !.at = a], [p EXCEPT !.at = b])
  BY DEF Alike, Fields
<1>5. ASSUME NEW e PROVE Alike(Fail(n, e), Fail(p, e))
  BY DEF Alike, Fields, Fail
<1>6. Alike(Stop(n), Stop(p))
  BY DEF Alike, Fields, Stop
<1> QED
  BY <1>1, <1>2, <1>3, <1>4, <1>5, <1>6, Zenon

LEMMA OutputAlike ==
    ASSUME NEW n, NEW p, Alike(n, p)
    PROVE  /\ Alike(set_prival(n), set_prival(p)) /\ Alike(set_hostname(n), set_hostname(p))
           /\ \A f : Alike(Set(n, f), Set(p, f))
           /\ Alike(set_timestamp(n), set_timestamp(p))
<1>0. text(n) = text(p)
  BY DEF Alike, text
<1>1. Alike(set_prival(n), set_prival(p))
  BY DEF Alike, Fields, set_prival
<1>2. Alike(set_hostname(n), set_hostname(p))
  BY <1>0 DEF Alike, Fields, set_hostname
<1>3. ASSUME NEW f PROVE Alike(Set(n, f), Set(p, f))
  BY <1>0 DEF Alike, Fields, Set
<1>4. Alike(set_timestamp(n), set_timestamp(p))
  <2>1. CASE NamesADay(text(n))
    <3>1. /\ set_timestamp(n) = [n EXCEPT !.output.timestamp = "stamp"]
          /\ set_timestamp(p) = [p EXCEPT !.output.timestamp = "stamp"]
      BY <1>0, <2>1, Zenon DEF set_timestamp
    <3> QED
      BY <3>1 DEF Alike, Fields
  <2>2. CASE ~NamesADay(text(n))
    <3>1. set_timestamp(n) = Fail(n, "time.Parse") /\ set_timestamp(p) = Fail(p, "time.Parse")
      BY <1>0, <2>2, Zenon DEF set_timestamp
    <3> QED
      BY <3>1, ActionsAlike
  <2> QED
    BY <2>1, <2>2
<1> QED
  BY <1>1, <1>2, <1>3, <1>4, Zenon

LEMMA PrivalBeside ==
    ASSUME NEW n, NEW p, NEW t, Beside(n, p), p.cs = "prival"
    PROVE  Coupled(prival(n, t), prival(p, t))
<1>0. Alike(n, p) /\ p.flags = NoFlags /\ Unstamped(p) /\ n.at = p.at /\ n.data = p.data
      /\ DOMAIN p = Fields /\ DOMAIN n = Fields
  BY DEF Beside, Alike
<1> DEFINE a(x) == IF x.data # <<>> THEN set_prival(x) ELSE x
           b(x) == [Goto(a(x), "header") EXCEPT !.at = {"pri_sp"}]
<1>1. \A x : prival(x, t) = CASE x.data # <<>> /\ t = ">" -> b(x)
                              [] t = "9" /\ Len(x.data) < 2 -> Take(a(x), t)
                              [] OTHER -> Fail(a(x), "errPrival")
  BY Zenon DEF prival
<1>2. /\ Alike(a(n), a(p)) /\ DOMAIN a(p) = Fields /\ DOMAIN a(n) = Fields
      /\ a(p).flags = NoFlags /\ a(p).cs = "prival" /\ Unstamped(a(p)) /\ a(n).at = a(p).at
  <2>1. CASE n.data # <<>>
    <3>1. a(n) = set_prival(n) /\ a(p) = set_prival(p)
      BY <1>0, <2>1
    <3>2. Alike(a(n), a(p))
      BY <1>0, <3>1, OutputAlike
    <3>3. a(p).flags = NoFlags /\ a(p).cs = "prival" /\ a(n).at = a(p).at
      BY <1>0, <3>1 DEF set_prival, Fields
    <3>4. Unstamped(a(p))
      <4> HIDE DEF a
      <4> QED
        BY <1>0, <3>1 DEF set_prival, Fields, Unstamped
    <3> QED
      BY <3>2, <3>3, <3>4 DEF Alike
  <2>2. CASE n.data = <<>>
    <3>1. a(n) = n /\ a(p) = p
      BY <1>0, <2>2
    <3> QED
      BY <1>0, <3>1, Zenon
  <2> QED
    BY <2>1, <2>2
<1> HIDE DEF a
<1>3. Beside(b(n), b(p))
  <2>1. Alike(Goto(a(n), "header"), Goto(a(p), "header"))
    BY <1>2, ActionsAlike
  <2>2. Alike(b(n), b(p))
    BY <2>1, ActionsAlike
  <2>3. /\ b(p).flags = NoFlags /\ b(p).cs = "header" /\ b(p).output = a(p).output
        /\ b(p).at = {"pri_sp"} /\ b(n).at = {"pri_sp"}
    BY <1>2 DEF Goto, Fields
  <2> HIDE DEF b
  <2>4. Unstamped(b(p))
    BY <1>2, <2>3 DEF Unstamped
  <2> QED
    BY <2>2, <2>3, <2>4 DEF Beside
<1>4. Beside(Take(a(n), t), Take(a(p), t))
  <2> DEFINE c == Take(a(n), t)
             d == Take(a(p), t)
  <2>1. Alike(c, d)
    BY <1>2, ActionsAlike
  <2>2. /\ d.flags = NoFlags /\ d.cs = "prival" /\ d.output = a(p).output
        /\ c.at = d.at
    BY <1>2 DEF Take, Fields
  <2> HIDE DEF c, d
  <2>3. Beside(c, d)
    BY <1>2, <2>1, <2>2 DEF Beside, Unstamped
  <2> QED
    BY <2>3 DEF c, d
<1>5. Aside(Fail(a(p), "errPrival"))
  BY <1>2 DEF Aside, Fail, Fields
<1> HIDE DEF b
<1>6. \/ prival(n, t) = b(n) /\ prival(p, t) = b(p)
      \/ prival(n, t) = Take(a(n), t) /\ prival(p, t) = Take(a(p), t)
      \/ prival(p, t) = Fail(a(p), "errPrival")
  <2>1. CASE n.data # <<>> /\ t = ">"
    BY <1>0, <1>1, <2>1
  <2>2. CASE ~(n.data # <<>> /\ t = ">") /\ (t = "9" /\ Len(n.data) < 2)
    BY <1>0, <1>1, <2>2
  <2>3. CASE ~(n.data # <<>> /\ t = ">") /\ ~(t = "9" /\ Len(n.data) < 2)
    BY <1>0, <1>1, <2>3
  <2> QED
    BY <2>1, <2>2, <2>3
<1> QED
  BY <1>3, <1>4, <1>5, <1>6 DEF Coupled

(* The error actions of the body; they refuse.                              *)
LEMMA BodyErrorAside ==
    ASSUME NEW p, DOMAIN p = Fields
    PROVE  Aside(body_error(p)) /\ body_error(p).cs \in {"fail", "st0"}
<1>1. \A e : Aside(Fail(p, e)) /\ Fail(p, e).cs = "fail"
  BY DEF Aside, Fail, Fields
<1>2. Aside(Stop(p)) /\ Stop(p).cs = "st0"
  BY DEF Aside, Stop, Fields
<1>3. body_error(p) = Stop(p) \/ \E e : body_error(p) = Fail(p, e)
  BY Zenon DEF body_error
<1> QED
  BY <1>1, <1>2, <1>3

LEMMA HeaderErrorAside ==
    ASSUME NEW p, DOMAIN p = Fields
    PROVE  Aside(header_error(p)) /\ header_error(p).cs \in {"fail", "st0"}
<1>1. \A e : Aside(Fail(p, e)) /\ Fail(p, e).cs = "fail"
  BY DEF Aside, Fail, Fields
<1>2. Aside(Stop(p)) /\ Stop(p).cs = "st0"
  BY DEF Aside, Stop, Fields
<1>3. header_error(p) = Stop(p) \/ \E e : header_error(p) = Fail(p, e)
  BY Zenon DEF header_error
<1> QED
  BY <1>1, <1>2, <1>3

(* Behind the timestamp no move looks at Cisco's options.                   *)
LEMMA BodyBeside ==
    ASSUME NEW n, NEW p, NEW t, Beside(n, p), p.cs = "body"
    PROVE  Coupled(body(n, t), body(p, t))
<1> DEFINE moves(x)   == Taken(x, t, BodyMoves(x))
           host(x)    == IF Leaves(moves(x), {"hostname"}, {"hostname_sp"}) THEN set_hostname(x) ELSE x
           tag(x)     == IF Leaves(moves(x), {"tag"}, {"content", "colon"}) THEN Set(host(x), "tag") ELSE host(x)
           marked(x)  == IF \E move \in moves(x) : Begins(move) THEN mark(tag(x)) ELSE tag(x)
           content(x) == IF "content_end" \in To(moves(x)) THEN Set(marked(x), "content") ELSE marked(x)
           message(x) == IF "end" \in To(moves(x)) THEN Set(content(x), "message") ELSE content(x)
<1>0. Alike(n, p) /\ p.flags = NoFlags /\ n.at = p.at
  BY DEF Beside
<1>1. \A x : body(x, t) = IF moves(x) = {} THEN body_error(x)
                          ELSE [Take(message(x), t) EXCEPT !.at = To(moves(x))]
  BY Zenon DEF body
<1>2. moves(n) = moves(p)
  <2>1. /\ text(n) = text(p) /\ Visible(n) = Visible(p) /\ FirstVisible(n) = FirstVisible(p)
        /\ InContent(n) = InContent(p)
    BY <1>0 DEF Alike, text, Visible, FirstVisible, InContent
  <2>2. BodyMoves(n) = BodyMoves(p)
    BY <2>1, Zenon DEF BodyMoves
  <2> QED
    BY <1>0, <2>2, Zenon DEF Taken
<1> HIDE DEF moves
<1> DEFINE Same(x, y) == Alike(x, y) /\ y.flags = NoFlags /\ y.cs = "body"
<1>3. ASSUME NEW x, NEW y, Same(x, y)
      PROVE  /\ Same(mark(x), mark(y)) /\ Same(set_hostname(x), set_hostname(y))
             /\ \A f : Same(Set(x, f), Set(y, f))
  <2>1. /\ Alike(mark(x), mark(y)) /\ Alike(set_hostname(x), set_hostname(y))
        /\ \A f : Alike(Set(x, f), Set(y, f))
    BY <1>3, ActionsAlike, OutputAlike
  <2>2. \A f : /\ mark(y).flags = NoFlags /\ mark(y).cs = "body"
               /\ set_hostname(y).flags = NoFlags /\ set_hostname(y).cs = "body"
               /\ Set(y, f).flags = NoFlags /\ Set(y, f).cs = "body"
    BY <1>3 DEF Alike, Fields, mark, set_hostname, Set
  <2> QED
    BY <2>1, <2>2
<1>4. Same(n, p)
  BY <1>0
<1> HIDE DEF Same
<1>5. Same(host(n), host(p))
  BY <1>2, <1>3, <1>4, Zenon
<1> HIDE DEF host
<1>6. Same(tag(n), tag(p))
  BY <1>2, <1>3, <1>5, Zenon
<1> HIDE DEF tag
<1>7. Same(marked(n), marked(p))
  BY <1>2, <1>3, <1>6, Zenon
<1> HIDE DEF marked
<1>8. Same(content(n), content(p))
  BY <1>2, <1>3, <1>7, Zenon
<1> HIDE DEF content
<1>9. Same(message(n), message(p))
  BY <1>2, <1>3, <1>8, Zenon
<1> HIDE DEF message
<1>10. CASE moves(p) = {}
  <2>1. body(p, t) = body_error(p)
    BY <1>1, <1>10, Zenon
  <2> QED
    BY <1>0, <2>1, BodyErrorAside DEF Alike, Coupled
<1>11. CASE moves(p) # {}
  <2> DEFINE a == [Take(message(n), t) EXCEPT !.at = To(moves(p))]
             b == [Take(message(p), t) EXCEPT !.at = To(moves(p))]
  <2>1. body(n, t) = a /\ body(p, t) = b
    BY <1>1, <1>2, <1>11, Zenon
  <2>2. Alike(Take(message(n), t), Take(message(p), t))
    BY <1>9, ActionsAlike DEF Same
  <2>3. Alike(a, b)
    BY <2>2, ActionsAlike
  <2>4. b.flags = NoFlags /\ b.cs = "body" /\ a.at = b.at
    BY <1>9 DEF Same, Alike, Take, Fields
  <2> HIDE DEF a, b
  <2> QED
    BY <2>1, <2>3, <2>4 DEF Coupled, Beside
<1> QED
  BY <1>10, <1>11

(* And none sets the timestamp.                                             *)
LEMMA BodyAside ==
    ASSUME NEW p, NEW t, DOMAIN p = Fields, p.cs = "body", Unstamped(p)
    PROVE  Aside(body(p, t))
<1> DEFINE moves   == Taken(p, t, BodyMoves(p))
           host    == IF Leaves(moves, {"hostname"}, {"hostname_sp"}) THEN set_hostname(p) ELSE p
           tag     == IF Leaves(moves, {"tag"}, {"content", "colon"}) THEN Set(host, "tag") ELSE host
           marked  == IF \E move \in moves : Begins(move) THEN mark(tag) ELSE tag
           content == IF "content_end" \in To(moves) THEN Set(marked, "content") ELSE marked
           message == IF "end" \in To(moves) THEN Set(content, "message") ELSE content
           Still(o) == DOMAIN o = Fields /\ o.cs = "body" /\ Unstamped(o)
<1>1. body(p, t) = IF moves = {} THEN body_error(p) ELSE [Take(message, t) EXCEPT !.at = To(moves)]
  BY Zenon DEF body
<1>2. ASSUME NEW o, Still(o)
      PROVE  /\ Still(set_hostname(o)) /\ Still(mark(o))
             /\ Still(Set(o, "tag")) /\ Still(Set(o, "content")) /\ Still(Set(o, "message"))
  BY <1>2 DEF set_hostname, mark, Set, Fields, Unstamped
<1>3. Still(p)
  OBVIOUS
<1> HIDE DEF moves, Still
<1>4. Still(host)
  BY <1>2, <1>3, Zenon
<1> HIDE DEF host
<1>5. Still(tag)
  BY <1>2, <1>4, Zenon
<1> HIDE DEF tag
<1>6. Still(marked)
  BY <1>2, <1>5, Zenon
<1> HIDE DEF marked
<1>7. Still(content)
  BY <1>2, <1>6, Zenon
<1> HIDE DEF content
<1>8. Still(message)
  BY <1>2, <1>7, Zenon
<1> HIDE DEF message
<1>9. Aside([Take(message, t) EXCEPT !.at = To(moves)])
  BY <1>8 DEF Still, Aside, Unstamped, Take, Fields
<1> QED
  BY <1>1, <1>9, BodyErrorAside, Zenon

(* The moves of Cisco's extras.                                             *)
LEMMA ExtraOf ==
    ASSUME NEW n, NEW move \in ExtraMoves(n), NEW c \in move[2]
    PROVE  \/ move[1] \in Extras /\ c = " " /\ move = <<move[1], {" "}, move[1]>>
           \/ /\ move[1] \in Extras /\ Cisco(n) /\ c # " "
              /\ c \in MonthNames => move[3] = "ciscoHostname"
           \/ move[1] \in {"msgcountval", "sequenceval", "ciscoHostname"} /\ c # " "
<1> DEFINE Of(from) ==
              { <<from, If(from # "start", {" "}), from>>,
                <<from, If(Counter(n, from) = "msgcountval", {":"}), "counted">>,
                <<from, If(Counter(n, from) # "none", Digits), Counter(n, from)>>,
                <<from, If(Counter(n, from) # "none", Dates), "not_a_number">>,
                <<from, If(n.flags.ciscoHostname /\ from # "named", Open(n, from, HostChars)),
                  "ciscoHostname">>,
                <<from, If(Cisco(n), {"*"}), "ciscostar">> }
           First == UNION {Of(from) : from \in Extras}
           Rest  == { <<"msgcountval", Digits, "msgcountval">>, <<"msgcountval", {":"}, "counted">>,
                      <<"sequenceval", Digits, "sequenceval">>, <<"sequenceval", {":"}, "sequenced">>,
                      <<"ciscoHostname", HostChars, "ciscoHostname">>,
                      <<"ciscoHostname", {":"}, "named">> }
<1>1. move \in First \/ move \in Rest
  <2>1. ExtraMoves(n) = First \cup Rest
    BY Zenon DEF ExtraMoves
  <2> HIDE DEF First, Rest
  <2> QED
    BY <2>1
<1>2. ASSUME move \in Rest
      PROVE  move[1] \in {"msgcountval", "sequenceval", "ciscoHostname"} /\ c # " "
  <2>1. " " \notin HostChars /\ " " \notin Digits
    BY DEF HostChars, Digits, TwoDigits, MonthNames, Dates
  <2>2. /\ move[1] \in {"msgcountval", "sequenceval", "ciscoHostname"}
        /\ move[2] \in {Digits, {":"}, HostChars}
    BY <1>2
  <2> QED
    BY <2>1, <2>2
<1>3. ASSUME NEW from \in Extras, move \in Of(from)
      PROVE  \/ move[1] \in Extras /\ c = " " /\ move = <<move[1], {" "}, move[1]>>
             \/ /\ move[1] \in Extras /\ Cisco(n) /\ c # " "
                /\ c \in MonthNames => move[3] = "ciscoHostname"
  <2> DEFINE s0 == If(from # "start", {" "})
             q  == Counter(n, from)
             s1 == If(q = "msgcountval", {":"})
             s2 == If(q # "none", Digits)
             s3 == If(q # "none", Dates)
             s4 == If(n.flags.ciscoHostname /\ from # "named", Open(n, from, HostChars))
             s5 == If(Cisco(n), {"*"})
  <2>1. \/ move = <<from, s0, from>> \/ move = <<from, s1, "counted">> \/ move = <<from, s2, q>>
        \/ move = <<from, s3, "not_a_number">> \/ move = <<from, s4, "ciscoHostname">>
        \/ move = <<from, s5, "ciscostar">>
    BY <1>3
  <2>2. /\ s0 = {} \/ s0 = {" "}
        /\ s1 \subseteq {":"} /\ s2 \subseteq Digits /\ s3 \subseteq Dates
        /\ s4 \subseteq HostChars /\ s5 \subseteq {"*"}
    BY DEF If, Open
  <2>3. q # "none" => Cisco(n)
    BY DEF Counter, Cisco
  <2>4. (s1 # {} \/ s2 # {} \/ s3 # {} \/ s4 # {} \/ s5 # {}) => Cisco(n)
    <3>1. s1 # {} => q = "msgcountval"
      BY DEF If
    <3>2. (s2 # {} \/ s3 # {}) => q # "none"
      BY DEF If
    <3>3. s4 # {} => n.flags.ciscoHostname
      BY DEF If
    <3>4. s5 # {} => Cisco(n)
      BY DEF If
    <3> HIDE DEF q, s1, s2, s3, s4, s5
    <3> QED
      BY <2>3, <3>1, <3>2, <3>3, <3>4 DEF Cisco
  <2>5. /\ " " \notin HostChars /\ " " \notin Digits /\ " " \notin Dates
        /\ \A x \in MonthNames : x \notin Digits /\ x \notin Dates /\ x # ":" /\ x # "*"
    BY DEF HostChars, Digits, TwoDigits, Dates, MonthNames
  <2> HIDE DEF s0, s1, s2, s3, s4, s5, q
  <2>6. CASE move = <<from, s0, from>>
    <3>1. move[1] = from /\ c \in s0
      BY <2>6, MoveOf
    <3>2. s0 = {" "} /\ c = " "
      BY <2>2, <3>1
    <3> QED
      BY <1>3, <2>6, <3>1, <3>2
  <2>7. CASE move = <<from, s1, "counted">>
    <3>1. move[1] = from /\ c \in s1
      BY <2>7, MoveOf
    <3> QED
      BY <2>2, <2>4, <2>5, <3>1
  <2>8. CASE move = <<from, s2, q>>
    <3>1. move[1] = from /\ c \in s2
      BY <2>8, MoveOf
    <3> QED
      BY <2>2, <2>4, <2>5, <3>1
  <2>9. CASE move = <<from, s3, "not_a_number">>
    <3>1. move[1] = from /\ c \in s3
      BY <2>9, MoveOf
    <3> QED
      BY <2>2, <2>4, <2>5, <3>1
  <2>10. CASE move = <<from, s4, "ciscoHostname">>
    <3>1. move[1] = from /\ c \in s4 /\ move[3] = "ciscoHostname"
      BY <2>10, MoveOf
    <3> QED
      BY <2>2, <2>4, <2>5, <3>1
  <2>11. CASE move = <<from, s5, "ciscostar">>
    <3>1. move[1] = from /\ c \in s5
      BY <2>11, MoveOf
    <3> QED
      BY <2>2, <2>4, <2>5, <3>1
  <2> QED
    BY <2>1, <2>6, <2>7, <2>8, <2>9, <2>10, <2>11
<1>4. move \in First => \E from \in Extras : move \in Of(from)
  <2> HIDE DEF Of
  <2> QED
    OBVIOUS
<1> HIDE DEF First, Rest, Of
<1> QED
  BY <1>1, <1>2, <1>3, <1>4

(* Those of an RFC 3339 timestamp.                                          *)
LEMMA FullOf ==
    ASSUME NEW n, NEW move \in FullMoves(n), NEW c \in move[2]
    PROVE  \/ /\ move[1] \in Extras \cup {"ciscostar"} /\ c \in Digits \cup Dates
              /\ move[3] \in {"year", "fulldate"}
           \/ move[1] \in FullPlaces /\ (move[3] \in FullPlaces \cup {"sp"} \/ Cisco(n))
           \/ move[1] = "ciscocolon"
<1> DEFINE Of(from) == {<<from, If(n.rfc3339, Open(n, from, Digits)), "year">>,
                        <<from, If(n.rfc3339, Open(n, from, Dates)), "fulldate">>}
           First == UNION {Of(from) : from \in Extras \cup {"ciscostar"}}
           Date  == {<<"year", Digits, "year">>, <<"fulldate", {"T"}, "fullhour">>}
           Time  == Clock(<<"fullhour", "fullhour_colon", "fullminute", "fullminute_colon",
                            "fullsecond", "partialtime">>)
           Frac  == {<<"partialtime", {"."}, "fullsecfrac">>,
                     <<"fullsecfrac", Digits, "partialtime_secfrac">>,
                     <<"partialtime", {"Z"}, "rfc3339">>, <<"partialtime_secfrac", {"Z"}, "rfc3339">>}
<1>1. \/ move \in First \/ move \in Date \/ move \in Time \/ move \in Frac
      \/ move \in After(n, "rfc3339")
  <2>1. FullMoves(n) = First \cup Date \cup Time \cup Frac \cup After(n, "rfc3339")
    BY Zenon DEF FullMoves
  <2> HIDE DEF First, Date, Time, Frac
  <2> QED
    BY <2>1
<1>2. ASSUME move \in First
      PROVE  /\ move[1] \in Extras \cup {"ciscostar"} /\ c \in Digits \cup Dates
             /\ move[3] \in {"year", "fulldate"}
  <2>1. PICK from \in Extras \cup {"ciscostar"} : move \in Of(from)
    <3> HIDE DEF Of
    <3> QED
      BY <1>2
  <2>2. \A s : If(n.rfc3339, Open(n, from, s)) \subseteq s
    BY DEF If, Open
  <2>3. \/ move = <<from, If(n.rfc3339, Open(n, from, Digits)), "year">>
        \/ move = <<from, If(n.rfc3339, Open(n, from, Dates)), "fulldate">>
    BY <2>1
  <2>4. CASE move = <<from, If(n.rfc3339, Open(n, from, Digits)), "year">>
    BY <2>1, <2>2, <2>4, MoveOf
  <2>5. CASE move = <<from, If(n.rfc3339, Open(n, from, Dates)), "fulldate">>
    BY <2>1, <2>2, <2>5, MoveOf
  <2> QED
    BY <2>3, <2>4, <2>5
<1>3. ASSUME move \in Date PROVE move[1] \in FullPlaces /\ move[3] \in FullPlaces
  BY <1>3 DEF FullPlaces
<1>4. ASSUME move \in Time PROVE move[1] \in FullPlaces /\ move[3] \in FullPlaces
  <2>1. /\ move[1] \in {"fullhour", "fullhour_colon", "fullminute", "fullminute_colon", "fullsecond"}
        /\ move[3] \in {"fullhour_colon", "fullminute", "fullminute_colon", "fullsecond", "partialtime"}
    BY <1>4, ClockMoves
  <2> QED
    BY <2>1 DEF FullPlaces
<1>5. ASSUME move \in Frac PROVE move[1] \in FullPlaces /\ move[3] \in FullPlaces
  BY <1>5 DEF FullPlaces
<1>6. ASSUME move \in After(n, "rfc3339")
      PROVE  \/ move[1] \in FullPlaces /\ (move[3] = "sp" \/ Cisco(n))
             \/ move[1] = "ciscocolon"
  <2>1. \/ move = <<"rfc3339", {" "}, "sp">>
        \/ move = <<"rfc3339", If(Cisco(n), {":"}), "ciscocolon">>
        \/ move = <<"ciscocolon", {" "}, "sp">>
    BY <1>6 DEF After
  <2>2. If(Cisco(n), {":"}) # {} => Cisco(n)
    BY DEF If
  <2>3. "rfc3339" \in FullPlaces
    BY DEF FullPlaces
  <2>4. CASE move = <<"rfc3339", {" "}, "sp">>
    BY <2>3, <2>4
  <2>5. CASE move = <<"rfc3339", If(Cisco(n), {":"}), "ciscocolon">>
    <3>1. move[1] = "rfc3339" /\ c \in If(Cisco(n), {":"})
      BY <2>5, MoveOf
    <3> QED
      BY <2>2, <2>3, <3>1
  <2>6. CASE move = <<"ciscocolon", {" "}, "sp">>
    BY <2>6
  <2> QED
    BY <2>1, <2>4, <2>5, <2>6
<1> HIDE DEF First, Date, Time, Frac
<1> QED
  BY <1>1, <1>2, <1>3, <1>4, <1>5, <1>6

(* Those of an RFC 3164 timestamp: where they lead.                         *)
StampNext(s, c, q) ==
    \/ s = "datemmm" /\ c = " " /\ q = "datemday"
    \/ s = "datemday" /\ c = " " /\ q = "datemday_sp"
    \/ s = "datemday" /\ c # " " /\ q = "day"
    \/ s = "datemday_sp" /\ q = "day"
    \/ s = "day" /\ q = "hour"
    \/ s = "hour" /\ q = "hour_colon"
    \/ s = "hour_colon" /\ q = "minute"
    \/ s = "minute" /\ q = "minute_colon"
    \/ s = "minute_colon" /\ q = "second"
    \/ s = "second" /\ q = "stamp"
    \/ s = "stamp" /\ c = "." /\ q = "timesecfrac"
    \/ s = "stamp" /\ c # "." /\ q = "sp"
    \/ s = "timesecfrac" /\ q = "stamp_secfrac"
    \/ s = "stamp_secfrac" /\ q = "sp"

LEMMA NextStamp ==
    ASSUME NEW s, NEW c, NEW q, StampNext(s, c, q)
    PROVE  /\ s \in StampPlaces /\ q \in StampPlaces \cup {"sp"}
           /\ q = "sp" => s \in {"stamp", "stamp_secfrac"}
           /\ \A r : StampNext(s, c, r) => r = q
<1>1. s \in StampPlaces /\ q \in StampPlaces \cup {"sp"}
  BY DEF StampNext, StampPlaces
<1>2. q = "sp" => s \in {"stamp", "stamp_secfrac"}
  BY DEF StampNext
<1>3. ASSUME NEW r, StampNext(s, c, r) PROVE r = q
  BY <1>3 DEF StampNext
<1> QED
  BY <1>1, <1>2, <1>3

(* The places are gone through in one order, whatever the options, until    *)
(* Cisco's colon; p has the options of n but for Cisco's.                   *)
LEMMA StampOf ==
    ASSUME NEW n, NEW move \in StampMoves(n), NEW c \in move[2],
           NEW p, p.secfrac = n.secfrac, p.lenientDay = n.lenientDay
    PROVE  \/ /\ move[1] \in Extras \cup {"ciscostar"} /\ c \in MonthNames
              /\ move = <<move[1], MonthNames, "datemmm">>
           \/ /\ move[1] \in StampPlaces /\ StampNext(move[1], c, move[3])
              /\ move[1] \in {"stamp", "stamp_secfrac"} => c # ":"
              /\ move \in StampMoves(p)
           \/ move[1] \in {"stamp", "stamp_secfrac"} /\ c = ":" /\ Cisco(n)
           \/ move[1] = "ciscocolon"
<1> DEFINE First == {<<from, Months(n, from), "datemmm">> : from \in Extras \cup {"ciscostar"}}
           Day   == {<<"datemmm", {" "}, "datemday">>,
                     <<"datemday", {" "}, "datemday_sp">>, <<"datemday_sp", {"9"}, "day">>,
                     <<"datemday", {"dd", "30"} \cup If(n.lenientDay, {"0d"}), "day">>,
                     <<"day", {" "}, "hour">>}
           Time  == Clock(<<"hour", "hour_colon", "minute", "minute_colon", "second", "stamp">>)
           Frac  == {<<"stamp", If(n.secfrac, {"."}), "timesecfrac">>,
                     <<"timesecfrac", Digits, "stamp_secfrac">>}
<1>1. \/ move \in First \/ move \in Day \/ move \in Time \/ move \in Frac
      \/ move \in After(n, "stamp") \/ move \in After(n, "stamp_secfrac")
  <2>1. StampMoves(n) = First \cup Day \cup Time \cup Frac \cup After(n, "stamp")
                        \cup After(n, "stamp_secfrac")
    BY Zenon DEF StampMoves
  <2> HIDE DEF First, Day, Time, Frac
  <2> QED
    BY <2>1
<1>2. Day \cup Time \cup Frac \cup After(p, "stamp") \cup After(p, "stamp_secfrac")
          \subseteq StampMoves(p)
  <2> DEFINE FirstP == {<<from, Months(p, from), "datemmm">> : from \in Extras \cup {"ciscostar"}}
             DayP   == {<<"datemmm", {" "}, "datemday">>,
                        <<"datemday", {" "}, "datemday_sp">>, <<"datemday_sp", {"9"}, "day">>,
                        <<"datemday", {"dd", "30"} \cup If(p.lenientDay, {"0d"}), "day">>,
                        <<"day", {" "}, "hour">>}
             FracP  == {<<"stamp", If(p.secfrac, {"."}), "timesecfrac">>,
                        <<"timesecfrac", Digits, "stamp_secfrac">>}
  <2>1. StampMoves(p) = FirstP \cup DayP \cup Time \cup FracP \cup After(p, "stamp")
                        \cup After(p, "stamp_secfrac")
    BY Zenon DEF StampMoves
  <2>2. DayP = Day /\ FracP = Frac
    BY Zenon
  <2> HIDE DEF FirstP, DayP, FracP, Day, Time, Frac
  <2> QED
    BY <2>1, <2>2
<1>3. ASSUME move \in First
      PROVE  /\ move[1] \in Extras \cup {"ciscostar"} /\ c \in MonthNames
             /\ move = <<move[1], MonthNames, "datemmm">>
  <2>1. PICK from \in Extras \cup {"ciscostar"} : move = <<from, MonthNames, "datemmm">>
    BY <1>3 DEF Months
  <2> QED
    BY <2>1, MoveOf
<1>4. ASSUME move \in Day
      PROVE  /\ move[1] \in StampPlaces \ {"stamp", "stamp_secfrac"}
             /\ StampNext(move[1], c, move[3])
  <2> DEFINE days == {"dd", "30"} \cup If(n.lenientDay, {"0d"})
  <2>1. " " \notin days
    BY DEF If
  <2>2. \/ move = <<"datemmm", {" "}, "datemday">> \/ move = <<"datemday", {" "}, "datemday_sp">>
        \/ move = <<"datemday_sp", {"9"}, "day">> \/ move = <<"datemday", days, "day">>
        \/ move = <<"day", {" "}, "hour">>
    BY <1>4
  <2> HIDE DEF days
  <2>3. /\ \/ move[1] = "datemmm" /\ c = " " /\ move[3] = "datemday"
           \/ move[1] = "datemday" /\ c = " " /\ move[3] = "datemday_sp"
           \/ move[1] = "datemday_sp" /\ c = "9" /\ move[3] = "day"
           \/ move[1] = "datemday" /\ c \in days /\ move[3] = "day"
           \/ move[1] = "day" /\ c = " " /\ move[3] = "hour"
    <3>1. CASE move = <<"datemmm", {" "}, "datemday">>
      BY <3>1, MoveOf
    <3>2. CASE move = <<"datemday", {" "}, "datemday_sp">>
      BY <3>2, MoveOf
    <3>3. CASE move = <<"datemday_sp", {"9"}, "day">>
      BY <3>3, MoveOf
    <3>4. CASE move = <<"datemday", days, "day">>
      BY <3>4, MoveOf
    <3>5. CASE move = <<"day", {" "}, "hour">>
      BY <3>5, MoveOf
    <3> QED
      BY <2>2, <3>1, <3>2, <3>3, <3>4, <3>5
  <2>4. move[1] \in StampPlaces \ {"stamp", "stamp_secfrac"}
    BY <2>3 DEF StampPlaces
  <2>5. StampNext(move[1], c, move[3])
    BY <2>1, <2>3 DEF StampNext
  <2> QED
    BY <2>4, <2>5
<1>5. ASSUME move \in Time
      PROVE  /\ move[1] \in StampPlaces \ {"stamp", "stamp_secfrac"}
             /\ StampNext(move[1], c, move[3])
  <2>1. \/ move[1] = "hour" /\ move[3] = "hour_colon"
        \/ move[1] = "hour_colon" /\ move[3] = "minute"
        \/ move[1] = "minute" /\ move[3] = "minute_colon"
        \/ move[1] = "minute_colon" /\ move[3] = "second"
        \/ move[1] = "second" /\ move[3] = "stamp"
    BY <1>5, ClockMoves
  <2>2. move[1] \in StampPlaces \ {"stamp", "stamp_secfrac"}
    BY <2>1 DEF StampPlaces
  <2>3. StampNext(move[1], c, move[3])
    BY <2>1 DEF StampNext
  <2> QED
    BY <2>2, <2>3
<1>6. ASSUME move \in Frac
      PROVE  /\ move[1] \in StampPlaces /\ StampNext(move[1], c, move[3])
             /\ move[1] \in {"stamp", "stamp_secfrac"} => c # ":"
  <2>1. If(n.secfrac, {"."}) \subseteq {"."}
    BY DEF If
  <2>2. \/ move[1] = "stamp" /\ c = "." /\ move[3] = "timesecfrac"
        \/ move[1] = "timesecfrac" /\ move[3] = "stamp_secfrac"
    BY <1>6, <2>1
  <2> QED
    BY <2>2, NextStamp DEF StampNext, StampPlaces
<1>7. ASSUME NEW from \in {"stamp", "stamp_secfrac"}, move \in After(n, from)
      PROVE  \/ /\ move[1] \in StampPlaces /\ StampNext(move[1], c, move[3])
                /\ c # ":" /\ move \in After(p, from)
             \/ move[1] = from /\ c = ":" /\ Cisco(n)
             \/ move[1] = "ciscocolon"
  <2> DEFINE colon == If(Cisco(n), {":"})
  <2>1. \/ move = <<from, {" "}, "sp">> \/ move = <<from, colon, "ciscocolon">>
        \/ move = <<"ciscocolon", {" "}, "sp">>
    BY <1>7 DEF After
  <2>2. colon \subseteq {":"} /\ (colon # {} => Cisco(n))
    BY DEF If
  <2> HIDE DEF colon
  <2>3. CASE move = <<from, {" "}, "sp">>
    <3>1. move[1] = from /\ c = " " /\ move[3] = "sp"
      BY <2>3, MoveOf
    <3>2. move \in After(p, from)
      BY <2>3 DEF After
    <3>3. StampNext(from, " ", "sp")
      BY DEF StampNext
    <3>4. from \in StampPlaces
      BY DEF StampPlaces
    <3> QED
      BY <3>1, <3>2, <3>3, <3>4
  <2>4. CASE move = <<from, colon, "ciscocolon">>
    <3>1. move[1] = from /\ c \in colon
      BY <2>4, MoveOf
    <3> QED
      BY <2>2, <3>1
  <2>5. CASE move = <<"ciscocolon", {" "}, "sp">>
    BY <2>5, MoveOf
  <2> QED
    BY <2>1, <2>3, <2>4, <2>5
<1> HIDE DEF First, Day, Time, Frac
<1> QED
  BY <1>1, <1>2, <1>3, <1>4, <1>5, <1>6, <1>7

(* What may lead from where.                                                *)
LEMMA StampFrom ==
    ASSUME NEW n, NEW move \in HeaderMoves(n), NEW c \in move[2], move[1] \in StampPlaces
    PROVE  move \in StampMoves(n)
<1>1. move[1] \notin Extras \cup {"msgcountval", "sequenceval", "ciscoHostname", "ciscostar",
                                  "ciscocolon"}
  BY DEF StampPlaces, Extras
<1>2. move[1] \notin FullPlaces
  BY DEF StampPlaces, FullPlaces
<1>3. move \notin ExtraMoves(n)
  BY <1>1, ExtraOf
<1>4. move \notin FullMoves(n)
  BY <1>1, <1>2, FullOf
<1> QED
  BY <1>3, <1>4 DEF HeaderMoves

LEMMA FullFrom ==
    ASSUME NEW n, ~Cisco(n), NEW move \in HeaderMoves(n), NEW c \in move[2],
           move[1] \in FullPlaces
    PROVE  move[3] \in FullPlaces \cup {"sp"}
<1>1. move[1] \notin Extras \cup {"msgcountval", "sequenceval", "ciscoHostname", "ciscostar",
                                  "ciscocolon"} \cup StampPlaces
  BY DEF StampPlaces, FullPlaces, Extras
<1>2. {"stamp", "stamp_secfrac"} \subseteq StampPlaces
  BY DEF StampPlaces
<1>3. move \notin ExtraMoves(n)
  BY <1>1, ExtraOf
<1>4. move \notin StampMoves(n)
  BY <1>1, <1>2, StampOf
<1> QED
  BY <1>1, <1>3, <1>4, FullOf DEF HeaderMoves

LEMMA PriFrom ==
    ASSUME NEW n, NEW move \in HeaderMoves(n), NEW c \in move[2], move[1] = "pri_sp"
    PROVE  /\ c = " " => move = <<"pri_sp", {" "}, "pri_sp">>
           /\ c \in MonthNames => \/ move = <<"pri_sp", MonthNames, "datemmm">>
                                  \/ move[3] = "ciscoHostname"
           /\ ~Cisco(n) /\ c # " " /\ c \in MonthNames => move = <<"pri_sp", MonthNames, "datemmm">>
           /\ ~Cisco(n) /\ c # " " /\ c \notin MonthNames => move[3] \in {"year", "fulldate"}
<1>0. /\ " " \notin Digits /\ " " \notin Dates /\ " " \notin MonthNames
      /\ \A x \in MonthNames : x \notin Digits /\ x \notin Dates
  BY DEF Digits, TwoDigits, Dates, MonthNames
<1>1. CASE move \in ExtraMoves(n)
  <2>1. \/ c = " " /\ move = <<"pri_sp", {" "}, "pri_sp">>
        \/ c # " " /\ Cisco(n) /\ (c \in MonthNames => move[3] = "ciscoHostname")
    BY <1>1, ExtraOf
  <2> QED
    BY <1>0, <2>1
<1>2. CASE move \in StampMoves(n)
  <2>1. "pri_sp" \notin StampPlaces /\ "pri_sp" \notin {"stamp", "stamp_secfrac"}
    BY DEF StampPlaces
  <2>2. c \in MonthNames /\ move = <<"pri_sp", MonthNames, "datemmm">>
    BY <1>2, <2>1, StampOf
  <2> QED
    BY <1>0, <2>2
<1>3. CASE move \in FullMoves(n)
  <2>1. "pri_sp" \notin FullPlaces
    BY DEF FullPlaces
  <2>2. c \in Digits \cup Dates /\ move[3] \in {"year", "fulldate"}
    BY <1>3, <2>1, FullOf
  <2> QED
    BY <1>0, <2>2
<1> QED
  BY <1>1, <1>2, <1>3 DEF HeaderMoves

LEMMA PriHas ==
    ASSUME NEW n
    PROVE  /\ <<"pri_sp", {" "}, "pri_sp">> \in HeaderMoves(n)
           /\ <<"pri_sp", MonthNames, "datemmm">> \in HeaderMoves(n)
<1>1. <<"pri_sp", {" "}, "pri_sp">> \in ExtraMoves(n)
  <2> DEFINE Of(from) ==
              { <<from, If(from # "start", {" "}), from>>,
                <<from, If(Counter(n, from) = "msgcountval", {":"}), "counted">>,
                <<from, If(Counter(n, from) # "none", Digits), Counter(n, from)>>,
                <<from, If(Counter(n, from) # "none", Dates), "not_a_number">>,
                <<from, If(n.flags.ciscoHostname /\ from # "named", Open(n, from, HostChars)),
                  "ciscoHostname">>,
                <<from, If(Cisco(n), {"*"}), "ciscostar">> }
             First == UNION {Of(from) : from \in Extras}
             Rest  == { <<"msgcountval", Digits, "msgcountval">>, <<"msgcountval", {":"}, "counted">>,
                        <<"sequenceval", Digits, "sequenceval">>,
                        <<"sequenceval", {":"}, "sequenced">>,
                        <<"ciscoHostname", HostChars, "ciscoHostname">>,
                        <<"ciscoHostname", {":"}, "named">> }
  <2>1. ExtraMoves(n) = First \cup Rest
    BY Zenon DEF ExtraMoves
  <2>2. If("pri_sp" # "start", {" "}) = {" "}
    BY DEF If
  <2>3. <<"pri_sp", If("pri_sp" # "start", {" "}), "pri_sp">> \in Of("pri_sp")
    BY Zenon
  <2>4. "pri_sp" \in Extras
    BY DEF Extras
  <2> HIDE DEF Of, Rest
  <2>5. <<"pri_sp", {" "}, "pri_sp">> \in First
    BY <2>2, <2>3, <2>4
  <2> HIDE DEF First
  <2> QED
    BY <2>1, <2>5
<1>2. <<"pri_sp", MonthNames, "datemmm">> \in StampMoves(n)
  <2> DEFINE First == {<<from, Months(n, from), "datemmm">> : from \in Extras \cup {"ciscostar"}}
             Rest  == {<<"datemmm", {" "}, "datemday">>,
                       <<"datemday", {" "}, "datemday_sp">>, <<"datemday_sp", {"9"}, "day">>,
                       <<"datemday", {"dd", "30"} \cup If(n.lenientDay, {"0d"}), "day">>,
                       <<"day", {" "}, "hour">>}
             Time  == Clock(<<"hour", "hour_colon", "minute", "minute_colon", "second", "stamp">>)
             Frac  == {<<"stamp", If(n.secfrac, {"."}), "timesecfrac">>,
                       <<"timesecfrac", Digits, "stamp_secfrac">>}
  <2>1. StampMoves(n) = First \cup Rest \cup Time \cup Frac \cup After(n, "stamp")
                        \cup After(n, "stamp_secfrac")
    BY Zenon DEF StampMoves
  <2>2. <<"pri_sp", MonthNames, "datemmm">> \in First
    BY DEF Months, Extras
  <2> HIDE DEF First, Rest, Time, Frac
  <2> QED
    BY <2>1, <2>2
<1> QED
  BY <1>1, <1>2 DEF HeaderMoves

(* A token that ends none of Cisco's extras and no RFC 3339 timestamp.      *)
Moves(n, t) == Taken(n, t, HeaderMoves(n))
Onward(n, t) ==
    [Take(IF \E move \in Moves(n, t) : Begins(move) THEN mark(n) ELSE n, t) EXCEPT
       !.at = To(Moves(n, t))]

LEMMA HeaderPlainly ==
    ASSUME NEW n, NEW t, n.cs = "header",
           Moves(n, t) # {},
           \A move \in Moves(n, t) : /\ move[1] # "rfc3339"
                                     /\ move[3] \notin {"counted", "sequenced", "named"}
    PROVE  /\ (\A move \in Moves(n, t) : move[3] \notin {"sp", "ciscocolon"})
                => header(n, t) = Onward(n, t)
           /\ (\A move \in Moves(n, t) : move[1] \in {"stamp", "stamp_secfrac"} /\ move[3] = "sp")
                => header(n, t) = IF set_timestamp(n).cs = "fail" THEN set_timestamp(n)
                                  ELSE [Goto(set_timestamp(n), "body") EXCEPT !.at = {"sp"}]
<1> DEFINE moves == Moves(n, t)
           marked(o) == IF \E move \in moves : Begins(move) THEN mark(o) ELSE o
           number == CASE Leaves(moves, {"pri_sp", "start"}, {"counted"}) -> set_number(mark(n), "msgcount")
                       [] Leaves(moves, {"msgcountval"}, {"counted"}) -> set_number(n, "msgcount")
                       [] Leaves(moves, {"sequenceval"}, {"sequenced"}) -> set_number(n, "sequence")
                       [] OTHER -> n
           host   == IF Leaves(moves, {"ciscoHostname"}, {"named"}) THEN set_hostname(number)
                     ELSE number
           behind == {"sp", "ciscocolon"}
           stamp  == IF Leaves(moves, {"stamp", "stamp_secfrac"}, behind) THEN set_timestamp(host)
                     ELSE IF Leaves(moves, {"rfc3339"}, behind) THEN set_rfc3339(host)
                     ELSE host
<1>1. header(n, t) = IF moves = {} THEN header_error(n)
                     ELSE IF stamp.cs = "fail" THEN stamp
                     ELSE IF "sp" \in To(moves) THEN [Goto(stamp, "body") EXCEPT !.at = {"sp"}]
                     ELSE [Take(marked(stamp), t) EXCEPT !.at = To(moves)]
  BY Zenon DEF header, HeaderMoves, Moves
<1> HIDE DEF moves
<1>m. /\ moves # {}
      /\ \A move \in moves : /\ move[1] # "rfc3339"
                             /\ move[3] \notin {"counted", "sequenced", "named"}
  BY DEF moves
<1>2. /\ ~Leaves(moves, {"pri_sp", "start"}, {"counted"})
      /\ ~Leaves(moves, {"msgcountval"}, {"counted"})
      /\ ~Leaves(moves, {"sequenceval"}, {"sequenced"})
      /\ ~Leaves(moves, {"ciscoHostname"}, {"named"})
      /\ ~Leaves(moves, {"rfc3339"}, behind)
  BY <1>m DEF Leaves
<1>3. number = n
  BY <1>2, Zenon
<1> HIDE DEF number
<1>4. host = n
  BY <1>2, <1>3, Zenon
<1> HIDE DEF host
<1>5. ASSUME \A move \in moves : move[3] \notin {"sp", "ciscocolon"}
      PROVE  header(n, t) = Onward(n, t)
  <2>1. ~Leaves(moves, {"stamp", "stamp_secfrac"}, behind) /\ "sp" \notin To(moves)
    BY <1>5 DEF Leaves, To
  <2>2. stamp = n
    BY <1>2, <1>4, <2>1, Zenon
  <2>3. stamp.cs # "fail"
    BY <2>2
  <2>4. header(n, t) = [Take(marked(n), t) EXCEPT !.at = To(moves)]
    BY <1>1, <1>m, <2>1, <2>2, <2>3, Zenon
  <2> QED
    BY <2>4, Zenon DEF Onward, moves
<1>6. ASSUME \A move \in moves : move[1] \in {"stamp", "stamp_secfrac"} /\ move[3] = "sp"
      PROVE  header(n, t) = IF set_timestamp(n).cs = "fail" THEN set_timestamp(n)
                            ELSE [Goto(set_timestamp(n), "body") EXCEPT !.at = {"sp"}]
  <2>1. Leaves(moves, {"stamp", "stamp_secfrac"}, behind) /\ "sp" \in To(moves)
    BY <1>m, <1>6 DEF Leaves, To
  <2>2. stamp = set_timestamp(n)
    BY <1>4, <2>1, Zenon
  <2> QED
    BY <1>1, <1>m, <2>1, <2>2, Zenon
<1> QED
  BY <1>5, <1>6 DEF moves

LEMMA MovesOf ==
    ASSUME NEW n, NEW t
    PROVE  /\ \A move \in Moves(n, t) : /\ move \in HeaderMoves(n) /\ t \in move[2]
                                        /\ move[1] \in n.at /\ move[3] \in To(Moves(n, t))
           /\ \A move \in HeaderMoves(n) :
                  move[1] \in n.at /\ t \in move[2] => move \in Moves(n, t)
           /\ \A q \in To(Moves(n, t)) : \E move \in Moves(n, t) : move[3] = q
  BY DEF Moves, Taken, To

(* Both move on: what n takes with p, it takes as p does.                   *)
LEMMA OnwardAlike ==
    ASSUME NEW n, NEW p, NEW t, Alike(n, p), p.flags = NoFlags, p.cs = "header",
           (\E move \in Moves(n, t) : Begins(move)) <=> (\E move \in Moves(p, t) : Begins(move))
    PROVE  /\ Alike(Onward(n, t), Onward(p, t)) /\ Onward(p, t).flags = NoFlags
           /\ Onward(p, t).cs = "header" /\ Onward(p, t).output = p.output
           /\ Onward(n, t).at = To(Moves(n, t)) /\ Onward(p, t).at = To(Moves(p, t))
<1> DEFINE a == IF \E move \in Moves(n, t) : Begins(move) THEN mark(n) ELSE n
           b == IF \E move \in Moves(p, t) : Begins(move) THEN mark(p) ELSE p
<1>1. Onward(n, t) = [Take(a, t) EXCEPT !.at = To(Moves(n, t))]
  BY Zenon DEF Onward
<1>2. Onward(p, t) = [Take(b, t) EXCEPT !.at = To(Moves(p, t))]
  BY Zenon DEF Onward
<1>3. Alike(mark(n), mark(p)) /\ mark(p).flags = NoFlags /\ mark(p).cs = "header"
      /\ mark(p).output = p.output
  BY ActionsAlike DEF Alike, mark, Fields
<1>4. Alike(a, b) /\ b.flags = NoFlags /\ b.cs = "header" /\ b.output = p.output
  BY <1>3, Zenon
<1> HIDE DEF a, b
<1>5. Alike(Take(a, t), Take(b, t))
  BY <1>4, ActionsAlike
<1>6. Alike(Onward(n, t), Onward(p, t))
  BY <1>1, <1>2, <1>5, ActionsAlike
<1>7. /\ Onward(p, t).flags = NoFlags /\ Onward(p, t).cs = "header"
      /\ Onward(p, t).output = p.output
      /\ Onward(n, t).at = To(Moves(n, t)) /\ Onward(p, t).at = To(Moves(p, t))
  BY <1>1, <1>2, <1>4 DEF Alike, Take, Fields
<1> QED
  BY <1>6, <1>7

LEMMA NoCisco ==
    ASSUME NEW p, p.flags = NoFlags
    PROVE  ~Cisco(p)
  BY DEF Cisco, NoFlags

(* Directly behind the PRI.                                                 *)
LEMMA PriBeside ==
    ASSUME NEW n, NEW p, NEW t, Alike(n, p), p.flags = NoFlags, p.cs = "header", Unstamped(p),
           p.at = {"pri_sp"}, n.at = {"pri_sp"}, Moves(p, t) # {}
    PROVE  Coupled(header(n, t), header(p, t))
<1>0. n.cs = "header" /\ DOMAIN p = Fields /\ ~Cisco(p)
  BY NoCisco DEF Alike
<1> DEFINE N == Moves(n, t)
           P == Moves(p, t)
           spaces == <<"pri_sp", {" "}, "pri_sp">>
           month == <<"pri_sp", MonthNames, "datemmm">>
<1>1. /\ spaces[1] = "pri_sp" /\ spaces[2] = {" "} /\ spaces[3] = "pri_sp"
      /\ month[1] = "pri_sp" /\ month[2] = MonthNames /\ month[3] = "datemmm"
  OBVIOUS
<1> HIDE DEF spaces, month
<1>2. /\ \A move \in N : move[1] = "pri_sp" /\ move \in HeaderMoves(n) /\ t \in move[2]
      /\ \A move \in P : move[1] = "pri_sp" /\ move \in HeaderMoves(p) /\ t \in move[2]
  BY MovesOf
<1>3. /\ t = " " => spaces \in N /\ spaces \in P
      /\ t \in MonthNames => month \in N /\ month \in P
  BY <1>1, MovesOf, PriHas DEF spaces, month
<1>4. /\ t = " " => (\A move \in N : move = spaces) /\ (\A move \in P : move = spaces)
      /\ t \in MonthNames => /\ \A move \in N : move = month \/ move[3] = "ciscoHostname"
                             /\ \A move \in P : t # " " => move = month
      /\ t # " " /\ t \notin MonthNames => \A move \in P : move[3] \in {"year", "fulldate"}
  BY <1>0, <1>2, PriFrom DEF spaces, month
<1>5. " " \notin MonthNames
  BY DEF MonthNames
<1> HIDE DEF N, P
<1>6. CASE t = " "
  <2>1. /\ \A move \in N : move[1] = "pri_sp" /\ move[3] = "pri_sp"
        /\ \A move \in P : move[1] = "pri_sp" /\ move[3] = "pri_sp"
    BY <1>1, <1>4, <1>6
  <2>2. N = P /\ N # {} /\ To(N) = {"pri_sp"}
    <3>1. N = {spaces} /\ P = {spaces}
      BY <1>3, <1>4, <1>6
    <3> QED
      BY <1>1, <3>1 DEF To
  <2>3. header(n, t) = Onward(n, t) /\ header(p, t) = Onward(p, t)
    BY <1>0, <2>1, <2>2, HeaderPlainly DEF N, P
  <2>4. /\ Alike(Onward(n, t), Onward(p, t)) /\ Onward(p, t).flags = NoFlags
        /\ Onward(p, t).cs = "header" /\ Onward(p, t).output = p.output
        /\ Onward(n, t).at = To(Moves(n, t)) /\ Onward(p, t).at = To(Moves(p, t))
    BY <2>2, OnwardAlike DEF N, P
  <2>5. Beside(Onward(n, t), Onward(p, t))
    BY <2>2, <2>4 DEF Beside, Unstamped, N, P
  <2> QED
    BY <2>3, <2>5 DEF Coupled
<1>7. CASE t \in MonthNames
  <2>1. /\ \A move \in N : move[1] = "pri_sp" /\ move[3] \in {"datemmm", "ciscoHostname"}
        /\ \A move \in P : move[1] = "pri_sp" /\ move[3] = "datemmm"
    BY <1>1, <1>2, <1>4, <1>5, <1>7
  <2>2. Begins(month)
    BY <1>1 DEF Begins, Marked
  <2>3. month \in N /\ month \in P
    BY <1>3, <1>7
  <2>4. header(n, t) = Onward(n, t) /\ header(p, t) = Onward(p, t)
    BY <1>0, <2>1, <2>3, HeaderPlainly DEF N, P
  <2>5. /\ Alike(Onward(n, t), Onward(p, t)) /\ Onward(p, t).flags = NoFlags
        /\ Onward(p, t).cs = "header" /\ Onward(p, t).output = p.output
        /\ Onward(n, t).at = To(N) /\ Onward(p, t).at = To(P)
    BY <2>2, <2>3, OnwardAlike DEF N, P
  <2>6. To(P) = {"datemmm"} /\ (To(N) = {"datemmm"} \/ To(N) = {"datemmm", "ciscoHostname"})
    <3>1. "datemmm" \in To(N) /\ "datemmm" \in To(P)
      BY <1>1, <2>3 DEF To
    <3>2. To(N) \subseteq {"datemmm", "ciscoHostname"} /\ To(P) \subseteq {"datemmm"}
      BY <2>1 DEF To
    <3> QED
      BY <3>1, <3>2
  <2>7. "datemmm" \in StampPlaces
    BY DEF StampPlaces
  <2>8. Beside(Onward(n, t), Onward(p, t))
    BY <2>5, <2>6, <2>7 DEF Beside
  <2> QED
    BY <2>4, <2>8 DEF Coupled
<1>8. CASE t # " " /\ t \notin MonthNames
  <2>1. \A move \in P : move[1] = "pri_sp" /\ move[3] \in {"year", "fulldate"}
    BY <1>2, <1>4, <1>8
  <2>2. header(p, t) = Onward(p, t)
    BY <1>0, <2>1, HeaderPlainly DEF P
  <2>3. Alike(p, p)
    BY <1>0 DEF Alike
  <2>4. /\ Alike(Onward(p, t), Onward(p, t)) /\ Onward(p, t).flags = NoFlags
        /\ Onward(p, t).cs = "header" /\ Onward(p, t).output = p.output
        /\ Onward(p, t).at = To(P)
    BY <2>3, OnwardAlike DEF P
  <2>5. To(P) \subseteq FullPlaces
    BY <2>1 DEF To, FullPlaces
  <2>6. Aside(Onward(p, t))
    BY <2>4, <2>5 DEF Aside, Alike, Unstamped
  <2> QED
    BY <2>2, <2>6 DEF Coupled
<1> QED
  BY <1>6, <1>7, <1>8

(* Within the timestamp; the month's host name does not survive the space.  *)
LEMMA StampBeside ==
    ASSUME NEW n, NEW p, NEW t, NEW s \in StampPlaces,
           Alike(n, p), p.flags = NoFlags, p.cs = "header", p.at = {s},
           n.at = {s} \/ (s = "datemmm" /\ n.at = {s, "ciscoHostname"}), Moves(p, t) # {}
    PROVE  Coupled(header(n, t), header(p, t))
<1>0. /\ n.cs = "header" /\ DOMAIN p = Fields /\ ~Cisco(p)
      /\ n.secfrac = p.secfrac /\ n.lenientDay = p.lenientDay
  BY NoCisco DEF Alike
<1> DEFINE N == Moves(n, t)
           P == Moves(p, t)
<1>1. s \notin Extras \cup {"ciscostar", "ciscocolon", "rfc3339", "ciscoHostname"}
  BY DEF StampPlaces, Extras
<1>2. \A move \in P : /\ move[1] = s /\ StampNext(s, t, move[3]) /\ move \in N
                      /\ s \in {"stamp", "stamp_secfrac"} => t # ":"
  <2> SUFFICES ASSUME NEW move \in P
               PROVE  /\ move[1] = s /\ StampNext(s, t, move[3]) /\ move \in N
                      /\ s \in {"stamp", "stamp_secfrac"} => t # ":"
    BY Zenon
  <2>1. move \in HeaderMoves(p) /\ t \in move[2] /\ move[1] = s
    BY MovesOf
  <2>2. move \in StampMoves(p)
    BY <2>1, StampFrom
  <2>3. /\ StampNext(s, t, move[3]) /\ move \in StampMoves(n)
        /\ s \in {"stamp", "stamp_secfrac"} => t # ":"
    BY <1>0, <1>1, <2>1, <2>2, StampOf
  <2>4. move \in N
    BY <2>1, <2>3, MovesOf DEF HeaderMoves
  <2> QED
    BY <2>1, <2>3, <2>4
<1>3. PICK q : q \in To(P)
  BY DEF To
<1>4. /\ StampNext(s, t, q) /\ (s \in {"stamp", "stamp_secfrac"} => t # ":")
      /\ \A move \in P : move[3] = q
  <2>1. PICK move \in P : move[3] = q
    BY <1>3, MovesOf
  <2> QED
    BY <1>2, <2>1, NextStamp
<1>5. \A move \in N : move \in P
  <2> SUFFICES ASSUME NEW move \in N PROVE move \in P
    BY Zenon
  <2>1. move \in HeaderMoves(n) /\ t \in move[2] /\ move[1] \in n.at
    BY MovesOf
  <2>2. move[1] = s
    <3> SUFFICES ASSUME move[1] # s PROVE FALSE
      OBVIOUS
    <3>1. s = "datemmm" /\ move[1] = "ciscoHostname"
      BY <2>1
    <3>2. t = " "
      BY <1>4, <3>1 DEF StampNext
    <3>3. /\ "ciscoHostname" \notin Extras \cup {"ciscostar", "ciscocolon"} \cup StampPlaces
          /\ "ciscoHostname" \notin FullPlaces \cup {"stamp", "stamp_secfrac"}
      BY DEF Extras, StampPlaces, FullPlaces
    <3>4. move \notin ExtraMoves(n)
      BY <2>1, <3>1, <3>2, <3>3, ExtraOf
    <3>5. move \notin StampMoves(n)
      BY <2>1, <3>1, <3>3, StampOf
    <3>6. move \notin FullMoves(n)
      BY <2>1, <3>1, <3>3, FullOf
    <3> QED
      BY <2>1, <3>4, <3>5, <3>6 DEF HeaderMoves
  <2>3. move \in StampMoves(n)
    BY <2>1, <2>2, StampFrom
  <2>4. move \in StampMoves(p)
    BY <1>0, <1>1, <1>4, <2>1, <2>2, <2>3, StampOf
  <2> QED
    BY <2>1, <2>2, <2>4, MovesOf DEF HeaderMoves
<1>6. N = P
  BY <1>2, <1>5
<1>7. To(N) = {q} /\ To(P) = {q}
  BY <1>3, <1>4, <1>6 DEF To
<1>8. q \in StampPlaces \cup {"sp"} /\ (q = "sp" => s \in {"stamp", "stamp_secfrac"})
  BY <1>4, NextStamp
<1>9. q \notin {"counted", "sequenced", "named", "ciscocolon"}
  BY <1>8 DEF StampPlaces
<1>10. CASE q # "sp"
  <2>1. header(n, t) = Onward(n, t) /\ header(p, t) = Onward(p, t)
    BY <1>0, <1>1, <1>2, <1>4, <1>6, <1>9, <1>10, HeaderPlainly
  <2>2. /\ Alike(Onward(n, t), Onward(p, t)) /\ Onward(p, t).flags = NoFlags
        /\ Onward(p, t).cs = "header" /\ Onward(n, t).at = {q} /\ Onward(p, t).at = {q}
    BY <1>6, <1>7, OnwardAlike
  <2>3. Beside(Onward(n, t), Onward(p, t))
    BY <1>8, <1>10, <2>2 DEF Beside
  <2> QED
    BY <2>1, <2>3 DEF Coupled
<1>11. CASE q = "sp"
  <2> DEFINE u == set_timestamp(n)
             v == set_timestamp(p)
             a == [Goto(u, "body") EXCEPT !.at = {"sp"}]
             b == [Goto(v, "body") EXCEPT !.at = {"sp"}]
  <2>1. /\ header(n, t) = IF u.cs = "fail" THEN u ELSE a
        /\ header(p, t) = IF v.cs = "fail" THEN v ELSE b
    BY <1>0, <1>1, <1>2, <1>4, <1>6, <1>8, <1>9, <1>11, HeaderPlainly
  <2>2. Alike(u, v)
    BY OutputAlike
  <2>3. v.flags = NoFlags
    BY <1>0 DEF set_timestamp, Fail, Fields
  <2>4. Alike(Goto(u, "body"), Goto(v, "body"))
    BY <2>2, ActionsAlike
  <2> HIDE DEF u, v
  <2>5. Alike(a, b)
    BY <2>4, ActionsAlike
  <2>6. b.flags = NoFlags /\ b.cs = "body" /\ a.at = {"sp"} /\ b.at = {"sp"}
    BY <2>2, <2>3 DEF Alike, Goto, Fields
  <2> HIDE DEF a, b
  <2>7. CASE v.cs = "fail"
    BY <2>1, <2>2, <2>7 DEF Coupled, Aside, Alike
  <2>8. CASE v.cs # "fail"
    <3>1. header(n, t) = a /\ header(p, t) = b
      BY <2>1, <2>2, <2>8 DEF Alike
    <3>2. Beside(a, b)
      BY <2>5, <2>6 DEF Beside
    <3> QED
      BY <3>1, <3>2 DEF Coupled
  <2> QED
    BY <2>7, <2>8
<1> QED
  BY <1>10, <1>11

LEMMA HeaderBeside ==
    ASSUME NEW n, NEW p, NEW t, Beside(n, p), p.cs = "header"
    PROVE  Coupled(header(n, t), header(p, t))
<1>0. Alike(n, p) /\ p.flags = NoFlags /\ DOMAIN p = Fields
  BY DEF Beside, Alike
<1>1. CASE Moves(p, t) = {}
  <2>1. header(p, t) = header_error(p)
    BY <1>1, Zenon DEF header, Moves, HeaderMoves
  <2> QED
    BY <1>0, <2>1, HeaderErrorAside DEF Coupled
<1>2. CASE Moves(p, t) # {} /\ Unstamped(p) /\ p.at = {"pri_sp"} /\ n.at = {"pri_sp"}
  BY <1>0, <1>2, PriBeside
<1>3. CASE /\ Moves(p, t) # {}
           /\ \E s \in StampPlaces :
                  p.at = {s} /\ (n.at = {s} \/ (s = "datemmm" /\ n.at = {s, "ciscoHostname"}))
  BY <1>0, <1>3, StampBeside
<1>4. "datemmm" \in StampPlaces
  BY DEF StampPlaces
<1> QED
  BY <1>1, <1>2, <1>3, <1>4 DEF Beside

(* An RFC 3339 timestamp never becomes one of RFC 3164.                     *)
LEMMA HeaderAside ==
    ASSUME NEW p, NEW t, DOMAIN p = Fields, p.cs = "header", p.flags = NoFlags,
           p.at \subseteq FullPlaces, Unstamped(p)
    PROVE  Aside(header(p, t))
<1> DEFINE moves == Moves(p, t)
           marked(o) == IF \E move \in moves : Begins(move) THEN mark(o) ELSE o
           number == CASE Leaves(moves, {"pri_sp", "start"}, {"counted"}) -> set_number(mark(p), "msgcount")
                       [] Leaves(moves, {"msgcountval"}, {"counted"}) -> set_number(p, "msgcount")
                       [] Leaves(moves, {"sequenceval"}, {"sequenced"}) -> set_number(p, "sequence")
                       [] OTHER -> p
           host   == IF Leaves(moves, {"ciscoHostname"}, {"named"}) THEN set_hostname(number)
                     ELSE number
           behind == {"sp", "ciscocolon"}
           stamp  == IF Leaves(moves, {"stamp", "stamp_secfrac"}, behind) THEN set_timestamp(host)
                     ELSE IF Leaves(moves, {"rfc3339"}, behind) THEN set_rfc3339(host)
                     ELSE host
<1>1. header(p, t) = IF moves = {} THEN header_error(p)
                     ELSE IF stamp.cs = "fail" THEN stamp
                     ELSE IF "sp" \in To(moves) THEN [Goto(stamp, "body") EXCEPT !.at = {"sp"}]
                     ELSE [Take(marked(stamp), t) EXCEPT !.at = To(moves)]
  BY Zenon DEF header, HeaderMoves, Moves
<1>2. \A move \in moves : move[1] \in FullPlaces /\ move[3] \in FullPlaces \cup {"sp"}
  <2> SUFFICES ASSUME NEW move \in moves
               PROVE  move[1] \in FullPlaces /\ move[3] \in FullPlaces \cup {"sp"}
    BY Zenon
  <2>1. move \in HeaderMoves(p) /\ t \in move[2] /\ move[1] \in FullPlaces
    BY MovesOf
  <2> QED
    BY <2>1, NoCisco, FullFrom
<1> HIDE DEF moves
<1>3. /\ ~Leaves(moves, {"pri_sp", "start"}, {"counted"})
      /\ ~Leaves(moves, {"msgcountval"}, {"counted"})
      /\ ~Leaves(moves, {"sequenceval"}, {"sequenced"})
      /\ ~Leaves(moves, {"ciscoHostname"}, {"named"})
      /\ ~Leaves(moves, {"stamp", "stamp_secfrac"}, behind)
  BY <1>2 DEF Leaves, FullPlaces
<1>4. number = p
  BY <1>3, Zenon
<1> HIDE DEF number
<1>5. host = p
  BY <1>3, <1>4, Zenon
<1> HIDE DEF host
<1>6. /\ DOMAIN stamp = Fields /\ stamp.flags = NoFlags
      /\ stamp.cs = "fail" \/ (stamp.cs = "header" /\ Unstamped(stamp))
  <2>1. stamp = p \/ stamp = set_rfc3339(p)
    BY <1>3, <1>5, Zenon
  <2>2. set_rfc3339(p) = [p EXCEPT !.output.timestamp = "rfc3339"]
        \/ set_rfc3339(p) = Fail(p, "time.Parse")
    BY Zenon DEF set_rfc3339
  <2> HIDE DEF stamp
  <2>3. CASE stamp = p
    BY <2>3
  <2>4. CASE stamp = [p EXCEPT !.output.timestamp = "rfc3339"]
    BY <2>4 DEF Fields, Unstamped
  <2>5. CASE stamp = Fail(p, "time.Parse")
    BY <2>5 DEF Fail, Fields
  <2> QED
    BY <2>1, <2>2, <2>3, <2>4, <2>5
<1> HIDE DEF stamp
<1>7. CASE moves = {}
  BY <1>1, <1>7, HeaderErrorAside
<1>8. CASE moves # {} /\ stamp.cs = "fail"
  BY <1>1, <1>6, <1>8 DEF Aside
<1>9. CASE moves # {} /\ stamp.cs # "fail" /\ "sp" \in To(moves)
  <2> DEFINE b == [Goto(stamp, "body") EXCEPT !.at = {"sp"}]
  <2>1. DOMAIN b = Fields /\ b.cs = "body" /\ b.output = stamp.output
    BY <1>6 DEF Goto, Fields
  <2>2. header(p, t) = b
    BY <1>1, <1>9, Zenon
  <2> HIDE DEF b
  <2> QED
    BY <1>6, <1>9, <2>1, <2>2 DEF Aside, Unstamped
<1>10. CASE moves # {} /\ stamp.cs # "fail" /\ "sp" \notin To(moves)
  <2> DEFINE k == marked(stamp)
             b == [Take(k, t) EXCEPT !.at = To(moves)]
  <2>1. /\ DOMAIN mark(stamp) = Fields /\ mark(stamp).cs = "header"
        /\ mark(stamp).flags = NoFlags /\ mark(stamp).output = stamp.output
    BY <1>6, <1>10 DEF mark, Fields
  <2>2. DOMAIN k = Fields /\ k.cs = "header" /\ k.flags = NoFlags /\ k.output = stamp.output
    BY <1>6, <1>10, <2>1, Zenon
  <2>3. header(p, t) = b
    BY <1>1, <1>10, Zenon
  <2> HIDE DEF k
  <2>4. /\ DOMAIN b = Fields /\ b.cs = "header" /\ b.flags = NoFlags
        /\ b.output = stamp.output /\ b.at = To(moves)
    BY <2>2 DEF Take, Fields
  <2> HIDE DEF b
  <2>5. To(moves) \subseteq FullPlaces
    BY <1>2, <1>10 DEF To
  <2> QED
    BY <1>6, <1>10, <2>3, <2>4, <2>5 DEF Aside, Unstamped
<1> QED
  BY <1>7, <1>8, <1>9, <1>10

(* A token, and the end of the input.                                       *)
LEMMA StepCoupled ==
    ASSUME NEW n, NEW p, NEW t, Coupled(n, p)
    PROVE  Coupled(Step(n, t), Step(p, t))
<1>1. CASE n = p
  BY <1>1, Zenon DEF Coupled
<1>2. CASE Beside(n, p)
  <2>1. n.cs = p.cs /\ p.cs \in {"prival", "header", "body"}
    BY <1>2 DEF Beside, Alike
  <2>2. CASE p.cs = "prival"
    BY <1>2, <2>1, <2>2, PrivalBeside DEF Step
  <2>3. CASE p.cs = "header"
    BY <1>2, <2>1, <2>3, HeaderBeside DEF Step
  <2>4. CASE p.cs = "body"
    BY <1>2, <2>1, <2>4, BodyBeside DEF Step
  <2> QED
    BY <2>1, <2>2, <2>3, <2>4
<1>3. CASE Aside(p)
  <2>1. Aside(Step(p, t))
    <3>1. CASE p.cs \in {"fail", "st0"}
      BY <1>3, <3>1 DEF Step
    <3>2. CASE p.cs = "header"
      BY <1>3, <3>2, HeaderAside DEF Aside, Step
    <3>3. CASE p.cs = "body"
      BY <1>3, <3>3, BodyAside DEF Aside, Step
    <3> QED
      BY <1>3, <3>1, <3>2, <3>3 DEF Aside
  <2> QED
    BY <2>1 DEF Coupled
<1> QED
  BY <1>1, <1>2, <1>3 DEF Coupled

(* What the one without Cisco's options accepts with an RFC 3164 timestamp, *)
(* the other answers in the same way.                                       *)
LEMMA EofCoupled ==
    ASSUME NEW n, NEW p, Coupled(n, p), Final(Eof(p)), Eof(p).output.timestamp = "stamp"
    PROVE  Answer(Eof(n)) = Answer(Eof(p))
<1>1. CASE n = p
  BY <1>1, Zenon
<1>2. CASE Beside(n, p)
  <2>0. Alike(n, p) /\ DOMAIN p = Fields /\ n.cs = p.cs /\ p.cs \in {"prival", "header", "body"}
    BY <1>2 DEF Beside, Alike
  <2>1. p.cs = "body" /\ n.at = p.at
    <3>1. CASE p.cs = "prival"
      BY <2>0, <3>1 DEF Eof, Final, Fail, Fields
    <3>2. CASE p.cs = "header"
      BY <2>0, <3>2, HeaderErrorAside DEF Eof, Final
    <3> QED
      BY <1>2, <2>0, <3>1, <3>2 DEF Beside
  <2>2. \/ Eof(n) = Set(n, "message") /\ Eof(p) = Set(p, "message")
        \/ Eof(n) = n /\ Eof(p) = p
        \/ Eof(p) = body_error(p)
    <3>1. \A x : x.cs = "body" =>
              Eof(x) = IF "mex" \in x.at THEN Set(x, "message")
                       ELSE IF "end" \in x.at THEN x ELSE body_error(x)
      BY DEF Eof
    <3> QED
      BY <2>0, <2>1, <3>1, Zenon
  <2>3. Eof(p) # body_error(p)
    BY <2>0, BodyErrorAside DEF Final
  <2>4. Alike(Eof(n), Eof(p))
    BY <2>0, <2>2, <2>3, OutputAlike
  <2>5. Final(Eof(n)) /\ Eof(n).output = Eof(p).output
    BY <2>4 DEF Alike, Final
  <2> QED
    BY <2>5, Zenon DEF Answer
<1>3. CASE Aside(p)
  <2>1. p.cs = "body" /\ Unstamped(p)
    <3>1. CASE p.cs \in {"fail", "st0"}
      BY <3>1 DEF Eof, Final
    <3>2. CASE p.cs = "header"
      BY <1>3, <3>2, HeaderErrorAside DEF Aside, Eof, Final
    <3> QED
      BY <1>3, <3>1, <3>2 DEF Aside
  <2>2. Eof(p) \in {Set(p, "message"), p, body_error(p)}
    BY <2>1 DEF Eof
  <2>3. DOMAIN p = Fields
    BY <1>3 DEF Aside
  <2>4. Eof(p) # body_error(p)
    BY <2>3, BodyErrorAside DEF Final
  <2>5. Unstamped(Set(p, "message"))
    BY <2>1, <2>3 DEF Set, Fields, Unstamped
  <2> QED
    BY <2>1, <2>2, <2>4, <2>5 DEF Unstamped
<1> QED
  BY <1>1, <1>2, <1>3 DEF Coupled

(* The invariant.                                                           *)
PlainInv ==
    /\ config \in Configs
    /\ call.pc = "idle" => call.plain = NewMachine(WithoutCisco(config))
    /\ call.pc \in {"read", "end"} => Coupled(m, call.plain)
    /\ call.pc = "done" /\ Final(call.plain) /\ call.plain.output.timestamp = "stamp" =>
           call.res = Answer(call.plain)

LEMMA NothingUnstamped ==
    ASSUME NEW p, p.output = NoOutput
    PROVE  Unstamped(p)
<1>1. "timestamp" \in DOMAIN NoOutput
  BY Zenon DEF NoOutput
<1>2. NoOutput.timestamp # "stamp"
  BY Zenon DEF NoOutput
<1> QED
  BY <1>1, <1>2 DEF Unstamped

(* The options but for Cisco's are the same.                                *)
LEMMA WithoutCiscoNew ==
    ASSUME NEW c \in Configs
    PROVE  /\ Alike(NewMachine(c), NewMachine(WithoutCisco(c)))
           /\ NewMachine(WithoutCisco(c)).flags = NoFlags
<1> DEFINE d == WithoutCisco(c)
           a == NewMachine(c)
           b == NewMachine(d)
<1>1. /\ d.bestEffort = c.bestEffort /\ d.optionalPriority = c.optionalPriority
      /\ d.newline = c.newline /\ d.rfc3339 = c.rfc3339
      /\ d.secfrac = c.secfrac /\ d.lenientDay = c.lenientDay
      /\ d.msgcount = FALSE /\ d.sequence = FALSE /\ d.ciscoHostname = FALSE
  BY Rfc3164Assumption DEF WithoutCisco
<1> HIDE DEF d
<1>2. /\ DOMAIN a = Fields /\ a.cs = "main" /\ a.data = <<>> /\ a.pb = 0 /\ a.err = "nil"
      /\ a.output = NoOutput
      /\ a.bestEffort = c.bestEffort /\ a.optionalPriority = c.optionalPriority
      /\ a.newline = c.newline /\ a.rfc3339 = c.rfc3339
      /\ a.secfrac = c.secfrac /\ a.lenientDay = c.lenientDay
  BY DEF NewMachine, Fields
<1>3. /\ DOMAIN b = Fields /\ b.cs = "main" /\ b.data = <<>> /\ b.pb = 0 /\ b.err = "nil"
      /\ b.output = NoOutput /\ b.flags = Flags(d)
      /\ b.bestEffort = d.bestEffort /\ b.optionalPriority = d.optionalPriority
      /\ b.newline = d.newline /\ b.rfc3339 = d.rfc3339
      /\ b.secfrac = d.secfrac /\ b.lenientDay = d.lenientDay
  BY DEF NewMachine, Fields
<1> HIDE DEF a, b
<1>4. Alike(a, b)
  BY <1>1, <1>2, <1>3 DEF Alike
<1>5. Flags(d) = NoFlags
  BY <1>1 DEF Flags, NoFlags
<1> QED
  BY <1>3, <1>4, <1>5 DEF a, b, d

(* Without a PRI the flags are put aside, and nothing is left to tell them. *)
LEMMA BegunAlike ==
    ASSUME NEW n, NEW p, Alike(n, p), NEW s, NEW q
    PROVE  Begin([n EXCEPT !.flags = NoFlags], s, q) = Begin([p EXCEPT !.flags = NoFlags], s, q)
<1> DEFINE a == Begin([n EXCEPT !.flags = NoFlags], s, q)
           b == Begin([p EXCEPT !.flags = NoFlags], s, q)
<1>a. a = [f \in Fields |-> a[f]]
  BY DEF Begin, Alike, Fields
<1>b. b = [f \in Fields |-> b[f]]
  BY DEF Begin, Alike, Fields
<1>1. /\ a["cs"] = s /\ a["at"] = q /\ a["data"] = <<>> /\ a["pb"] = 0
      /\ a["err"] = "nil" /\ a["output"] = NoOutput /\ a["flags"] = NoFlags
      /\ a["bestEffort"] = n.bestEffort /\ a["optionalPriority"] = n.optionalPriority
      /\ a["newline"] = n.newline /\ a["rfc3339"] = n.rfc3339
      /\ a["secfrac"] = n.secfrac /\ a["lenientDay"] = n.lenientDay
  BY DEF Begin, Alike, Fields
<1>2. /\ b["cs"] = s /\ b["at"] = q /\ b["data"] = <<>> /\ b["pb"] = 0
      /\ b["err"] = "nil" /\ b["output"] = NoOutput /\ b["flags"] = NoFlags
      /\ b["bestEffort"] = p.bestEffort /\ b["optionalPriority"] = p.optionalPriority
      /\ b["newline"] = p.newline /\ b["rfc3339"] = p.rfc3339
      /\ b["secfrac"] = p.secfrac /\ b["lenientDay"] = p.lenientDay
  BY DEF Begin, Alike, Fields
<1> HIDE DEF a, b
<1>3. \A f \in Fields : a[f] = b[f]
  <2>1. /\ a["cs"] = b["cs"] /\ a["at"] = b["at"] /\ a["data"] = b["data"] /\ a["pb"] = b["pb"]
        /\ a["err"] = b["err"] /\ a["output"] = b["output"] /\ a["flags"] = b["flags"]
        /\ a["bestEffort"] = b["bestEffort"] /\ a["optionalPriority"] = b["optionalPriority"]
        /\ a["newline"] = b["newline"] /\ a["rfc3339"] = b["rfc3339"]
        /\ a["secfrac"] = b["secfrac"] /\ a["lenientDay"] = b["lenientDay"]
    BY <1>1, <1>2 DEF Alike
  <2> QED
    BY <2>1, Zenon DEF Fields
<1>4. a = b
  BY <1>a, <1>b, <1>3, Zenon
<1> QED
  BY <1>4 DEF a, b

LEMMA NoCallPlain ==
    ASSUME NEW c
    PROVE  NoCall(c).plain = NewMachine(WithoutCisco(c)) /\ NoCall(c).pc = "idle"
<1> DEFINE a == NewMachine(c)
           b == NewMachine(WithoutCisco(c))
<1>1. NoCall(c) = [pc |-> "idle", saved |-> Flags(c), before |-> NoCall(c).before, res |-> Nothing,
                   alone |-> a, plain |-> b]
  BY Zenon DEF NoCall
<1> HIDE DEF a, b
<1>2. NoCall(c).plain = b /\ NoCall(c).pc = "idle"
  BY <1>1
<1> QED
  BY <1>2 DEF b

LEMMA PlainCall ==
    ASSUME FreshInv, PlainInv, NEW first, Call(first)
    PROVE  PlainInv'
<1> DEFINE off == first # "<"
           New(n) == IF off THEN Begin([n EXCEPT !.flags = NoFlags], "header", {"start"})
                     ELSE Begin(n, "main", {})
           First(n) == IF first = "EOF" THEN New(n) ELSE Step(New(n), first)
           p == call.plain
<1>0. /\ DOMAIN call = CallFields /\ config' = config /\ config \in Configs
      /\ Alike(m, p) /\ p.flags = NoFlags /\ p.cs = "main"
  <2>1. /\ DOMAIN call = CallFields /\ config' = config /\ config \in Configs
        /\ m = NewMachine(config) /\ p = NewMachine(WithoutCisco(config))
    BY DEF Call, FreshInv, PlainInv
  <2>2. NewMachine(WithoutCisco(config)).cs = "main"
    BY DEF NewMachine
  <2> QED
    BY <2>1, <2>2, WithoutCiscoNew
<1>1. CASE off /\ ~m.optionalPriority
  <2>1. call' = [call EXCEPT !.pc = "done", !.res = Result(FALSE, NoOutput, "errPri"),
                             !.alone.err = "errPri"]
    BY <1>1, Zenon DEF Call
  <2> DEFINE r == Result(FALSE, NoOutput, "errPri")
             a == [call.alone EXCEPT !.err = "errPri"]
  <2>2. call' = [call EXCEPT !.pc = "done", !.res = r, !.alone = a]
    BY <2>1
  <2> HIDE DEF r, a
  <2>3. call'.pc = "done" /\ call'.plain.cs = "main"
    BY <1>0, <2>2 DEF CallFields
  <2>4. ~Final(call'.plain)
    BY <2>3 DEF Final
  <2> QED
    BY <1>0, <2>3, <2>4, Zenon DEF PlainInv, Final
<1>2. CASE ~(off /\ ~m.optionalPriority)
  <2>1. /\ m' = First(m)
        /\ call' = [call EXCEPT !.pc = IF first = "EOF" THEN "end" ELSE "read",
                                !.saved = m.flags, !.before = first,
                                !.alone = First(@), !.plain = First(@)]
    BY <1>2, Zenon DEF Call
  <2>2. Coupled(First(m), First(p))
    <3>1. CASE off
      <4>1. New(m) = New(p)
        BY <1>0, <3>1, BegunAlike
      <4> HIDE DEF New
      <4> QED
        BY <4>1, Zenon DEF Coupled
    <3>2. CASE ~off
      <4> DEFINE x == Begin(m, "main", {})
                 y == Begin(p, "main", {})
      <4>1. /\ Alike(x, y) /\ y.flags = NoFlags /\ y.output = NoOutput /\ x.cs = "main"
            /\ y.cs = "main" /\ x.at = {} /\ y.at = {}
        BY <1>0 DEF Begin, Alike, Fields
      <4>2. First(m) = Step(x, first) /\ First(p) = Step(y, first)
        BY <3>2, Zenon
      <4> HIDE DEF x, y, First
      <4>3. Step(x, first) = Goto(x, "prival") /\ Step(y, first) = Goto(y, "prival")
        BY <3>2, <4>1 DEF Step
      <4>4. Alike(Goto(x, "prival"), Goto(y, "prival"))
        BY <4>1, ActionsAlike
      <4>5. /\ Goto(y, "prival").flags = NoFlags /\ Goto(y, "prival").cs = "prival"
            /\ Goto(y, "prival").output = NoOutput
            /\ Goto(x, "prival").at = {} /\ Goto(y, "prival").at = {}
        BY <4>1 DEF Alike, Goto, Fields
      <4>6. Beside(Goto(x, "prival"), Goto(y, "prival"))
        BY <4>4, <4>5, NothingUnstamped DEF Beside
      <4> QED
        BY <4>2, <4>3, <4>6 DEF Coupled
    <3> QED
      BY <3>1, <3>2
  <2> DEFINE k == IF first = "EOF" THEN "end" ELSE "read"
             f == m.flags
             q == First(p)
             a == First(call.alone)
  <2>3. call' = [call EXCEPT !.pc = k, !.saved = f, !.before = first, !.alone = a, !.plain = q]
    BY <2>1, Zenon
  <2>4. k \in {"read", "end"} /\ Coupled(m', q)
    BY <2>1, <2>2
  <2> HIDE DEF First, New, k, f, q, a, p
  <2>5. call'.pc = k /\ call'.plain = q
    BY <1>0, <2>3 DEF CallFields
  <2>6. Coupled(m', call'.plain)
    BY <2>4, <2>5
  <2>7. call'.pc \in {"read", "end"} /\ config' \in Configs
    BY <1>0, <2>4, <2>5
  <2>8. Coupled(m, call.plain)'
    BY <2>6, Zenon DEF Coupled, Beside, Aside, Alike, Unstamped
  <2> QED
    BY <2>7, <2>8 DEF PlainInv
<1> QED
  BY <1>1, <1>2

LEMMA PlainRead ==
    ASSUME FreshInv, PlainInv, Read
    PROVE  PlainInv'
<1>0. /\ call.pc = "read" /\ DOMAIN call = CallFields /\ config' = config /\ config \in Configs
      /\ Coupled(m, call.plain)
  BY DEF Read, FreshInv, PlainInv
<1>1. PICK c : /\ m' = Step(m, c)
               /\ call' = [call EXCEPT !.before = IF Stopped(m') THEN @ ELSE c,
                                       !.alone = Step(@, c), !.plain = Step(@, c)]
  BY Zenon DEF Read
<1> DEFINE b == IF Stopped(m') THEN call.before ELSE c
           a == Step(call.alone, c)
           q == Step(call.plain, c)
<1>2. call' = [call EXCEPT !.before = b, !.alone = a, !.plain = q]
  BY <1>1, Zenon
<1>3. Coupled(m', q)
  BY <1>0, <1>1, StepCoupled
<1> HIDE DEF a, b, q
<1>4. call'.pc = "read" /\ call'.plain = q
  BY <1>0, <1>2 DEF CallFields
<1>5. Coupled(m', call'.plain)
  BY <1>3, <1>4
<1>6. Coupled(m, call.plain)'
  BY <1>5, Zenon DEF Coupled, Beside, Aside, Alike, Unstamped
<1> QED
  BY <1>0, <1>4, <1>6 DEF PlainInv

LEMMA PlainFinish ==
    ASSUME FreshInv, PlainInv, Finish
    PROVE  PlainInv'
<1> DEFINE e == Eof(m)
           r == Answer(e)
           q == Eof(call.plain)
           a == Eof(call.alone)
<1>0. /\ DOMAIN call = CallFields /\ config' = config /\ config \in Configs
      /\ Coupled(m, call.plain)
  BY DEF Finish, FreshInv, PlainInv
<1>1. call' = [call EXCEPT !.pc = "done", !.res = r, !.alone = a, !.plain = q]
  BY Zenon DEF Finish
<1>2. Final(q) /\ q.output.timestamp = "stamp" => r = Answer(q)
  BY <1>0, EofCoupled
<1> HIDE DEF e, r, q, a
<1>3. call'.pc = "done" /\ call'.res = r /\ call'.plain = q
  BY <1>0, <1>1 DEF CallFields
<1>4. Final(call'.plain) /\ call'.plain.output.timestamp = "stamp" => call'.res = Answer(call'.plain)
  BY <1>2, <1>3
<1>5. Final(call.plain)' /\ call'.plain.output.timestamp = "stamp" => call'.res = Answer(call.plain)'
  BY <1>4, Zenon DEF Final, Answer, minimal, Result
<1> QED
  BY <1>0, <1>3, <1>5 DEF PlainInv

LEMMA PlainStep ==
    ASSUME FreshInv, PlainInv, [Next]_vars
    PROVE  PlainInv'
<1>1. CASE UNCHANGED vars
  <2>1. m' = m /\ call' = call /\ config' = config
    BY <1>1 DEF vars
  <2> QED
    BY <2>1, Zenon DEF PlainInv, Coupled, Beside, Aside, Alike, Unstamped, Final, Answer, minimal
<1>2. CASE \E first \in Alphabet["main"] \cup Alphabet["start"] \cup {"EOF"} : Call(first)
  BY <1>2, PlainCall
<1>3. CASE Return
  <2>1. call' = NoCall(config) /\ config' = config /\ config \in Configs
    BY <1>3 DEF Return, PlainInv
  <2>2. call'.pc = "idle" /\ call'.plain = NewMachine(WithoutCisco(config'))
    BY <2>1, NoCallPlain
  <2>3. call'.plain = NewMachine(WithoutCisco(config))'
    BY <2>2, Zenon DEF NewMachine, WithoutCisco, Flags
  <2> QED
    BY <2>1, <2>2, <2>3 DEF PlainInv
<1> QED
  BY <1>1, <1>2, <1>3, PlainRead, PlainFinish DEF Next

-----------------------------------------------------------------------------
(* Nothing is lost.  First, what a token of the body does. *)

(* And where a token leads there is a move. *)
LEMMA BodyHas ==
    ASSUME NEW n, NEW f, NEW t, NEW q, Goes(n, f, t, q)
    PROVE  \E move \in BodyMoves(n) : move[1] = f /\ t \in move[2] /\ move[3] = q
<1>m. ASSUME NEW S, t \in S, <<f, S, q>> \in BodyMoves(n)
      PROVE  \E move \in BodyMoves(n) : move[1] = f /\ t \in move[2] /\ move[3] = q
  <2>1. <<f, S, q>>[1] = f /\ <<f, S, q>>[2] = S /\ <<f, S, q>>[3] = q
    OBVIOUS
  <2> QED
    BY <1>m, <2>1, Zenon
<1>1. CASE f = "sp"
  <2>1. \/ q = "sp" /\ t \in {" "}
        \/ q = "hostname" /\ t \in HostChars
        \/ q = "tag" /\ t \in TagChars
        \/ q = "mex" /\ t \in FirstVisible(n)
    BY <1>1 DEF Goes
  <2>2. /\ <<"sp", {" "}, "sp">> \in BodyMoves(n) /\ <<"sp", HostChars, "hostname">> \in BodyMoves(n)
        /\ <<"sp", TagChars, "tag">> \in BodyMoves(n)
        /\ <<"sp", FirstVisible(n), "mex">> \in BodyMoves(n)
    BY DEF BodyMoves
  <2> QED
    BY <1>1, <1>m, <2>1, <2>2, Zenon
<1>2. CASE f = "hostname"
  <2>1. \/ q = "hostname" /\ t \in HostChars
        \/ q = "hostname_sp" /\ t \in {" "}
    BY <1>2 DEF Goes
  <2>2. /\ <<"hostname", HostChars, "hostname">> \in BodyMoves(n)
        /\ <<"hostname", {" "}, "hostname_sp">> \in BodyMoves(n)
    BY DEF BodyMoves
  <2> QED
    BY <1>2, <1>m, <2>1, <2>2, Zenon
<1>3. CASE f = "hostname_sp"
  <2>1. \/ q = "hostname_sp" /\ t \in {" "}
        \/ q = "tag" /\ t \in TagChars
        \/ q = "mex" /\ t \in Visible(n)
    BY <1>3 DEF Goes
  <2>2. /\ <<"hostname_sp", {" "}, "hostname_sp">> \in BodyMoves(n)
        /\ <<"hostname_sp", TagChars, "tag">> \in BodyMoves(n)
        /\ <<"hostname_sp", Visible(n), "mex">> \in BodyMoves(n)
    BY DEF BodyMoves
  <2> QED
    BY <1>3, <1>m, <2>1, <2>2, Zenon
<1>4. CASE f = "tag"
  <2>1. \/ q = "tag" /\ t \in TagGrows(n)
        \/ q = "content" /\ t \in {"["}
        \/ q = "colon" /\ t \in {":"}
    BY <1>4 DEF Goes
  <2>2. /\ <<"tag", TagGrows(n), "tag">> \in BodyMoves(n)
        /\ <<"tag", {"["}, "content">> \in BodyMoves(n)
        /\ <<"tag", {":"}, "colon">> \in BodyMoves(n)
    BY DEF BodyMoves, TagGrows
  <2> QED
    BY <1>4, <1>m, <2>1, <2>2, Zenon
<1>5. CASE f \in {"content", "contentval"}
  <2>1. \/ q = "contentval" /\ t \in InContent(n)
        \/ q = "content_end" /\ t \in {"]"}
    BY <1>5 DEF Goes
  <2>2. /\ <<"content", InContent(n), "contentval">> \in BodyMoves(n)
        /\ <<"content", {"]"}, "content_end">> \in BodyMoves(n)
        /\ <<"contentval", InContent(n), "contentval">> \in BodyMoves(n)
        /\ <<"contentval", {"]"}, "content_end">> \in BodyMoves(n)
    BY DEF BodyMoves
  <2>3. f = "content" \/ f = "contentval"
    BY <1>5
  <2> QED
    BY <2>3, <1>m, <2>1, <2>2, Zenon
<1>6. CASE f \in {"content_end", "colon", "colon_sp", "mex"}
  <2>1. \/ f = "content_end" /\ q = "colon" /\ t \in {":"}
        \/ f = "colon" /\ q = "colon_sp" /\ t \in {" "}
        \/ f = "colon_sp" /\ q = "mex" /\ t \in Visible(n)
        \/ f = "mex" /\ q = "mex" /\ t \in Visible(n)
        \/ f = "mex" /\ q = "end" /\ t \in {"\n"}
    BY <1>6 DEF Goes
  <2>2. /\ <<"content_end", {":"}, "colon">> \in BodyMoves(n)
        /\ <<"colon", {" "}, "colon_sp">> \in BodyMoves(n)
        /\ <<"colon_sp", Visible(n), "mex">> \in BodyMoves(n)
        /\ <<"mex", Visible(n), "mex">> \in BodyMoves(n)
        /\ <<"mex", {"\n"}, "end">> \in BodyMoves(n)
    BY DEF BodyMoves
  <2> QED
    BY <1>m, <2>1, <2>2, Zenon
<1> QED
  BY <1>1, <1>2, <1>3, <1>4, <1>5, <1>6 DEF Goes

(* What is answered so far has the fields of an answer. *)
Outputs == {"priority", "msgcount", "sequence", "timestamp", "hostname", "tag", "content",
            "message"}
Answers(n) == /\ DOMAIN n.output = Outputs
              /\ n.output.hostname \in Seq(Tokens) /\ n.output.tag \in Seq(Tokens)
              /\ n.output.content \in Seq(Tokens)

(* Where a token moves the mark. *)
Marks(n, t) == \E f \in n.at : \E q : /\ Goes(n, f, t, q)
                                      /\ f = "content" \/ (q \in Marked /\ f # q)

(* What a token of the body does.                                           *)
LEMMA BodyMoved ==
    ASSUME NEW n, NEW t, n.at # {}
    PROVE  LET moves == Taken(n, t, BodyMoves(n))
           IN  /\ \A q : q \in To(moves) <=> \E f \in n.at : Goes(n, f, t, q)
               /\ Leaves(moves, {"hostname"}, {"hostname_sp"}) <=> "hostname" \in n.at /\ t = " "
               /\ Leaves(moves, {"tag"}, {"content", "colon"})
                     <=> "tag" \in n.at /\ t \in {"[", ":"}
               /\ (\E move \in moves : Begins(move)) <=> Marks(n, t)
<1> DEFINE moves == Taken(n, t, BodyMoves(n))
<1>1. \A move \in moves : move[1] \in n.at /\ Goes(n, move[1], t, move[3])
  <2>1. ASSUME NEW move \in moves PROVE move \in BodyMoves(n) /\ t \in move[2] /\ move[1] \in n.at
    BY DEF Taken
  <2> QED
    BY <2>1, BodyGoes
<1>2. ASSUME NEW f \in n.at, NEW q, Goes(n, f, t, q)
      PROVE  \E move \in moves : move[1] = f /\ move[3] = q
  BY <1>2, BodyHas DEF Taken
<1> HIDE DEF moves
<1>3. \A q : q \in To(moves) <=> \E f \in n.at : Goes(n, f, t, q)
  <2>1. ASSUME NEW q, q \in To(moves) PROVE \E f \in n.at : Goes(n, f, t, q)
    BY <1>1, <2>1 DEF To
  <2>2. ASSUME NEW q, NEW f \in n.at, Goes(n, f, t, q) PROVE q \in To(moves)
    BY <1>2, <2>2 DEF To
  <2> QED
    BY <2>1, <2>2
<1>4. ASSUME NEW F, NEW Q
      PROVE  Leaves(moves, F, Q) <=> \E f \in F \cap n.at : \E q \in Q : Goes(n, f, t, q)
  <2>1. ASSUME Leaves(moves, F, Q) PROVE \E f \in F \cap n.at : \E q \in Q : Goes(n, f, t, q)
    BY <1>1, <2>1 DEF Leaves
  <2>2. ASSUME NEW f \in F \cap n.at, NEW q \in Q, Goes(n, f, t, q) PROVE Leaves(moves, F, Q)
    <3>1. PICK move \in moves : move[1] = f /\ move[3] = q
      BY <1>2, <2>2
    <3> QED
      BY <3>1 DEF Leaves
  <2> QED
    BY <2>1, <2>2
<1>5. Leaves(moves, {"hostname"}, {"hostname_sp"}) <=> "hostname" \in n.at /\ t = " "
  <2>1. Goes(n, "hostname", t, "hostname_sp") <=> t = " "
    BY DEF Goes
  <2> DEFINE F == {"hostname"}
             Q == {"hostname_sp"}
  <2>2. /\ \A f : f \in F <=> f = "hostname"
        /\ \A q : q \in Q <=> q = "hostname_sp"
    OBVIOUS
  <2> HIDE DEF F, Q
  <2>3. Leaves(moves, F, Q) <=> \E f \in F \cap n.at : \E q \in Q : Goes(n, f, t, q)
    BY <1>4
  <2>4. Leaves(moves, F, Q) <=> "hostname" \in n.at /\ t = " "
    BY <2>1, <2>2, <2>3
  <2> QED
    BY <2>4 DEF F, Q
<1>6. Leaves(moves, {"tag"}, {"content", "colon"}) <=> "tag" \in n.at /\ t \in {"[", ":"}
  <2>1. /\ Goes(n, "tag", t, "content") <=> t = "["
        /\ Goes(n, "tag", t, "colon") <=> t = ":"
    BY DEF Goes
  <2> QED
    BY <1>4, <2>1
<1>7. (\E move \in moves : Begins(move)) <=> Marks(n, t)
  <2>0. ASSUME NEW f, NEW q, Goes(n, f, t, q) PROVE q # "counted"
    BY <2>0 DEF Goes
  <2>1. ASSUME NEW move \in moves, Begins(move) PROVE Marks(n, t)
    <3>1. move[1] \in n.at /\ Goes(n, move[1], t, move[3])
      BY <1>1
    <3>2. move[1] = "content" \/ (move[3] \in Marked /\ move[1] # move[3])
      BY <2>0, <2>1, <3>1 DEF Begins
    <3> QED
      BY <3>1, <3>2, Zenon DEF Marks
  <2>2. ASSUME Marks(n, t) PROVE \E move \in moves : Begins(move)
    <3>1. PICK f, q : /\ f \in n.at /\ Goes(n, f, t, q)
                      /\ f = "content" \/ (q \in Marked /\ f # q)
      BY <2>2, Zenon DEF Marks
    <3>2. PICK move \in moves : move[1] = f /\ move[3] = q
      BY <1>2, <3>1
    <3>3. Begins(move)
      BY <3>1, <3>2 DEF Begins
    <3> QED
      BY <3>3
  <2> QED
    BY <2>1, <2>2
<1> QED
  BY <1>3, <1>5, <1>6, <1>7 DEF moves

(* It is taken, and what ends with it is answered.                          *)
LEMMA BodyIs ==
    ASSUME NEW n, NEW t \in Tokens, DOMAIN n = Fields, n.cs = "body", n.at # {},
           n.data \in Seq(Tokens), n.pb \in 0..Len(n.data), Answers(n), body(n, t).cs = "body"
    PROVE  LET r == body(n, t)
               o == n.output
               x == IF Marks(n, t) THEN <<>> ELSE text(n)
           IN  /\ r.at # {} /\ \A q : q \in r.at <=> \E f \in n.at : Goes(n, f, t, q)
               /\ r.data = Append(n.data, t) /\ r.newline = n.newline
               /\ r.pb = IF Marks(n, t) THEN Len(n.data) ELSE n.pb
               /\ Answers(r)
               /\ r.output.hostname = IF "hostname" \in n.at /\ t = " " THEN text(n) ELSE o.hostname
               /\ r.output.tag = IF "tag" \in n.at /\ t \in {"[", ":"} THEN text(n) ELSE o.tag
               /\ r.output.content = IF "content_end" \in r.at THEN x ELSE o.content
               /\ "end" \in r.at => r.output.message = x
<1> DEFINE moves   == Taken(n, t, BodyMoves(n))
           host    == IF Leaves(moves, {"hostname"}, {"hostname_sp"}) THEN set_hostname(n) ELSE n
           tag     == IF Leaves(moves, {"tag"}, {"content", "colon"}) THEN Set(host, "tag") ELSE host
           marked  == IF \E move \in moves : Begins(move) THEN mark(tag) ELSE tag
           content == IF "content_end" \in To(moves) THEN Set(marked, "content") ELSE marked
           message == IF "end" \in To(moves) THEN Set(content, "message") ELSE content
           r == body(n, t)
           x == IF Marks(n, t) THEN <<>> ELSE text(n)
           Like(o, p) == /\ DOMAIN o = Fields /\ o.data = n.data /\ o.newline = n.newline
                         /\ o.cs = "body" /\ o.pb = p /\ DOMAIN o.output = Outputs
           Has(o, h, g, c) == o.output.hostname = h /\ o.output.tag = g /\ o.output.content = c
<1>1. r = IF moves = {} THEN body_error(n) ELSE [Take(message, t) EXCEPT !.at = To(moves)]
  BY Zenon DEF body
<1>2. moves # {}
  BY <1>1, BodyErrorAside
<1>3. /\ \A q : q \in To(moves) <=> \E f \in n.at : Goes(n, f, t, q)
      /\ Leaves(moves, {"hostname"}, {"hostname_sp"}) <=> "hostname" \in n.at /\ t = " "
      /\ Leaves(moves, {"tag"}, {"content", "colon"}) <=> "tag" \in n.at /\ t \in {"[", ":"}
      /\ (\E move \in moves : Begins(move)) <=> Marks(n, t)
  BY BodyMoved
<1>4. To(moves) # {}
  BY <1>2 DEF To
<1>5. text(n) \in Seq(Tokens) /\ x \in Seq(Tokens)
  BY DEF text
<1> HIDE DEF moves
<1> DEFINE h == IF "hostname" \in n.at /\ t = " " THEN text(n) ELSE n.output.hostname
           g == IF "tag" \in n.at /\ t \in {"[", ":"} THEN text(n) ELSE n.output.tag
           c == IF "content_end" \in To(moves) THEN x ELSE n.output.content
           p == IF Marks(n, t) THEN Len(n.data) ELSE n.pb
<1>6. h \in Seq(Tokens) /\ g \in Seq(Tokens) /\ c \in Seq(Tokens)
  BY <1>5 DEF Answers
<1>7. ASSUME NEW o, NEW k, Like(o, k)
      PROVE  text(o) = SubSeq(n.data, k + 1, Len(n.data))
  BY <1>7 DEF text
<1>8. Like(host, n.pb) /\ Has(host, h, n.output.tag, n.output.content)
  <2>1. CASE "hostname" \in n.at /\ t = " "
    <3>1. host = set_hostname(n)
      BY <1>3, <2>1
    <3> HIDE DEF host
    <3> QED
      BY <2>1, <3>1 DEF set_hostname, Answers, Fields, Outputs
  <2>2. CASE ~("hostname" \in n.at /\ t = " ")
    <3>1. host = n
      BY <1>3, <2>2
    <3> HIDE DEF host
    <3> QED
      BY <2>2, <3>1 DEF Answers
  <2> QED
    BY <2>1, <2>2
<1> HIDE DEF host, h
<1>9. text(host) = text(n)
  BY <1>7, <1>8 DEF text
<1>10. Like(tag, n.pb) /\ Has(tag, h, g, n.output.content)
  <2>1. CASE "tag" \in n.at /\ t \in {"[", ":"}
    <3>1. tag = Set(host, "tag")
      BY <1>3, <2>1
    <3>2. g = text(host)
      BY <2>1, <1>9
    <3> HIDE DEF tag, g
    <3> QED
      BY <1>8, <3>1, <3>2 DEF Set, Fields, Outputs
  <2>2. CASE ~("tag" \in n.at /\ t \in {"[", ":"})
    <3>1. tag = host /\ g = n.output.tag
      BY <1>3, <2>2
    <3> HIDE DEF tag, g
    <3> QED
      BY <1>8, <3>1
  <2> QED
    BY <2>1, <2>2
<1> HIDE DEF tag, g
<1>11. Like(marked, p) /\ Has(marked, h, g, n.output.content)
  <2>1. CASE Marks(n, t)
    <3>1. marked = mark(tag) /\ p = Len(tag.data)
      BY <1>3, <1>10, <2>1
    <3> HIDE DEF marked, p
    <3> QED
      BY <1>10, <3>1 DEF mark, Fields
  <2>2. CASE ~Marks(n, t)
    <3>1. marked = tag /\ p = n.pb
      BY <1>3, <2>2
    <3> HIDE DEF marked, p
    <3> QED
      BY <1>10, <3>1
  <2> QED
    BY <2>1, <2>2
<1>12. p \in 0..Len(n.data) /\ SubSeq(n.data, p + 1, Len(n.data)) = x
  <2>1. CASE Marks(n, t)
    BY <2>1
  <2>2. CASE ~Marks(n, t)
    BY <2>2 DEF text
  <2> QED
    BY <2>1, <2>2
<1> HIDE DEF marked, p, x
<1>13. text(marked) = x
  BY <1>7, <1>11, <1>12
<1>14. Like(content, p) /\ Has(content, h, g, c)
  <2>1. CASE "content_end" \in To(moves)
    <3>1. content = Set(marked, "content") /\ c = text(marked)
      BY <1>13, <2>1
    <3> HIDE DEF content, c
    <3> QED
      BY <1>11, <3>1 DEF Set, Fields, Outputs
  <2>2. CASE "content_end" \notin To(moves)
    <3>1. content = marked /\ c = n.output.content
      BY <2>2
    <3> HIDE DEF content, c
    <3> QED
      BY <1>11, <3>1
  <2> QED
    BY <2>1, <2>2
<1> HIDE DEF content, c
<1>15. text(content) = x
  BY <1>7, <1>12, <1>14
<1>16. /\ Like(message, p) /\ Has(message, h, g, c)
       /\ "end" \in To(moves) => message.output.message = x
  <2>1. CASE "end" \in To(moves)
    <3>1. message = Set(content, "message")
      BY <2>1
    <3> HIDE DEF message
    <3> QED
      BY <1>14, <1>15, <3>1 DEF Set, Fields, Outputs
  <2>2. CASE "end" \notin To(moves)
    BY <1>14, <2>2
  <2> QED
    BY <2>1, <2>2
<1> HIDE DEF message
<1>17. r = [Take(message, t) EXCEPT !.at = To(moves)]
  BY <1>1, <1>2
<1> HIDE DEF r
<1>18. /\ r.at = To(moves) /\ r.data = Append(n.data, t) /\ r.newline = n.newline
       /\ r.pb = p /\ r.output = message.output
  BY <1>16, <1>17 DEF Take, Fields
<1>19. Answers(r)
  BY <1>6, <1>16, <1>18 DEF Answers
<1>20. /\ r.output.hostname = h /\ r.output.tag = g /\ r.output.content = c
       /\ "end" \in r.at => r.output.message = x
  BY <1>16, <1>18
<1> HIDE DEF Like, Has
<1> QED
  BY <1>3, <1>4, <1>18, <1>19, <1>20, Zenon DEF r, h, g, c, p, x

-----------------------------------------------------------------------------
(* What may precede a tag: spaces, or a host name between some.             *)
Named(h, d) == \E i \in Nat : \E j \in Nat \ {0} : d = (Spaces(i) \o h) \o Spaces(j)
Lead(h, d)  == (\E i \in Nat : d = Spaces(i)) \/ Named(h, d)
(* What may precede the content of a tag, and what the message.             *)
Opened(h, g, d) == \E q : Lead(h, q) /\ d = q \o Append(g, "[")
Closed(c)       == Append(c, "]")
Coloned(y)      == Append(Append(y, ":"), " ")
Before(h, g, c, d) ==
    \/ Lead(h, d) \/ \E q : Lead(h, q) /\ d = q \o Coloned(g)
    \/ Opened(h, g, d) \/ \E q : Opened(h, g, q) /\ d = q \o Coloned(Closed(c))

(* A string of one token only. *)
LEMMA Repeated ==
    ASSUME NEW S, NEW e \in S, NEW k \in Nat
    PROVE  /\ [i \in 1..k |-> e] \in Seq(S) /\ Len([i \in 1..k |-> e]) = k
           /\ \A j \in 1..k : [i \in 1..k |-> e][j] = e
  OBVIOUS

(* So are spaces. *)
LEMMA SpacesAre ==
    ASSUME NEW k \in Nat
    PROVE  /\ Spaces(k) \in Seq(Tokens) /\ Len(Spaces(k)) = k
           /\ \A i \in 1..k : Spaces(k)[i] = " "
           /\ Append(Spaces(k), " ") = Spaces(k + 1)
           /\ Spaces(0) = <<>> /\ Spaces(1) = <<" ">>
<1> DEFINE e == " "
<1>1. e \in Tokens
  BY TokenKinds
<1>s. ASSUME NEW l \in Nat
      PROVE  Spaces(l) = [i \in 1..l |-> e]
  BY DEF Spaces
<1> HIDE DEF e
<1>2. ASSUME NEW l \in Nat
      PROVE  Spaces(l) \in Seq(Tokens) /\ Len(Spaces(l)) = l /\ \A i \in 1..l : Spaces(l)[i] = e
  BY <1>1, <1>s, Repeated
<1>3. Append(Spaces(k), e) = Spaces(k + 1)
  <2> DEFINE a == Append(Spaces(k), e)
             b == Spaces(k + 1)
  <2>1. b \in Seq(Tokens) /\ Len(b) = k + 1 /\ \A i \in 1..(k + 1) : b[i] = e
    BY <1>2
  <2>2. a \in Seq(Tokens) /\ Len(a) = k + 1 /\ \A i \in 1..(k + 1) : a[i] = e
    BY <1>1, <1>2
  <2> HIDE DEF a, b
  <2>3. a = b
    BY <2>1, <2>2, SeqEqual
  <2> QED
    BY <2>3 DEF a, b
<1>4. Spaces(0) = <<>>
  BY <1>2, EmptySeq
<1>5. Spaces(1) = <<e>>
  <2>1. Spaces(1) \in Seq(Tokens) /\ Len(Spaces(1)) = 1 /\ Spaces(1)[1] = e
    <3>1. 1 \in Nat /\ 1 \in 1..1
      OBVIOUS
    <3> QED
      BY <1>2, <3>1
  <2>2. <<e>> \in Seq(Tokens) /\ Len(<<e>>) = 1 /\ <<e>>[1] = e
    BY <1>1
  <2> QED
    BY <2>1, <2>2, SeqEqual
<1>6. Spaces(k) \in Seq(Tokens) /\ Len(Spaces(k)) = k /\ \A i \in 1..k : Spaces(k)[i] = e
  BY <1>2
<1> QED
  BY <1>3, <1>4, <1>5, <1>6, Zenon DEF e

(* One token more behind a string is one more behind its end.               *)
LEMMA AppendBehind ==
    ASSUME NEW b \in Seq(Tokens), NEW x \in Seq(Tokens), NEW t \in Tokens
    PROVE  Append(b \o x, t) = b \o Append(x, t)
<1> DEFINE p == Append(b \o x, t)
           q == b \o Append(x, t)
<1>1. p \in Seq(Tokens) /\ q \in Seq(Tokens) /\ Len(p) = Len(q)
  OBVIOUS
<1>2. \A i \in 1..Len(p) : p[i] = q[i]
  OBVIOUS
<1> HIDE DEF p, q
<1>3. p = q
  BY <1>1, <1>2, SeqEqual
<1> QED
  BY <1>3 DEF p, q

(* Such strings are strings, and spaces may follow a host name. *)
LEMMA LeadIs ==
    ASSUME NEW h \in Seq(Tokens)
    PROVE  /\ \A d : Lead(h, d) => d \in Seq(Tokens)
           /\ \A i \in Nat : Lead(h, Spaces(i))
           /\ \A d : Named(h, d) => Lead(h, d) /\ Named(h, Append(d, " "))
           /\ \A i \in Nat : Named(h, Append(Spaces(i) \o h, " "))
<1> DEFINE e == " "
<1>0. e \in Tokens
  BY TokenKinds
<1>1. \A i \in Nat : Spaces(i) \in Seq(Tokens) /\ Append(Spaces(i), e) = Spaces(i + 1)
  BY SpacesAre
<1>s. Spaces(1) = <<e>>
  BY SpacesAre
<1> HIDE DEF e
<1>2. ASSUME NEW d, Named(h, d)
      PROVE  d \in Seq(Tokens) /\ Named(h, Append(d, e))
  <2>1. PICK i \in Nat, j \in Nat \ {0} : d = (Spaces(i) \o h) \o Spaces(j)
    BY <1>2, Zenon DEF Named
  <2>0. j \in Nat /\ j + 1 \in Nat \ {0}
    OBVIOUS
  <2> DEFINE p == Spaces(i) \o h
  <2>2. p \in Seq(Tokens) /\ Spaces(j) \in Seq(Tokens)
    BY <1>1, <2>0, ConcatProperties, Zenon
  <2> HIDE DEF p
  <2>3. Append(p \o Spaces(j), e) = p \o Append(Spaces(j), e)
    <3> DEFINE s == Spaces(j)
    <3>1. s \in Seq(Tokens)
      BY <2>2
    <3> HIDE DEF s
    <3>2. Append(p \o s, e) = p \o Append(s, e)
      BY <1>0, <2>2, <3>1, AppendBehind
    <3> QED
      BY <3>2 DEF s
  <2>4. Append(Spaces(j), e) = Spaces(j + 1) /\ j + 1 \in Nat \ {0}
    BY <1>1, <2>0, Zenon
  <2>5. Named(h, Append(d, e))
    BY <2>1, <2>3, <2>4, Zenon DEF Named, p
  <2>6. d \in Seq(Tokens)
    BY <2>1, <2>2, ConcatProperties, Zenon DEF p
  <2> QED
    BY <2>5, <2>6
<1>3. ASSUME NEW i \in Nat PROVE Named(h, Append(Spaces(i) \o h, e))
  <2>1. Spaces(i) \o h \in Seq(Tokens)
    BY <1>1
  <2>2. Append(Spaces(i) \o h, e) = (Spaces(i) \o h) \o Spaces(1)
    BY <1>0, <1>s, <2>1, AppendIsConcat, Zenon
  <2>3. 1 \in Nat \ {0}
    OBVIOUS
  <2> QED
    BY <2>2, <2>3, Zenon DEF Named
<1>4. \A d : Lead(h, d) => d \in Seq(Tokens)
  BY <1>1, <1>2, Zenon DEF Lead
<1>5. \A i \in Nat : Lead(h, Spaces(i))
  BY Zenon DEF Lead
<1> QED
  BY <1>2, <1>3, <1>4, <1>5, Zenon DEF Lead, e

(* What precedes the tag, or what opens its content, may precede the        *)
(* message.                                                                 *)
LEMMA BeforesAre ==
    ASSUME NEW h, NEW g, NEW c
    PROVE  /\ \A q : Lead(h, q) => /\ Before(h, g, c, q) /\ Opened(h, g, q \o Append(g, "["))
                                   /\ Before(h, g, c, q \o Coloned(g))
           /\ \A q : Opened(h, g, q) => /\ Before(h, g, c, q)
                                        /\ Before(h, g, c, q \o Coloned(Closed(c)))
  BY Zenon DEF Before, Opened

-----------------------------------------------------------------------------
(* No alternative has passed over anything that is not answered. *)
before(n) == SubSeq(n.data, 1, n.pb)
InTag     == {"tag", "content", "contentval", "content_end", "colon", "colon_sp"}
InsideTag == {"content", "contentval", "content_end"}

(* The first word is all that was read, but for the spaces before it; and   *)
(* there is a '[' in the first word.                                        *)
FirstWord(d, i) == i <= Len(d) /\ \A k \in DOMAIN d : d[k] = " " <=> k <= i
Bracketed(d) == \E k \in DOMAIN d : /\ d[k] = "["
                                    /\ \A i, j \in 1..k : i < j /\ d[j] = " " => d[i] = " "

(* What precedes the mark, b, and what was read since, x, at a place. *)
TagAt(f, h, g, c, b, x) ==
    /\ f = "tag" => Lead(h, b)
    /\ f = "content" => Lead(h, b) /\ x = Append(g, "[")
    /\ f = "contentval" => Opened(h, g, b)
    /\ f = "content_end" => Opened(h, g, b) /\ x = Closed(c)
    /\ f = "colon" => \/ Lead(h, b) /\ x = Append(g, ":")
                      \/ Opened(h, g, b) /\ x = Append(Closed(c), ":")
    /\ f = "colon_sp" => \/ Lead(h, b) /\ x = Coloned(g)
                         \/ Opened(h, g, b) /\ x = Coloned(Closed(c))
HostAt(at, b, d) ==
    /\ at \cap {"colon", "colon_sp", "hostname_sp"} = {}
    /\ \E i \in Nat : FirstWord(d, i) /\ (b = Spaces(i) \/ Bracketed(d))
    /\ at \cap InsideTag # {} => Bracketed(d)

InWord(n) ==
    LET o == n.output
        b == before(n)
    IN  /\ Before(o.hostname, o.tag, o.content, b)
        /\ \A f, e \in n.at \cap InTag : f = e
        /\ "hostname" \in n.at => HostAt(n.at, b, n.data)
        /\ "hostname_sp" \in n.at => n.at \cap InTag = {} /\ Named(o.hostname, n.data)
        /\ \A f \in n.at : TagAt(f, o.hostname, o.tag, o.content, b, text(n))

(* The one exception: a host name with a '[' in it.                         *)
Broken(n) == n.output.hostname # <<>> /\ Bracketed(n.data)

Kept(n) ==
    \/ /\ n.at = {"sp"} /\ n.data = <<>> /\ n.pb = 0
    \/ /\ n.at = {"sp", "mex"} /\ text(n) = <<" ">>
       /\ \E i \in Nat : before(n) = Spaces(i) /\ n.data = Spaces(i + 1)
    \/ /\ "mex" \in n.at /\ "sp" \notin n.at /\ text(n) # <<>> /\ ("end" \in n.at => n.newline)
       /\ InWord(n) \/ ("hostname" \notin n.at /\ Broken(n))
    \/ /\ n.at = {"end"} /\ ~n.newline
       /\ \E b : /\ n.data = Append(b \o n.output.message, "\n")
                 /\ b \in Seq(Tokens) /\ n.output.message \in Seq(Tokens) \ {<<>>}
                 /\ \/ Before(n.output.hostname, n.output.tag, n.output.content, b)
                    \/ Broken(n)

(* One token takes n to r. *)
Turned(n, t, r) ==
    /\ Answers(n) /\ Answers(r) /\ t \in Tokens
    /\ n.data \in Seq(Tokens) /\ before(n) \in Seq(Tokens) /\ text(n) \in Seq(Tokens)
    /\ n.data = before(n) \o text(n)
    /\ r.at # {} /\ \A q : q \in r.at <=> \E f \in n.at : Goes(n, f, t, q)
    /\ r.data = Append(n.data, t) /\ r.newline = n.newline
    /\ before(r) = IF Marks(n, t) THEN n.data ELSE before(n)
    /\ text(r) = Append(IF Marks(n, t) THEN <<>> ELSE text(n), t)
    /\ r.output.hostname = IF "hostname" \in n.at /\ t = " " THEN text(n) ELSE n.output.hostname
    /\ r.output.tag = IF "tag" \in n.at /\ t \in {"[", ":"} THEN text(n) ELSE n.output.tag
    /\ r.output.content = IF "content_end" \in r.at THEN IF Marks(n, t) THEN <<>> ELSE text(n)
                          ELSE n.output.content
    /\ "end" \in r.at => r.output.message = IF Marks(n, t) THEN <<>> ELSE text(n)

(* What was read is what precedes the mark and what follows it.             *)
LEMMA TextBehind ==
    ASSUME NEW n, n.data \in Seq(Tokens), n.pb \in 0..Len(n.data)
    PROVE  before(n) \in Seq(Tokens) /\ text(n) \in Seq(Tokens) /\ n.data = before(n) \o text(n)
<1> DEFINE d == n.data
           l == Len(d)
           p == n.pb
<1>2. before(n) = SubSeq(d, 1, p) /\ text(n) = SubSeq(d, p + 1, l)
  BY DEF before, text
<1>3. before(n) \in Seq(Tokens) /\ text(n) \in Seq(Tokens) /\ d = before(n) \o text(n)
  <2> DEFINE u == SubSeq(d, 1, p)
             v == SubSeq(d, p + 1, l)
  <2>1. /\ u \in Seq(Tokens) /\ v \in Seq(Tokens) /\ Len(u) = p /\ Len(v) = l - p
        /\ \A i \in 1..p : u[i] = d[i]
        /\ \A i \in 1..(l - p) : v[i] = d[p + i]
    <3> SUFFICES ASSUME NEW s \in Seq(Tokens), NEW k \in 0..Len(s)
                 PROVE  /\ SubSeq(s, 1, k) \in Seq(Tokens) /\ Len(SubSeq(s, 1, k)) = k
                        /\ SubSeq(s, k + 1, Len(s)) \in Seq(Tokens)
                        /\ Len(SubSeq(s, k + 1, Len(s))) = Len(s) - k
                        /\ \A i \in 1..k : SubSeq(s, 1, k)[i] = s[i]
                        /\ \A i \in 1..(Len(s) - k) : SubSeq(s, k + 1, Len(s))[i] = s[k + i]
      OBVIOUS
    <3> QED
      OBVIOUS
  <2>2. u \o v \in Seq(Tokens) /\ Len(u \o v) = l /\ d \in Seq(Tokens)
    <3>1. p \in Nat /\ l \in Nat /\ p + (l - p) = l
      OBVIOUS
    <3> HIDE DEF u, v, p, l
    <3> QED
      BY <2>1, <3>1
  <2>3. \A i \in 1..l : (u \o v)[i] = d[i]
    <3> HIDE DEF u, v
    <3> QED
      BY <2>1
  <2> HIDE DEF u, v, d
  <2>4. d = u \o v
    BY <2>2, <2>3, SeqEqual DEF l
  <2> QED
    BY <1>2, <2>1, <2>4 DEF u, v, l
<1> QED
  BY <1>3

(* It is what body does. *)
LEMMA BodyTurns ==
    ASSUME NEW n, NEW t \in Tokens, DOMAIN n = Fields, n.cs = "body", n.at # {},
           n.data \in Seq(Tokens), n.pb \in 0..Len(n.data), Answers(n), body(n, t).cs = "body"
    PROVE  Turned(n, t, body(n, t))
<1> DEFINE r == body(n, t)
           x == IF Marks(n, t) THEN <<>> ELSE text(n)
           d == n.data
           l == Len(d)
           p == n.pb
<1>1. /\ r.at # {} /\ \A q : q \in r.at <=> \E f \in n.at : Goes(n, f, t, q)
      /\ r.data = Append(n.data, t) /\ r.newline = n.newline
      /\ r.pb = IF Marks(n, t) THEN Len(n.data) ELSE n.pb
      /\ Answers(r)
      /\ r.output.hostname = IF "hostname" \in n.at /\ t = " " THEN text(n) ELSE n.output.hostname
      /\ r.output.tag = IF "tag" \in n.at /\ t \in {"[", ":"} THEN text(n) ELSE n.output.tag
      /\ r.output.content = IF "content_end" \in r.at THEN x ELSE n.output.content
      /\ "end" \in r.at => r.output.message = x
  BY BodyIs
<1> SUFFICES Turned(n, t, r)
  OBVIOUS
<1> HIDE DEF r
<1>2. before(n) = SubSeq(d, 1, p) /\ text(n) = SubSeq(d, p + 1, l)
  BY DEF before, text
<1>3. before(n) \in Seq(Tokens) /\ text(n) \in Seq(Tokens) /\ d = before(n) \o text(n)
  BY TextBehind
<1>4. ASSUME NEW k \in 0..l
      PROVE  /\ SubSeq(Append(d, t), 1, k) = SubSeq(d, 1, k)
             /\ SubSeq(Append(d, t), k + 1, l + 1) = Append(SubSeq(d, k + 1, l), t)
  <2> DEFINE a == Append(d, t)
             u == SubSeq(a, k + 1, l + 1)
             v == Append(SubSeq(d, k + 1, l), t)
             y == SubSeq(a, 1, k)
             z == SubSeq(d, 1, k)
  <2>0. a \in Seq(Tokens) /\ Len(a) = l + 1 /\ \A i \in 1..l : a[i] = d[i]
    OBVIOUS
  <2>9. a[l + 1] = t
    OBVIOUS
  <2>1. y \in Seq(Tokens) /\ z \in Seq(Tokens) /\ Len(y) = k /\ Len(z) = k
        /\ \A i \in 1..k : y[i] = z[i]
    <3> HIDE DEF a
    <3> QED
      BY <2>0
  <2>2. /\ u \in Seq(Tokens) /\ Len(u) = (l + 1) - k
        /\ \A i \in 1..((l + 1) - k) : u[i] = a[k + i]
    <3> HIDE DEF a
    <3> QED
      BY <2>0
  <2>3. /\ v \in Seq(Tokens) /\ Len(v) = (l + 1) - k
        /\ \A i \in 1..(l - k) : v[i] = d[k + i]
        /\ v[(l + 1) - k] = t
    <3> DEFINE w == SubSeq(d, k + 1, l)
    <3>1. w \in Seq(Tokens) /\ Len(w) = l - k /\ \A i \in 1..(l - k) : w[i] = d[k + i]
      OBVIOUS
    <3>2. (l - k) + 1 = (l + 1) - k
      OBVIOUS
    <3> HIDE DEF w, l
    <3> QED
      BY <3>1, <3>2 DEF w
  <2>4. \A i \in 1..((l + 1) - k) : u[i] = v[i]
    <3> SUFFICES ASSUME NEW i \in 1..((l + 1) - k) PROVE u[i] = v[i]
      OBVIOUS
    <3>1. CASE i = (l + 1) - k
      <4>1. k + i = l + 1
        BY <3>1
      <4> HIDE DEF u, v, a, l
      <4> QED
        BY <2>2, <2>3, <2>9, <3>1, <4>1
    <3>2. CASE i # (l + 1) - k
      <4>1. i \in 1..(l - k) /\ k + i \in 1..l
        BY <3>2
      <4> HIDE DEF u, v, a, l
      <4> QED
        BY <2>0, <2>2, <2>3, <4>1
    <3> QED
      BY <3>1, <3>2
  <2> HIDE DEF u, v, y, z, l, a
  <2>5. y = z
    BY <2>1, SeqEqual
  <2>6. u = v
    BY <2>2, <2>3, <2>4, SeqEqual
  <2> QED
    BY <2>5, <2>6 DEF u, v, y, z, a
<1>5. Len(r.data) = l + 1 /\ l \in Nat
  <2>1. Len(Append(d, t)) = l + 1 /\ l \in Nat
    OBVIOUS
  <2> QED
    BY <1>1, <2>1
<1>6. CASE Marks(n, t)
  <2>1. SubSeq(d, 1, l) = d /\ SubSeq(d, l + 1, l) = <<>>
    OBVIOUS
  <2>2. l \in 0..l
    BY <1>5
  <2>3. before(r) = SubSeq(Append(d, t), 1, l) /\ text(r) = SubSeq(Append(d, t), l + 1, l + 1)
    BY <1>1, <1>5, <1>6 DEF before, text
  <2>4. before(r) = d /\ text(r) = Append(<<>>, t)
    BY <1>4, <2>1, <2>2, <2>3
  <2> QED
    BY <1>1, <1>3, <1>6, <2>4 DEF Turned, x
<1>7. CASE ~Marks(n, t)
  <2>3. before(r) = SubSeq(Append(d, t), 1, p) /\ text(r) = SubSeq(Append(d, t), p + 1, l + 1)
    BY <1>1, <1>5, <1>7 DEF before, text
  <2>4. before(r) = before(n) /\ text(r) = Append(text(n), t)
    BY <1>2, <1>4, <2>3
  <2> QED
    BY <1>1, <1>3, <1>7, <2>4 DEF Turned, x
<1> QED
  BY <1>6, <1>7

(* The places behind a token, one by one. *)
LEMMA PlacesBehind ==
    ASSUME NEW n, NEW t, NEW r, Turned(n, t, r), "sp" \notin n.at
    PROVE  /\ "hostname" \in r.at <=> "hostname" \in n.at /\ t \in HostChars
           /\ "hostname_sp" \in r.at
                 <=> ("hostname" \in n.at \/ "hostname_sp" \in n.at) /\ t = " "
           /\ "tag" \in r.at <=> \/ "hostname_sp" \in n.at /\ t \in TagChars
                                 \/ "tag" \in n.at /\ t \in TagGrows(n)
           /\ "content" \in r.at <=> "tag" \in n.at /\ t = "["
           /\ "contentval" \in r.at
                 <=> ("content" \in n.at \/ "contentval" \in n.at) /\ t \in InContent(n)
           /\ "content_end" \in r.at
                 <=> ("content" \in n.at \/ "contentval" \in n.at) /\ t = "]"
           /\ "colon" \in r.at <=> ("tag" \in n.at \/ "content_end" \in n.at) /\ t = ":"
           /\ "colon_sp" \in r.at <=> "colon" \in n.at /\ t = " "
<1>1. \A q : q \in r.at <=> \E f \in n.at : Goes(n, f, t, q)
  BY DEF Turned
<1>2. \A f : f # "sp" =>
         /\ Goes(n, f, t, "hostname") <=> f = "hostname" /\ t \in HostChars
         /\ Goes(n, f, t, "hostname_sp") <=> (f = "hostname" \/ f = "hostname_sp") /\ t = " "
         /\ Goes(n, f, t, "tag") <=> \/ f = "hostname_sp" /\ t \in TagChars
                                     \/ f = "tag" /\ t \in TagGrows(n)
         /\ Goes(n, f, t, "content") <=> f = "tag" /\ t = "["
  BY DEF Goes
<1>3. \A f :
         /\ Goes(n, f, t, "contentval")
               <=> (f = "content" \/ f = "contentval") /\ t \in InContent(n)
         /\ Goes(n, f, t, "content_end") <=> (f = "content" \/ f = "contentval") /\ t = "]"
         /\ Goes(n, f, t, "colon") <=> (f = "tag" \/ f = "content_end") /\ t = ":"
         /\ Goes(n, f, t, "colon_sp") <=> f = "colon" /\ t = " "
  BY DEF Goes
<1>4. \A f \in n.at : f # "sp"
  OBVIOUS
<1>5. "hostname" \in r.at <=> "hostname" \in n.at /\ t \in HostChars
  <2>1. "hostname" \in r.at <=> \E f \in n.at : Goes(n, f, t, "hostname")
    BY <1>1, Zenon
  <2> QED
    BY <1>2, <1>4, <2>1
<1>6. "hostname_sp" \in r.at <=> ("hostname" \in n.at \/ "hostname_sp" \in n.at) /\ t = " "
  <2>1. "hostname_sp" \in r.at <=> \E f \in n.at : Goes(n, f, t, "hostname_sp")
    BY <1>1, Zenon
  <2> QED
    BY <1>2, <1>4, <2>1
<1>7. "tag" \in r.at <=> \/ "hostname_sp" \in n.at /\ t \in TagChars
                         \/ "tag" \in n.at /\ t \in TagGrows(n)
  <2>1. "tag" \in r.at <=> \E f \in n.at : Goes(n, f, t, "tag")
    BY <1>1, Zenon
  <2> QED
    BY <1>2, <1>4, <2>1
<1>8. "content" \in r.at <=> "tag" \in n.at /\ t = "["
  <2>1. "content" \in r.at <=> \E f \in n.at : Goes(n, f, t, "content")
    BY <1>1, Zenon
  <2> QED
    BY <1>2, <1>4, <2>1
<1>9. "contentval" \in r.at <=> ("content" \in n.at \/ "contentval" \in n.at) /\ t \in InContent(n)
  <2>1. "contentval" \in r.at <=> \E f \in n.at : Goes(n, f, t, "contentval")
    BY <1>1, Zenon
  <2> QED
    BY <1>3, <1>4, <2>1
<1>10. "content_end" \in r.at <=> ("content" \in n.at \/ "contentval" \in n.at) /\ t = "]"
  <2>1. "content_end" \in r.at <=> \E f \in n.at : Goes(n, f, t, "content_end")
    BY <1>1, Zenon
  <2> QED
    BY <1>3, <1>4, <2>1
<1>11. "colon" \in r.at <=> ("tag" \in n.at \/ "content_end" \in n.at) /\ t = ":"
  <2>1. "colon" \in r.at <=> \E f \in n.at : Goes(n, f, t, "colon")
    BY <1>1, Zenon
  <2> QED
    BY <1>3, <1>4, <2>1
<1>12. "colon_sp" \in r.at <=> "colon" \in n.at /\ t = " "
  <2>1. "colon_sp" \in r.at <=> \E f \in n.at : Goes(n, f, t, "colon_sp")
    BY <1>1, Zenon
  <2> QED
    BY <1>3, <1>4, <2>1
<1> QED
  BY <1>5, <1>6, <1>7, <1>8, <1>9, <1>10, <1>11, <1>12, Zenon

(* Where the mark is moved. *)
LEMMA MarksWhere ==
    ASSUME NEW n, NEW t, "sp" \notin n.at
    PROVE  Marks(n, t) <=> \/ "hostname_sp" \in n.at /\ t \in Visible(n)
                           \/ "content" \in n.at /\ t \in InContent(n) \cup {"]"}
                           \/ "colon_sp" \in n.at /\ t \in Visible(n)
<1>1. ASSUME NEW f, NEW q, f # "sp"
      PROVE  Goes(n, f, t, q) /\ (f = "content" \/ (q \in Marked /\ f # q))
                => \/ f = "hostname_sp" /\ t \in Visible(n)
                   \/ f = "content" /\ t \in InContent(n) \cup {"]"}
                   \/ f = "colon_sp" /\ t \in Visible(n)
  <2>1. TagChars \subseteq Visible(n)
    BY VisibleKinds
  <2>2. {"hostname_sp", "content", "colon", "colon_sp", "content_end", "end"} \cap Marked = {}
    BY DEF Marked
  <2> QED
    BY <1>1, <2>1, <2>2 DEF Goes
<1>2. /\ t \in Visible(n) => Goes(n, "hostname_sp", t, "mex") /\ Goes(n, "colon_sp", t, "mex")
      /\ t \in InContent(n) => Goes(n, "content", t, "contentval")
      /\ t = "]" => Goes(n, "content", t, "content_end")
  BY DEF Goes
<1>3. "mex" \in Marked
  BY DEF Marked
<1>4. ASSUME Marks(n, t)
      PROVE  \/ "hostname_sp" \in n.at /\ t \in Visible(n)
             \/ "content" \in n.at /\ t \in InContent(n) \cup {"]"}
             \/ "colon_sp" \in n.at /\ t \in Visible(n)
  <2>1. PICK f, q : /\ f \in n.at /\ Goes(n, f, t, q)
                    /\ f = "content" \/ (q \in Marked /\ f # q)
    BY <1>4, Zenon DEF Marks
  <2>2. f # "sp"
    BY <2>1
  <2> QED
    BY <1>1, <2>1, <2>2
<1>5. "hostname_sp" \in n.at /\ t \in Visible(n) => Marks(n, t)
  <2>1. "hostname_sp" # "mex"
    OBVIOUS
  <2> QED
    BY <1>2, <1>3, <2>1, Zenon DEF Marks
<1>6. "colon_sp" \in n.at /\ t \in Visible(n) => Marks(n, t)
  <2>1. "colon_sp" # "mex"
    OBVIOUS
  <2> QED
    BY <1>2, <1>3, <2>1, Zenon DEF Marks
<1>7. "content" \in n.at /\ t \in InContent(n) => Marks(n, t)
  BY <1>2, Zenon DEF Marks
<1>8. "content" \in n.at /\ t = "]" => Marks(n, t)
  BY <1>2, Zenon DEF Marks
<1> QED
  BY <1>4, <1>5, <1>6, <1>7, <1>8

(* The message goes on, or a '\n' ends it. *)
LEMMA GoesOn ==
    ASSUME NEW n, NEW t, NEW r, Turned(n, t, r), "sp" \notin n.at, "mex" \in n.at
    PROVE  /\ "sp" \notin r.at /\ ("end" \in r.at => t = "\n")
           /\ \/ t \in Visible(n) /\ "mex" \in r.at
              \/ t = "\n" /\ ~n.newline /\ r.at = {"end"} /\ ~Marks(n, t)
<1>1. \A q : q \in r.at <=> \E f \in n.at : Goes(n, f, t, q)
  BY DEF Turned
<1>2. \A f : /\ Goes(n, f, t, "end") => t = "\n"
             /\ Goes(n, f, t, "sp") => f = "sp"
             /\ Goes(n, "mex", t, "mex") <=> t \in Visible(n)
  BY DEF Goes
<1>3. ASSUME NEW f \in n.at, NEW q, Goes(n, f, t, q)
      PROVE  t \in Visible(n) \/ (q = "end" /\ t = "\n")
  <2>1. /\ HostChars \subseteq Visible(n) /\ TagChars \subseteq Visible(n)
        /\ {" ", ":", "[", "]"} \subseteq Visible(n) /\ InContent(n) \subseteq Visible(n)
        /\ TagGrows(n) \subseteq TagChars
    BY VisibleKinds DEF TagGrows
  <2>2. f # "sp"
    BY <2>1
  <2> QED
    BY <1>3, <2>1, <2>2 DEF Goes
<1>4. CASE t \in Visible(n)
  BY <1>1, <1>2, <1>4
<1>5. CASE t \notin Visible(n)
  <2>1. r.at = {"end"} /\ t = "\n"
    <3>1. r.at # {}
      BY DEF Turned
    <3> QED
      BY <1>1, <1>3, <1>5, <3>1
  <2>2. n.newline => "\n" \in Visible(n)
    BY DEF Visible
  <2>3. ~Marks(n, t)
    <3>1. InContent(n) \cup {"]"} \subseteq Visible(n)
      BY VisibleKinds
    <3> QED
      BY <1>5, <3>1, MarksWhere
  <2> QED
    BY <1>5, <2>1, <2>2, <2>3
<1> QED
  BY <1>1, <1>2, <1>4, <1>5

(* What the places tell apart. *)
LEMMA TokensApart ==
    ASSUME NEW n
    PROVE  /\ " " \notin HostChars /\ ":" \notin HostChars /\ "\n" \notin HostChars
           /\ TagChars \subseteq HostChars /\ "[" \notin TagChars /\ "[" \in HostChars
           /\ "[" \notin InContent(n) /\ "]" \notin InContent(n) /\ InContent(n) \subseteq Visible(n)
           /\ TagGrows(n) \subseteq TagChars
<1>1. /\ " " \notin HostChars /\ ":" \notin HostChars /\ "[" \in HostChars
      /\ "\n" \notin HostChars
  BY DEF HostChars, MonthNames, Digits, TwoDigits, Dates
<1>2. TagChars \subseteq HostChars /\ "[" \notin TagChars /\ TagGrows(n) \subseteq TagChars
  BY DEF TagChars, TagGrows
<1>3. "[" \notin InContent(n) /\ "]" \notin InContent(n) /\ InContent(n) \subseteq Visible(n)
  BY DEF InContent
<1> QED
  BY <1>1, <1>2, <1>3

(* More tokens: what was a first word is one still, and so is its '['.      *)
LEMMA WordGrows ==
    ASSUME NEW d \in Seq(Tokens), NEW t \in Tokens
    PROVE  /\ Bracketed(d) => Bracketed(Append(d, t))
           /\ \A i \in Nat : FirstWord(d, i) /\ t # " " => FirstWord(Append(d, t), i)
           /\ \A i \in Nat : FirstWord(d, i) /\ t = "[" => Bracketed(Append(d, t))
<1> DEFINE a == Append(d, t)
           l == Len(d)
<1>1. /\ a \in Seq(Tokens) /\ Len(a) = l + 1 /\ a[l + 1] = t /\ l \in Nat
      /\ \A k \in 1..l : a[k] = d[k]
      /\ DOMAIN a = 1..(l + 1) /\ DOMAIN d = 1..l
  OBVIOUS
<1>n. /\ l \in Nat
      /\ \A k \in 1..(l + 1) : k # l + 1 => k \in 1..l
      /\ \A k \in 1..l : k \in 1..(l + 1) /\ \A i \in 1..k : i \in 1..l
      /\ \A i, j \in 1..(l + 1) : i < j => i \in 1..l
      /\ \A i, j \in 1..(l + 1) : \A k \in Nat : i < j /\ j <= k => i <= k
      /\ l + 1 \in 1..(l + 1)
  OBVIOUS
<1> HIDE DEF a, l
<1>2. ASSUME Bracketed(d) PROVE Bracketed(a)
  <2>1. PICK k \in DOMAIN d : /\ d[k] = "["
                              /\ \A i, j \in 1..k : i < j /\ d[j] = " " => d[i] = " "
    BY <1>2 DEF Bracketed
  <2>0. k \in 1..l /\ k \in 1..(l + 1)
    BY <1>1, <1>n, <2>1, Zenon
  <2>2. k \in DOMAIN a /\ a[k] = "["
    BY <1>1, <2>0, <2>1, Zenon
  <2>3. ASSUME NEW i \in 1..k, NEW j \in 1..k, i < j, a[j] = " " PROVE a[i] = " "
    <3>1. i \in 1..l /\ j \in 1..l
      BY <1>n, <2>0, Zenon
    <3> QED
      BY <1>1, <2>1, <2>3, <3>1, Zenon
  <2> QED
    BY <2>2, <2>3 DEF Bracketed
<1>3. ASSUME NEW i \in Nat, FirstWord(d, i), t # " " PROVE FirstWord(a, i)
  <2>1. i <= l /\ \A k \in 1..l : d[k] = " " <=> k <= i
    BY <1>1, <1>3 DEF FirstWord, l
  <2>2. ASSUME NEW k \in 1..(l + 1) PROVE a[k] = " " <=> k <= i
    <3>1. CASE k = l + 1
      <4>0. i <= l /\ l \in Nat
        BY <1>n, <2>1, Zenon
      <4>1. ~(k <= i)
        BY <3>1, <4>0
      <4>2. a[k] = t
        BY <1>1, <3>1, Zenon
      <4> QED
        BY <1>3, <4>1, <4>2, Zenon
    <3>2. CASE k # l + 1
      <4>1. k \in 1..l
        BY <1>n, <3>2, Zenon
      <4> QED
        BY <1>1, <2>1, <4>1, Zenon
    <3> QED
      BY <3>1, <3>2
  <2>3. i <= l + 1
    <3>1. i <= l /\ l \in Nat
      BY <1>n, <2>1, Zenon
    <3> QED
      BY <3>1
  <2> QED
    BY <1>1, <2>2, <2>3, Zenon DEF FirstWord
<1>4. ASSUME NEW i \in Nat, FirstWord(d, i), t = "[" PROVE Bracketed(a)
  <2>1. i <= l /\ \A k \in 1..l : d[k] = " " <=> k <= i
    BY <1>1, <1>4 DEF FirstWord, l
  <2>2. l + 1 \in DOMAIN a /\ a[l + 1] = "["
    BY <1>1, <1>4
  <2>3. ASSUME NEW f \in 1..(l + 1), NEW j \in 1..(l + 1), f < j, a[j] = " " PROVE a[f] = " "
    <3>1. f \in 1..l
      BY <1>n, <2>3, Zenon
    <3>2. j # l + 1
      <4>1. a[l + 1] # " "
        BY <1>1, <1>4
      <4> QED
        BY <2>3, <4>1, Zenon
    <3>3. j \in 1..l
      BY <1>n, <3>2, Zenon
    <3>4. j <= i
      BY <1>1, <2>1, <2>3, <3>3, Zenon
    <3>5. f <= i
      BY <1>n, <2>3, <3>4, Zenon
    <3> QED
      BY <1>1, <2>1, <3>1, <3>5, Zenon
  <2> QED
    BY <2>2, <2>3, Zenon DEF Bracketed
<1> QED
  BY <1>2, <1>3, <1>4 DEF a

(* While the host name may go on the first word does.                       *)
LEMMA HostGoesOn ==
    ASSUME NEW n, NEW t, NEW r, Turned(n, t, r), "sp" \notin n.at, InWord(n), "hostname" \in r.at
    PROVE  HostAt(r.at, before(r), r.data)
<1>1. "hostname" \in n.at /\ t \in HostChars
  BY PlacesBehind
<1>2. t # " " /\ t # ":" /\ t \in Tokens /\ n.data \in Seq(Tokens) /\ r.data = Append(n.data, t)
  BY <1>1, TokensApart DEF Turned
<1>3. HostAt(n.at, before(n), n.data)
  BY <1>1 DEF InWord
<1>4. r.at \cap {"colon", "colon_sp", "hostname_sp"} = {}
  <2>1. "colon" \notin r.at
    BY <1>2, PlacesBehind, Zenon
  <2>2. "colon_sp" \notin r.at
    BY <1>2, PlacesBehind, Zenon
  <2>3. "hostname_sp" \notin r.at
    BY <1>2, PlacesBehind, Zenon
  <2> QED
    BY <2>1, <2>2, <2>3
<1>5. PICK i \in Nat : FirstWord(n.data, i) /\ (before(n) = Spaces(i) \/ Bracketed(n.data))
  BY <1>3 DEF HostAt
<1>6. FirstWord(r.data, i)
  BY <1>2, <1>5, WordGrows
<1>7. before(r) = Spaces(i) \/ Bracketed(r.data)
  <2>1. CASE Marks(n, t)
    <3>1. "hostname_sp" \notin n.at /\ "colon_sp" \notin n.at
      BY <1>3 DEF HostAt
    <3>2. "content" \in n.at
      BY <2>1, <3>1, MarksWhere
    <3>3. Bracketed(n.data)
      BY <1>3, <3>2 DEF HostAt, InsideTag
    <3> QED
      BY <1>2, <3>3, WordGrows
  <2>2. CASE ~Marks(n, t)
    <3>1. before(r) = before(n)
      BY <2>2 DEF Turned
    <3> QED
      BY <1>2, <1>5, <3>1, WordGrows
  <2> QED
    BY <2>1, <2>2
<1>8. ASSUME r.at \cap InsideTag # {} PROVE Bracketed(r.data)
  <2>1. t = "[" \/ "content" \in n.at \/ "contentval" \in n.at
    <3>1. "content" \in r.at \/ "contentval" \in r.at \/ "content_end" \in r.at
      BY <1>8 DEF InsideTag
    <3> QED
      BY <3>1, PlacesBehind, Zenon
  <2>2. CASE t = "["
    BY <1>2, <1>5, <2>2, WordGrows
  <2>3. CASE "content" \in n.at \/ "contentval" \in n.at
    <3>1. Bracketed(n.data)
      BY <1>3, <2>3 DEF HostAt, InsideTag
    <3> QED
      BY <1>2, <3>1, WordGrows
  <2> QED
    BY <2>1, <2>2, <2>3
<1> QED
  BY <1>4, <1>6, <1>7, <1>8 DEF HostAt

(* A space ends it: it is answered, and what else could be is broken off,   *)
(* unless there was a '[' in it.                                            *)
LEMMA HostEnds ==
    ASSUME NEW n, NEW t, NEW r, Turned(n, t, r), "sp" \notin n.at, text(n) # <<>>,
           InWord(n), "hostname" \in n.at, t = " "
    PROVE  "hostname" \notin r.at /\ (InWord(r) \/ Broken(r))
<1>1. "hostname" \notin r.at
  BY PlacesBehind, TokensApart
<1>2. HostAt(n.at, before(n), n.data)
  BY DEF InWord
<1>3. /\ r.output.hostname = text(n) /\ r.data = Append(n.data, t) /\ t \in Tokens
      /\ n.data \in Seq(Tokens) /\ text(n) \in Seq(Tokens) /\ n.data = before(n) \o text(n)
  BY DEF Turned
<1>4. PICK i \in Nat : FirstWord(n.data, i) /\ (before(n) = Spaces(i) \/ Bracketed(n.data))
  BY <1>2 DEF HostAt
<1>5. CASE Bracketed(n.data)
  <2>1. Bracketed(r.data)
    BY <1>3, <1>5, WordGrows
  <2> QED
    BY <1>1, <1>3, <2>1 DEF Broken
<1>6. CASE ~Bracketed(n.data)
  <2>1. before(n) = Spaces(i) /\ n.at \cap InsideTag = {}
        /\ n.at \cap {"colon", "colon_sp", "hostname_sp"} = {}
    BY <1>2, <1>4, <1>6 DEF HostAt
  <2>2. ~Marks(n, t)
    BY <2>1, MarksWhere DEF InsideTag
  <2>3. before(r) = Spaces(i)
    BY <2>1, <2>2 DEF Turned
  <2>4. r.at \cap InTag = {}
    <3>1. /\ "content" \notin n.at /\ "contentval" \notin n.at /\ "content_end" \notin n.at
          /\ "colon" \notin n.at /\ "hostname_sp" \notin n.at
      BY <2>1 DEF InsideTag
    <3>2. t \notin TagGrows(n) /\ t # "[" /\ t # ":"
      BY TokensApart
    <3>3. "tag" \notin r.at
      BY <3>1, <3>2, PlacesBehind, ZenonT(40)
    <3>4. "content" \notin r.at
      BY <3>1, <3>2, PlacesBehind, ZenonT(40)
    <3>5. "contentval" \notin r.at
      BY <3>1, <3>2, PlacesBehind, ZenonT(40)
    <3>6. "content_end" \notin r.at
      BY <3>1, <3>2, PlacesBehind, ZenonT(40)
    <3>7. "colon" \notin r.at
      BY <3>1, <3>2, PlacesBehind, ZenonT(40)
    <3>8. "colon_sp" \notin r.at
      BY <3>1, <3>2, PlacesBehind, ZenonT(40)
    <3> QED
      BY <3>3, <3>4, <3>5, <3>6, <3>7, <3>8 DEF InTag
  <2> DEFINE h == r.output.hostname
             g == r.output.tag
             c == r.output.content
  <2>5. Lead(h, before(r)) /\ Named(h, r.data)
    <3>1. h \in Seq(Tokens) /\ n.data = Spaces(i) \o h
      BY <1>3, <2>1
    <3> HIDE DEF h
    <3> QED
      BY <1>3, <2>3, <3>1, LeadIs
  <2>6. Before(h, g, c, before(r))
    BY <2>5, BeforesAre
  <2>7. \A f \in r.at : TagAt(f, h, g, c, before(r), text(r))
    BY <2>4 DEF TagAt, InTag
  <2> HIDE DEF h, g, c
  <2>8. InWord(r)
    BY <1>1, <2>4, <2>5, <2>6, <2>7 DEF InWord, h, g, c
  <2> QED
    BY <1>1, <2>8
<1> QED
  BY <1>5, <1>6

(* Within the tag: one token more, place by place.                          *)
LEMMA TagGoesOn ==
    ASSUME NEW n, NEW t, NEW r, Turned(n, t, r), "sp" \notin n.at, InWord(n), t \in Visible(n),
           "hostname_sp" \notin n.at, ~("hostname" \in n.at /\ t = " ")
    PROVE  LET h == r.output.hostname
               g == r.output.tag
               c == r.output.content
           IN  /\ Before(h, g, c, before(r))
               /\ \A f, e \in r.at \cap InTag : f = e
               /\ \A f \in r.at : TagAt(f, h, g, c, before(r), text(r))
<1> DEFINE h == r.output.hostname
           g == r.output.tag
           c == r.output.content
           b == before(n)
           x == text(n)
           In(f) == f \in r.at
           Goal == /\ Before(h, g, c, before(r))
                   /\ \A f, e \in r.at \cap InTag : f = e
                   /\ \A f \in r.at : TagAt(f, h, g, c, before(r), text(r))
<1>1. /\ h = n.output.hostname
      /\ Before(n.output.hostname, n.output.tag, n.output.content, b)
      /\ \A f, e \in n.at \cap InTag : f = e
      /\ \A f \in n.at : TagAt(f, h, n.output.tag, n.output.content, b, x)
  BY DEF Turned, InWord
<1>2. /\ g = IF "tag" \in n.at /\ t \in {"[", ":"} THEN x ELSE n.output.tag
      /\ c = IF "content_end" \in r.at THEN IF Marks(n, t) THEN <<>> ELSE x ELSE n.output.content
      /\ before(r) = IF Marks(n, t) THEN b \o x ELSE b
      /\ text(r) = Append(IF Marks(n, t) THEN <<>> ELSE x, t)
  BY DEF Turned
<1>3. Marks(n, t) <=> \/ "content" \in n.at /\ t \in InContent(n) \cup {"]"}
                      \/ "colon_sp" \in n.at
  BY MarksWhere
<1>4. /\ In("tag") <=> "tag" \in n.at /\ t \in TagGrows(n)
      /\ In("content") <=> "tag" \in n.at /\ t = "["
      /\ In("contentval") <=> ("content" \in n.at \/ "contentval" \in n.at) /\ t \in InContent(n)
      /\ In("content_end") <=> ("content" \in n.at \/ "contentval" \in n.at) /\ t = "]"
      /\ In("colon") <=> ("tag" \in n.at \/ "content_end" \in n.at) /\ t = ":"
      /\ In("colon_sp") <=> "colon" \in n.at /\ t = " "
  BY PlacesBehind
<1>5. /\ "[" \notin TagGrows(n) /\ ":" \notin TagGrows(n)
      /\ "[" \notin InContent(n) /\ "]" \notin InContent(n)
  BY TokensApart
<1> HIDE DEF h, g, c, b, x
<1>6. ASSUME NEW u \in InTag \cup {"none"}, \A f \in InTag : f # u => ~In(f), Before(h, g, c, before(r)),
             In(u) => TagAt(u, h, g, c, before(r), text(r))
      PROVE  Goal
  <2>1. \A f \in r.at \cap InTag : f = u
    BY <1>6
  <2>2. ASSUME NEW f \in r.at PROVE TagAt(f, h, g, c, before(r), text(r))
    <3>1. CASE f \in InTag
      BY <1>6, <2>1, <3>1
    <3>2. CASE f \notin InTag
      BY <3>2 DEF TagAt, InTag
    <3> QED
      BY <3>1, <3>2
  <2> QED
    BY <1>6, <2>1, <2>2
<1> SUFFICES Goal
  BY DEF Goal, h, g, c
<1> HIDE DEF Goal
<1>b. \A q : Lead(h, q) => /\ Before(h, g, c, q) /\ Opened(h, g, q \o Append(g, "["))
                           /\ Before(h, g, c, q \o Coloned(g))
  BY BeforesAre
<1>o. \A q : Opened(h, g, q) => /\ Before(h, g, c, q)
                                /\ Before(h, g, c, q \o Coloned(Closed(c)))
  BY BeforesAre
<1>7. CASE n.at \cap InTag = {}
  <2>1. /\ \A f \in InTag : ~In(f)
        /\ "tag" \notin n.at /\ "content" \notin n.at /\ "colon_sp" \notin n.at
    BY <1>4, <1>7 DEF InTag
  <2>2. before(r) = b /\ g = n.output.tag /\ c = n.output.content
    BY <1>2, <1>3, <2>1 DEF InTag
  <2>3. Before(h, g, c, before(r))
    BY <1>1, <2>2
  <2>4. "none" \notin InTag
    BY DEF InTag
  <2>5. ~In("none") \/ TagAt("none", h, g, c, before(r), text(r))
    BY DEF TagAt
  <2> QED
    BY <1>6, <2>1, <2>3, <2>5
<1>8. CASE "tag" \in n.at
  <2>1. \A f \in InTag : f # "tag" => f \notin n.at
    BY <1>1, <1>8 DEF InTag
  <2>2. Lead(h, b)
    BY <1>1, <1>8, Zenon DEF TagAt
  <2>3. before(r) = b /\ text(r) = Append(x, t)
    BY <1>2, <1>3, <2>1 DEF InTag
  <2>4. Before(h, g, c, before(r))
    BY <1>b, <2>2, <2>3
  <2>5. CASE t = "["
    <3>1. \A f \in InTag : f # "content" => ~In(f)
      BY <1>4, <1>5, <2>1, <2>5 DEF InTag
    <3>2. g = x
      BY <1>2, <1>8, <2>5
    <3>3. TagAt("content", h, g, c, before(r), text(r))
      BY <2>2, <2>3, <2>5, <3>2 DEF TagAt
    <3> QED
      BY <1>6, <2>4, <3>1, <3>3 DEF InTag
  <2>6. CASE t = ":"
    <3>1. \A f \in InTag : f # "colon" => ~In(f)
      BY <1>4, <1>5, <2>1, <2>6 DEF InTag
    <3>2. g = x
      BY <1>2, <1>8, <2>6
    <3>3. TagAt("colon", h, g, c, before(r), text(r))
      BY <2>2, <2>3, <2>6, <3>2 DEF TagAt
    <3> QED
      BY <1>6, <2>4, <3>1, <3>3 DEF InTag
  <2>7. CASE t \notin {"[", ":"}
    <3>1. \A f \in InTag : f # "tag" => ~In(f)
      BY <1>4, <2>1, <2>7 DEF InTag
    <3>2. TagAt("tag", h, g, c, before(r), text(r))
      BY <2>2, <2>3 DEF TagAt
    <3> QED
      BY <1>6, <2>4, <3>1, <3>2 DEF InTag
  <2> QED
    BY <2>5, <2>6, <2>7
<1>9. CASE "content" \in n.at
  <2>1. \A f \in InTag : f # "content" => f \notin n.at
    BY <1>1, <1>9 DEF InTag
  <2>2. g = n.output.tag
    BY <1>2, <2>1 DEF InTag
  <2>3. Lead(h, b) /\ x = Append(g, "[")
    BY <1>1, <1>9, <2>2, Zenon DEF TagAt
  <2>4. Opened(h, g, b \o x)
    BY <1>b, <2>3
  <2>5. CASE t \in InContent(n)
    <3>1. \A f \in InTag : f # "contentval" => ~In(f)
      BY <1>4, <1>5, <2>1, <2>5 DEF InTag
    <3>2. before(r) = b \o x
      BY <1>2, <1>3, <1>9, <2>5
    <3>3. TagAt("contentval", h, g, c, before(r), text(r))
      BY <2>4, <3>2 DEF TagAt
    <3> QED
      BY <1>6, <1>o, <2>4, <3>1, <3>2, <3>3 DEF InTag
  <2>6. CASE t = "]"
    <3>1. \A f \in InTag : f # "content_end" => ~In(f)
      BY <1>4, <1>5, <2>1, <2>6 DEF InTag
    <3>2. before(r) = b \o x /\ text(r) = Append(<<>>, t) /\ In("content_end") /\ c = <<>>
      BY <1>2, <1>3, <1>4, <1>9, <2>6
    <3>3. TagAt("content_end", h, g, c, before(r), text(r))
      BY <2>4, <2>6, <3>2 DEF TagAt, Closed
    <3> QED
      BY <1>6, <1>o, <2>4, <3>1, <3>2, <3>3 DEF InTag
  <2>7. CASE t \notin InContent(n) \cup {"]"}
    <3>1. \A f \in InTag : ~In(f)
      BY <1>4, <2>1, <2>7 DEF InTag
    <3>2. before(r) = b
      BY <1>2, <1>3, <2>1, <2>7 DEF InTag
    <3>3. Before(h, g, c, before(r))
      BY <1>b, <2>3, <3>2
    <3>4. ~In("tag")
      BY <3>1 DEF InTag
    <3> QED
      BY <1>6, <3>1, <3>3, <3>4 DEF InTag
  <2> QED
    BY <2>5, <2>6, <2>7
<1>10. CASE "contentval" \in n.at
  <2>1. \A f \in InTag : f # "contentval" => f \notin n.at
    BY <1>1, <1>10 DEF InTag
  <2>2. g = n.output.tag
    BY <1>2, <2>1 DEF InTag
  <2>3. Opened(h, g, b)
    BY <1>1, <1>10, <2>2, Zenon DEF TagAt
  <2>4. ~Marks(n, t)
    BY <1>3, <2>1 DEF InTag
  <2>5. before(r) = b /\ text(r) = Append(x, t) /\ Before(h, g, c, before(r))
    BY <1>2, <1>o, <2>3, <2>4
  <2>6. CASE t = "]"
    <3>1. \A f \in InTag : f # "content_end" => ~In(f)
      BY <1>4, <1>5, <2>1, <2>6 DEF InTag
    <3>2. In("content_end")
      BY <1>4, <1>10, <2>6
    <3>3. c = x
      BY <1>2, <2>4, <3>2
    <3>4. TagAt("content_end", h, g, c, before(r), text(r))
      BY <2>3, <2>5, <2>6, <3>3 DEF TagAt, Closed
    <3> QED
      BY <1>6, <2>5, <3>1, <3>4 DEF InTag
  <2>7. CASE t # "]"
    <3>1. \A f \in InTag : f # "contentval" => ~In(f)
      BY <1>4, <2>1, <2>7 DEF InTag
    <3>2. TagAt("contentval", h, g, c, before(r), text(r))
      BY <2>3, <2>5 DEF TagAt
    <3> QED
      BY <1>6, <2>5, <3>1, <3>2 DEF InTag
  <2> QED
    BY <2>6, <2>7
<1>11. CASE "content_end" \in n.at
  <2>1. \A f \in InTag : f # "content_end" => f \notin n.at
    BY <1>1, <1>11 DEF InTag
  <2>2. ~In("content_end") /\ ~Marks(n, t)
    BY <1>3, <1>4, <2>1 DEF InTag
  <2>3. g = n.output.tag /\ c = n.output.content
    BY <1>2, <2>1, <2>2 DEF InTag
  <2>4. Opened(h, g, b) /\ x = Closed(c)
    BY <1>1, <1>11, <2>3, Zenon DEF TagAt
  <2>5. before(r) = b /\ text(r) = Append(x, t) /\ Before(h, g, c, before(r))
    BY <1>2, <1>o, <2>2, <2>4
  <2>6. \A f \in InTag : f # "colon" => ~In(f)
    BY <1>4, <2>1 DEF InTag
  <2>7. In("colon") => t = ":"
    BY <1>4
  <2>8. In("colon") => TagAt("colon", h, g, c, before(r), text(r))
    BY <2>4, <2>5, <2>7 DEF TagAt
  <2> QED
    BY <1>6, <2>5, <2>6, <2>8 DEF InTag
<1>12. CASE "colon" \in n.at
  <2>1. \A f \in InTag : f # "colon" => f \notin n.at
    BY <1>1, <1>12 DEF InTag
  <2>2. ~In("content_end") /\ ~Marks(n, t)
    BY <1>3, <1>4, <2>1 DEF InTag
  <2>3. g = n.output.tag /\ c = n.output.content
    BY <1>2, <2>1, <2>2 DEF InTag
  <2>4. \/ Lead(h, b) /\ x = Append(g, ":")
        \/ Opened(h, g, b) /\ x = Append(Closed(c), ":")
    BY <1>1, <1>12, <2>3, Zenon DEF TagAt
  <2>5. before(r) = b /\ text(r) = Append(x, t) /\ Before(h, g, c, before(r))
    BY <1>2, <1>b, <1>o, <2>2, <2>4
  <2>6. \A f \in InTag : f # "colon_sp" => ~In(f)
    BY <1>4, <2>1 DEF InTag
  <2>7. In("colon_sp") => t = " "
    BY <1>4
  <2>8. In("colon_sp") => TagAt("colon_sp", h, g, c, before(r), text(r))
    BY <2>4, <2>5, <2>7 DEF TagAt, Coloned
  <2> QED
    BY <1>6, <2>5, <2>6, <2>8 DEF InTag
<1>13. CASE "colon_sp" \in n.at
  <2>1. \A f \in InTag : f # "colon_sp" => f \notin n.at
    BY <1>1, <1>13 DEF InTag
  <2>2. \A f \in InTag : ~In(f)
    BY <1>4, <2>1 DEF InTag
  <2>3. g = n.output.tag /\ c = n.output.content
    BY <1>2, <2>1, <2>2 DEF InTag
  <2>4. \/ Lead(h, b) /\ x = Coloned(g)
        \/ Opened(h, g, b) /\ x = Coloned(Closed(c))
    BY <1>1, <1>13, <2>3, Zenon DEF TagAt
  <2>5. before(r) = b \o x
    BY <1>2, <1>3, <1>13
  <2>6. Before(h, g, c, before(r))
    BY <1>b, <1>o, <2>4, <2>5
  <2>7. ~In("tag")
    BY <2>2 DEF InTag
  <2> QED
    BY <1>6, <2>2, <2>6, <2>7 DEF InTag
<1> QED
  <2>1. n.at \cap InTag # {} => \E f \in InTag : f \in n.at
    BY Zenon
  <2>2. \A f \in InTag : \/ f = "tag" \/ f = "content" \/ f = "contentval" \/ f = "content_end"
                        \/ f = "colon" \/ f = "colon_sp"
    BY DEF InTag
  <2> QED
    BY <1>7, <1>8, <1>9, <1>10, <1>11, <1>12, <1>13, <2>1, <2>2, Zenon

(* Behind the host name's spaces the tag or the message begins.             *)
LEMMA SpacesGoOn ==
    ASSUME NEW n, NEW t, NEW r, Turned(n, t, r), "sp" \notin n.at, InWord(n), t \in Visible(n),
           "hostname_sp" \in n.at, "hostname" \notin n.at
    PROVE  InWord(r)
<1> DEFINE h == r.output.hostname
           g == r.output.tag
           c == r.output.content
           x == text(r)
<1>1. n.at \cap InTag = {} /\ Named(n.output.hostname, n.data)
  BY DEF InWord
<1>2. /\ h = n.output.hostname /\ h \in Seq(Tokens) /\ r.data = Append(n.data, t)
  BY DEF Turned, Answers
<1>3. before(r) = n.data
  <2>1. Marks(n, t)
    BY MarksWhere
  <2> QED
    BY <2>1 DEF Turned
<1>4. /\ "tag" \notin n.at /\ "content" \notin n.at /\ "contentval" \notin n.at
      /\ "content_end" \notin n.at /\ "colon" \notin n.at /\ "colon_sp" \notin n.at
  BY <1>1 DEF InTag
<1>5. /\ "hostname" \notin r.at /\ "content" \notin r.at /\ "contentval" \notin r.at
      /\ "content_end" \notin r.at /\ "colon" \notin r.at /\ "colon_sp" \notin r.at
      /\ "hostname_sp" \in r.at <=> t = " "
      /\ "tag" \in r.at <=> t \in TagChars
  BY <1>4, PlacesBehind, Zenon
<1> HIDE DEF h, g, c, x
<1>6. Lead(h, before(r)) /\ Named(h, Append(n.data, " "))
  BY <1>1, <1>2, <1>3, LeadIs
<1>7. Before(h, g, c, before(r))
  BY <1>6, BeforesAre
<1>8. \A f \in r.at \cap InTag : f = "tag"
  BY <1>5 DEF InTag
<1>9. \A f \in r.at : TagAt(f, h, g, c, before(r), x)
  BY <1>5, <1>6 DEF TagAt
<1>10. ASSUME "hostname_sp" \in r.at PROVE r.at \cap InTag = {} /\ Named(h, r.data)
  <2>1. t = " "
    BY <1>5, <1>10
  <2>2. "tag" \notin r.at
    BY <1>5, <2>1, TokensApart
  <2> QED
    BY <1>2, <1>6, <1>8, <2>1, <2>2
<1> QED
  BY <1>5, <1>7, <1>8, <1>9, <1>10 DEF InWord, h, g, c, x

(* So it is with every token that is not the end.                           *)
LEMMA WordKept ==
    ASSUME NEW n, NEW t, NEW r, Turned(n, t, r), "sp" \notin n.at, text(n) # <<>>,
           InWord(n), t \in Visible(n)
    PROVE  InWord(r) \/ ("hostname" \notin r.at /\ Broken(r))
<1>1. CASE "hostname" \in n.at /\ t = " "
  BY <1>1, HostEnds
<1>2. CASE "hostname_sp" \in n.at
  <2>1. "hostname" \notin n.at
    BY <1>2 DEF InWord, HostAt
  <2> QED
    BY <1>2, <2>1, SpacesGoOn
<1>3. CASE ~("hostname" \in n.at /\ t = " ") /\ "hostname_sp" \notin n.at
  <2> DEFINE h == r.output.hostname
             g == r.output.tag
             c == r.output.content
             b == before(r)
             x == text(r)
  <2>1. /\ Before(h, g, c, b)
        /\ \A f, e \in r.at \cap InTag : f = e
        /\ \A f \in r.at : TagAt(f, h, g, c, b, x)
    BY <1>3, TagGoesOn
  <2>2. "hostname_sp" \notin r.at
    BY <1>3, PlacesBehind, Zenon
  <2>3. "hostname" \in r.at => HostAt(r.at, b, r.data)
    BY HostGoesOn
  <2> HIDE DEF h, g, c, b, x
  <2>4. InWord(r)
    BY <2>1, <2>2, <2>3 DEF InWord, h, g, c, b, x
  <2> QED
    BY <2>4
<1> QED
  BY <1>1, <1>2, <1>3

(* The host name that was broken off is not taken back.                     *)
LEMMA BrokenKept ==
    ASSUME NEW n, NEW t, NEW r, Turned(n, t, r), "sp" \notin n.at, "hostname" \notin n.at, Broken(n)
    PROVE  "hostname" \notin r.at /\ Broken(r)
<1>1. "hostname" \notin r.at
  BY PlacesBehind, Zenon
<1>2. /\ r.output.hostname = n.output.hostname /\ r.data = Append(n.data, t)
      /\ n.data \in Seq(Tokens) /\ t \in Tokens
  BY DEF Turned
<1>3. Bracketed(r.data)
  BY <1>2, WordGrows DEF Broken
<1> QED
  BY <1>1, <1>2, <1>3 DEF Broken

(* From within the message to within it, or to its end.                     *)
LEMMA MessageKept ==
    ASSUME NEW n, NEW t, NEW r, Turned(n, t, r), "sp" \notin n.at, "mex" \in n.at, text(n) # <<>>,
           InWord(n) \/ ("hostname" \notin n.at /\ Broken(n))
    PROVE  Kept(r)
<1>1. "sp" \notin r.at /\ ("end" \in r.at => t = "\n")
  BY GoesOn
<1>2. CASE t \in Visible(n) /\ "mex" \in r.at
  <2>1. InWord(r) \/ ("hostname" \notin r.at /\ Broken(r))
    BY <1>2, WordKept, BrokenKept
  <2>2. text(r) # <<>>
    <3> DEFINE y == IF Marks(n, t) THEN <<>> ELSE text(n)
    <3>1. text(r) = Append(y, t) /\ t \in Tokens
      BY DEF Turned
    <3>3. y \in Seq(Tokens)
      <4>1. text(n) \in Seq(Tokens)
        BY Zenon DEF Turned
      <4>2. <<>> \in Seq(Tokens)
        OBVIOUS
      <4> QED
        BY <4>1, <4>2
    <3> HIDE DEF y
    <3>2. Append(y, t) # <<>>
      BY <3>1, <3>3
    <3> QED
      BY <3>1, <3>2
  <2>3. "end" \in r.at => r.newline
    <3>1. ASSUME "end" \in r.at PROVE n.newline
      <4>1. t = "\n"
        BY <1>1, <3>1
      <4>2. "\n" \notin HostChars
        BY TokensApart
      <4> QED
        BY <1>2, <4>1, <4>2 DEF Visible
    <3>2. r.newline = n.newline
      BY DEF Turned
    <3> QED
      BY <3>1, <3>2
  <2> QED
    BY <1>1, <1>2, <2>1, <2>2, <2>3 DEF Kept
<1>3. CASE t = "\n" /\ ~n.newline /\ r.at = {"end"} /\ ~Marks(n, t)
  <2>1. "end" \in r.at
    BY <1>3
  <2>2. "content_end" \notin r.at
    BY <1>3
  <2>3. /\ r.output.message = text(n) /\ r.output.hostname = n.output.hostname
        /\ r.output.tag = n.output.tag /\ r.output.content = n.output.content
        /\ ~r.newline /\ r.data = Append(n.data, "\n")
        /\ n.data \in Seq(Tokens) /\ before(n) \in Seq(Tokens) /\ text(n) \in Seq(Tokens)
        /\ n.data = before(n) \o text(n)
    BY <1>3, <2>1, <2>2 DEF Turned
  <2>4. Before(r.output.hostname, r.output.tag, r.output.content, before(n)) \/ Broken(r)
    <3>1. CASE InWord(n)
      BY <2>3, <3>1 DEF InWord
    <3>2. CASE "hostname" \notin n.at /\ Broken(n)
      BY <3>2, BrokenKept
    <3> QED
      BY <3>1, <3>2
  <2>5. r.data = Append(before(n) \o r.output.message, "\n") /\ r.output.message \in Seq(Tokens) \ {<<>>}
    BY <2>3
  <2> QED
    BY <1>3, <2>3, <2>4, <2>5, Zenon DEF Kept
<1> QED
  BY <1>2, <1>3, GoesOn

(* The places behind the spaces that a body begins with.                    *)
LEMMA PlacesFirst ==
    ASSUME NEW n, NEW t, NEW r, Turned(n, t, r), n.at = {"sp"} \/ n.at = {"sp", "mex"}
    PROVE  /\ "sp" \in r.at <=> t = " "
           /\ "hostname" \in r.at <=> t \in HostChars
           /\ "tag" \in r.at <=> t \in TagChars
           /\ "mex" \in r.at <=> t \in FirstVisible(n)
           /\ "end" \in r.at <=> "mex" \in n.at /\ t = "\n"
           /\ r.at \subseteq {"sp", "hostname", "tag", "mex", "end"}
           /\ Marks(n, t) <=> t \in FirstVisible(n)
<1>1. \A q : q \in r.at <=> \E f \in n.at : Goes(n, f, t, q)
  BY DEF Turned
<1>2. /\ Visible(n) \subseteq FirstVisible(n) /\ HostChars \subseteq FirstVisible(n)
      /\ TagChars \subseteq FirstVisible(n) /\ " " \in FirstVisible(n)
  BY VisibleKinds DEF FirstVisible
<1>3. ASSUME NEW q
      PROVE  q \in r.at <=> \/ Goes(n, "sp", t, q)
                            \/ "mex" \in n.at /\ Goes(n, "mex", t, q)
  <2>1. "sp" \in n.at /\ \A f \in n.at : f = "sp" \/ f = "mex"
    OBVIOUS
  <2> QED
    BY <1>1, <2>1, Zenon
<1>4. /\ Goes(n, "sp", t, "sp") <=> t = " "
      /\ Goes(n, "sp", t, "hostname") <=> t \in HostChars
      /\ Goes(n, "sp", t, "tag") <=> t \in TagChars
      /\ Goes(n, "sp", t, "mex") <=> t \in FirstVisible(n)
      /\ ~Goes(n, "sp", t, "end")
      /\ \A q : Goes(n, "sp", t, q) => q \in {"sp", "hostname", "tag", "mex"}
  BY DEF Goes
<1>m. /\ Goes(n, "mex", t, "mex") <=> t \in Visible(n)
      /\ Goes(n, "mex", t, "end") <=> t = "\n"
      /\ ~Goes(n, "mex", t, "sp") /\ ~Goes(n, "mex", t, "hostname") /\ ~Goes(n, "mex", t, "tag")
      /\ \A q : Goes(n, "mex", t, q) => q \in {"mex", "end"}
  BY DEF Goes
<1>5. /\ "sp" \in r.at <=> t = " "
      /\ "hostname" \in r.at <=> t \in HostChars
      /\ "tag" \in r.at <=> t \in TagChars
      /\ "end" \in r.at <=> "mex" \in n.at /\ t = "\n"
  BY <1>3, <1>4, <1>m, Zenon
<1>6. "mex" \in r.at <=> t \in FirstVisible(n)
  BY <1>2, <1>3, <1>4, <1>m
<1>7. r.at \subseteq {"sp", "hostname", "tag", "mex", "end"}
  BY <1>3, <1>4, <1>m
<1>8. ASSUME Marks(n, t) PROVE t \in FirstVisible(n)
  <2>1. PICK f, q : /\ f \in n.at /\ Goes(n, f, t, q)
                    /\ f = "content" \/ (q \in Marked /\ f # q)
    BY <1>8, Zenon DEF Marks
  <2>2. f = "sp" \/ f = "mex"
    BY <2>1
  <2>3. "end" \notin Marked
    BY DEF Marked
  <2> QED
    BY <1>2, <1>4, <1>m, <2>1, <2>2, <2>3
<1>9. ASSUME t \in FirstVisible(n) PROVE Marks(n, t)
  <2>1. Goes(n, "sp", t, "mex") /\ "mex" \in Marked /\ "sp" # "mex" /\ "sp" \in n.at
    BY <1>4, <1>9 DEF Marked
  <2> QED
    BY <2>1, Zenon DEF Marks
<1> QED
  BY <1>5, <1>6, <1>7, <1>8, <1>9

(* Spaces are all before the first word. *)
LEMMA SpacesWord ==
    ASSUME NEW i \in Nat
    PROVE  FirstWord(Spaces(i), i)
<1> DEFINE s == Spaces(i)
<1>1. s \in Seq(Tokens) /\ Len(s) = i /\ \A k \in 1..i : s[k] = " "
  BY SpacesAre
<1> HIDE DEF s
<1>2. i <= i /\ \A k \in 1..i : k <= i
  OBVIOUS
<1>3. DOMAIN s = 1..Len(s)
  <2>1. s \in Seq(Tokens)
    BY <1>1
  <2> QED
    BY <2>1
<1>4. FirstWord(s, i)
  BY <1>1, <1>2, <1>3, Zenon DEF FirstWord
<1> QED
  BY <1>4 DEF s

(* And one token behind nothing is one token. *)
LEMMA OneToken ==
    ASSUME NEW t \in Tokens
    PROVE  Append(<<>>, t) = <<t>> /\ <<t>> \in Seq(Tokens) \ {<<>>}
<1> DEFINE e == <<>>
           a == Append(e, t)
           o == <<t>>
<1>0. e \in Seq(Tokens) /\ Len(e) = 0
  OBVIOUS
<1>1. o \in Seq(Tokens) /\ Len(o) = 1 /\ o[1] = t
  OBVIOUS
<1> HIDE DEF o
<1> HIDE DEF e
<1>2. a \in Seq(Tokens) /\ Len(a) = 1 /\ a[1] = t
  BY <1>0
<1> HIDE DEF a
<1>3. a = o
  BY <1>1, <1>2, SeqEqual
<1>4. o # e
  <2>1. 0 # 1
    OBVIOUS
  <2> QED
    BY <1>0, <1>1, <2>1, Zenon
<1> QED
  BY <1>1, <1>3, <1>4 DEF a, e, o

(* The spaces go on, the first word begins, or a '\n' ends all.             *)
LEMMA FirstKept ==
    ASSUME NEW n, NEW t, NEW r, Turned(n, t, r), NEW i \in Nat, n.data = Spaces(i),
           \/ n.at = {"sp"}
           \/ n.at = {"sp", "mex"} /\ text(n) = <<" ">>
              /\ \E j \in Nat : before(n) = Spaces(j)
    PROVE  Kept(r)
<1> DEFINE h == r.output.hostname
           g == r.output.tag
           c == r.output.content
           F == FirstVisible(n)
<1>1. /\ "sp" \in r.at <=> t = " "
      /\ "hostname" \in r.at <=> t \in HostChars
      /\ "tag" \in r.at <=> t \in TagChars
      /\ "mex" \in r.at <=> t \in F
      /\ "end" \in r.at <=> "mex" \in n.at /\ t = "\n"
      /\ r.at \subseteq {"sp", "hostname", "tag", "mex", "end"}
      /\ Marks(n, t) <=> t \in F
  BY PlacesFirst
<1>2. /\ r.data = Append(n.data, t) /\ t \in Tokens /\ n.data \in Seq(Tokens)
      /\ h \in Seq(Tokens) /\ r.newline = n.newline /\ r.at # {}
  BY DEF Turned, Answers
<1>3. t \in F => before(r) = Spaces(i) /\ text(r) = <<t>>
  <2>1. Append(<<>>, t) = <<t>>
    BY <1>2, OneToken
  <2> QED
    BY <1>1, <2>1 DEF Turned
<1>4. " " \in F /\ HostChars \subseteq F /\ TagChars \subseteq F /\ Visible(n) \subseteq F
  BY VisibleKinds DEF FirstVisible
<1>5. /\ " " \notin HostChars /\ "\n" \notin HostChars /\ TagChars \subseteq HostChars
      /\ "\n" \in F /\ "mex" \in n.at => n.newline
      /\ n.newline => "\n" \in F
  <2>1. " " \notin HostChars /\ "\n" \notin HostChars /\ TagChars \subseteq HostChars
    BY TokensApart
  <2>2. "mex" \in n.at => F = Visible(n)
    <3>1. "mex" \notin {"sp"}
      OBVIOUS
    <3>2. "mex" \in n.at => n.at # {"sp"}
      BY <3>1, Zenon
    <3> QED
      BY <3>2, Zenon DEF FirstVisible, F
  <2>3. "\n" \in Visible(n) <=> n.newline
    BY <2>1 DEF Visible
  <2> QED
    BY <1>4, <2>1, <2>2, <2>3
<1> HIDE DEF h, g, c, F
<1>6. CASE t = " "
  <2>1. /\ "sp" \in r.at /\ "mex" \in r.at /\ "hostname" \notin r.at /\ "tag" \notin r.at
        /\ "end" \notin r.at
    BY <1>1, <1>4, <1>5, <1>6
  <2>2. r.at = {"sp", "mex"}
    BY <1>1, <2>1
  <2>3. r.data = Spaces(i + 1)
    BY <1>2, <1>6, SpacesAre
  <2> QED
    BY <1>3, <1>4, <1>6, <2>2, <2>3, Zenon DEF Kept
<1>7. CASE t # " " /\ t \in F
  <2>1. before(r) = Spaces(i) /\ text(r) = <<t>> /\ "mex" \in r.at /\ "sp" \notin r.at
    BY <1>1, <1>3, <1>7
  <2>2. "end" \in r.at => r.newline
    BY <1>1, <1>2, <1>5, <1>7
  <2>3. text(r) # <<>>
    BY <1>2, <2>1, OneToken
  <2>4. Lead(h, before(r)) /\ Before(h, g, c, before(r))
    <3>1. Lead(h, Spaces(i))
      BY <1>2, LeadIs
    <3> QED
      BY <2>1, <3>1, BeforesAre
  <2>5. FirstWord(r.data, i)
    <3>1. FirstWord(n.data, i)
      BY SpacesWord
    <3> QED
      BY <1>2, <1>7, <3>1, WordGrows
  <2>6. /\ "content" \notin r.at /\ "contentval" \notin r.at /\ "content_end" \notin r.at
        /\ "colon" \notin r.at /\ "colon_sp" \notin r.at /\ "hostname_sp" \notin r.at
    BY <1>1
  <2>7. HostAt(r.at, before(r), r.data)
    <3>1. r.at \cap {"colon", "colon_sp", "hostname_sp"} = {}
      BY <2>6
    <3>2. r.at \cap InsideTag = {}
      BY <2>6 DEF InsideTag
    <3> QED
      BY <2>1, <2>5, <3>1, <3>2, Zenon DEF HostAt
  <2>8. \A f, e \in r.at \cap InTag : f = e
    BY <2>6 DEF InTag
  <2>9. \A f \in r.at : TagAt(f, h, g, c, before(r), text(r))
    BY <2>4, <2>6 DEF TagAt
  <2>10. InWord(r)
    BY <2>4, <2>6, <2>7, <2>8, <2>9 DEF InWord, h, g, c
  <2> QED
    BY <2>1, <2>2, <2>3, <2>10, Zenon DEF Kept
<1>8. CASE t \notin F
  <2>1. r.at = {"end"} /\ "mex" \in n.at /\ t = "\n" /\ ~n.newline /\ ~Marks(n, t)
    BY <1>1, <1>2, <1>4, <1>5, <1>8
  <2>2. text(n) = <<" ">> /\ \E j \in Nat : before(n) = Spaces(j)
    <3>1. "mex" \notin {"sp"}
      OBVIOUS
    <3> QED
      BY <2>1, <3>1, Zenon
  <2>3. /\ r.output.message = text(n) /\ text(n) \in Seq(Tokens) /\ before(n) \in Seq(Tokens)
        /\ n.data = before(n) \o text(n)
    BY <2>1 DEF Turned
  <2>4. Before(h, g, c, before(n))
    <3>1. Lead(h, before(n))
      BY <1>2, <2>2, LeadIs
    <3> QED
      BY <3>1, BeforesAre
  <2>5. r.data = Append(before(n) \o r.output.message, "\n") /\ r.output.message \in Seq(Tokens) \ {<<>>}
    <3>1. " " \in Tokens
      BY TokenKinds
    <3>2. <<" ">> \in Seq(Tokens) \ {<<>>}
      BY <3>1, OneToken
    <3> QED
      BY <1>2, <2>1, <2>2, <2>3, <3>2, Zenon
  <2> QED
    BY <1>2, <2>1, <2>3, <2>4, <2>5, Zenon DEF Kept, h, g, c
<1> QED
  BY <1>6, <1>7, <1>8

(* One token of the body.                                                   *)
LEMMA BodyKept ==
    ASSUME NEW n, NEW t \in Tokens, DOMAIN n = Fields, n.cs = "body", n.at # {},
           n.data \in Seq(Tokens), n.pb \in 0..Len(n.data), Answers(n), body(n, t).cs = "body",
           Kept(n)
    PROVE  Answers(body(n, t)) /\ Kept(body(n, t))
<1> DEFINE r == body(n, t)
<1>1. Turned(n, t, r)
  BY BodyTurns
<1> HIDE DEF r
<1> SUFFICES Kept(r)
  BY <1>1 DEF Turned, r
<1>2. CASE n.at = {"sp"} /\ n.data = <<>>
  <2>1. n.data = Spaces(0)
    BY <1>2, SpacesAre
  <2> QED
    BY <1>1, <1>2, <2>1, FirstKept
<1>3. CASE /\ n.at = {"sp", "mex"} /\ text(n) = <<" ">>
           /\ \E i \in Nat : before(n) = Spaces(i) /\ n.data = Spaces(i + 1)
  <2>1. PICK i \in Nat : before(n) = Spaces(i) /\ n.data = Spaces(i + 1)
    BY <1>3
  <2>2. i + 1 \in Nat
    OBVIOUS
  <2> QED
    BY <1>1, <1>3, <2>1, <2>2, FirstKept
<1>4. CASE /\ "mex" \in n.at /\ "sp" \notin n.at /\ text(n) # <<>>
           /\ InWord(n) \/ ("hostname" \notin n.at /\ Broken(n))
  BY <1>1, <1>4, MessageKept
<1>5. CASE n.at = {"end"}
  <2>1. \A q : ~Goes(n, "end", t, q)
    BY DEF Goes
  <2>2. \A q : q \notin r.at
    BY <1>1, <1>5, <2>1 DEF Turned
  <2> QED
    BY <1>1, <2>2 DEF Turned
<1> QED
  BY <1>2, <1>3, <1>4, <1>5, Zenon DEF Kept

-----------------------------------------------------------------------------
(* A machine made of n in one step, with its data and with an answer.       *)
Told(n, o) == /\ DOMAIN o = Fields /\ o.data = n.data /\ o.pb \in 0..Len(n.data)
              /\ Answers(o) /\ o.cs \in {n.cs, "fail"}

(* The actions of the header and its marks are such steps. *)
LEMMA ActionsTold ==
    ASSUME NEW n, n.data \in Seq(Tokens), NEW o, Told(n, o)
    PROVE  /\ Told(n, mark(o)) /\ Told(n, set_prival(o)) /\ Told(n, set_hostname(o))
           /\ \A f \in {"msgcount", "sequence"} : Told(n, set_number(o, f))
           /\ Told(n, set_timestamp(o)) /\ Told(n, set_rfc3339(o))
<1>0. /\ DOMAIN o = Fields /\ o.data = n.data /\ o.pb \in 0..Len(n.data)
      /\ DOMAIN o.output = Outputs /\ o.output.hostname \in Seq(Tokens)
      /\ o.output.tag \in Seq(Tokens) /\ o.output.content \in Seq(Tokens)
      /\ o.cs \in {n.cs, "fail"}
  BY DEF Told, Answers
<1>1. text(o) \in Seq(Tokens)
  <2>1. o.data \in Seq(Tokens) /\ o.pb \in 0..Len(o.data)
    BY <1>0
  <2> QED
    BY <2>1 DEF text
<1>2. Told(n, mark(o))
  <2> DEFINE k == mark(o)
  <2>1. /\ DOMAIN k = Fields /\ k.data = o.data /\ k.pb = Len(o.data) /\ k.output = o.output
        /\ k.cs = o.cs
    BY <1>0 DEF mark, Fields
  <2>2. Len(n.data) \in 0..Len(n.data)
    OBVIOUS
  <2> HIDE DEF k
  <2>3. Told(n, k)
    BY <1>0, <2>1, <2>2 DEF Told, Answers
  <2> QED
    BY <2>3 DEF k
<1>3. ASSUME NEW f \in {"priority", "msgcount", "sequence", "timestamp"}, NEW x,
             NEW k, k = [o EXCEPT !.output[f] = x]
      PROVE  Told(n, k)
  <2>1. /\ DOMAIN k = Fields /\ k.data = o.data /\ k.pb = o.pb /\ k.cs = o.cs
        /\ k.output = [o.output EXCEPT ![f] = x]
    BY <1>0, <1>3 DEF Fields
  <2>2. /\ DOMAIN k.output = Outputs /\ k.output.hostname = o.output.hostname
        /\ k.output.tag = o.output.tag /\ k.output.content = o.output.content
    BY <1>0, <2>1 DEF Outputs
  <2> QED
    BY <1>0, <2>1, <2>2 DEF Told, Answers
<1>4. Told(n, set_prival(o)) /\ \A f \in {"msgcount", "sequence"} : Told(n, set_number(o, f))
  BY <1>3, Zenon DEF set_prival, set_number
<1>5. Told(n, set_hostname(o))
  <2> DEFINE k == set_hostname(o)
             x == text(o)
  <2>0. k = [o EXCEPT !.output["hostname"] = x]
    BY DEF set_hostname
  <2> HIDE DEF k, x
  <2>1. /\ DOMAIN k = Fields /\ k.data = o.data /\ k.pb = o.pb /\ k.cs = o.cs
        /\ k.output = [o.output EXCEPT !["hostname"] = x]
    BY <1>0, <2>0 DEF Fields
  <2>2. /\ DOMAIN k.output = Outputs /\ k.output.hostname = x
        /\ k.output.tag = o.output.tag /\ k.output.content = o.output.content
    BY <1>0, <2>1 DEF Outputs
  <2>3. Told(n, k)
    BY <1>0, <1>1, <2>1, <2>2 DEF Told, Answers, x
  <2> QED
    BY <2>3 DEF k
<1>6. ASSUME NEW e PROVE Told(n, Fail(o, e))
  <2> DEFINE k == Fail(o, e)
  <2>1. /\ DOMAIN k = Fields /\ k.data = o.data /\ k.pb = o.pb /\ k.output = o.output
        /\ k.cs = "fail"
    BY <1>0 DEF Fail, Fields
  <2> HIDE DEF k
  <2>2. Told(n, k)
    BY <1>0, <2>1 DEF Told, Answers
  <2> QED
    BY <2>2 DEF k
<1>7. Told(n, set_timestamp(o))
  <2>1. set_timestamp(o) = [o EXCEPT !.output["timestamp"] = "stamp"]
        \/ set_timestamp(o) = Fail(o, "time.Parse")
    BY DEF set_timestamp
  <2> QED
    BY <1>3, <1>6, <2>1, Zenon
<1>8. Told(n, set_rfc3339(o))
  <2>1. set_rfc3339(o) = [o EXCEPT !.output["timestamp"] = "rfc3339"]
        \/ set_rfc3339(o) = Fail(o, "time.Parse")
    BY DEF set_rfc3339
  <2> QED
    BY <1>3, <1>6, <2>1, Zenon
<1> QED
  BY <1>2, <1>4, <1>5, <1>7, <1>8

(* In front of the message there is an answer to every field, and in it     *)
(* nothing is lost.                                                         *)
Keeping(n) == Alive(n) => Answers(n) /\ (n.cs = "body" => Kept(n))

(* A token of the PRI. *)
LEMMA PrivalKept ==
    ASSUME NEW n, NEW t, DOMAIN n = Fields, Placed(n), n.cs = "prival", Keeping(n)
    PROVE  Keeping(prival(n, t))
<1>1. PICK o : /\ o = IF n.data # <<>> THEN set_prival(n) ELSE n
               /\ prival(n, t) = CASE n.data # <<>> /\ t = ">" -> [Goto(o, "header") EXCEPT !.at = {"pri_sp"}]
                                   [] t = "9" /\ Len(n.data) < 2 -> Take(o, t)
                                   [] OTHER -> Fail(o, "errPrival")
  BY Zenon DEF prival
<1>2. n.data \in Seq(Tokens) /\ Told(n, n)
  BY DEF Placed, Keeping, Alive, Told
<1>3. Told(n, o)
  BY <1>1, <1>2, ActionsTold
<1>4. DOMAIN o = Fields /\ Answers(o) /\ o.cs \in {"prival", "fail"}
  BY <1>3 DEF Told
<1>5. ASSUME NEW k, k = [Goto(o, "header") EXCEPT !.at = {"pri_sp"}] PROVE Keeping(k)
  <2>1. k.cs = "header" /\ k.output = o.output
    BY <1>4, <1>5 DEF Goto, Fields
  <2> QED
    BY <1>4, <2>1 DEF Keeping, Answers
<1>6. ASSUME NEW k, k = Take(o, t) PROVE Keeping(k)
  <2>1. k.cs \in {"prival", "fail"} /\ k.output = o.output
    BY <1>4, <1>6 DEF Take, Fields
  <2> QED
    BY <1>4, <2>1 DEF Keeping, Answers
<1>7. ASSUME NEW k, k = Fail(o, "errPrival") PROVE Keeping(k)
  <2>1. k.cs = "fail"
    BY <1>4, <1>7 DEF Fail, Fields
  <2> QED
    BY <2>1 DEF Keeping, Alive
<1> QED
  BY <1>1, <1>5, <1>6, <1>7, Zenon

(* A token of the header: the body begins with nothing read. *)
LEMMA HeaderKept ==
    ASSUME NEW n, NEW t, DOMAIN n = Fields, Placed(n), n.cs = "header", Keeping(n)
    PROVE  Keeping(header(n, t))
<1> DEFINE moves  == Taken(n, t, ExtraMoves(n) \cup StampMoves(n) \cup FullMoves(n))
           marked(o) == IF \E move \in moves : Begins(move) THEN mark(o) ELSE o
           behind == {"sp", "ciscocolon"}
           number == CASE Leaves(moves, {"pri_sp", "start"}, {"counted"}) -> set_number(mark(n), "msgcount")
                       [] Leaves(moves, {"msgcountval"}, {"counted"}) -> set_number(n, "msgcount")
                       [] Leaves(moves, {"sequenceval"}, {"sequenced"}) -> set_number(n, "sequence")
                       [] OTHER -> n
           host   == IF Leaves(moves, {"ciscoHostname"}, {"named"}) THEN set_hostname(number)
                     ELSE number
           stamp  == IF Leaves(moves, {"stamp", "stamp_secfrac"}, behind) THEN set_timestamp(host)
                     ELSE IF Leaves(moves, {"rfc3339"}, behind) THEN set_rfc3339(host)
                     ELSE host
<1>1. header(n, t) = IF moves = {} THEN header_error(n)
                     ELSE IF stamp.cs = "fail" THEN stamp
                     ELSE IF "sp" \in To(moves) THEN [Goto(stamp, "body") EXCEPT !.at = {"sp"}]
                     ELSE [Take(marked(stamp), t) EXCEPT !.at = To(moves)]
  BY Zenon DEF header
<1>2. n.data \in Seq(Tokens) /\ Told(n, n)
  BY DEF Placed, Keeping, Alive, Told
<1> HIDE DEF moves
<1>3. Told(n, number)
  <2>1. Told(n, mark(n))
    BY <1>2, ActionsTold
  <2>2. \A f \in {"msgcount", "sequence"} : /\ Told(n, set_number(mark(n), f))
                                            /\ Told(n, set_number(n, f))
    BY <1>2, <2>1, ActionsTold
  <2>3. "msgcount" \in {"msgcount", "sequence"} /\ "sequence" \in {"msgcount", "sequence"}
    OBVIOUS
  <2> QED
    BY <1>2, <2>2, <2>3, Zenon
<1> HIDE DEF number
<1>4. Told(n, host)
  <2>1. Told(n, set_hostname(number))
    BY <1>2, <1>3, ActionsTold
  <2> QED
    BY <1>3, <2>1, Zenon
<1> HIDE DEF host
<1>5. Told(n, stamp)
  <2>1. Told(n, set_timestamp(host)) /\ Told(n, set_rfc3339(host))
    BY <1>2, <1>4, ActionsTold
  <2> QED
    BY <1>4, <2>1, Zenon
<1> HIDE DEF stamp
<1>6. ASSUME NEW k, k = header_error(n) PROVE Keeping(k)
  <2>1. k.cs \in {"fail", "st0"}
    BY <1>6, HeaderErrorAside
  <2> QED
    BY <2>1 DEF Keeping, Alive
<1>7. ASSUME NEW k, k = stamp, stamp.cs = "fail" PROVE Keeping(k)
  BY <1>7 DEF Keeping, Alive
<1>8. ASSUME NEW k, k = [Goto(stamp, "body") EXCEPT !.at = {"sp"}] PROVE Keeping(k)
  <2>1. k.at = {"sp"} /\ k.data = <<>> /\ k.pb = 0 /\ k.output = stamp.output
    BY <1>5, <1>8 DEF Told, Goto, Fields
  <2> QED
    BY <1>5, <2>1 DEF Keeping, Kept, Told, Answers
<1>9. ASSUME NEW k, k = [Take(marked(stamp), t) EXCEPT !.at = To(moves)] PROVE Keeping(k)
  <2> DEFINE o == marked(stamp)
  <2>1. Told(n, o)
    BY <1>2, <1>5, ActionsTold, Zenon
  <2> HIDE DEF o
  <2>2. k.cs = o.cs /\ k.output = o.output
    <3>1. k = [Take(o, t) EXCEPT !.at = To(moves)]
      BY <1>9 DEF o
    <3> QED
      BY <2>1, <3>1 DEF Told, Take, Fields
  <2>3. k.cs \in {"header", "fail"}
    BY <2>1, <2>2 DEF Told
  <2> QED
    BY <2>1, <2>2, <2>3 DEF Keeping, Told, Answers
<1> QED
  BY <1>1, <1>6, <1>7, <1>8, <1>9, Zenon

(* A token of the body does not lead back. *)
LEMMA BodyStays ==
    ASSUME NEW n, NEW t, DOMAIN n = Fields, n.cs = "body"
    PROVE  body(n, t).cs \in {"body", "fail", "st0"}
<1> DEFINE moves   == Taken(n, t, BodyMoves(n))
           host    == IF Leaves(moves, {"hostname"}, {"hostname_sp"}) THEN set_hostname(n) ELSE n
           tag     == IF Leaves(moves, {"tag"}, {"content", "colon"}) THEN Set(host, "tag") ELSE host
           marked  == IF \E move \in moves : Begins(move) THEN mark(tag) ELSE tag
           content == IF "content_end" \in To(moves) THEN Set(marked, "content") ELSE marked
           message == IF "end" \in To(moves) THEN Set(content, "message") ELSE content
           Stays(o) == DOMAIN o = Fields /\ o.cs = "body"
<1>1. body(n, t) = IF moves = {} THEN body_error(n) ELSE [Take(message, t) EXCEPT !.at = To(moves)]
  BY Zenon DEF body
<1>2. ASSUME NEW o, Stays(o)
      PROVE  Stays(set_hostname(o)) /\ Stays(mark(o)) /\ \A f : Stays(Set(o, f))
  BY <1>2 DEF set_hostname, mark, Set, Fields
<1>3. Stays(n)
  OBVIOUS
<1> HIDE DEF moves, Stays
<1>4. Stays(host)
  BY <1>2, <1>3, Zenon
<1> HIDE DEF host
<1>5. Stays(tag)
  BY <1>2, <1>4, Zenon
<1> HIDE DEF tag
<1>6. Stays(marked)
  BY <1>2, <1>5, Zenon
<1> HIDE DEF marked
<1>7. Stays(content)
  BY <1>2, <1>6, Zenon
<1> HIDE DEF content
<1>8. Stays(message)
  BY <1>2, <1>7, Zenon
<1> HIDE DEF message
<1>9. [Take(message, t) EXCEPT !.at = To(moves)].cs = "body"
  BY <1>8 DEF Stays, Take, Fields
<1>10. body_error(n).cs \in {"fail", "st0"}
  BY BodyErrorAside
<1> QED
  BY <1>1, <1>9, <1>10

(* A token. *)
LEMMA StepKept ==
    ASSUME NEW n, NEW t \in Tokens, DOMAIN n = Fields, Placed(n), Keeping(n)
    PROVE  Keeping(Step(n, t))
<1>1. CASE n.cs = "prival"
  BY <1>1, PrivalKept DEF Step
<1>2. CASE n.cs = "header"
  BY <1>2, HeaderKept DEF Step
<1>3. CASE n.cs = "body"
  <2>1. /\ n.data \in Seq(Tokens) /\ n.pb \in 0..Len(n.data) /\ n.at # {}
        /\ Answers(n) /\ Kept(n)
    BY <1>3 DEF Placed, InBody, Keeping, Alive
  <2>2. body(n, t).cs = "body" => Answers(body(n, t)) /\ Kept(body(n, t))
    BY <1>3, <2>1, BodyKept
  <2>3. body(n, t).cs \in {"body", "fail", "st0"}
    BY <1>3, BodyStays
  <2>4. Step(n, t) = body(n, t)
    BY <1>3 DEF Step
  <2> QED
    BY <2>2, <2>3, <2>4 DEF Keeping, Alive
<1>4. CASE n.cs \in {"fail", "st0"}
  BY <1>4 DEF Step
<1> QED
  BY <1>1, <1>2, <1>3, <1>4 DEF Placed

-----------------------------------------------------------------------------
(* A string behind another is the end of both.                              *)
LEMMA SuffixIs ==
    ASSUME NEW b \in Seq(Tokens), NEW y \in Seq(Tokens)
    PROVE  /\ IsSuffix(y, b \o y)
           /\ SubSeq(b \o y, 1, Len(b \o y) - Len(y)) = b
<1> DEFINE w == b \o y
           l == Len(y)
           k == Len(w)
           q == Len(b)
           v == [i \in 1..l |-> y[(l - i) + 1]]
           u == [i \in 1..k |-> w[(k - i) + 1]]
<1>1. /\ w \in Seq(Tokens) /\ k = q + l /\ l \in Nat /\ q \in Nat
      /\ \A i \in 1..q : w[i] = b[i]
      /\ \A i \in 1..l : w[q + i] = y[i]
  OBVIOUS
<1> HIDE DEF w
<1>2. /\ v \in Seq(Tokens) /\ Len(v) = l /\ \A i \in 1..l : v[i] = y[(l - i) + 1]
  <2>1. \A i \in 1..l : (l - i) + 1 \in 1..l
    OBVIOUS
  <2>2. \A i \in 1..l : y[i] \in Tokens
    OBVIOUS
  <2> HIDE DEF l
  <2> QED
    BY <1>1, <2>1, <2>2
<1>3. /\ u \in Seq(Tokens) /\ Len(u) = k /\ \A i \in 1..k : u[i] = w[(k - i) + 1]
  <2>1. \A i \in 1..k : (k - i) + 1 \in 1..k
    BY <1>1
  <2>2. \A i \in 1..k : w[i] \in Tokens
    BY <1>1
  <2>3. k \in Nat
    BY <1>1
  <2> HIDE DEF k
  <2> QED
    BY <2>1, <2>2, <2>3
<1> HIDE DEF l, k, q
<1>4. \A i \in 1..l : u[i] = v[i]
  <2> SUFFICES ASSUME NEW i \in 1..l PROVE u[i] = v[i]
    OBVIOUS
  <2>1. i \in 1..k /\ (l - i) + 1 \in 1..l /\ (k - i) + 1 = q + ((l - i) + 1)
    BY <1>1
  <2> QED
    BY <1>1, <1>2, <1>3, <2>1, Zenon
<1>5. l <= k /\ k - l = q
  BY <1>1
<1> HIDE DEF u, v
<1>6. SubSeq(v, 1, l) = SubSeq(u, 1, l)
  <2> DEFINE x == SubSeq(v, 1, l)
             z == SubSeq(u, 1, l)
  <2>1. x \in Seq(Tokens) /\ Len(x) = l /\ \A i \in 1..l : x[i] = v[i]
    BY <1>1, <1>2
  <2>2. z \in Seq(Tokens) /\ Len(z) = l /\ \A i \in 1..l : z[i] = u[i]
    BY <1>1, <1>3, <1>5
  <2> HIDE DEF x, z
  <2>3. x = z
    BY <1>4, <2>1, <2>2, SeqEqual
  <2> QED
    BY <2>3 DEF x, z
<1>7. IsSuffix(y, w)
  <2>1. IsPrefix(v, u)
    BY <1>2, <1>3, <1>5, <1>6, Zenon DEF IsPrefix
  <2> QED
    BY <2>1, Zenon DEF IsSuffix, Reverse, u, v, l, k
<1>8. SubSeq(w, 1, k - l) = b
  <2> DEFINE z == SubSeq(w, 1, q)
  <2>0. q <= k /\ k \in Nat
    BY <1>1
  <2>1. z \in Seq(Tokens) /\ Len(z) = q /\ \A i \in 1..q : z[i] = w[i]
    BY <1>1, <2>0 DEF k
  <2> HIDE DEF z
  <2>2. z = b
    BY <1>1, <2>1, SeqEqual DEF q
  <2> QED
    BY <1>5, <2>2 DEF z
<1> QED
  BY <1>7, <1>8 DEF w, l, k

(* Without its last token a string is what it was before that was read. *)
LEMMA DropsLast ==
    ASSUME NEW w \in Seq(Tokens), NEW t \in Tokens
    PROVE  SubSeq(Append(w, t), 1, Len(Append(w, t)) - 1) = w
<1> DEFINE a == Append(w, t)
           l == Len(w)
           z == SubSeq(a, 1, l)
<1>1. /\ a \in Seq(Tokens) /\ Len(a) = l + 1 /\ l \in Nat
      /\ \A i \in 1..l : a[i] = w[i]
  OBVIOUS
<1> HIDE DEF a
<1>2. Len(a) - 1 = l
  BY <1>1
<1>3. z \in Seq(Tokens) /\ Len(z) = l /\ \A i \in 1..l : z[i] = a[i]
  BY <1>1
<1> HIDE DEF z
<1>4. z = w
  BY <1>1, <1>3, SeqEqual
<1> QED
  BY <1>2, <1>4 DEF a, z

(* The tags, as the property writes them. *)
LEMMA TagsAre ==
    ASSUME NEW g \in Seq(Tokens), NEW c \in Seq(Tokens)
    PROVE  /\ Append(g, "[") = g \o <<"[">>
           /\ Coloned(g) = g \o <<":", " ">>
           /\ Append(g, "[") \o Coloned(Closed(c)) = ((g \o <<"[">>) \o c) \o <<"]", ":", " ">>
           /\ Append(g, "[") \in Seq(Tokens) /\ Coloned(g) \in Seq(Tokens)
           /\ Append(g, "[") \o Coloned(Closed(c)) \in Seq(Tokens)
<1> DEFINE x == "["
           y == "]"
           z == ":"
           e == " "
<1>0. x \in Tokens /\ y \in Tokens /\ z \in Tokens /\ e \in Tokens
  BY DEF Tokens, BodyTokens
<1> HIDE DEF x, y, z, e
<1>1. Append(g, x) = g \o <<x>> /\ Append(g, x) \in Seq(Tokens)
  BY <1>0, AppendIsConcat
<1>2. ASSUME NEW s \in Seq(Tokens)
      PROVE  /\ Append(Append(s, z), e) = s \o <<z, e>>
             /\ Append(Append(s, z), e) \in Seq(Tokens)
             /\ Append(Append(Append(s, y), z), e) = s \o <<y, z, e>>
             /\ Append(Append(Append(s, y), z), e) \in Seq(Tokens)
  <2> DEFINE u == Append(Append(s, z), e)
             v == s \o <<z, e>>
             p == Append(Append(Append(s, y), z), e)
             q == s \o <<y, z, e>>
  <2>1. u \in Seq(Tokens) /\ v \in Seq(Tokens) /\ Len(u) = Len(v) /\ \A i \in 1..Len(u) : u[i] = v[i]
    BY <1>0
  <2>2. p \in Seq(Tokens) /\ q \in Seq(Tokens) /\ Len(p) = Len(q)
    BY <1>0
  <2>3. \A i \in 1..Len(p) : p[i] = q[i]
    BY <1>0
  <2> HIDE DEF u, v, p, q
  <2>4. u = v /\ p = q
    BY <2>1, <2>2, <2>3, SeqEqual
  <2> QED
    BY <2>1, <2>2, <2>4 DEF u, v, p, q
<1>3. <<y, z, e>> \in Seq(Tokens)
  BY <1>0
<1>4. (g \o <<x>>) \o (c \o <<y, z, e>>) = ((g \o <<x>>) \o c) \o <<y, z, e>>
  <2>1. g \o <<x>> \in Seq(Tokens)
    BY <1>1
  <2> HIDE DEF x, y, z, e
  <2> QED
    BY <1>3, <2>1, ConcatAssociative
<1>5. Append(g, x) \o Append(Append(Append(c, y), z), e) \in Seq(Tokens)
  BY <1>1, <1>2, ConcatProperties
<1> QED
  BY <1>1, <1>2, <1>4, <1>5, Zenon DEF Coloned, Closed, x, y, z, e

(* What precedes is no shorter than the spaces in it.                       *)
LEMMA LeadHas ==
    ASSUME NEW h \in Seq(Tokens), NEW q, Lead(h, q)
    PROVE  /\ q \in Seq(Tokens)
           /\ \E i, j \in 0..Len(q) : \/ q = Spaces(i)
                                      \/ j > 0 /\ q = (Spaces(i) \o h) \o Spaces(j)
<1>1. CASE \E i \in Nat : q = Spaces(i)
  <2>1. PICK i \in Nat : q = Spaces(i)
    BY <1>1
  <2>2. q \in Seq(Tokens) /\ Len(q) = i
    BY <2>1, SpacesAre
  <2>3. i \in 0..Len(q)
    BY <2>2
  <2> QED
    BY <2>1, <2>2, <2>3, Zenon
<1>2. CASE Named(h, q)
  <2>1. PICK i \in Nat, j \in Nat \ {0} : q = (Spaces(i) \o h) \o Spaces(j)
    BY <1>2, Zenon DEF Named
  <2> DEFINE s == Spaces(i)
             r == Spaces(j)
             p == s \o h
  <2>2. s \in Seq(Tokens) /\ Len(s) = i /\ r \in Seq(Tokens) /\ Len(r) = j
    BY SpacesAre
  <2> HIDE DEF s, r
  <2>3. p \in Seq(Tokens) /\ Len(p) = i + Len(h)
    BY <2>2
  <2> HIDE DEF p
  <2>4. q = p \o r
    BY <2>1 DEF s, r, p
  <2>5. q \in Seq(Tokens) /\ Len(q) = Len(p) + j
    BY <2>2, <2>3, <2>4, ConcatProperties
  <2>6. Len(h) \in Nat
    OBVIOUS
  <2>7. i \in 0..Len(q) /\ j \in 0..Len(q) /\ j > 0
    BY <2>3, <2>5, <2>6
  <2> QED
    BY <2>1, <2>5, <2>7, Zenon
<1> QED
  BY <1>1, <1>2 DEF Lead

(* The property of an answer o to an input of which d was read.             *)
Tags(o) == {<<>>, o.tag \o <<":", " ">>, o.tag \o <<"[">>,
            o.tag \o <<"[">> \o o.content \o <<"]", ":", " ">>}
Whole(o, input, d) ==
    LET front == SubSeq(input, 1, Len(input) - Len(o.message))
    IN  /\ o.message # <<>> /\ IsSuffix(o.message, input)
        /\ \/ o.hostname # <<>> /\ Bracketed(d)
           \/ \E i, j \in 0..Len(front), tag \in Tags(o) :
                 \/ front = Spaces(i) \o tag
                 \/ j > 0 /\ front = Spaces(i) \o o.hostname \o Spaces(j) \o tag

LeadsUp(o, b) ==
    \E q : Lead(o.hostname, q) /\ \E s \in Tags(o) \cap Seq(Tokens) : b = q \o s

(* What may precede the message leads up to a tag as the property writes    *)
(* it.                                                                      *)
LEMMA TagsBehind ==
    ASSUME NEW o, o.hostname \in Seq(Tokens), o.tag \in Seq(Tokens), o.content \in Seq(Tokens),
           NEW b, Before(o.hostname, o.tag, o.content, b)
    PROVE  LeadsUp(o, b)
<1> DEFINE h == o.hostname
           g == o.tag
           c == o.content
           A == Append(g, "[")
           C == Coloned(Closed(c))
           D == Coloned(g)
           T == Tags(o)
<1>1. D \in T /\ A \in T /\ A \o C \in T /\ <<>> \in T
  <2>1. T = {<<>>, D, A, A \o C}
    BY TagsAre, Zenon DEF Tags
  <2> HIDE DEF T, D, A, C
  <2> QED
    BY <2>1
<1>2. /\ D \in Seq(Tokens) /\ A \in Seq(Tokens) /\ A \o C \in Seq(Tokens)
  BY TagsAre
<1>3. <<>> \in Seq(Tokens)
  OBVIOUS
<1>4. C \in Seq(Tokens)
  <2> DEFINE k == Append(c, "]")
  <2>1. "]" \in Tokens
    BY DEF Tokens, BodyTokens
  <2>2. k \in Seq(Tokens)
    BY <2>1
  <2> HIDE DEF k
  <2>3. Coloned(k) \in Seq(Tokens)
    BY <2>2, TagsAre
  <2> QED
    BY <2>3 DEF Closed, k
<1>5. \A q : Lead(h, q) => q \in Seq(Tokens)
  BY LeadIs
<1>a. ASSUME NEW x \in Seq(Tokens), NEW y \in Seq(Tokens), NEW z \in Seq(Tokens)
      PROVE  (x \o y) \o z = x \o (y \o z)
  BY ConcatAssociative, SMTT(30)
<1> HIDE DEF h, g, c, A, C, D, T
<1> SUFFICES \E q : Lead(h, q) /\ \E s \in T \cap Seq(Tokens) : b = q \o s
  BY DEF h, T, LeadsUp
<1>6. CASE Lead(h, b)
  <2>1. b \o <<>> = b
    BY <1>5, <1>6, ConcatEmptySeq
  <2>2. <<>> \in T \cap Seq(Tokens)
    BY <1>1, <1>3
  <2> QED
    BY <1>6, <2>1, <2>2, Zenon
<1>7. CASE \E q : Lead(h, q) /\ b = q \o D
  <2>1. D \in T \cap Seq(Tokens)
    BY <1>1, <1>2
  <2> QED
    BY <1>7, <2>1, Zenon
<1>8. CASE \E q : Lead(h, q) /\ b = q \o A
  <2>1. A \in T \cap Seq(Tokens)
    BY <1>1, <1>2
  <2> QED
    BY <1>8, <2>1, Zenon
<1>9. CASE \E p : (\E q : Lead(h, q) /\ p = q \o A) /\ b = p \o C
  <2>1. PICK q : Lead(h, q) /\ b = (q \o A) \o C
    BY <1>9, Zenon
  <2>2. b = q \o (A \o C)
    <3>1. q \in Seq(Tokens)
      BY <1>5, <2>1
    <3>2. (q \o A) \o C = q \o (A \o C)
      BY <1>2, <1>4, <1>a, <3>1, SMTT(30)
    <3> QED
      BY <2>1, <3>2, Zenon
  <2>3. A \o C \in T \cap Seq(Tokens)
    BY <1>1, <1>2
  <2> QED
    BY <2>1, <2>2, <2>3, Zenon
<1> QED
  BY <1>6, <1>7, <1>8, <1>9, Zenon DEF Before, Opened, h, g, c, A, C, D

(* So nothing is lost of an input that is such a string and the message. *)
LEMMA WholeIs ==
    ASSUME NEW o, o.hostname \in Seq(Tokens), o.tag \in Seq(Tokens), o.content \in Seq(Tokens),
           o.message \in Seq(Tokens) \ {<<>>}, NEW b \in Seq(Tokens), NEW d,
           \/ Before(o.hostname, o.tag, o.content, b)
           \/ o.hostname # <<>> /\ Bracketed(d)
    PROVE  Whole(o, b \o o.message, d)
<1>0. ASSUME Before(o.hostname, o.tag, o.content, b)
      PROVE  LeadsUp(o, b)
  BY <1>0, TagsBehind
<1> DEFINE y == o.message
           h == o.hostname
           w == b \o y
<1>1. y \in Seq(Tokens) /\ y # <<>>
  OBVIOUS
<1>2. IsSuffix(y, w) /\ SubSeq(w, 1, Len(w) - Len(y)) = b
  BY <1>1, SuffixIs
<1>3. CASE o.hostname # <<>> /\ Bracketed(d)
  BY <1>1, <1>2, <1>3, Zenon DEF Whole
<1>4. CASE Before(o.hostname, o.tag, o.content, b)
  <2>0. PICK q : Lead(h, q) /\ \E s \in Tags(o) \cap Seq(Tokens) : b = q \o s
    BY <1>0, <1>4, Zenon DEF LeadsUp
  <2>1. PICK s \in Tags(o) \cap Seq(Tokens) : Lead(h, q) /\ b = q \o s
    BY <2>0
  <2> HIDE DEF y, h, w
  <2>2. h \in Seq(Tokens)
    BY DEF h
  <2>r. /\ q \in Seq(Tokens)
        /\ \E i, j \in 0..Len(q) :
              \/ q = Spaces(i)
              \/ j > 0 /\ q = (Spaces(i) \o h) \o Spaces(j)
    BY <2>1, <2>2, LeadHas, Zenon
  <2>3. PICK i, j \in 0..Len(q) :
            \/ q = Spaces(i)
            \/ j > 0 /\ q = (Spaces(i) \o h) \o Spaces(j)
    BY <2>r, Zenon
  <2>4. i \in 0..Len(b) /\ j \in 0..Len(b)
    <3>1. Len(b) = Len(q) + Len(s) /\ Len(q) \in Nat /\ Len(s) \in Nat
      BY <2>1, <2>r, ConcatProperties, LenProperties
    <3> QED
      BY <3>1
  <2>5. \/ b = Spaces(i) \o s
        \/ j > 0 /\ b = ((Spaces(i) \o h) \o Spaces(j)) \o s
    BY <2>1, <2>3, Zenon
  <2>6. s \in Tags(o)
    OBVIOUS
  <2>7. \E i0, j0 \in 0..Len(b), tag \in Tags(o) :
           \/ b = Spaces(i0) \o tag
           \/ j0 > 0 /\ b = ((Spaces(i0) \o h) \o Spaces(j0)) \o tag
    BY <2>4, <2>5, <2>6, Zenon
  <2> QED
    BY <1>1, <1>2, <2>7, Zenon DEF Whole, y, h, w
<1> QED
  BY <1>3, <1>4

(* At the end of the input, and behind the newline that ended it.           *)
LEMMA EofWhole ==
    ASSUME NEW n, DOMAIN n = Fields, Placed(n), Keeping(n), Final(Eof(n))
    PROVE  LET e == Eof(n)
               ended == "end" \in e.at /\ ~e.newline
           IN  Whole(e.output, IF ended THEN SubSeq(e.data, 1, Len(e.data) - 1) ELSE e.data, e.data)
<1> DEFINE e == Eof(n)
           o == e.output
           ended == "end" \in e.at /\ ~e.newline
<1>0. n.data \in Seq(Tokens) /\ n.pb \in 0..Len(n.data)
  BY DEF Placed
<1>1. e.cs = "body"
  BY DEF Final
<1>2. n.cs = "body" /\ ("mex" \in n.at \/ "end" \in n.at)
  <2>1. CASE n.cs = "prival"
    BY <1>1, <2>1 DEF Eof, Fail, Fields
  <2>2. CASE n.cs = "header"
    <3>1. header_error(n).cs \in {"fail", "st0"}
      BY HeaderErrorAside
    <3> QED
      BY <1>1, <2>2, <3>1 DEF Eof
  <2>3. CASE n.cs = "body" /\ "mex" \notin n.at /\ "end" \notin n.at
    <3>1. body_error(n).cs \in {"fail", "st0"}
      BY BodyErrorAside
    <3> QED
      BY <1>1, <2>3, <3>1 DEF Eof
  <2>4. CASE n.cs \in {"fail", "st0"}
    BY <1>1, <2>4 DEF Eof
  <2> QED
    BY <2>1, <2>2, <2>3, <2>4 DEF Placed
<1>3. /\ DOMAIN n.output = Outputs /\ n.output.hostname \in Seq(Tokens)
      /\ n.output.tag \in Seq(Tokens) /\ n.output.content \in Seq(Tokens) /\ Kept(n)
  BY <1>2 DEF Keeping, Alive, Answers
<1>4. CASE "mex" \in n.at
  <2>1. e = Set(n, "message")
    BY <1>2, <1>4 DEF Eof
  <2> DEFINE x == text(n)
  <2>2. e = [n EXCEPT !.output["message"] = x]
    BY <2>1 DEF Set
  <2> HIDE DEF e, x
  <2>3. e.at = n.at /\ e.data = n.data /\ e.newline = n.newline /\ o = [n.output EXCEPT !["message"] = x]
    BY <2>2 DEF Fields
  <2>4. /\ o.hostname = n.output.hostname /\ o.tag = n.output.tag
        /\ o.content = n.output.content /\ o.message = x
    BY <1>3, <2>3 DEF Outputs
  <2>5. x \in Seq(Tokens) /\ before(n) \in Seq(Tokens) /\ n.data = before(n) \o x
    BY <1>0, TextBehind DEF x
  <2>6. /\ x # <<>> /\ ("end" \in n.at => n.newline)
        /\ \/ Before(o.hostname, o.tag, o.content, before(n))
           \/ o.hostname # <<>> /\ Bracketed(n.data)
    <3>1. CASE /\ n.at = {"sp", "mex"} /\ text(n) = <<" ">>
               /\ \E i \in Nat : before(n) = Spaces(i) /\ n.data = Spaces(i + 1)
      <4>1. "end" \notin {"sp", "mex"} /\ " " \in Tokens
        BY TokenKinds
      <4>2. <<" ">> # <<>>
        BY <4>1, OneToken
      <4>3. Lead(o.hostname, before(n))
        BY <1>3, <2>4, <3>1, LeadIs
      <4>4. Before(o.hostname, o.tag, o.content, before(n))
        BY <4>3, BeforesAre
      <4> QED
        BY <3>1, <4>1, <4>2, <4>4, Zenon DEF x
    <3>2. CASE /\ text(n) # <<>> /\ ("end" \in n.at => n.newline)
               /\ InWord(n) \/ ("hostname" \notin n.at /\ Broken(n))
      BY <2>4, <3>2, Zenon DEF InWord, Broken, x
    <3>3. n.at # {"sp"} /\ n.at # {"end"}
      <4>1. "mex" \notin {"sp"} /\ "mex" \notin {"end"}
        OBVIOUS
      <4> QED
        BY <1>4, <4>1, Zenon
    <3> QED
      BY <1>3, <3>1, <3>2, <3>3, Zenon DEF Kept
  <2>7. ~ended
    BY <2>3, <2>6
  <2> HIDE DEF o
  <2>8. Whole(o, before(n) \o o.message, n.data)
    BY <1>3, <2>4, <2>5, <2>6, WholeIs
  <2> QED
    BY <2>3, <2>4, <2>5, <2>7, <2>8, Zenon DEF o, e
<1>5. CASE "mex" \notin n.at
  <2>1. e = n
    BY <1>2, <1>5 DEF Eof
  <2>2. "sp" # "end" /\ "end" \notin {"sp"} /\ "mex" \in {"sp", "mex"}
    OBVIOUS
  <2>3. PICK b : /\ n.at = {"end"} /\ ~n.newline
                 /\ n.data = Append(b \o n.output.message, "\n")
                 /\ b \in Seq(Tokens) /\ n.output.message \in Seq(Tokens) \ {<<>>}
                 /\ \/ Before(n.output.hostname, n.output.tag, n.output.content, b)
                    \/ Broken(n)
    BY <1>2, <1>3, <1>5, <2>2, Zenon DEF Kept
  <2>4. ended
    BY <2>1, <2>3
  <2>5. Whole(n.output, b \o n.output.message, n.data)
    BY <1>3, <2>3, WholeIs DEF Broken
  <2>6. SubSeq(n.data, 1, Len(n.data) - 1) = b \o n.output.message
    <3> DEFINE w == b \o n.output.message
    <3>1. w \in Seq(Tokens) /\ "\n" \in Tokens
      BY <2>3, ConcatProperties DEF Tokens, BodyTokens
    <3> HIDE DEF w
    <3>2. SubSeq(Append(w, "\n"), 1, Len(Append(w, "\n")) - 1) = w
      BY <3>1, DropsLast
    <3> QED
      BY <2>3, <3>2, Zenon DEF w
  <2> QED
    BY <2>1, <2>4, <2>5, <2>6, Zenon
<1> QED
  BY <1>4, <1>5

-----------------------------------------------------------------------------
WholeAt(n, o) ==
    LET ended == "end" \in n.at /\ ~n.newline
    IN  Whole(o, IF ended THEN SubSeq(n.data, 1, Len(n.data) - 1) ELSE n.data, n.data)

(* The invariant. *)
KeptInv ==
    /\ call.pc \in {"read", "end"} => Keeping(m)
    /\ call.pc = "done" /\ Final(m) => WholeAt(m, call.res.msg)

(* A call begins without an answer. *)
LEMMA BeginAnswers ==
    ASSUME NEW n, DOMAIN n = Fields, NEW start, NEW places
    PROVE  /\ DOMAIN Begin(n, start, places) = Fields /\ Answers(Begin(n, start, places))
           /\ Begin(n, start, places).cs = start /\ Begin(n, start, places).at = places
           /\ Begin(n, start, places).data = <<>> /\ Begin(n, start, places).pb = 0
<1> DEFINE b == Begin(n, start, places)
           o == NoOutput
<1>1. /\ DOMAIN b = Fields /\ b.cs = start /\ b.at = places /\ b.data = <<>> /\ b.pb = 0
      /\ b.output = o
  BY DEF Begin, Fields
<1>2. /\ DOMAIN o = Outputs /\ o.hostname = <<>> /\ o.tag = <<>> /\ o.content = <<>>
  BY DEF NoOutput, Outputs
<1>3. <<>> \in Seq(Tokens)
  OBVIOUS
<1> HIDE DEF b, o
<1>4. Answers(b)
  BY <1>1, <1>2, <1>3 DEF Answers
<1> QED
  BY <1>1, <1>4 DEF b

(* The head of Parse. *)
LEMMA KeptCall ==
    ASSUME FreshInv, NEW first, Call(first)
    PROVE  KeptInv'
<1> DEFINE off == first # "<"
           New(n) == IF off THEN Begin([n EXCEPT !.flags = NoFlags], "header", {"start"})
                     ELSE Begin(n, "main", {})
           First(n) == IF first = "EOF" THEN New(n) ELSE Step(New(n), first)
<1>0. DOMAIN m = Fields /\ DOMAIN call = CallFields /\ m.cs = "main"
  <2>1. DOMAIN m = Fields /\ DOMAIN call = CallFields
    BY DEF FreshInv, HasOptions
  <2>2. m = NewMachine(config)
    BY DEF FreshInv, Call
  <2>3. m.cs = "main"
    BY <2>2 DEF NewMachine
  <2> QED
    BY <2>1, <2>3
<1>1. CASE off /\ ~m.optionalPriority
  <2>1. m' = [m EXCEPT !.err = "errPri"]
        /\ call' = [call EXCEPT !.pc = "done", !.res = Result(FALSE, NoOutput, "errPri"),
                                !.alone.err = "errPri"]
    BY <1>1, Zenon DEF Call
  <2>2. m'.cs = "main" /\ call'.pc = "done"
    <3> DEFINE r == Result(FALSE, NoOutput, "errPri")
               a == [call.alone EXCEPT !.err = "errPri"]
    <3>1. call' = [call EXCEPT !.pc = "done", !.res = r, !.alone = a]
      BY <2>1
    <3> HIDE DEF r, a
    <3> QED
      BY <1>0, <2>1, <3>1 DEF Fields, CallFields
  <2> QED
    BY <2>2 DEF KeptInv, Final
<1>2. CASE ~(off /\ ~m.optionalPriority)
  <2>1. /\ m' = First(m)
        /\ call' = [call EXCEPT !.pc = IF first = "EOF" THEN "end" ELSE "read",
                                !.saved = m.flags, !.before = first,
                                !.alone = First(@), !.plain = First(@)]
    BY <1>2, Zenon DEF Call
  <2>2. call'.pc \in {"read", "end"}
    <3> DEFINE p == IF first = "EOF" THEN "end" ELSE "read"
               f == m.flags
               q == First(call.plain)
               a == First(call.alone)
    <3>1. call' = [call EXCEPT !.pc = p, !.saved = f, !.before = first, !.alone = a, !.plain = q]
      BY <2>1, Zenon
    <3>2. p \in {"read", "end"}
      OBVIOUS
    <3> HIDE DEF p, f, q, a
    <3> QED
      BY <1>0, <3>1, <3>2 DEF CallFields
  <2> SUFFICES Keeping(m)'
    BY <2>2 DEF KeptInv
  <2> DEFINE y == m'
  <2> SUFFICES Keeping(y)
    BY Zenon DEF Keeping, Alive, Answers, Kept, InWord, HostAt, Broken, before, text
  <2>9. y = First(m)
    BY <2>1
  <2> HIDE DEF y
  <2>3. CASE off
    <3> DEFINE x == Begin([m EXCEPT !.flags = NoFlags], "header", {"start"})
    <3>1. /\ DOMAIN x = Fields /\ x.cs = "header" /\ x.data = <<>> /\ x.pb = 0
          /\ x.at = {"start"} /\ Answers(x)
      <4> DEFINE k == [m EXCEPT !.flags = NoFlags]
      <4>1. DOMAIN k = Fields
        BY <1>0
      <4> HIDE DEF k
      <4>2. /\ DOMAIN Begin(k, "header", {"start"}) = Fields
            /\ Answers(Begin(k, "header", {"start"}))
            /\ Begin(k, "header", {"start"}).cs = "header"
            /\ Begin(k, "header", {"start"}).at = {"start"}
            /\ Begin(k, "header", {"start"}).data = <<>> /\ Begin(k, "header", {"start"}).pb = 0
        BY <4>1, BeginAnswers
      <4> QED
        BY <4>2 DEF k
    <3>2. y = x \/ y = Step(x, first)
      BY <2>9, <2>3, Zenon
    <3> HIDE DEF x
    <3>3. "start" \in HeaderPlaces /\ Known("start", x.data, x.pb)
      BY HeaderBegins
    <3>4. x.data \in Seq(Tokens) /\ x.pb \in 0..Len(x.data)
      BY <3>1
    <3>5. Placed(x) /\ Keeping(x)
      BY <3>1, <3>3, <3>4 DEF Placed, Keeping
    <3>6. Keeping(Step(x, first))
      BY <3>1, <3>5, HeaderKept DEF Step
    <3> QED
      BY <3>2, <3>5, <3>6
  <2>4. CASE ~off
    <3> DEFINE x == Begin(m, "main", {})
    <3>1. DOMAIN x = Fields /\ x.cs = "main" /\ Answers(x)
      BY <1>0, BeginAnswers
    <3>2. y = Step(x, first)
      BY <2>9, <2>4, Zenon
    <3> HIDE DEF x
    <3>3. y = Goto(x, "prival")
      BY <2>4, <3>1, <3>2 DEF Step
    <3>4. y.cs = "prival" /\ y.output = x.output
      BY <3>1, <3>3 DEF Goto, Fields
    <3> QED
      BY <3>1, <3>4 DEF Keeping, Answers
  <2> QED
    BY <2>3, <2>4
<1> QED
  BY <1>1, <1>2

(* A token. *)
LEMMA KeptRead ==
    ASSUME FreshInv, SilentInv, KeptInv, Read
    PROVE  KeptInv'
<1>0. /\ DOMAIN m = Fields /\ Placed(m) /\ Keeping(m) /\ DOMAIN call = CallFields
      /\ call.pc = "read"
  BY DEF Read, FreshInv, HasOptions, SilentInv, KeptInv
<1>1. PICK c \in Offered(m) \cup Offered(call.plain) :
          /\ m' = Step(m, c)
          /\ call' = [call EXCEPT !.before = IF Stopped(m') THEN @ ELSE c,
                                  !.alone = Step(@, c), !.plain = Step(@, c)]
  BY Zenon DEF Read
<1>2. \A n : Offered(n) \subseteq Tokens
  BY Rfc3164Assumption DEF Offered, Tokens
<1> DEFINE y == m'
<1>3. Keeping(y)
  BY <1>0, <1>1, <1>2, StepKept
<1>4. Keeping(m)'
  BY <1>3, Zenon DEF Keeping, Alive, Answers, Kept, InWord, HostAt, Broken, before, text
<1> DEFINE b == IF Stopped(m') THEN call.before ELSE c
           a == Step(call.alone, c)
           q == Step(call.plain, c)
<1>5. call' = [call EXCEPT !.before = b, !.alone = a, !.plain = q]
  BY <1>1, Zenon
<1> HIDE DEF a, b, q
<1>6. call'.pc = "read"
  BY <1>0, <1>5 DEF CallFields
<1> QED
  BY <1>4, <1>6 DEF KeptInv

(* The end of the input. *)
LEMMA KeptFinish ==
    ASSUME FreshInv, SilentInv, KeptInv, Finish
    PROVE  KeptInv'
<1> DEFINE e == Eof(m)
           r == Answer(e)
           q == Eof(call.plain)
           a == Eof(call.alone)
<1>0. /\ DOMAIN m = Fields /\ Placed(m) /\ Keeping(m) /\ DOMAIN call = CallFields
      /\ Sound(m, config)
  BY DEF Finish, FreshInv, HasOptions, SilentInv, KeptInv
<1>1. /\ m' = [e EXCEPT !.flags = call.saved]
      /\ call' = [call EXCEPT !.pc = "done", !.res = r, !.alone = a, !.plain = q]
  BY Zenon DEF Finish
<1>2. DOMAIN e = Fields
  BY <1>0, EofSound DEF Sound, HasOptions
<1>3. Final(e) => WholeAt(e, e.output)
  BY <1>0, EofWhole DEF WholeAt
<1>4. Final(e) => r.msg = e.output
  BY DEF Answer, Result
<1> HIDE DEF e, r, q, a
<1>5. call'.pc = "done" /\ call'.res = r
  BY <1>0, <1>1 DEF CallFields
<1> DEFINE x == m'
           o == call'.res.msg
<1>6. x.cs = e.cs /\ x.data = e.data /\ x.at = e.at /\ x.newline = e.newline
  BY <1>1, <1>2 DEF Fields
<1>7. o = r.msg
  BY <1>5
<1>8. Final(x) => WholeAt(x, o)
  <2> HIDE DEF x, o
  <2> QED
    BY <1>3, <1>4, <1>6, <1>7, Zenon DEF Final, WholeAt
<1>9. Final(m)' => WholeAt(m, call.res.msg)'
  BY <1>8, Zenon DEF Final, WholeAt
<1> QED
  BY <1>5, <1>9 DEF KeptInv

(* Every step keeps it. *)
LEMMA KeptStep ==
    ASSUME FreshInv, SilentInv, KeptInv, [Next]_vars
    PROVE  KeptInv'
<1>1. CASE UNCHANGED vars
  <2>1. m' = m /\ call' = call
    BY <1>1 DEF vars
  <2> QED
    BY <2>1, Zenon DEF KeptInv, Keeping, Alive, Answers, Kept, InWord, HostAt, Broken, before, text,
                       Final, WholeAt
<1>2. CASE \E first \in Alphabet["main"] \cup Alphabet["start"] \cup {"EOF"} : Call(first)
  BY <1>2, KeptCall
<1>3. CASE Return
  <2>1. call'.pc = "idle"
    BY <1>3, NoCallFields DEF Return
  <2> QED
    BY <2>1 DEF KeptInv
<1> QED
  BY <1>1, <1>2, <1>3, KeptRead, KeptFinish DEF Next

-----------------------------------------------------------------------------
(* The theorems. *)

(* The invariants of a call on a used machine, and of the places. *)
LEMMA Invariant == Spec => []FreshInv
<1>1. FreshInv /\ [Next]_vars => FreshInv'
  BY FreshStep
<1> QED
  BY <1>1, FreshInit, PTL DEF Spec

LEMMA Places == Spec => []SilentInv
<1>1. Init => SilentInv
  <2>1. Init => call.pc = "idle"
    BY NoCallFields DEF Init
  <2> QED
    BY <2>1 DEF SilentInv
<1>2. FreshInv /\ SilentInv /\ [Next]_vars => SilentInv'
  BY SilentStep
<1> QED
  BY <1>1, <1>2, Invariant, PTL DEF Spec

(* Parse on a used machine answers as on one made for the input, and Err    *)
(* tells of this call (machine.go:137-176).                                 *)
THEOREM UsedAsFresh == Spec => []AsFresh
<1>1. FreshInv => AsFresh
  BY DEF FreshInv, AsFresh, Returned
<1> QED
  BY <1>1, Invariant, PTL

(* The deferred function brings the flags back that an input without PRI    *)
(* puts aside (machine.go:137-150), whatever way the call ended: no call    *)
(* ever leaves another setting of Cisco's options to the next.              *)
THEOREM FlagsRestored ==
    Spec => [](call.pc \in {"idle", "done"} => m.flags = Flags(config))
<1>1. FreshInv => (call.pc \in {"idle", "done"} => m.flags = Flags(config))
  BY NewIsSound DEF FreshInv
<1> QED
  BY <1>1, Invariant, PTL

(* What Parse refuses without an error (machine.go:140 says there is none)  *)
(* ends within the message, within a number or a date that begins           *)
(* something, or directly behind a timestamp: everywhere else one of the    *)
(* error actions of the grammar (machine.go.rl:98-156) names what is        *)
(* missing.                                                                 *)
THEOREM SilentRefusals == Spec => []SilentOnlyInside
<1>1. FreshInv /\ SilentInv => SilentOnlyInside
  <2> SUFFICES ASSUME FreshInv, SilentInv, Returned, ~Accepted, call.res.err = "nil"
               PROVE  Inside(m)
    BY Zenon DEF SilentOnlyInside, Inside
  <2> QED
    BY DEF FreshInv, SilentInv, Returned, Accepted
<1> QED
  BY <1>1, Invariant, Places, PTL

(* Cisco's options take nothing away: what a machine without them accepts   *)
(* with an RFC 3164 timestamp, one with any of them answers in the same way *)
(* (machine.go.rl:166-185).                                                 *)
THEOREM CiscoTakesNothing == Spec => []CiscoOnlyAdds
<1>1. Init => PlainInv
  <2> SUFFICES ASSUME Init PROVE PlainInv
    OBVIOUS
  <2>1. config \in Configs /\ call = NoCall(config)
    BY DEF Init
  <2> QED
    BY <2>1, NoCallPlain DEF PlainInv
<1>2. FreshInv /\ PlainInv /\ [Next]_vars => PlainInv'
  BY PlainStep
<1>3. PlainInv => CiscoOnlyAdds
  BY DEF PlainInv, CiscoOnlyAdds, Returned
<1> QED
  BY <1>1, <1>2, <1>3, Invariant, PTL DEF Spec

(* Of an input that is accepted nothing is lost between the answer's fields *)
(* (machine.go.rl:82-97, 169-220): the message is its end, and before it    *)
(* are only spaces, the host name, the tag and its content, however often   *)
(* the alternatives moved the one mark they share.  Left out is only a host *)
(* name with a '[' in it.                                                   *)
THEOREM NothingIsLost == Spec => []NothingLost
<1>1. Init => KeptInv
  <2>1. Init => call.pc = "idle"
    BY NoCallFields DEF Init
  <2> QED
    BY <2>1 DEF KeptInv
<1>2. FreshInv /\ SilentInv /\ KeptInv /\ [Next]_vars => KeptInv'
  BY KeptStep
<1>3. KeptInv => NothingLost
  <2> SUFFICES ASSUME KeptInv, Accepted PROVE WholeAt(m, call.res.msg)
    BY Zenon DEF NothingLost, WholeAt, Whole, Tags, Bracketed, BracketInFirstWord
  <2> QED
    BY DEF KeptInv, Accepted, Returned
<1> QED
  BY <1>1, <1>2, <1>3, Invariant, Places, PTL DEF Spec
============================================================================
