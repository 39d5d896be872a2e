---------------------------- MODULE OctetFraming ----------------------------
(***************************************************************************)
(* What octet counting promises, said of the byte stream alone: a stream   *)
(* is cut into frames                                                      *)
(*     MSGLEN [NUL] SP MSG      with MSG of exactly MSGLEN octets,          *)
(* each beginning where the one before ended, one LF allowed in between.   *)
(* The optional NUL is what octetcounting/scanner.go lets through.          *)
(*                                                                         *)
(* The specification delivers frames, refuses the stream at most once and   *)
(* then delivers nothing more.  OctetCounting is shown to implement it.     *)
(***************************************************************************)
EXTENDS Integers, Sequences

CONSTANT FrameBytes     \* the bytes of a stream

VARIABLES
    stream,     \* the bytes received so far
    limit,      \* the largest MSGLEN accepted
    frames,     \* the frames delivered: <<first offset, end offset>>
    status      \* "closed", "open" or "refused"

frameVars == <<stream, limit, frames, status>>

IsNumeral(ds) == /\ ds # <<>> /\ ds[1] \in 49..57
                 /\ \A i \in DOMAIN ds : ds[i] \in 48..57
NumeralValue(ds) ==
    LET value[k \in 0..Len(ds)] == IF k = 0 THEN 0 ELSE 10 * value[k - 1] + (ds[k] - 48)
    IN  value[Len(ds)]

(* s[a+1 .. b] is one frame: k digits, then the separator, then the message. *)
IsFrame(s, a, b, max) ==
    \E k \in 1..(b - a - 2), sep \in {<<32>>, <<0, 32>>} :
        LET digits == SubSeq(s, a + 1, a + k)
            body   == a + k + Len(sep)
        IN  /\ body < b
            /\ IsNumeral(digits)
            /\ SubSeq(s, a + k + 1, body) = sep
            /\ s[body + 1] = 60
            /\ NumeralValue(digits) = b - body
            /\ b - body <= max

(* s[a+1 ..] could still grow into a frame. *)
MayBecomeFrame(s, a, max) ==
    LET t == SubSeq(s, a + 1, Len(s))
    IN  \/ t = <<>>
        \/ \E k \in 1..Len(t), sep \in {<<>>, <<0>>, <<32>>, <<0, 32>>} :
              LET digits == SubSeq(t, 1, k)
                  body   == SubSeq(t, k + Len(sep) + 1, Len(t))
              IN  /\ IsNumeral(digits) /\ NumeralValue(digits) <= max
                  /\ k + Len(sep) <= Len(t) /\ SubSeq(t, k + 1, k + Len(sep)) = sep
                  /\ \/ body = <<>>
                     \/ /\ sep \in {<<32>>, <<0, 32>>} /\ body[1] = 60
                        /\ Len(body) < NumeralValue(digits)

(* Where the next frame may begin. *)
Starts(s, fs) ==
    IF fs = <<>> THEN {0}
    ELSE LET e == fs[Len(fs)][2]
         IN  IF Len(s) > e /\ s[e + 1] = 10 THEN {e + 1} ELSE {e}

Open ==
    /\ status \in {"closed", "refused"}
    /\ status' = "open" /\ stream' = <<>> /\ frames' = <<>>
    /\ limit' \in Nat

Receive ==
    /\ status = "open"
    /\ \E b \in FrameBytes : stream' = Append(stream, b)
    /\ UNCHANGED <<limit, frames, status>>

Deliver ==
    /\ status = "open"
    /\ \E a \in Starts(stream, frames), b \in 1..Len(stream) :
          /\ IsFrame(stream, a, b, limit)
          /\ frames' = Append(frames, <<a, b>>)
    /\ status' \in {"open", "refused"}   \* refused: the message itself is rejected
    /\ UNCHANGED <<stream, limit>>

Refuse ==
    /\ status = "open"
    /\ status' = "refused"
    /\ UNCHANGED <<stream, limit, frames>>

Close ==
    /\ status = "open"
    /\ frames # <<>>
    /\ status' = "closed"
    /\ UNCHANGED <<stream, limit, frames>>

FramingInit == stream = <<>> /\ frames = <<>> /\ status = "closed" /\ limit \in Nat

FramingNext == Open \/ Receive \/ Deliver \/ Refuse \/ Close

FramingSpec == FramingInit /\ [][FramingNext]_frameVars
=============================================================================
