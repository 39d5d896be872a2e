-------------------------- MODULE MCOctetCounting --------------------------
(***************************************************************************)
(* OctetCounting on small streams, and the refinement of OctetFraming.     *)
(***************************************************************************)
EXTENDS OctetCounting

(* The frames delivered.  Only the last result may have none. *)
Delivering == IF out # <<>> /\ out[Len(out)].span = NoSpan THEN Len(out) - 1 ELSE Len(out)
Spans      == [i \in 1..Delivering |-> out[i].span]

(* The stream the framing specification speaks of is the parser's reader. *)
Framing == INSTANCE OctetFraming WITH
               FrameBytes <- Alphabet,
               stream     <- input,
               limit      <- maxlen,
               frames     <- Spans,
               status     <- IF pc # "idle" THEN "open"
                             ELSE IF parses > 0 /\ Refused THEN "refused" ELSE "closed"

(* The run loop (parser.go:180-259) implements octet-counting framing: it   *)
(* delivers consecutive frames, each of exactly its MSGLEN octets, at most  *)
(* one LF between two of them, and nothing after it refused the stream.     *)
ImplementsFraming == Framing!FramingSpec

(* The converse: only what cannot be a frame is refused.  When Parse has    *)
(* returned with an error of the framing, then either the reader has ended  *)
(* and no frame begins where the last one delivered ended, or the bytes     *)
(* from there on are no beginning of any frame.                             *)
RefusesOnlyMalformed ==
    Returned /\ Refused /\ out[Len(out)].span = NoSpan =>
        \A a \in Framing!Starts(input, Spans) :
            IF rerr = "EOF"
            THEN \A b \in 1..Len(input) : ~Framing!IsFrame(input, a, b, maxlen)
            ELSE ~Framing!MayBecomeFrame(input, a, maxlen)
============================================================================
