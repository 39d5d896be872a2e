----------------------------- MODULE ReaderPool -----------------------------
(***************************************************************************)
(* The pool of buffered readers that every octet-counting scanner of the   *)
(* process shares (octetcounting/scanner.go, readerPool): getReader when a *)
(* scanner is made, Release when the parser's run returns.                 *)
(*                                                                         *)
(* sync.Pool is external: Get takes out any pooled item or finds none,     *)
(* Put adds one, and the garbage collector may drop pooled items at any    *)
(* time.  getReader's steps on the pool interleave between goroutines.     *)
(***************************************************************************)
EXTENDS Integers, FiniteSets

CONSTANTS
    Goroutines,    \* each runs one parser
    Readers,       \* bound: bufio.Readers alive at one time
    Request,       \* Request[g]: the buffer size g's parser asks for
    PoolParses     \* bound: Parse calls of one goroutine

ASSUME PoolAssumption ==
    /\ Request \in [Goroutines -> Nat \ {0}]
    /\ "none" \notin Readers
    /\ PoolParses \in Nat

VARIABLES
    pool,      \* the readers in the pool
    size,      \* size[r]: the reader's buffer size, 0 when r is not allocated
    source,    \* source[r]: the stream r reads from, <<goroutine, call>>
    pc, held,  \* per goroutine: where it is, the reader it refers to
    call       \* per goroutine: its Parse calls so far

vars == <<pool, size, source, pc, held, call>>

None == "none"
Free == {r \in Readers : size[r] = 0}
Stream(g) == <<g, call[g]>>

Init ==
    /\ pool = {}
    /\ size = [r \in Readers |-> 0]
    /\ source = [r \in Readers |-> <<None, 0>>]
    /\ pc = [g \in Goroutines |-> "idle"]
    /\ held = [g \in Goroutines |-> None]
    /\ call = [g \in Goroutines |-> 0]

(* readerPool.Get() at the start of getReader. *)
Get(g) ==
    /\ pc[g] = "idle" /\ call[g] < PoolParses
    /\ call' = [call EXCEPT ![g] = @ + 1]
    /\ \/ /\ pc' = [pc EXCEPT ![g] = "alloc"]
          /\ UNCHANGED <<pool, held>>
       \/ \E r \in pool :
             /\ pool' = pool \ {r}
             /\ held' = [held EXCEPT ![g] = r]
             /\ pc' = [pc EXCEPT ![g] = "check"]
    /\ UNCHANGED <<size, source>>

(* Mutant: the reader put back is used all the same. *)
PutBackAndUse(g) ==
    /\ pc[g] = "check" /\ size[held[g]] < Request[g]
    /\ pool' = pool \cup {held[g]}
    /\ pc' = [pc EXCEPT ![g] = "use"]
    /\ UNCHANGED <<size, source, held, call>>

(* The pooled buffer is too small: back with it, a new one is due. *)
PutBack(g) ==
    /\ pc[g] = "check" /\ size[held[g]] < Request[g]
    /\ pool' = pool \cup {held[g]}
    /\ held' = [held EXCEPT ![g] = None]
    /\ pc' = [pc EXCEPT ![g] = "alloc"]
    /\ UNCHANGED <<size, source, call>>

(* Mutant: a pooled reader is used as it is. *)
NoReset(g) ==
    /\ pc[g] = "check" /\ size[held[g]] >= Request[g]
    /\ pc' = [pc EXCEPT ![g] = "use"]
    /\ UNCHANGED <<pool, size, source, held, call>>

(* buf.Reset(r) *)
Reset(g) ==
    /\ pc[g] = "check" /\ size[held[g]] >= Request[g]
    /\ source' = [source EXCEPT ![held[g]] = Stream(g)]
    /\ pc' = [pc EXCEPT ![g] = "use"]
    /\ UNCHANGED <<pool, size, held, call>>

(* bufio.NewReaderSize(r, size); one that is not referred to is garbage. *)
Alloc(g) ==
    /\ pc[g] = "alloc"
    /\ \E r \in Free :
          /\ size' = [size EXCEPT ![r] = Request[g]]
          /\ source' = [source EXCEPT ![r] = Stream(g)]
          /\ held' = [held EXCEPT ![g] = r]
    /\ pc' = [pc EXCEPT ![g] = "use"]
    /\ UNCHANGED <<pool, call>>

(* The deferred Release.  The parser keeps its reference until it is        *)
(* overwritten by the next Parse.                                           *)
Release(g) ==
    /\ pc[g] = "use"
    /\ pool' = pool \cup {held[g]}
    /\ pc' = [pc EXCEPT ![g] = "idle"]
    /\ UNCHANGED <<size, source, held, call>>

(* The garbage collector empties part of the pool. *)
Collect ==
    /\ \E r \in pool :
          /\ pool' = pool \ {r}
          /\ size' = [size EXCEPT ![r] = 0]
    /\ UNCHANGED <<source, pc, held, call>>

Next == \/ \E g \in Goroutines : Get(g) \/ PutBack(g) \/ Reset(g) \/ Alloc(g) \/ Release(g)
        \/ Collect

Spec == Init /\ [][Next]_vars

-----------------------------------------------------------------------------
(* Every variable has its type. *)
TypeOK ==
    /\ pool \subseteq Readers
    /\ size \in [Readers -> Nat]
    /\ source \in [Readers -> (Goroutines \cup {None}) \X Nat]
    /\ pc \in [Goroutines -> {"idle", "alloc", "check", "use"}]
    /\ held \in [Goroutines -> Readers \cup {None}]
    /\ call \in [Goroutines -> Nat]

(* The goroutines whose reference is live: between Get and Release. *)
Holds(g) == pc[g] \in {"check", "use"}

(* A reader is never shared: no two goroutines between their Get and their  *)
(* Release refer to the same one, and none of theirs is in the pool for a   *)
(* third to take (scanner.go:27-50, 229-231).                               *)
Exclusive ==
    /\ \A g \in Goroutines : Holds(g) => held[g] \in Readers \ pool
    /\ \A g, h \in Goroutines : Holds(g) /\ Holds(h) /\ g # h => held[g] # held[h]

(* A scanner reads its own stream through a buffer as large as it asked     *)
(* for, whatever the reader it got was used for before (scanner.go:24-45).  *)
OwnStream ==
    \A g \in Goroutines : pc[g] = "use" =>
        source[held[g]] = Stream(g) /\ size[held[g]] >= Request[g]
=============================================================================
