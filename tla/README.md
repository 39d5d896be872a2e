# go-syslog: a TLA+ model

TLA+ specifications of `leodido/go-syslog`, the library that parses syslog
messages (RFC 3164, RFC 5424) and the transports that carry them (octet counting
and non-transparent framing of RFC 6587, BEEP framing of RFC 3195). TLC checks the
modules on small instances, TLAPS proves the theorems for every instance.

Paths below are relative to `src/`.

## 1. The system

| part | state it keeps | operations | talks to |
|---|---|---|---|
| octet-counting scanner, `octetcounting/scanner.go` | a `bufio.Reader`; `msglen`, `ready`, `maxlen` | `NewScanner`, `Scan`, `SetMaxLength`, `Release` | the reader pool, the `io.Reader` |
| octet-counting parser, `octetcounting/parser.go` | the scanner, one token of lookahead (`last`, `stepback`), limit, flags | three constructors, `Parse` (`run`), `WithBestEffort`, `WithMaxMessageLength` | scanner, inner machine, listener |
| reader pool, `octetcounting/scanner.go` | a process-wide `sync.Pool` | `getReader`, `putReader` | all parsers of the process |
| non-transparent parser, `nontransparent/parser.go(.rl)` | `candidate`, `lastChunk`, `readError`, the FSM's `cs` | `Parse`; `Exec`, `OnErr`, `OnEOF`, `OnCompletion` called back by the ragel-machinery driver | driver (external), inner machine, listener |
| auto-detecting machine, `auto/machine.go` | options, two strict and two best-effort inner machines | `NewMachine`, `WithBestEffort`, `Parse` | `detect`, inner machines |
| format detection, `auto/detect.go` | none | `detect` | |
| RFC 5424 machine, `rfc5424/machine.go(.rl)` | automaton state, mark, current element and parameter, backslash positions, the last error, the output | `Parse`, option methods | `common` |
| RFC 3164 machine, `rfc3164/machine.go(.rl)` | automaton state, mark, Cisco flags, the last error, the output | `Parse`, option methods | `common` |
| guarded parsers, `rfc5424/parser.go`, `rfc3164/parser.go` | a machine and a mutex | `Parse`; the machine's other methods, unguarded | goroutines |
| RFC 5424 builder, `rfc5424/builder.go(.rl)` | the message under construction | setters, `String` | |
| BEEP scanner, `rfc3195/frame.go` | a `bufio.Reader`, the payload limit | `NewScanner`, `Scan` | the connection |
| RAW and COOKED parsers, `rfc3195/raw.go`, `cooked.go` | flags, limit, inner machine | `Parse`, setters | scanner, inner machine or `encoding/xml`, listener |

A transport parser reads bytes, cuts out a message, hands it to its inner machine
and the outcome to a listener, all in the caller's goroutine. Two things are shared
between goroutines: the reader pool, and a machine behind `rfc5424.NewParser` or
`rfc3164.NewParser`, which take a lock.

What is hard here:

* **Streams end and fail anywhere**, within a numeral, before a separator or inside a
  message; the scanner folds an error, the end and a NUL byte into one marker.
* **State that outlives its use**: the lookahead token, the announced length, the
  candidate and the rest of the line-based parser, a parser used for a second reader.
* **Machine integers**: a length is a `uint64`, a limit an `int`, and `+20` is added to it.
* **Option order**: best effort can be switched on by a parser option, by a machine
  option, or by a method, before and after the machines exist.
* **Sharing**: buffers go through a pool, messages alias the reader's buffer, goroutines
  share one machine.
* **Nondeterminism in one automaton**: before an RFC 3164 timestamp Cisco's extras and the
  timestamp itself are tried at once, behind it a host name, a tag, a content and a message, and
  there is one mark for all of them.
* **Partial answers**: an error action takes away part of what best effort returns.

`PROJECT.json` lists these hazards one by one at the line where each bites, with the
properties that would catch it.

## 2. Modules

| module | models | kind |
|---|---|---|
| `OctetScanner` | `scanner.go`, on bytes; its own `ScannerSpec` has an arbitrary client | component |
| `OctetFraming` | what octet counting promises, said of the byte stream alone | abstract specification |
| `OctetCounting` | `parser.go`; extends `OctetScanner`, so parser and scanner run composed | component |
| `MCOctetCounting` | the refinement mapping to `OctetFraming`, and its converse | model checking |
| `OctetCountingProofs` | theorems about `OctetScanner` and `OctetCounting`, and their refinement of `OctetFraming` | proofs |
| `ReaderPool`, `MCReaderPool`, `ReaderPoolProofs` | the pool, between goroutines | component, model checking, proofs |
| `NonTransparent`, `NonTransparentProofs` | `nontransparent/parser.go` | component, proofs |
| `AutoMachine`, `MCAutoMachine`, `AutoMachineProofs` | `auto/machine.go` | component, model checking, proofs |
| `AutoDetect`, `MCAutoDetect`, `AutoDetectProofs` | `auto/detect.go` | component, model checking, proofs |
| `BeepScanner` | `rfc3195/frame.go` and the peer at the other end of the connection | component |
| `Rfc3195`, `MCRfc3195`, `Rfc3195Proofs` | `rfc3195/raw.go`, `cooked.go`; extends `BeepScanner`, so that scanner and parser run composed | component, model checking, proofs |
| `Rfc5424Machine` | `rfc5424/machine.go`, as a function from tokens to an answer | operators |
| `Rfc5424Builder` | `rfc5424/builder.go`; extends the machine, whose rules its setters share | component |
| `Rfc5424Parser`, `MCRfc5424`, `Rfc5424Proofs` | `rfc5424/parser.go`: goroutines around one machine; machine, builder and lock composed | component, model checking, proofs |
| `Rfc3164Machine`, `MCRfc3164`, `Rfc3164Proofs` | `rfc3164/machine.go` with its options, call after call | component, model checking, proofs |

Definitions whose comment begins with *Mutant* are deliberately wrong variants of the
definition that follows them. No specification uses them; putting one in the place of
the original must break the property it is listed with, which shows that the property
notices that mistake.

### Octet counting

Bytes keep their codes. `input` is what the reader has delivered so far, `pos` what
was consumed. The reader is lazy: `Fill` adds one byte, or reports an error or the
end, only where `bufio` would have to ask, so a behaviour is one choice of a stream
and of the place where it ends. `bufio`'s rules are kept: an error is reported once,
the end again and again; `Peek` fails when it asks for more than the buffer's size.

`Scan` is several actions, because each byte may have to be waited for: `spc` says
where it is (`scan`, `digits`, `peek`, then `token` when it has returned). `num` is
the value of the digits so far; a value no `uint64` holds stays one more than the
largest, which is where `ParseUint` fails. `int` and `uint64` are scaled down to
`-(MaxInt+1)..MaxInt` and `0..2*MaxInt+1`; `ToInt` is the wrapping conversion. The
constant 20 is `HeaderSlack`, 8192 is `DefaultMaxSize`, 16 is `MinBufSize`.

The run loop has one action for each branch on a token. `pc` is the token it waits
for; `post` is the look at what follows a message. `Break` includes the deferred
`Release`. Each result records, besides message and error, the octets of the frame it
came from (`span`) and what the inner machine was given (`lit`), so that properties
can compare results with the stream. The inner machine is any machine: `internalParse`
is the set of answers a machine of that family can give, among them the pair (no
message, no error) which the RFC 3164 machine returns when its automaton stops in a
non-final state without running an error action: the strict machine always, the one with
best effort where nothing minimally valid was read (`rfc3164/machine.go:74273`), that is,
without a PRI (`WithOptionalPriority`) before a message is complete (`syslog_message.go:26`).

`OctetFraming` knows nothing of tokens: a stream, the frames delivered, and whether
the stream was refused. A frame is a numeral without leading zero, at most the limit,
a space, and that many octets beginning with `<`; one LF may stand between frames.
The code also lets a NUL after the numeral pass (`scanner.go:160-161` consumes it),
and so does the specification, as an explicit optional separator.

### The pool

`getReader` is split where another goroutine can come in between: `Get`, then
`PutBack` (too small) or `Reset`, then `Alloc`. `sync.Pool` may give out any item or
none, and the collector may drop pooled readers at any time (`Collect`).

### Non-transparent framing

The driver cuts the stream into chunks ending in the trailer byte and calls back. A
chunk is its place in the stream, whether it begins with `<`, with other text or is a
bare trailer, and whether the trailer is still on it (`process` cuts one off). Those
are all the distinctions the automaton makes: within a chunk the trailer cannot occur
earlier. The driver is not in the repository; whether it calls `Exec` again after
the automaton stopped is left open, and both are checked.

### Auto-detection

`AutoMachine` models options by what `filterBestEffort` can find out about them: which
machine type they assert, and whether they turn best effort on, before or after that
assertion. The inner machines' verdict on an input is arbitrary, as is `detect`'s
guess: for each format whether the strict machine accepts, errs or stops silently, and
whether what was read by then is minimally valid (`partial`), which is what a best-effort
machine returns. `AutoDetect` is `detect` itself, loop by loop.

### RFC 3195

A connection is a sequence of units: header lines, `END` trailers, other bytes. A header
line is a record of what the checks of `frame.go` look at; every way of being no header
(too long, no CRLF, an unknown keyword, a number out of range) is `ok = FALSE`. The peer
owes the rest of the frame it began and may, `MaxFaults` times, send something else; a
payload may hold what looks like a trailer or a `NUL` header (`Lookalikes`). The connection
may end between two units or within one, or fail. `ReadAhead` is the one place where it
matters that `bufio` reads more than was asked for: a plain reader gets a new `bufio.Reader`
for each `Parse`, and what the old one had buffered behind the end of its exchange is lost.

The RAW parser's inner machine answers anything a machine may answer. A COOKED payload is
any `<entry>`, metadata, an unknown element or no XML; `processEntry` keeps the order of its
checks and the conversions to `uint8`.

### The message machines

An input is a sequence of tokens. A token is a byte, or stands for a run of bytes that the
states offered it take as one: a timestamp of RFC 5424 is `ts`, or `ts!` where it has the form of one but
`time.Parse` refuses it (a 31st of February). What a state cannot tell apart is one token.
`Alphabet` gives each state a token for each of its branches; that keeps inputs long enough
to pass through all fields. The ranges of the name fields are scaled down (`NameRange`).

`rfc5424/machine.go` is one alternative at a time: the state is the grammar's rule, and one
operator per rule says what it does with the next token, error action included. The grammar of
RFC 3164 is nondeterministic behind the PRI: `msgcount? sequence? ciscoHostname?` and a timestamp
of either kind may begin alike, and so may what follows it,
`(hostname sp+)? (tag content? ':' sp)? message`. The generated automaton runs the alternatives
together; only a counter is preferred (`<:`) to all that may follow it, at its first digit. Here a
token is a part of a timestamp (a month, two digits, the date of RFC 3339) or a byte; of the digits a
PRI is offered 9 only, which at most one more may follow. The model
keeps the set of places where the alternatives stand (`at`),
their moves (`ExtraMoves`, `StampMoves`, `FullMoves`, then `BodyMoves`), and the one mark (`pb`) that the alternatives overwrite. The order in
which the actions of simultaneous moves run (numbers, host name, timestamp and tag, then the
mark, then content and message) is that of the generated code, and so is which of several error
actions speaks last (`header_error`, `body_error`). `Begin`, `Step`, `Eof` and `Answer` are the head,
the loop and the tail of `Parse`.

Both models were read from the generated Go code, with the ragel source at hand for the names
of the rules; the map names the block of `machine.go` in which a rule is inlined. They were
also compared with that code by executing its transitions on all short token sequences (72,000
inputs for RFC 5424, over a million for the part of RFC 3164 behind the timestamp), and 50,000 random inputs of
RFC 3164 over all options, near the valid ones: the answers were the same, except where a random
input put a token where it is not offered (a date in place of a second). That comparison is not part of this directory.

`Rfc5424Parser` puts a machine under the lock of `parser.go`. An input is chosen while it is
read, or is what `Rfc5424Builder` made with `String`. For the properties each call has a
machine of its own reading the same tokens (`alone`). `WithBestEffort` takes no lock and may
come at any moment. `Rfc3164Machine` makes calls one after the other; what `Call` puts aside
of the flags, `Finish` restores.

## 3. Runs

Passing runs:

| run | shows | bounds |
|---|---|---|
| `octet_framing` | the parser implements `OctetFraming`, refuses only what is no frame, delivers what it is given whole, nothing after an error | streams up to 8 bytes over NUL, LF, CR, space, `1`, `3`, `<`; limit 3 |
| `octet_reuse` | lookahead, length, buffer and termination over two readers and changing limits | streams up to 5 bytes, 2 readers, transient errors |
| `octet_scanner` | the announced length is the length of the message, for any client | streams up to 6 bytes, limits 2 and 3 |
| `nontransparent` | no line lost, merged or repeated; the rest refused last; what a reused parser may leak; `Parse` returns | 2 readers of 3 lines and a rest |
| `auto_machine` | the three tiers, for all option sets of the repository | 2 calls |
| `auto_detect` | `detect` against a table and against the ways a message of either grammar begins; which ones it takes for the other format | strings up to 5 bytes over 7 bytes, longer ones behind an empty PRI, all month prefixes |
| `reader_pool` | no reader shared, own stream, large enough buffer | 3 goroutines, 4 readers, 2 calls each |
| `rfc3195` | frames cut exactly, an exchange ends once, a result for each RAW message, no COOKED priority made up, `Parse` returns | 6 units, 1 fault, 2 exchanges, limits 1 and 2 |
| `rfc5424` | each call answered as if alone, best effort loses at most what was being read, builder and parser agree, every call returns | 2 goroutines, 2 calls, 26 tokens, 4 setters |
| `rfc3164` | each call answered as by a fresh machine, nothing of an accepted input lost, which refusals are silent, what the Cisco options change | 2 calls, 5 sets of options, up to 7 tokens behind the timestamp, 3 in each part before it, timestamps whole |

Why these bounds suffice for the cases that matter: eight bytes hold a complete frame,
a separating LF and a second frame that is complete, truncated, malformed or too long
(`1 <` is three bytes, `3 <\r\n` five), and two-digit numerals beyond the limit. Five
bytes per reader hold a frame and the token that is pushed back after it. The alphabet
has one byte of each class the scanner's branches tell apart. The non-transparent
automaton has one bit of memory beyond the candidate, so three lines show every pair of
consecutive transitions, and a leak into the next reader. Three goroutines let a third one
steal what two contend for. Six units hold a frame with a payload and the whole of the next
one, or a refused header behind a frame. 26 tokens are the whole header with its separators and behind
it an element with two parameters, or one with a parameter and a second element;
four setters are enough for a priority, a version and two more, and since a parameter name is
chosen anew each time, for one that overwrites. Seven tokens behind an RFC 3164 timestamp hold
`a[a]: a` and every shorter mixture of host name, tag, content and message; with host name and
tag both present the interplay of their marks shows from five on.

Runs that are expected to be violated, each a statement in the repository that the
code does not meet (quoted in `PROJECT.json`, "findings"):

| run | statement | what happens |
|---|---|---|
| `nontransparent_stale` | `Parse` parses the reader's bytes | a reused parser repeats the previous reader's last message |
| `rfc3164_newline` | newlines terminate a message unless they are allowed in it | a carriage return anywhere in the message, and a line feed as its first byte behind a single space, become part of it |

The cause of the second is in the generated code. A byte that a condition looks at is widened:
where newlines are not allowed a line feed is compared as 20746 and a carriage return as 20749
(`rfc3164/machine.go:13279`), and `128 <= _widec` (13313, 13335), meant for the bytes from 128 on,
takes both.

### Observations without a run

What reading and modelling showed, without a run of its own. Octet counting:

* A NUL byte where a frame may begin ends `Parse` without an error, with the rest of the
  stream unread: `read` returns the marker `eof` for the end, for an error and for a NUL
  (`scanner.go:99`, `scanner.go:52`).
* The buffer is asked for with `maxLength+20`, which wraps for a limit near the largest int,
  and `bufio` then makes its smallest one (`scanner.go:89`). `SetMaxLength` does not grow it,
  so `PeekFits` does not hold under a client of the bare `Scanner` that raises the limit; the
  parser never calls it.
* A client of the bare `Scanner` that scans on after the too-large token gets a message longer
  than the maximum, since the oversized length is stored (`scanner.go:180`). The parser stops
  at the first ILLEGAL token: `LengthDiscipline`, which TLAPS proves.
* `WithBestEffort` on a parser that exists has no effect: only the constructors read the field
  (`parser.go:148`; `syslog.go:14` promises more).

Auto-detection:

* Behind a PRI `detect` takes two kinds of RFC 3164 messages for RFC 5424 (`detect.go:28-68`): those
  with a Cisco counter of no digits (`<189>: Jan  8 ...`, which `rfc3164/options.go:110` and `:164`
  describe as what a device sends), and those whose Cisco host name begins with no letter, unless it
  begins with a 0, with four digits, or reads as a counter. `DetectsWellFormed` says that there are no
  others. They are parsed by the fallback; `WithoutFallback` refuses them, and what best effort
  could recover of them is asked of the RFC 5424 machine only.
* Without a PRI `detectWithoutPRI` knows months and years only; Cisco's extras in front of the
  timestamp need the fallback.
* With best effort an RFC 3164 message without PRI (`WithOptionalPriority`) that stops silently within
  its text (`Oct  1 12:00:00 a: b\x01`) leaves nothing minimally valid: `Parse` returns a `ParseError`
  whose `Err` is nil (`auto/machine.go:174`).
* `ParseError.Err` is the primary's strict error (`auto/machine.go:174`); `auto/errors.go:9`
  says it is that of the last parser attempted.
* A caller's own option that asserts an RFC 3164 machine and turns best effort on is kept by
  `filterBestEffort` (`auto/machine.go:41` admits it cannot probe it), which makes the strict
  tier best effort; `MCAutoMachine` checks the options of the repository.

RFC 5424:

* An error at the beginning of an element removes the element completed before it
  (`1 - a - - - [a][`), since `currentelem` is still that one. `README.md:84` speaks of
  returning all that was collected; `LosesAtMostLast` is what holds.
* With best effort `<1>12` answers with version 1: the last digit has not been taken into
  account where the input ends.
* A parameter that occurs twice in an element is overwritten silently.
* `SetParameter` on an existing parameter overwrites it, or resets it to nothing when the value is
  refused, although the comment at `builder.go:9322` says the operation is discarded.
* `WithBestEffort`, `HasBestEffort` and `Err` of the embedded machine take no lock.

RFC 3164:

* A strict machine may answer with neither a message nor an error, against the comment at
  `machine.go:138-140`; `SilentOnlyInside` says where. So may one with best effort that was given
  `WithOptionalPriority` and no PRI. It reaches an RFC 3195 listener as an
  empty result.
* A `[` in the first word moves the mark: of `a[b c]: d` the host name is `b` and `a[` is lost;
  of `h a[b] x` the message is `b] x`. `NothingLost` names exactly these inputs as exceptions.
* With `WithRFC3339` and a message counter or a sequence number an RFC 3339 timestamp right behind
  the PRI is refused without an error, since its digits are taken for the counter; with a Cisco host
  name it is refused by `time.Parse`, since the `:` of the time ends a host name (`2024-01-02T03`)
  and the next digits move the mark. `options.go:83-85` says such timestamps are accepted too;
  `CiscoOnlyAdds` leaves them out, and holds for the timestamps of RFC 3164.
* `WithYear` adds years to a date that was parsed without one (`machine.go:13220`), so that the 29th
  of February becomes the 1st of March in a year that has none; `CurrentYear` is asked once, when
  the option is applied, and a machine that outlives the year keeps the old one.
* The tag is set although what it began turned out to be none (`h 10:30 x`), and of `word ` the
  word is both host name and message.
* A Cisco counter of no digits (`:`) is message count 0.

RFC 3195:

* `raw.go:29` speaks of 0 as no limit, but 0 selects the default of 2 MB.
* What a plain reader had delivered behind the end of an exchange is lost with the
  `bufio.Reader` of that `Parse`; a caller who wants to go on must pass a `bufio.Reader`.
* The continuation flag of a frame is ignored, and each piece is parsed as a message.
* A header line is buffered whole before its length is checked (`frame.go:111`).

### Fairness

`ParseReturns` (the three transports) assumes that the goroutine inside `Parse` keeps running
and that the `io.Reader` answers: weak fairness on the run loop and on the scanner with
its reader, and on the driver's callbacks. Nothing is assumed of what the reader
answers. Streams are finite because of the bounds `MaxStream` and `MaxLines`; on an
endless one `Parse` is not meant to return. `ParseEnds` and `DetectTerminates` need
only that the caller's goroutine goes on. `CallsReturn` assumes of each goroutine that it
runs when it can (`WF` on its `Parse` and its `Return`). A waiter is passed over only while others
still have calls to make, of which there are `MaxCalls`; with unbounded calls it would need the
hand-over to a starving waiter that `sync.Mutex` implements. No fairness is put on the client's calls.

`MaxUnits`, `MaxTokens` and `MaxPart` bound the inputs of the new runs in the same way.

Deadlock checking is off wherever the system may come to rest: a parser whose bounded
number of calls is used up, a message that is as long as its bound, or `detect` with its
answer.

## 4. Theorems

Every theorem below holds for every value of the constants that meets the named assumptions of
the module; TLC evaluates those assumptions on each run. Where a further hypothesis is needed it
is named. Each module proves an inductive invariant once and takes its theorems from it.

`OctetCountingProofs`, for every alphabet, stream bound, integer width, limit and set of
constructors:

* `TypeCorrect`: the type invariant. `ScannerTypeStep` and `RunTypeStep` do the work, one
  case per action; what is not routine is that `pos` stays inside the input, that
  `from` stays below `pos`, and that a length remains a `uint64`.
* `LookaheadNeverStale` and `LengthsDisciplined`: neither property is inductive. That
  `msglen` is within the limit when `Peek` runs depends on the tokens seen before, so
  the strengthening `Lengths` says where the length is in force: from a MSGLEN token
  on, through the space, until the message is read, and that it is 0 after a message.
  The two properties then need each other: a pushed-back token may be a MSGLEN, whose
  length is the one of the next frame.
* `ErrorsStopTheRun`: strengthened by `SoFarHarmless`, while `Parse` runs, *every* result
  so far let it go on; `EmitStep` shows that one more result keeps that or ends the run.
* `MessagesAsAnnounced`, of the bare scanner (`ScannerSpec`): outside the digits the length in force
  is none, that of the numeral read last, or older than a numeral too large (`LengthSource`).
* `FramesFit`, under the hypothesis `NoLimitWraps`: every limit plus the header's room is an int.
  Without it the property is false, which is the observation about `maxLength+20` above. The
  invariant is that the buffer holds a message of the limit as long as the scanner is in use.
* `EveryOctetDelivered`, of the octets received before the token that ended the run (what lies behind
  a NUL at a frame boundary is never read): strengthened by `Lazy` (the reader is asked for a byte only when none is
  left, and for a message up to its length) and `Accounted` (behind a message nothing has been
  consumed until the next token is known).
* `MessagesReachTheMachineIntact`: strengthened by `Begun`, from the numeral on no `<` has been
  consumed, so that the message begins at the frame's first. `StrippedCut` says what is cut off,
  `IntactStays` that more input changes nothing about what was read.
* `FramingImplemented`: the refinement, `Spec => ImplementsFraming`, step by step under the mapping
  of `MCOctetCounting`. Its invariant `Placed` says which octets of the stream the tokens since the
  last frame stand for, so that a `SYSLOGMSG` ends a frame as `IsFrame` has it. The value of a
  numeral is taken one digit at a time: `NumeralValue` is a recursive function, and what it and the
  scanner's own accumulation compute agrees by a least counterexample (`LeastOf`, from the
  library's well-foundedness of `<`), which needs no induction theorem.
* `OnlyMalformedRefused`: the converse. `Wrong` says of the octets behind the last frame why they
  begin none, in a form that more octets cannot mend, and `Judged` relates it to the token that was
  refused. Two hypotheses: `NoLimitWraps`, as above, and `OnlyEnds`, a reader that fails with its end
  only, as in the run `octet_framing`; any other failure is reported whatever the octets are.

`ReaderPoolProofs`, for any number of goroutines, readers and calls:

* `ReadersAreExclusive` and `ScannersReadTheirOwnStream`. `Exclusive` becomes inductive
  with `Allocated`: pooled and held readers are allocated ones, so that `Alloc` cannot hand
  out a reader someone knows of.

`NonTransparentProofs`, for any number of readers and of lines:

* `NoLineLost`, `RestRefused`, `LeakBounded` and `TypeCorrect`. The results are related to the
  lines of the reader by where the candidate stands: what was emitted and the candidate together
  are, line by line, what the driver has handed over (`FirstReader`, and `Reported` for what was
  left by earlier readers).

`AutoMachineProofs`, for any options and any verdicts of the inner machines:

* `GivesUpOnlyOnNothing` (the strict machines that may be asked refused, and best effort has nothing
  minimally valid), `RawMessageKept` and `NoMissingMachineCalled` (the best-effort machine that
  `Parse` calls was made) from one invariant, which says of each place in `Parse` which machines
  have refused the input so far.
* `TiersStayApart` and `WholeMessageFirst` under the hypothesis `ProbeSees`: what turns on best effort
  in an RFC 3164 machine is seen by `filterBestEffort`. The repository's options meet it
  (`MCAutoMachine` assumes it of them, and TLC evaluates that); a caller's own option may not, as
  `auto/machine.go:41` admits, and then both properties are false.

`AutoDetectProofs`, for inputs of any length over all bytes: `TypeCorrect`, `TableAnswered` and
`WellFormedDetected`, by cases on the first byte behind PRI and on what ends the run of digits. The
invariant `Where` says of each loop what it has established of the input it has passed.

`Rfc3195Proofs`, for any header lines, payload sizes, limits and entries:

* `FramesAreCutExactly` and `ExchangesEndOnce` from `FramingInv`: for each place in `Scan`, where the
  frame began, how much of it has been consumed, and how the frames before it join up.
* `OneResultForEachMessage` counts the results that belong to a frame against the messages taken;
  `PriorityLosesNothing` is about the arithmetic on `uint8`; `TypeCorrect` is the type invariant.

`Rfc5424Proofs`, for any number of goroutines, alphabet, range of names and number of calls:

* `AnswersAsIfAlone`: while a goroutine is inside the machine's `Parse` the shared machine and the
  one of its own agree in all that `Parse` resets, and differ at most in `currentelem` and
  `currentparam`, of which at most a stale one that names no element of the message at hand; and
  no token makes them diverge (`Coupled`, preserved rule by rule of the grammar, error actions
  included). `OneReader`, the lock's mutual exclusion, is part of the same invariant.
  `"free" \notin Goroutines` (`ParserAssumption`) only says that the mark for a lock nobody holds is
  not a goroutine.
* `LosesOnlyTheLast`: until the error action everything seen is still there; from then on all but
  the element or the parameter that was read last (`NoneLost`), and the flag that decides whether
  an empty map is answered tells the truth about it.
* `BuiltIsReadBack` proves `RoundTrip` for any structured data and texts of any length. Its
  invariant (`RoundInv`) says that a goroutine that parses what the builder wrote sends a string of
  the message as it stands, and that the machine is at the place in the string that it has come to
  (`At`, a disjunct for each rule of the grammar: what is left of the part being read, which fields
  are already in the answer, and which elements and parameters, in `SetToSeq`'s order). From each
  place the next token leads to the next one (the lemmas `...Place`), and the string ends only where
  `Eof` accepts, but for a compliant machine in a message with a BOM (`...Ends`). The lemmas below are
  about the data: what `EscapeBytes` puts in, `RemoveBytes` takes out again at the positions collected
  on the way, counted from the beginning of the value; the scan of the builder lets no token through
  that the value's rule refuses; a number of up to three digits has a numeral, which is read
  back as that number and never passes through one that the rule refuses. The messages are what the
  setters leave (`BuilderInv`).

`Rfc3164Proofs`, for all options, alphabets and numbers of calls: `UsedAsFresh`, by comparing the used
machine with a new one token by token, and `FlagsRestored`: between calls the flags for Cisco's
extras are the options', however the calls before ended. `SilentRefusals` says of `SilentOnlyInside`
that it holds for inputs of any length. Its invariant lists, of each place in the header, what is
live there and what the last tokens were (`Known`); every token leads from a known place to a known
one (`Leads`, a lemma for each part of the grammar), and behind the header one of the alternatives
of the body is live until the end (`InBody`). Where a token is refused at a known place, either one
of the live alternatives has an error action, or the place is one that the property names.
`CiscoTakesNothing` proves `CiscoOnlyAdds` from a simulation (`Coupled`): until the machine without
Cisco's options refuses or reads an RFC 3339 timestamp, the one with them stands at the same place
with the same answer so far, and for one token, behind the name of a month, also within a host name
that the space behind it ends.
`NothingIsLost` proves `NothingLost` from an invariant (`KeptInv`) that relates the mark to the whole
input. For each live place it says what stands before the mark and what was read since: spaces only,
or the host name and spaces, or with them the tag and its content (`TagAt`, `HostAt`, `InWord`);
`Broken` is the one input left out, a host name with a `[` in it. `Goes` states the moves of one
token as a relation between places, so that every case of the step starts from where a place can
have come from; at the end of an accepted input the parts fit together (`Whole`).
(`tlapm` reads `UNION S \cup T` as the union of `S \cup T`, TLC as that of `S` joined with `T`: the
model writes the parentheses.)

Only model-checked: liveness (`ParseReturns`, `ParseEnds`, `DetectTerminates`, `CallsReturn`), which
is out of the prover's reach. Every other property of the runs that pass is a theorem. For that the operators on
sequences are written without an operator as a parameter, which no prover here instantiates:
`EscapeBytes` and `RemoveBytes` flatten a sequence of sequences, and
`UnsafeUTF8DecimalCodePointsToInt` and `Scanned` are recursive functions over the length.

## 5. Not modelled, and the plan

Not modelled on purpose: formatting and error texts (a result carries the kind of its error),
the positions in them, `Token.String`, the conversions of `trailer_type.go`, the tables of names
of `common` and of the root package, getters, `testing/`.

Left out of a component that is otherwise modelled: what a timestamp's digits say beyond the days
a month has, and so the year and the time zones of RFC 3164; an offset from UTC in place of `Z`;
the 255 bytes of an RFC 3164 host name; the numbers of a BEEP header that
no branch looks at; the bytes of XML; a listener that calls `Parse` on the parser that is calling
it; the memory held while a line without end is read.

Of the 98,977 lines of the implementation 95,759 are the three generated automata
(`rfc3164/machine.go` 74,282, `rfc5424/machine.go` 12,070, `rfc5424/builder.go` 9,407): `switch`
and `goto` for the same few rules, inlined once for each state and each value of the conditions,
most of it the calendar of the timestamps. A definition of a rule is mapped to one block in
which that rule is inlined, not to all its copies, so that the share of mapped lines stays small
whatever is modelled; of the hand-written code nearly all that has control is mapped.

Nothing is left to prove of the safety of what is modelled; what would come next is more of the
code in the model: the year and the zones of RFC 3164, offsets from UTC, a listener that calls `Parse`.
