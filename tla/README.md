# Verification of azure-uamqp-php

TLA+ models, model-checking runs and machine-checked proofs for the PHP extension
`uamqpphpbinding` (C++ over PHP-CPP) and for the patch it applies to azure-uamqp-c.
`PROJECT.json` lists, machine-readably, the components, the runs, the source lines
each definition stands for, the hazards, and the theorems.

## The system

The extension gives PHP two classes, `Connection` and `Message`. Everything runs on
the PHP thread; there are no native threads. What makes the code hard is that control
is handed around inside that thread: PHP calls `setCallback`, which calls a PHP loop,
which calls `consume`, which calls uAMQP's `connection_dowork`, which calls native
callbacks, which call the PHP message callback, which may call back into `Connection`.
Meanwhile the broker acts on its own, and shutdown is a bounded negotiation with it.

| Component | State it keeps | Operations | Talks to |
|---|---|---|---|
| **link credit** (`patches/…manual-receiver-credit.patch`, `link.c`) | `delivery_count`, `current_link_credit`, `receiver_credit_manual`, `receiver_drain`, `receiver_drain_complete` | `link_set_receiver_credit`, `link_drain`, `link_get_drain_complete`, frames received (ATTACH, FLOW, TRANSFER) | the sending peer, over TCP |
| **Consumer** (`Consumer.cpp`) | credit left, finite or continuous, stop request and its reason, pending exception, receiver state, detach seen, closing/closed, native handles | `setCallback`, `consume`, `close`; called back for messages, receiver state, DETACH | link, Connection |
| **Connection** (`Connection.cpp`) | transport handles, `isConnected`, `closeRequested`, `doingWork`, `receiverRunActive`, `closing`, `ioError`, its session and consumer | `connect`, `publish`, `setCallback`, `consume`, `close`, `doWork`; called back for I/O errors | Consumer, Producer, Session |
| **Producer** (`Producer.cpp`) | sender and link handles; file-wide completion counter, stop flag and error text | `publish`; called back for completion and DETACH | Connection |
| **Session** (`Session.cpp`) | session handle, closed flag | constructor, `close` | Connection |
| **Message** (`Message.cpp`) | native message (cloned, shared by reference), cached body | constructors, body, metadata getters and setters | value decoders |
| **value decoders** (`AmqpValueDecoder.cpp`, `AmqpValueBodyDecoder.cpp`) | none | decode nested AMQP values and bodies | Message |
| **log sink and trace** (`Connection.cpp`) | log file, connection sequence | `quote`, `trace` | |
| **debugging tool** (`debugging/subscription_consumer.cpp`) | options, counters, signal flag | option parsing, receive loop | uAMQP directly |
| **patch application** (`scripts/apply-uamqp-patches.sh`) | the dependency's source tree | apply once, refuse otherwise | git |
| installation, packaging, versioning, containers, examples, tests | files | shell and build steps | |

What must be right, per component:

* *link credit*: never more deliveries than granted; the two ends' books agree again
  after every interleaving; a completed drain leaves nothing under way; drains complete;
  automatic mode still works for other callers.
* *Consumer and Connection (a run)*: native objects outlive the code that uses them;
  no PHP code runs after a stop; every delivery is accepted, abandoned or released as
  its handling deserves; failures reach PHP, the callback's own before any other; a
  reported success is one; shutdown is bounded; a deferred close takes effect.
* *Connection (its life)*: the teardown respects what is built on what and leaves
  nothing behind, whatever failed before; a later call does not inherit the errors of
  an earlier run.
* *Producer*: a call is judged by what was reported to it alone; an answer ends the wait.
* *Message*: a setter changes one PHP object and nothing else; what is read is what is sent.
* *decoders, `quote`, option parsing*: agreement with a reference definition at every boundary.
* *debugging tool*: the exit status tells what happened, and the program ends.

## The modules

### CreditAccount: what explicit credit promises

The abstract specification. `used` counts deliveries that have consumed credit or whose
credit was returned, `limit` the most `used` may become. Nothing but an explicit grant
raises `limit` in manual mode, no grant happens while a drain is pending, and a drain is
over exactly when `used = limit`. It is the interface between the two modules below: the
link implements it, the consumer relies on it.

### LinkCredit: the patched link and its peer

One action per operation of the patch: `SetReceiverCredit`, `LinkDrain`, and the branches
`ReceiveAttach`, `ReceiveFlow`, `ReceiveTransfer` of `link_frame_received`
(`link_get_drain_complete` only reads). Variables have the names of the C fields.
Calls the code refuses (wrong role, closed link, drain pending) change nothing, so the
refusal is the action's guard.

The peer is external: an AMQP 1.0 sender whose credit is the sum of count and credit of
the last FLOW minus its own count, which delivers in one or two frames (`more`), answers a
drain by returning its credit, and may send FLOWs of its own at any time (`PeerEcho`). A FLOW
that grants it less than it has used leaves it without credit. The two channels are FIFO
and lossless, because the transport is TCP. `initial-delivery-count` is any value of
`InitialCounts`.

Counts are kept unwrapped; the 32-bit value is the count modulo `Modulus`, and the one place
where the code compares counts (`SerialDiff`) is computed modulo `Modulus`. `MayRevoke` says
whether callers also replace credit by less credit. `authorised` is a history variable: the
highest count any grant, or automatic mode before the first grant, has allowed.

### Receiver: one receiving run

`Connection::setCallback`, the PHP loop, `consume`, the dispatch with its callbacks, and
`Consumer::close` with its three pump loops. `phase` says whose code runs next, and
`doingWork`/`inCallback` how deep the stack is; they correspond to the code as follows.

| `phase` | Code |
|---|---|
| `loop` | the PHP loop function: it may call `consume` or `close`, return, or throw (its own exception, or one `consume` threw) |
| `consume` | `Consumer::consume` (209-227) |
| `opening`, `drain`, `detach` | the pump loops of `Consumer::close` (243, 250, 269) |
| `receiverClose` | `messagereceiver_close` (263-267) |
| `finish` | `destroyHandles` and `throwPendingException` (277-284); the exception goes to `caller` |
| `done` | after `setCallback`; the script may still call `consume` and `close` |

While `doingWork` holds, native events arrive one at a time: the receiver opens or fails,
a message, the drain's answer, DETACH with or without an error, an I/O error, and
`EndDispatch`. One dispatch handles any number of them, as `connection_dowork` does. The
message callback may call `close` any number of times and then returns true, returns
false, or throws a Throwable or a C++ exception; `consume`, `publish` and `setCallback`
called from it throw without changing state, so they are callbacks that throw. The
deadlines are events that may happen at any time after the clock was started.

The native link is represented by its account (`used`, `limit`, `manual`, `draining`,
`drained`). `link_set_receiver_credit` and `link_drain` change it before they send the FLOW, so
that a call that fails may have changed it (`RefillFails`, `BeginDrain`); the consumer then does
not count the credit, which is why `CreditFollowsSettlement` claims equality of the two counts
only until a shutdown begins. `UsesAccount` checks that the consumer's steps are steps of
`CreditAccount`; in particular that it never lowers credit, which is the assumption
(`~MayRevoke`) of the proofs about the link. What the external message receiver does on DETACH
is left open: it may or may not report an error state.

### DeliveryContract: what a run promises about deliveries

The abstract specification of a run as the broker sees it: deliveries are handed to the
callback one at a time and accepted; at most one is abandoned (`modified`), which stops
the run; once stopped, nothing is handed out any more and every further delivery is
released. A complete batch stops the run. `Receiver` implements it (`KeepsDeliveryContract`,
with `stopped` refined by `closeRequested` and `handling` by `inCallback`).

### ConnectionLifecycle: one Connection over any number of calls

`connect` with every partial outcome of the native constructors, `publish` and its sender,
any number of receiving runs, `close` from anywhere, the teardown object by object in the
order of `Connection::close`, and the destructor. `held` is the set of native objects a
variable of the program points to, `lost` those whose variable was overwritten or went out
of scope. A receiving run, the subject of `Receiver`, and a publish, the subject of
`Publisher`, appear by what they do to the connection: the flags, the consumer that stays
registered, the exception it keeps, the handles. `SendThrows` is a publish that an exception
out of `connection_dowork` leaves (the one of `publisher_unwinds`, below): sender and link are
lost and the connection stays open. What is lost is never destroyed, but its base may be: the
next close destroys the session under a lost sender link. `NothingOutlivesItsBase` says that
this is the only such case, and `LostOnlyByFailure` which failure loses what; `failures`
remembers them. The two history variables `leftover` and `swallowed` name the two situations
in which the code knowingly leaves something else behind: a `connect` that failed part-way,
and a loop function that catches an exception of `consume` and returns.

### SendContract and Publisher: one publish after the other

`SendContract` is the promise: a call returns only after its message was reported complete
and without a DETACH; it throws only for a DETACH, an I/O failure, or without having sent
anything. `Publisher` is `Producer::publish` with the counters that are variables of the
file, the callbacks in every order within a dispatch, and the cleanup, in which destroying
the sender may report a cancelled message. Clearing the counters at the beginning of a call
is what makes it an implementation.

### MessageValues, MessageMetadata and MessageBody: the Message objects

`MessageMetadata` keeps the sections of native messages on a heap of reference-counted values,
which `clone` and `setMessageHandler` share and the setters copy before they write; sections may
be described, once or twice, and hold entries whose names collide as text. What the setters do
to their arguments is modelled: letter `I` keeps 32 bits of a number (`Narrowed`), and names,
strings and message IDs end at a NUL character (`UpToNul`), since they are passed on as C
strings. A text is a sequence of pieces, one of which is the NUL. The heap is a function from
the addresses in use, which are those some owner refers to: that is what the reference counts
achieve, and destroying the last owner makes an address free again. `MessageValues` is what PHP
code is to see of it: a value per object. `ActsAsValues` is the refinement.
`ReadsBackWhatWasSet` says what a getter returns, which is all of what was set only if it fits;
it is looked for under the name as it was stored. The three kinds of section never meet in the
code, so a behaviour is about one (`part`). `MessageBody` has the body sections, the cached
text, and a `getBody` that fails half-way and is called again. `MCMessage` puts the two side by
side: a behaviour moves one.

### ValueDecoder, Quote, EndpointOptions: algorithms

* `ValueDecoder`: `decode_amqp_value` and `get_metadata_map` on nested values built step by
  step. The calls `decode_amqp_value` makes of itself are a recursive function over their
  depth (`Calls`): what a call returns depends on those one deeper (`DecodeOne`), and the one
  beyond the limit rejects whatever it is given.
* `Quote`: the loop of `Connection::quote`, a step per round, against UTF-8 defined by code
  points.
* `EndpointOptions`: `parseOptions`, `parseEndpoint`, `parsePositive` and `decodePercent` of
  the debugging tool, against the endpoints people write (`Written`). What is not in the
  documented form (an at sign in a host, a raw separator in credentials) is not covered:
  `IsEndpoint` of `MCAlgorithms` says what is.

`MCAlgorithms` checks the three in one run: a behaviour is about one `subject`, the others
rest in a fixed state. It extends `Quote` and instantiates the other two, and
`AlgorithmProofs` extends it, so that what is proved is what the run checks.

### DebugReceiver: the run of the debugging tool

Set-up object by object, receive loop, callbacks, deadline, `destroyResources`, exit status.

## The runs

| Run | Instance | Shows |
|---|---|---|
| `link_credit` | modulus 8, automatic allowance 2, grants 0-2, counts from 6 to 11, at most 4 frames before a new request, no revocation; 66 000 states | `CreditCoversPeer`, `DrainQuiescent`, `AutomaticNeverStarves`; `KeepsAccount`: the link implements `CreditAccount` |
| `link_credit_revoke` | the same with revocation, counts to 10, 3 frames; 51 000 states | `TypeOK` (no underflow), `NeverBeyondGrant`, `AgreeAtRest`, and `DrainCompletes` under fairness |
| `link_credit_stale_answer` | revocation, counts to 9 | violates `DrainQuiescent`, see below |
| `receiver` | batches of 2 and 3 and continuous mode, 3 messages; 168 000 states | the safety properties of a run; `UsesAccount` and `KeepsDeliveryContract`; `ShutdownEnds` and `CloseLeadsToClosed` under fairness |
| `connection_lifecycle` | no bounds; 99 000 states | handles, flags and kept exceptions over every sequence of calls and failures |
| `publisher` | no bounds; 187 states | `KeepsContract`: publish implements `SendContract`; `AnsweredSendEnds` under fairness |
| `publisher_accepted`, `publisher_unwinds` | the same | violate `PublishedMeansAccepted` and `NeverUnwindsThroughLibrary`, see below |
| `message` | two objects and a delivery, three calls of setters, 4 for 2^32; bodies of up to 3 sections; 54 000 states | `ActsAsValues`, `ReadsBackWhatWasSet`, `WrappedOnce`, `BodyIsWhatIsSent` |
| `algorithms` | see *Bounds*; 271 000 states | `RejectsExactly`, `KeepsNumbers`, `ShownMeansSettable`, `CopiesExactlyUtf8`, `OptionsAsWritten` |
| `endpoint_options_encoded` | the same | violates `EndpointCredentialsDecodedOnce`, see below |
| `debug_receiver` | counts 1 to 3, 5 messages; 1 700 states | `StatusTellsOutcome`; `AlwaysExits` under fairness |

Deadlock is checked in every run but the two of `MCAlgorithms`, whose inputs come to an
end. `LinkCredit` never stops because the peer may always send a FLOW when the channels
are short; `Receiver`, `ConnectionLifecycle`, `Publisher` and `DebugReceiver` end in
actions of their own (`Ended`, `Gone`, `Unwound`, `Exited`).

Every module has a `TypeOK`, except the abstract specifications and `ValueDecoder` and
`EndpointOptions`, whose inputs are their state; those of `LinkCredit`, `Receiver` and
`ConnectionLifecycle` are properties of runs, because they say more than a type (no
underflow, every delivery settled, the session and the links never lost). The others only
say what values the variables take.

*Bounds.* `MaxCount` limits what is granted and sent, `MaxChannel` the frames under way
when a new request or spontaneous FLOW is added; the answers themselves are never held
back. Counts up to 11 from 6, with grants of 0 to 2, allow several rounds of grant,
delivery, drain and return, and the channel bound lets two generations of FLOWs
and their answers cross, which is the case where books could drift. With modulus 8 a wrong
difference would be at least as large as any credit (at most 2), and the counts wrap around:
where they are subtracted without the modulus, `AgreeAtRest` fails. For `Receiver`, three messages
cover a complete batch with a surplus after a stop, and two refills of the continuous mode.
`ConnectionLifecycle` and `Publisher` are finite as they are: nothing in them is counted.
For `MessageMetadata`, two objects and the delivery are enough for any pair of owners that
share a section, deliveries have up to two entries over two names and two key types (so
that a name may occur twice), and are described up to twice; the calls have a number that
does not fit, a text that does, and a name and a text with a NUL, the name of which is that of
the other calls once it is cut. Three sections show every
position of a separator. `ValueDecoder` has a limit of 2 instead of 32 and values nested up
to 3 deep, so that the limit is met and passed; integers of three bits, so that unsigned
ones run to both sides of the largest signed one; `Quote` has all strings of up to
three bytes from both sides of every range of the code, and those of four that begin like a
code point of four bytes; `EndpointOptions` has every documented form of endpoint with each
part present, missing, or containing a separator, and up to two arguments. In
`DebugReceiver` there are more messages than are wanted.

*Fairness.* In `LinkCredit`: the caller keeps dispatching (patches/README.md asks for it),
the peer processes FLOWs, finishes deliveries it has begun and answers drains; nobody has
to request, grant or start a delivery. In `Receiver`: native code runs on, `connection_dowork`
returns, the clock advances, message callbacks return, and the loop polls
`wasCloseRequested` and leaves when it holds, as the loops of
`tests/receiver-broker-test.php` (56, 156) do (strong fairness, since it is re-entered
between polls). A loop that ignores it, like the one of `examples/consumer.php`, leaves by
its own condition or by an exception of `consume`; nothing is claimed of when. Nothing is
assumed of the peer in `Receiver`: every liveness result there rests on the deadlines.
In `Publisher` the thread of the call runs on, and nothing is assumed of the network:
`AnsweredSendEnds` is about calls that got an answer. In `DebugReceiver` the program runs
on and its clock advances.

### Disagreements between documentation and code

`link_credit_stale_answer`: `patches/README.md` says completion is reported "after a
matching sender FLOW with drain enabled, zero credit, and a valid delivery count". The
code matches by count and credit only. A drain that a spontaneous FLOW completed leaves
its own answer under way; after set credit 1, set credit 0 and a second drain that answer
completes the second drain, while the FLOW that grants one credit is still on its way to the
sender, which may then deliver. `Consumer.cpp` neither lowers credit nor drains twice, so
is not affected; `DrainLeavesNothing` proves so for all such callers.

`publisher_accepted`: `on_message_send_complete` discards its result, so `publish` returns
for a message that the broker rejected or that timed out. `tests/receiver-broker-test.php`
records the ID of every message whose `publish` returned and expects to receive them all.

`publisher_unwinds`: the DETACH callback of the producer makes a `std::string` of condition
and description without looking whether the peer sent them; without, an exception unwinds
through the C library, which `Consumer.cpp` declares forbidden and guards against.

`endpoint_options_encoded`: the debugging tool decodes the credentials of an endpoint twice;
`docs/INSTALL.md` has them decoded once. A password with an encoded percent sign is changed
or refused.

*Observations*, met while modelling and without a run: `docs/INSTALL.md` says the debugging
tool exits with 2 for a wrong command line only, but every object of its set-up that cannot
be made ends with 2 as well (`MakeFails`); and when `__construct` is called again on a
message, or on a received one, two data sections are sent while `getBody` returns the last
(`rebuilt` in `MessageBody` marks these objects, and `BodyIsWhatIsSent` excepts them).

## The proofs

Each proof module EXTENDS the module it is about. The theorems hold for every value of the
constants that satisfies the named assumptions beside their declarations; those say what
the types in the code say (a credit fits its integer, a count is not negative) and nothing
about sizes. What TLC checks on an instance and what is proved for all of them are the same
definitions.

The pattern is the same throughout. No property is inductive as it stands, so each module
has an invariant `Inv` that is, written as a conjunction of named parts, shown to hold
initially and to be kept by each action, and shown to imply the property. A refinement
adds, over `Inv`, that each action maps to an action of the abstract module or to a stutter.

### LinkCreditProofs: the link, for callers that never lower credit

* `TypeCorrect`: `Spec => []TypeOK`.
* `BeyondGrantNever`: `Spec => []NeverBeyondGrant`, for every caller.
* `CreditAlwaysCoversPeer`, `DrainLeavesNothing`: `CreditCoversPeer` and `DrainQuiescent`
  for callers that never lower credit (`~MayRevoke`).
* `AccountKept`: `Spec => KeepsAccount`, the refinement, for such callers.

`NeverBeyondGrant` speaks of the sender's count only; what the sender may still do is in
FLOWs under way and in the credit it holds. The invariant `Inv` therefore adds `Authority`
(own limit, the sender's limit and the limit of every FLOW under way are authorised),
`InOrder` (counts grow along the channel from the receiver's count to the sender's, without
which the serial difference could not be bounded) and `Unattached` (nothing has happened
before the peer's ATTACH). `Books` strengthens it with `Limits` (the limits grow along the
channel towards the sender, from its own to the receiver's, the fact revocation destroys),
`HalfSent` (the first frame of a delivery is followed by the last, or the sender still owes
it) and `Modes` (the drain flags). Each is shown inductive action by action, over lemmas on
what adding and taking a frame does to a channel.

### LinkCreditAgreement: the link, for every caller

* `BooksAgree`: `Spec => []AgreeAtRest`.
* `AutomaticModeServes`: `Spec => []AutomaticNeverStarves`.

With revocation the limits no longer grow along the channel, so the argument of `Books` is
not available. What survives is `Chain`: every frame to the receiver continues at the count
of the one before it, except an answer that gives credit back (`GivesBack`), and such an
answer takes the receiver exactly to the limit it holds. `DrainsUnderWay` says that wherever
the sender is asked to give back credit the receiver still waits for it and has the same
limit, and `LastWord` that the limit of the last FLOW is the receiver's own, unless
deliveries of revoked credit took it further. At rest both channels are empty and the three
collapse to equality of counts and credit. `Allowance` (the automatic mode never runs out)
gives the second theorem.

### ReceiverProofs: one receiving run

`TypeCorrect`, `ObjectsOutliveUse`, `ShutdownOnlyReleases`, `PrefetchBounded`,
`BatchesComplete`, `ClosesCleanly`, `FailuresSurface`, `ThrowableWins` and
`PutOffCloseHappens` are the nine invariants of the run, for any batch sizes and any number
of deliveries. `AccountRespected` and `DeliveryContractKept` are the two refinements.

The parts of `Inv`: `ControlShape` and `CallerFits` (which phase goes with which flags, and
who called `Consumer::close`), `Untouched`, `DrainShape` and `Counting` (until a drain,
credit used is what was settled or is being handled, and the link has at least the credit that
the consumer counts), `BatchShape` (before a stop everything
was accepted), `FailureRecorded`, `FailurePending` and `ThrowablePending` (a failure is
recorded as soon as it happened, pending until a close throws it, and a Throwable is never
overtaken), `CloseShape` (a close put off). The exception properties are about one state at
the end of a run; these parts carry them there through every nesting of `consume`, `close`
and dispatch.

`AccountKept` and `AccountRespected` fit together: the link implements `CreditAccount` for
callers that never lower credit, and the consumer's steps are steps of that account, in
which lowering credit or granting during a drain does not occur. So what
`CreditAlwaysCoversPeer` and `DrainLeavesNothing` say of the link applies to this consumer.

### ConnectionLifecycleProofs: any number of calls

`TypeCorrect`, `BasesOutlive`, `ClosedMeansEmpty`, `LossNeedsFailure`,
`StaleErrorWasSwallowed` and `NoExceptionLeft`. The module has few states and TLC covers
them all; the proof says why. `Stacked` and `LostStacked` are the first property kind by kind,
`HeldShape` the objects each phase can hold, `TeardownShape` what each step of the teardown has
already destroyed, which makes its order visible in the invariant; `FailureShape` keeps the
failure that a loss needs, and `ErrorShape` and `PendingShape` follow an I/O error and an
exception from the dispatch to the call that throws them.

### PublisherProofs and DebugReceiverProofs

`ContractKept` (`KeepsContract`): the counters, the flag and the text of `Producer.cpp`
belong to the process. `CounterTellsCall` and `TextTellsCall` say that between the clearing
and the end of the call they tell of this call alone, `EndedByReport` that the loop ends for a
reason, `KeptByCall` that a consumer's pending exception was reported to this call.
`StatusIsTrue` (`StatusTellsOutcome`): the exit status of the debugging tool, for any counts;
`StatusSetByCount` says it is set once, from a count that no longer changes.

### AlgorithmProofs: UTF-8, nested values, command lines

`QuotesAnyInput` (`CopiesExactlyUtf8`) and `EveryByteOnce`, for every string of bytes. The
code tests ranges of bytes, the property speaks of code points below 1114112 that are no
surrogates and have no shorter form. The lemmas show the two equivalent for two, three and
four bytes by arithmetic; the loop is then a walk over pieces.

`RejectsAnyValueExactly` (`RejectsExactly`), `KeepsEveryNumber` (`KeepsNumbers`) and
`AnyMapShownIsSettable` (`ShownMeansSettable`) are about `decode_amqp_value`, for any limit
of nesting and any value that `Decoder!Spec` builds. `LimitsAssumption` says that the two
limits are natural numbers, `LeavesAssumption` that values without parts have a type the
program or the library knows and that signed numbers fit 64 bits. The invariant `DecoderInv`
says that all that is inside a value, however deep, is well-shaped (a number has a number).
The rest is about one value. Its recursive functions count depth, which is bounded, so that
each is defined (`CallsEquation`, `LevelEquation` and the like) and facts about it follow by
counting. Upwards: `RejectionPropagates` takes a rejection to the outermost call,
`AllKeptIsShown` an integer to the level of the result where it can be read off, and
`UndescribedDecodes` relates taking off descriptions, as `get_metadata_map` does, to decoding
through them. Downwards: `RejectedForCause` follows a rejection to what is nested too deep,
unknown, or a key that is neither text nor an integer.

`AnyOptionsAsWritten` (`OptionsAsWritten`), for any command line of any length.
`CommandsAssumption` says what the endpoints are: slashes, question marks and at signs are
not in the host and the port, the port has no colon, the resource no question mark, a query
begins with one, and an endpoint without scheme is not `amqps:` without port, which begins
like one with. Credentials may hold any characters, since they are written encoded. Every
later fact rests on a few about texts: what is joined by a separator is found and cut there
(`JoinedFound`, `JoinedApart`) if the part that is searched is free of it, and what is encoded
is free of all of them (`EncodedIsFree`). `decodePercent` and the encoding run along a text,
the one from its end, the other from its start; `DecodeEquation` and `Flattening` show that
both recursive functions exist, and `EncodedDecodes`, counting back from the end, that one undoes
the other. `EndpointRead` puts together what the endpoint parser returns: the parts, or nothing
if one is missing or the port is no number. The invariant `OptionsInv` says that a
credential is what the arguments so far give (`TakenUpTo`); it is needed because the options
are overwritten in place and the property is about the last one of a name.

### MessageProofs: the Message objects

* `ActAsValues` (`ActsAsValues`): sharing sections is not visible. `Sound` says that the heap
  has no dangling reference and no description nested more than twice, `Refer` that owners
  refer into it. A setter writes at an address that is not in use, so that what all other
  owners refer to is the same before and after, as is everything inside it (`Same`,
  `TakesOver`).
* `WrapsOnce` (`WrappedOnce`) and `ReadsBack` (`ReadsBackWhatWasSet`), from `Written`: what a
  section holds since a setter wrote it. `WholeIsKept` says that a call that fits is stored as
  it is, for any limit and any texts.
* `BodyIsSent` (`BodyIsWhatIsSent`): `getBody` puts separators before sections and the
  documentation puts them after; `SameText` shows the texts equal for any number of sections.
  `Held` says when the cached text is that one.

The module extends `MCMessage`, which has the instance of `MessageBody`; the first three
theorems are about `Spec` of `MessageMetadata`, the last about `Body!Spec`. Assumed are that
deliveries bring sequences of entries with different keys (AMQP forbids others; the copying
loop would merge them), that setters are called with texts, numbers and one of the type letters,
that the limit of 32 bits is a positive number, and that texts are sequences.

The loops over entries and sections (`Copied`, `Read`) are recursive functions over numbers.
What they compute for inputs of every length is proved by the least number at which it could
fail (`LeastNatural`, from the well-foundedness of the naturals), packaged as `CountingUp`
for sets of numbers.

### Only model-checked

* The liveness properties `DrainCompletes`, `ShutdownEnds`, `CloseLeadsToClosed`,
  `AnsweredSendEnds` and `AlwaysExits`: liveness under fairness is out of the prover's reach.
* The four properties documentation states and the code violates.

## Not modelled

* Wording, logging and trace records; resource names; the registration table of `main.cpp`.
* In `Message`: what PHP converts an argument to for a type letter before the setter casts it,
  what a getter converts a value to if it is given a type letter, and `getDeliveryCount`, which
  reads one field.
* Memory exhaustion inside uAMQP, except where the code has a branch for the call's failure.
* Patch application: the script asks `git apply` three questions, each answered by one
  atomic call; a model of it would be a model of git.
* Installation, packaging, version, release and containers do what package managers,
  compilers and shells do.
* The peer of a publish that stays silent: `publish` then waits for ever, and no property
  claims otherwise.
* The debugging tool's link replenishes its credit by itself, and messages that arrive in
  the dispatch of the last one wanted are accepted too; `DebugReceiver` has this
  (`OnMessage`), and no document limits it.

## Plan

The model is complete as far as the code goes, and every safety and action property that holds
is proved. What remains is to follow the code: a change of a function named in the map of
`PROJECT.json` is a change of the definition that stands for it, and the runs and the proofs
say what no longer holds. `EndpointOptions` leaves out the white space `strtol` skips; whoever
makes the tool accept more forms of endpoint has to weaken `IsEndpoint` with it.
