# A TLA+ model of pyfreeswitch

pyfreeswitch is a synchronous Python client of FreeSWITCH's event socket
(`mod_event_socket`): a socket transport with hand-written framing
(`ESLClient`), a reconnecting event listener (`ESLEventListener`), typed reads
and writes on top of them, and parsers that say what an answer, an event or a
call record means and whether it may be trusted.  This directory models them,
checks the models with TLC on small instances, and proves the most important
properties with TLAPS for all values of the constants.

Paths below are relative to `src/src/pyfreeswitch`.

## 1. Inventory

| Component | State | Operations | Interacts with |
|---|---|---|---|
| **Framing** `clients/esl.py` `_read_frame`, `_read_until`, `_read_exact`, `_recv`, `_parse_content_length`, `_raise_protocol_error` | `_sock`, `_buffer`, the deadline of a read | read one frame; idle tick; refuse; lose | the peer's byte stream |
| **Event unwrapping** `clients/esl.py` `_parse_event_body` | none | the inner header block and payload of an event frame | the frames framing returns; `read_event` |
| **Client** `clients/esl.py` `ESLClient` | `_sock`, `_connected`, `_authenticated`, `_pending_events`, `_pending_event_bytes` | `connect`, `authenticate`, `subscribe`, `api`, `read_event`, `close` | framing below; listener and typed methods above |
| **Listener** `clients/esl_listener.py` | `_closed`, the client, the local `backoff` | `run_forever`, `start`, `listen`/`iter_raw`, `close` | the client, the callback `on_event` (which may use the client), other threads that call `close` |
| **Typed mod_callcenter methods** `clients/esl.py` 366-516, `models/callcenter.py`, `models/commands.py` | none of their own; the switch's agents and tiers | deletes, status and state writes, lists, gets, untyped reads, the `api()` gate, `CommandReply.ok`, `not_found` | `_command`; the switch's tables |
| **Call control** `clients/esl.py` 518-593 | none; the switch's channels and bridges | `uuid_kill`, `uuid_transfer`, `uuid_attended_transfer`, `uuid_record` | `_mutate` |
| **Registrations** `models/registrations.py` | none; a profile's registrations | `list_registrations[_result]` | `api`, a report of lines |
| **Channel snapshots** `models/channels.py` | none; the live channels | `list_channels_result` | `api`, a JSON answer |
| **Typed events** `clients/esl_parser.py`, `models/events.py` | none | `parse_event` | the listener; CDRs, which tell of the same calls |
| **CDRs** `models/cdr.py` | none | `parse_cdr_row`, `CallRecord.answered` | a dialplan's CDR template |
| **Configuration** `config.py` | the clamped limits | validators | constants of framing and client |
| **Exceptions, logging, exports** | none | | |

What is hard in this code, and the properties it calls for:

* *Framing.*  Frames arrive cut anywhere; the caps meet at exact bytes; one
  deadline covers a frame that comes in many pieces; an idle tick must not eat
  half a frame.  Every read must end, with the next frame of the stream, a clean
  tick, or a dead connection.  Inside an event frame a length counts bytes and
  the text is cut in characters.
* *Client.*  Replies and events share one stream and events may overtake the
  reply to a command; a command that times out has an answer on the way that
  nobody may ever take for another's.  Events must come in order and once,
  from the queue first, then from the wire.
* *Listener.*  It has to survive losses, stop when told, from the callback or
  from another thread, and release its client whatever happens; its callback may
  send commands on the connection it reads; nothing locks the attributes two
  threads touch.
* *Typed methods.*  A command that timed out may still be executed; success
  must mean that the switch acted and `not_found` that the object was absent; a
  delete must not miss the stored row; a transfer must move the leg it names; a
  read-only client must not write.
* *Parsers with a verdict.*  An answer that is refused, damaged or cut short
  must not pass for "there is nothing".
* *Parsers without one.*  The events and the records of one call, in several
  spellings and column layouts, must tell the same identities, times and outcome.

The full list, each at its line, is under `hazards` in `PROJECT.json`.

## 2. Modules

    FrameChannel <--implements-- ESLFraming <- EventBody <- MCFraming    bytes -> frames -> events
                                     | the ways a read can end
    EventFeed    <--implements-- ESLClient <- MCClient                   frames -> replies, events
                                     |
    ESLListener  <--implements-- ListenerStack       run_forever on a real client
                                 ListenerClose       close() in other threads, by attribute
                                 CallCenter, CallCenterTable <- MCCallCenter
                                 Verdicts            Registrations and ChannelSnapshot
                                 CallStory <- MCStory   TypedEvents and CallRecords
                                                        (on FrameParts)
    ESLConfig                    the limits; MCClient takes one from it
    ESLFraming_proofs (with EventBody), ESLClient_proofs (with ESLConfig and
    ListenerStack), ESLListener_proofs, ListenerClose_proofs, CallCenter_proofs,
    Verdicts_proofs, CallStory_proofs
    NaturalLemmas                the least and the greatest element of a set of naturals, and
                                 induction stated over sets, for the modules above

**`FrameChannel`**, **`EventFeed`** are the abstract specifications: a channel
of whole frames each handed over once and in order, and a feed of numbered
events without gap or repetition.

**`ESLFraming`** is `_read_frame` over bytes.  The alphabet is a line feed,
ordinary bytes, and bytes that stand for a whole `Content-Length: n` or event
`Content-Type` line.  `pc = "header"` is the loop of `_read_until`,
`pc = "body"` that of `_read_exact`; `Recv`, `Expire` and `Lose` are the ways out
of `_recv`.  `Acceptable` collects the checks on the header cap, the frame cap
and the declared length.  `Streams` is what a peer may send on a connection.  A
deadline is a count of ticks (`left`), given by the caller of the read: the whole
timeout from `read_event`, what is left of it from `_command`.

**`EventBody`** is `_parse_event_body` on the frames that `ESLFraming` returns.
Decoding maps bytes to characters: a pair of bytes (`Lead`, `Trail`) is one
character, a byte of a pair without the other is one replacement character, which
counts three bytes when its length is taken again; `Rank` says how many characters
begin before a byte.  `EventsSurvive` compares what comes out with
what the frame was made of.

**`ESLClient`** is the client at the granularity of frames.  `op` is the method
being executed; `up` and `down` are the two directions of the connection, the
second including what sits in `_buffer`.  The queue of racing events is
`pending` and `pendingBytes`.  Of `ESLFraming` it keeps that a read gives the
next frame, ends in a clean tick (`ReadExpires`, first disjunct), or ends the
connection (`Lose`, and `Fail("lost")` at an expired deadline, for an incomplete
frame).  The switch answers the commands of a connection in order, emits events
to a subscriber whenever it likes, and may send a notice.  `result` records how
a method ended together with the command whose reply it used.  `connect()` has two
waits, each for a whole timeout: `Dial` is `create_connection`, during which the
client stays as it was; `Connect` is the peer accepting, after which the greeting
is awaited.

**`ESLListener`** is `run_forever`, one action for each statement that matters,
with the client reduced to whether it holds a socket.  `raised` is the exception
on its way to the `finally`.  Another thread runs `close()` in two steps, the
flag and the client; the callback may call it too.

**`ListenerStack`** is the same loop on `ESLClient`.  `pc` says which method of
the client the loop is in, `op` and `result` say how far that method is and how
it ended; the callback may send `api` commands on the client, whose racing
events then wait in its queue.  Another thread's `close()` takes the client apart
under whatever method waits, in the order of `esl.py:289-297`: the buffer, the
queue, its byte count, the socket.  In between the reader goes on, a frame at a
time: it may find the queue cleared while the socket is still there, take a later
event from it, or queue one.  What happens to it between two accesses of its own
(an `AttributeError`, an `IndexError`, half a frame left of a cleared buffer) is in
`ListenerClose`.  `handed` remembers the last event the callback had.
It is shown to implement `ESLListener` (`ImplementsListener`), with `live` mapped
to `sock` and the wait for the greeting mapped to the start of `authenticate`.
`ReconnectOpen` is TRUE here: the client would accept a `connect()` on an open
connection, and that it gets none is up to the loop.

**`ListenerClose`** looks inside: every access to an attribute of the client is
a step, in the reader and in the threads that call `close()`.  `old` and `chunk`
are the operands of `self._buffer += self._recv(...)`, which loads the buffer
before the call, `count` that of `self._pending_event_bytes -= size`.  It starts
while a subscribed connection is read and ends where `run_forever` ends or would
reconnect.  `_command`'s docstring says that the client is for one caller at a
time; `ESLEventListener.close` is nevertheless the only way to stop a
`run_forever` that waits for events.

**`CallCenterTable`** holds the reading of replies (`parse_callcenter_table`,
the typed lists, `_bare_value`, `parse_command_reply`) as operators over lines
with cells.  **`CallCenter`** is the typed methods, `uuid_*` included, against
the switch's agents, tiers and channels.  A command is its sequence of tokens, so
that the gate of `api()` (`ReadOnlyForm`) and what the switch makes of a command
(`Outcomes`) look at the same thing; an argument of a caller that has a blank in
it is two tokens.  `due` are commands the switch has not executed: one of a
connection that timed out may be executed while the next method waits.

**`Registrations`** and **`ChannelSnapshot`** are a changing profile or set of
channels, an answer, what may become of it, and the parser's verdict.
**`Verdicts`** runs both, the two authorities a caller may act on.
In `Registrations` a line of a text has a kind, by how it begins, and may have a
marker (`total`, `call-id:`, `registrations:`) anywhere in it, which is how the
parser looks for one; an answer that is no report (`NoReport`) is any sequence of
refusals, noise, blank, `Call-ID` and `User` lines, with markers or without.

**`TypedEvents`** is `parse_event` with the attributes of every event class,
**`CallRecords`** is `parse_cdr_row` and `CallRecord.answered`.  **`CallStory`**
makes them meet: a queued call is offered to agents, answered, bridged and hung
up on a switch that spells its headers in one way or another; it emits the frames
of its events, and in the end the rows of its record in each generation of the
template.  How the switch writes a number or a time is a parameter (`Text`,
`Stamp`), of which nothing is assumed but that different values are written
differently and none is blank; `MCStory` gives them the texts that stand in frames
and rows.  **`FrameParts`** puts frames together from single headers.

**`ESLConfig`** has the validators of the settings: what is not a number
(`RawValue`), a negative or a huge one is clamped or replaced by the default.

Code outside the repository (mod_event_socket, mod_callcenter, mod_sofia, the
channel table, the CDR template) is modelled as the client's code and docstrings
expect it; those definitions are marked external in `PROJECT.json`.

## 3. Runs

| Run | What it asks | Bounds, and why they are enough |
|---|---|---|
| `framing` | Does the reader return the frames of every stream, whatever the segments, within caps and deadline, and does an event come out of its frame whole? | All streams of up to two pieces from sets with a frame on each side of each cap (header 5, body 7, frame 11 bytes), events with payloads of two-byte and of broken characters, and every string of three kinds of bytes up to length 5; `RecvMax` 4 cuts a frame anywhere and spans two frames. |
| `client` | Reply pairing, flags, queue accounting, deadline (for `connect()` twice the timeout: the dial, then the greeting), order of events, termination. | 2 connections, 4 commands, 4 events, a queue of 2 events; the frame cap is the smallest one the configuration lets through, and of the two sizes of events one fits beside the other but not beside itself: both limits are hit, a command can time out, and another connection and command follow. |
| `listener` | Fresh connections, release, prompt stop, backoff, retry. | Base 1, maximum 5, so the doubling meets the maximum between two powers; state is finite without a bound on attempts; `late` and `tries` count to 2, one more than is allowed. |
| `stack` | Does the listener on the real client do only what `ESLListener` allows, hand events over in order, and end on `close()`? | 2 connections, 5 commands (two to start each connection and one for the callback), 3 events, a queue of 2: events race with the callback's command, it times out, and a second connection follows with its own events; another thread calls `close()` any number of times, at any point of this. |
| `close_race` | What `close()` in two other threads can do to the reader. | 2 closers, a queue of up to 2 events, 3 events in all, each in two units. |
| `callcenter` | Are reads of whole replies exact and of damaged ones sound, deletes complete, commands executed once, success and `not_found` true, transfers aimed, read-only clients harmless? | One agent, one queue, two channels, arguments of each kind (plain, with a blank, with a hyphen in front, a path that climbs), two column orders, two methods; a late command of the first runs during the second; any reply may be empty or have a short row.  Contacts without a bar: `callcenter_bar` shows what happens with one. |
| `verdicts` | Is a whole report authoritative and exact, and does a refusal, or text with nothing of a report in it, ever pass for one?  Can a damaged snapshot? | Two extensions with two contacts each, changing at any time; an answer that is no report has up to two lines, so that a refusal or blank line is followed by a marker or a row, and a row by another; three channels, a row budget of 2 and up to three faults in one answer: enough to lose one row and repeat another in another spelling. |
| `story` | Do the events and the record of a call agree? | Two agents and four ticks: a caller joins, is offered to one agent and then to another, is answered within a tick or after one, or gives up. |

Runs that TLC must find violated, each a disagreement between the code and what
is written about it (`findings` in `PROJECT.json`):

| Run | Claim | Counterexample |
|---|---|---|
| `listener_docs` | `run_forever` "returns only after close()", losses are retried | `start()` raises `ESLTimeout`, which the `except` clause does not name |
| `close_docs` | `close()` "swallows teardown errors" | the reader stores `None` between the test and the use of `_sock`: `AttributeError` |
| `callcenter_bar` | "keys by header name and never by offset" | a contact with a bar in it shifts the row |
| `registrations_cut` | an authoritative result "proves the profile's registration set" | a report cut after its heading is EMPTY |

One more of the kind needs no run: the docstring of `ESLTimeout` says that the
connection is still open, which is so of `read_event` only; `_command` and
`connect` close it (`ESLClient`: every timeout of theirs is a `Fail`).

`close_race` and `close_docs` set `CHECK_DEADLOCK FALSE`: threads end.  In
`close_race` the invariant `FailsOnlyInRace` and the liveness property `AllEnd`
say what is left of the claim that fails.  The reader is exposed to the same
race: its own test of `_sock` (`esl.py:843`) or of the queue (`esl.py:612`) can be
stale, and `run_forever` then ends with an exception after the `close()`;
`FailsOnlyInRace` names both.

Some properties say less than a reader may expect.  Of an empty reply, or one
with short rows, `parse_callcenter_table` makes an empty or shorter list, so an
empty agent list does not prove that there are no agents (`esl.py:388`):
`ReadsExact` is exact for whole replies, and of damaged ones says only that they
hide rows and get none wrong; and a reply cut inside the last cell of a row, which
the parser takes for a whole row with a shorter value, is not among the damages
that are tried.  `OnlyReportsCount` is silent on
text that is no refusal and has a marker or a named `User` line in it:
`registrations.py:136-146` takes any such text for a report, EMPTY or COMPLETE, and
authoritative (the run counts it as one).  `HandedInOrder` promises no gap only
until `close()` is called: between `esl.py:292` and `297` the queue is empty and
the socket is not gone, and the reader may hand over a later event.  `Deadline`
gives `connect()` twice the timeout; if its host has several addresses,
`create_connection` dials each with a timeout of its own, which is not
modelled.  And with `ReconnectOpen`, that is `connect()` on a
connection that is still open, `ImplementsFeed` does not hold of the client, since
the events of the old connection stay queued (the theorem about it assumes
`~ReconnectOpen`); `ReplyPairing` and `AuthHonest` are proved for both values, and
`run_forever` never does it: `Disconnected` of `ESLListener`, and
`HandedInOrder` of `ListenerStack`, where the client would let it.

### Fairness

* `ESLFraming`: weak fairness of `Step`, the interpreter's own steps and the
  passing of time in `recv`.  Nothing is assumed of the peer: `Recv` and `Lose`
  are not fair.
* `ESLClient`: weak fairness of `Step`, a method that is being executed.  Neither
  the callers nor the switch need do anything.
* `ESLListener`: weak fairness of `run_forever` and of the second half of a
  `close()` already begun.  That methods of the client return is `CallReturns`;
  that the callback returns, and that a sleep ends, is assumed.
* `ListenerStack`: weak fairness of `RunForever`, the loop with the method and the
  callback it is in, and of `CloseClient`, the steps of a `close()` already begun.  Here that methods return is no
  assumption; that the callback returns still is one: it has a bounded number of
  commands to send (`MaxCommands`) and nothing else to wait for.
* `ListenerClose`: weak fairness of the reader and of each closing thread, that
  is, the interpreter's scheduler; a `recv` without data ends with its timeout.

## 4. Proofs

`tlapm` checks every theorem below for all constants that meet the assumptions
in the modules (positive limits; the switch's alphabet and streams arbitrary).

* **`ESLFraming_proofs`**: `TypeOK`, `FrameDeadline`, `BufferBound`,
  `StreamAccounted`, `IdleTickIsClean`, `RefusedForCause`.  `TypeOK` carries what
  the others need of `pc`; `StreamAccounted` is inductive on top of it, because
  every action that moves bytes moves them between adjacent parts of
  `taken \o Partial \o buffer \o wire`; the lemmas say so for each cut of a
  sequence.  `IdleTickIsClean` follows from it at the one step that ends in a
  tick, and `RefusedForCause` at those that refuse: what `Acceptable` turned down
  begins what is left of the stream.  `ImplementsChannel` is the refinement of
  `FrameChannel`: the frames of a stream, a recursive function of its bytes, are
  one frame followed by those of the rest (`DecodingStep`, `DecodeEquation`), and
  what a read returns is the first frame of what was left of the stream, by
  `StreamAccounted` and `BodyAwaited` (the body that is waited for is that of the
  block that was read).  Then `EventBody`: `EventsSurvive`, for every event and
  every way it is cut.  A frame that was returned is as long as its header says
  (`FramesFit`); decoding keeps the blocks of plain lines where they were
  (`TextBlock`, by the ranks of characters) and, for a text that is whole, its
  length (`SizeOfText`, by induction on the prefixes), so that the inner block and
  the payload cut from the decoded text are those the event was made of
  (`UnwrapsWhole`).  `CharacterAssumption`: the two bytes of a pair differ, and are
  neither line feeds nor header lines.
* **`ESLClient_proofs`**: `TypeOK`, `Deadline`, `AuthHonest`, `ReplyPairing`,
  `PendingAccounted`, `ImplementsFeed`.  `ReplyPairing` is not inductive: that a
  reply is the right one follows from there being only one.  The invariant has
  `Closed` (a closed client has nothing on the wire) and `Outstanding`: while no
  command waits, no command or reply is on its way; while one waits, exactly one
  is, and it is its own.  `PendingAccounted` is about a sum, which the model
  writes as a recursive function; `Totals` is that function as a fact about its
  values, shown unique and followed through an event more or less.
  `ImplementsFeed` needs `Numbered`: the events in the queue followed by those on
  the wire are numbered consecutively from the last one seen to the last one
  emitted; it is proved under `~ReconnectOpen`, which `Disconnected` justifies for
  `run_forever`.  About `ESLConfig`: whatever the environment says,
  the validated limits meet what framing and client assume of their constants
  (`LimitsMeetAssumption`), and validating a validated value changes nothing
  (`NormalizingTwice`).
  Last comes `ListenerStack`: `ImplementsListener`, so that the theorems about
  `ESLListener` hold of the loop on the real client, and `HandedInOrder`, with
  `ReconnectOpen` left open.  What is left of the client's invariant while another
  thread's `close()` is half done is `ClientInv`: its shape, that no socket means
  an empty wire (`Held`), and that the events in the queue, then those on the
  wire, ascend from the last one seen (`Ascending`), which clearing either, or a
  part of the wire, does not disturb.  Until the first
  `close()` is called the stronger `Emptied` and `Numbered` hold (`Undisturbed`),
  from which it follows that nothing is skipped; an event queued behind the back of a
  `close()` stays behind only in a loop that will yet see the flag (`Leftover`), so
  that a new connection begins with an empty queue.  To this it
  adds that the method being executed is the one the loop or the callback
  called (`InMethod`), that the client holds nothing where the loop connects
  (`Between`), and how far the callback is behind the client (`HandedUp`).
  `MethodAdvances` lists the ways a method can end; the proof that a step of the
  loop is one of `ESLListener` only looks at that list.
* **`ESLListener_proofs`**: `TypeOK`, `Disconnected`, `StopsPromptly`,
  `BackoffDoubles`.  `Disconnected` says that the client holds no connection where
  the loop is about to connect or has ended, and is inductive as it stands, since
  every way there leads through the `finally`.  `StopsPromptly` needs `Late`, the
  places the loop can be in once a callback or a connection has begun after
  `close()`; `BackoffDoubles` needs `Doubling`, that `backoff` is what the next
  wait must be.
* **`ListenerClose_proofs`**: `NothingLeaks`, `OneLateEvent`, `FailsOnlyInRace`,
  `InOrder`, for any set of closing threads and any interleaving of the attribute
  accesses.  The invariant says in what order one `close()` empties things
  (`SocketClosedFirst`, `EmptiedInOrder`), that before the first `close()` every
  test of the reader still holds when it acts on it (`TestsHold`), and that an
  event handed over late was the last (`LateIsLast`).  `InOrder` needs two more:
  before the first `close()` queue, buffer, chunk and wire continue one another
  and what was delivered (`NothingSkipped`); after it, wherever a stale copy keeps
  an event, none that was delivered can come back (`NothingRepeated`).
  Assumed are `MaxPending \in 0..MaxEvents` and that the reader is no closer.
* **`CallCenter_proofs`**: `TypeOK`, `AnswersAreTrue`, `NamedLegMoves`,
  `DeleteLeavesNoOrphan`, `ReadOnlyNeverWrites`, `ReadsExact`.  The invariant: what
  a client sends passed its gate (`Kept`); a command keeps its number until the
  switch executes or drops it, so that no other is counted in its place
  (`Numbered`); what the reply on its way will be taken to say is so (`ReplyTrue`),
  and what the result says (`ResultTrue`).  That a delete finds the stored row rests on
  `QualifiedMeansItself`: a name the client qualified means itself to the switch.
  `NameAssumption` says what is assumed of names: spellings are sequences of
  characters, different names have different spellings, the flags of a transfer
  begin with a hyphen, and "none" is no channel.  `RawAssumption` confines the
  commands a caller makes up for `api()` to those that are not empty and whose
  `agent set`, if they have one, is one that mod_callcenter knows.
  `ReadsExact` needs `ReadIInv`: each typed read asks with the command its reply
  is read for (`Asks`), and what will be read in the reply on its way is what the
  tables held when it was written (`ReadTrue`).  The lemmas follow a row through
  the listing: the cells of an agent put in a row (`Flattened`, `AgentRowIs`), the
  lines in some order (`Ordered`, `ListingIs`), a row keyed by the header whatever
  the order of the columns (`RowIs`), the selection of whole rows from a damaged
  listing (`ListingRead`).  It is proved under `OneCell`, no contact has a bar in
  it, since with one the columns shift (`callcenter_bar`).  `ListingAssumption`:
  finitely many agents and queues, none nameless, and every listing of agents has
  the columns name, status and state.
* **`Verdicts_proofs`**: `AuthorityIsProof`, for any set of channels, any budget and
  any number of faults, and `OnlyReportsCount`, for any phones and any number of
  stray lines, under `~Damage`: of a report cut short it is false
  (`registrations_cut`).  A refusal is an error before its rows or markers are
  looked at; text without a marker or a named `User` line has no rows (`NoRows`), so
  that nothing is left of it to count (`NoReportParse`).  A fault may remove,
  repeat, respell or break a row, but leaves every row one of a channel that was
  live (`Truthful`); as many different ones as were counted are then all of them
  (`AllOfThem`).  For the report, `ReportLines` gives every line of the text its
  place (`Fours`, the flattening of the entries) and `RowsOf` reads them back.
  Assumed is that no phone registers under an empty name, of which
  `parse_sofia_reg` would skip the row.
* **`CallStory_proofs`**: `LiveAndDurableAgree`, `IdentitiesKeepTheirRoles`,
  `RecordTellsOutcome`, for any agents, any length of the story and any way of
  writing numbers and times.  The invariant orders the times of a call: legs and
  queue within the clock, no leg answered or ended before it started (`Timed`), the
  queue's agent one the call was offered to and its answer that agent's (`Offered`),
  and what is fixed once the call has left the queue (`Over`); `ToldRightly` says that
  what was last told was made of a frame or row of the call as it is.  A frame is
  followed from its headers: in an `Honest` one those that name the member or an
  agent name only the member, or an agent the call was offered to, and one that
  `TellsJoin` tells the queue's own time in either spelling; a row is read by the
  columns of its generation (`Places`).  `TextAssumption`: different
  numbers and times have different texts, none is blank, and of the numbers only 0
  is written "0".  `StoryAssumption`: the identity of an agent's leg is not blank
  and not the member's.

What needs induction over a recursive definition is proved with `SetInduction` of
`NaturalLemmas`, which is stated over a set instead of a predicate.

Only model-checked is liveness (`ReadReturns`, `CallReturns`, `StopsWhenClosed`,
`Reconnects`, `AllEnd`), which needs fairness and ENABLED, and so is out of the
provers' reach.  Every invariant and every action property that a passing run
checks is a theorem, `ReadsExact` under `OneCell`, `ImplementsFeed` under
`~ReconnectOpen` and `OnlyReportsCount` under `~Damage`, where they fail
otherwise.

## 5. What is not modelled

* Asynchronous exceptions (`KeyboardInterrupt`), which can leave a reply
  outstanding: `_command` closes on `ESLTimeout` only.
* An integer setting too large for a float: `float()` raises `OverflowError`,
  which the validators do not catch, so that the configuration is refused
  rather than clamped (`config.py`, the timeout).
* A tier's state, level and position and an agent's other columns; what an
  attended transfer or a recording does on the switch.
* The reply of a switch that lacks a module, "…Command not found!", which
  `CommandReply.not_found` takes for an absent object; mod_callcenter is assumed
  to be loaded.
* A reply of the call center cut inside the last cell of a row; a host with
  several addresses.
* Contents of headers other than `Content-Length`, `Content-Type` and the status
  of a reply in the transport; logging; the wording of errors; package exports.
* A command that is itself more than one command line: one command gets one
  reply.
* `listen()` and `iter_raw()` driven by a consumer that reconnects on its own:
  they are modelled as `run_forever` drives them.

## 6. Plan

Done, in this order: framing, client, listener, the close race, call center and
call control, registrations, snapshots, event unwrapping, configuration, typed
events and records, the listener on the real client; then proofs of every safety
property, the refinements included.

Next: a consumer of `iter_raw` that keeps the client and reconnects on its own;
`ReadsExact` for contacts with a bar when the contact is the last column.
