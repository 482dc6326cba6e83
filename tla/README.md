# asio-gdbproxy in TLA+

asio-gdbproxy sits between a debugger (GDB for MicroBlaze, the *client*) and a
debug server (hw_server, the *target*). It forwards the remote serial protocol
in both directions and adds what the server does not know: the tasks of a
FreeRTOS program as threads. These modules model the program, TLC checks them
on small instances, and TLAPS proves the main safety properties of each part
for every value of the constants. `PROJECT.json` lists runs, mutants, findings
and theorems, and maps each definition to its lines.

## The system

One worker thread runs one `io_service` (`proxy.cpp`); every completion handler
is therefore one atomic step, and all interleaving is between handlers.

| component | state | operations | talks to |
|---|---|---|---|
| server (`proxy-server.cpp`) | the connection that waits in `async_accept` | `start_accept`, `handle_accept` | connections |
| connection setup (`proxy-conn.cpp` 44-117) | two sockets, endpoints left | resolve, connect to each endpoint, arm the channels, `shutdown` | asio |
| channels (`proxy-conn.cpp` 123-299) | two queues of transfers, writes in flight, read buffers, `m_ack_mode` | `start_read`, `process_data`, `start_write`, `on_request`, `on_response`, `push_internal_*` | packets; target hooks by callbacks |
| packet (`gdb-packet.cpp`) | bytes, parser state, sum | `parse`, `finalize`, `reset` | channels |
| FreeRTOS target (`target_mb_freertos.cpp`) | symbols, thread list, id map, selected thread, kept stop reply | `process_request` and the chains of memory reads | channels (`push_*`) |
| thread id (`threadid.h`) | none | parse, format, compare | FreeRTOS target |
| helpers (`gdb_packets.cpp`) | none | hex conversion, memory read request and reply | FreeRTOS target |
| null target, command line, hex2bin, build | none | forward all; parse options | |

What makes each part correct:

* *Channels*: a reply is matched with a request by its place in the queue, so
  the queue must be exactly what the target owes; the proxy's own requests and
  acknowledges must stay invisible to the client; nothing overtakes on the wire.
* *Setup*: a session is connected or read in both directions, or gone; it ends
  when a peer leaves and does not take others with it.
* *Packet*: what is cut out of the stream does not depend on how TCP cuts it;
  checksums are those of the contents.
* *FreeRTOS target*: an update ends although reads of it fail; the list is the
  RTOS's; ids name tasks; a halt is reported once.

Hard to test: the window between starting a write and its completion, during
which other handlers change the queue the completion pops; reads that complete
after a shutdown; packets spread over reads; replies to memory reads that are
errors; ids over many halts. `PROJECT.json` "hazards" has each with its line.

## Modules

| module | models | with |
|---|---|---|
| `ProxyConn` | the two channels of a connection and the routing of requests | |
| `Dialogue` | what a session promises: each reply answers the oldest command | |
| `ProxySession` | `ProxyConn` + client + target; the session's properties; refines `Dialogue` | extends `ProxyConn` |
| `ThreadIds` | `get_threadid` and the clean-up of `m_threads_map` | |
| `ThreadView` | what a thread update promises: each halt replaces the client's list in one step | |
| `ThreadUpdate` | `update_threads` .. `update_threads_done`, the RTOS external; refines `ThreadView` | extends `ThreadIds` |
| `FreeRtosSession` | a session whose scans are walks of the lists: the channels drive the update | extends `ProxySession`, instantiates `ThreadUpdate` |
| `ThreadId` | `threadid`: parse, print, compare | |
| `StackFrame` | hexadecimal text, words, the register layout of a stacked context | |
| `FreeRtosTarget` | qSupported, symbol lookup, stop reply, requests about threads, `g` | extends `ThreadUpdate`, `ThreadId`, `StackFrame` |
| `GdbPacket` | `gdb_packet` | |
| `PacketStream`, `MCPacketStream` | a TCP stream cut into packets; a packet composed | extends `GdbPacket` |
| `ProxyServer` | accept, resolve, connect, arm, read, write, shut down | |

Theorems are in `ProxySessionProofs`, `DialogueProofs`,
`FreeRtosSessionProofs`, `ThreadUpdateProofs`, `FreeRtosTargetProofs`,
`PacketStreamProofs` and `ProxyServerProofs`; `SequenceInduction` has the lemmas
about induction and sequences they share.

### ProxyConn and ProxySession

`requests` is `m_requests_channel.m_transfers`. A transfer stays there until
the reply arrives (data) or its write completes (the rest); `reqWrites` holds
the writes whose handler has not run. So the two orders that matter, that of
the queue (a break goes to the front) and that of the wire (it does not), are
separate. `responses` needs no such pair: nothing overtakes there. `c2p`,
`p2t`, `t2p` and `p2c` are the TCP streams.

`ReadClient` is `process_data` with `on_request` (`Route` is what
`process_request` decides); `ReadTarget` is `on_response` with the callback and
the `pop_front`; `WriteRequestDone` and `WriteResponseDone` are the handlers of
`start_write`. One packet is one step: TCP may deliver it in a read of its own,
so batches add nothing.

Data are reduced to a packet's type, its *kind* and its *tag* `<<n, j>>`: client
packet n, memory read j on its behalf. Kinds:

* `plain`: forwarded;
* `noack`: QStartNoAckMode;
* `local`: answered by the proxy;
* `stop`: answered when the target halts, then `scan` reads (the thread update);
* `regs`: replaced by two `fetch` reads (stack pointer, stacked registers).

How many reads a scan takes is left open, up to `MaxReads`; `FreeRtosSession`
decides it. `status` becomes "aborted" when a handler throws and "undefined"
when it takes the front of an empty queue. The completion handler's reference
to a transfer that has left the queue is read as either type.

The client is GDB: it waits for its answer (`Window` = 1, more in
`conn_faults`), sends only a break while the target runs, waits for '+' in
acknowledge mode, may repeat a command it misses one for, and may refuse a
reply with '-'. The target answers in order, ignores a break while it is
halted, may refuse a command while it acknowledges, and answers a '-' by
repeating its last reply.

### FreeRtosSession

The two halves of the program share no variable but meet in every callback: the
update's state is in the target object, its next step in the queue of the
connection. Each action is one of `ProxySession` with what it does to the update:

* `HaltSeen`: a reply is taken for that of the request that resumed the target,
  and `update_threads` runs.
* `UpdateRead`: a reply is taken for that of a scan, and its callback runs. It
  queues another read exactly if the walk needs one.
* `OtherRead`, `OtherHandler` and `Peers` leave the update alone.

Nothing makes the two fit. `memory` is the target's: lists, running task and
number of the halt, chosen anew when it halts, whether the proxy hears of it or
not. The update has its own (`items`, `task`, `stops`), that for which it was
started. A callback gets the word it asked for only if the reply is that of its
own read and the memory is still the same (`Intact`); any other reply is decoded
all the same, to a word of `Stray` if not by chance to the right one (`Astray`).
A stop reply that comes while an
update runs starts it over; if the read of the first is still queued, its callback
refers to what was cleared, and the walk is not followed any further (`tangled`).

`ReadsInStep` says that this last does not happen and that queue and update agree
on whether a read is under way. `SessionView` says of `memory`, not of the
update's copy, that what the client is shown between two halts is the target's
tasks: a halt the proxy misses or a reply taken for another breaks it. Its mutant
is a fault of the queue (a break queued behind). The symbols are known from the
start.

### ThreadIds, ThreadUpdate, ThreadView

`awaited` names the memory read whose callback runs next; each action is the
callback of that read with everything it calls up to the next
`push_internal_request`. The RTOS's lists are sequences of tasks; `Previous`
gives the pointer that is read, since the walk starts at the end marker and
uses the offset of `pxPrevious`. `Halted` gives the tasks any distribution over
the lists. No reply is checked for being an error: a read may return a word of
`Wrong` in place of the right one, such as the number "E01" decodes to. `ids` is
`m_threads_map` and `Numbered` is `get_threadid` as it is compiled: the variable
of its loop shadows the result.

`ThreadView` knows nothing of reads: a halt hides the list, one step later it
is the tasks of the RTOS with the running one marked. The mapping hides what
`m_threading.info` holds while an update runs. That the list comes back is
liveness and stated apart (`UpdateEnds`).

### ThreadId, StackFrame, FreeRtosTarget

A thread id is a pair of numerals, each a sign and a magnitude, a part that is no
number or one that is not there, and what the constructor makes of them: a process
alone means all its threads, a part that is no number is 0. Comparison asks the
left side whether processes count. `StackFrame` has the hexadecimal conversions (what is no digit counts as
zero, an odd digit is dropped) and the offsets of `portR31_OFFSET` and its
neighbours.

`FreeRtosTarget` adds `halted`, the symbol lookup (`cursor`, `known`,
`rtosAvail`), the multiprocess feature as each side understands it, the
selected thread, the two reads of `g` (`fetching`) and the last `answer`. The
client writes the ids it was shown, any thread and all threads. `g` compares the
selected id unsigned, so that for all threads (-1) it reads a stack too. The
proxy looks for ";multiprocess", so that a client that names the feature first
writes process ids which the proxy does not (`QuerySupported`); thread ids
keep the form they had when the update that made them began (`made`). A reply to
the second read that is too short leaves the bytes of the answer open.

### GdbPacket, PacketStream

Bytes are their codes; `Fed` is a turn of `parse`'s loop. `Read` takes any part
of what is on the wire, as far as the buffer goes; `Take` is `process_data` for
a byte, and fails the assertion for a byte no packet starts with. `Put` and
`Finalize` build a packet of the proxy.

The reference the parser is measured against is the peer's encoder, written
without a parser's state: contents are a sequence of *runs*, a byte and how
often it is repeated. `Coded` is what is sent for a run, `Written` what it
means, and `sent` keeps both of every packet.

### ProxyServer

Per connection: the setup operation that is pending, the endpoints left, the
open sockets, the state of each channel's read (waiting, data or error
delivered), the number of writes in flight, and the peers that left. `close()`
turns a waiting read into an error but leaves one that already has data; a
handler that then writes to the closed socket fails the assertion in
`start_write`.

## Runs

| run | shows |
|---|---|
| `conn_sync` | the queue of requests is the round trip through the target; the session refines `Dialogue`; every command gets its own answer; no two writes on a socket at once |
| `conn_break` | the channels with the real thread update and breaks: replies find their requests, a transfer stays as long as it is being written, queue and update stay in step and no update starts over another, the client hears of a halt only when it can be shown its tasks, what it is shown are the tasks of the target's latest halt (`ThreadView`), a break is answered (so the update it causes ends), no command waits with nothing under way for it |
| `conn_ack` | acknowledge mode and leaving it: every '+' the client gets is for the command it waits to see acknowledged. It does not get one for each: that of a resume or of `g`, which the proxy makes its own request, is swallowed like those of memory reads, and a command the proxy answers has none |
| `conn_faults` | everything at once, with repeated and refused packets, two commands unanswered and any stop reply: the order on the wire, and, as long as the client refuses no reply, that no handler takes the front of an empty queue and that only a break leaves the queue while it is being written |
| `upd_walk` | the update implements `ThreadView`, over every distribution of the tasks |
| `upd_faults` | with any reads returning a wrong word each reply leaves less to do and an update ends; the id map stays in step and in range |
| `target` | one report per halt, and there is one; a lookup asks for every symbol once, and the RTOS is used exactly when the present program has those required; whatever notation the client uses, the threads it is shown are answered for; the running task is shown and the only one marked; stacked registers are told apart |
| `stream` | framing, run-length decoding and checksums do not depend on the reads; composed packets carry their own checksum |
| `server` | sessions are whole or gone, nothing leaks, a session ends when a peer leaves |

Three runs show the code disagreeing with what it, or `THREADS.md`, says of it:

| run | what the code does |
|---|---|
| `conn_break_race` | a break written while the target halts by itself is taken for what the stop reply answers; its completion then removes the command that resumed the target from the queue, whose callback never runs: the client hears of the halt but the threads are not updated |
| `upd_fresh_id` | two tasks get the same id; when one of them is the running task, whose id was computed before the walk, `qC` may name the other, or a number no thread that is shown has |
| `target_registers` | `g` uses the thread id as the address of a control block |

The models contain more that goes wrong, of which no property is stated because
it is plain from the code; the passing runs leave it out in their constants, or
their properties allow for it:

* After a client repeats a command for want of a '+' the queue has the command
  twice; the completion of the client's next '+' removes the second copy
  (`conn_faults` has it and checks only what remains true).
* In acknowledge mode, and just after it, a break can be queued before a '+' that
  is being written; the completion of the '+' then removes the break while it is
  being written itself (`BuffersAlive` fails with both in a session; they are
  together in `conn_faults` only).
* A client that refuses a reply makes the target repeat it. The request it
  answers has left the queue: the repeated reply is taken for that of another
  request, or of the front of an empty queue (`RefuseReply`, in `conn_faults`;
  `FrontExists` excludes it).
* A refusal of one of the proxy's own requests goes to the client, which
  repeats the command it sent last (`Acknowledge`, in `conn_faults`).
* A command sent while another is being written overlaps with it on the socket;
  `WritesDoNotOverlap` holds because a client that waits never does that. A
  break or a '+' may.
* `qsThreadInfo` is forwarded to a target that did not see the `qfThreadInfo`
  before it.
* The reply to the read of a stack pointer or frame is not checked: an error is
  decoded as a pointer, a short frame is indexed past its end (`PointerRead`,
  `FrameRead`, in `target`).
* A stop reply other than 'T' throws out of the handler and ends the process
  (`status` "aborted", in `conn_faults`).
* A write that fails trips the assertion of `start_write` before the error is
  looked at and ends all sessions (`WriteFailed`, in `server`).
* The stop reply names the thread the client selected, not the current one
  (`Announce`, in `target`).
* With a symbol for the top priority the ready list of the highest priority is
  not read (`TopRead`, in `upd_faults`); `upd_walk` checks the list without that
  symbol.
* A packet with runs is forwarded with the runs written out and the checksum of
  the encoded form (`InRun`, in `stream`).

All runs say `CHECK_DEADLOCK FALSE`: a session in which the user asks for
nothing more, a proxy that waits for a client, and one that has ended, do stop.

### Bounds

* Sessions: five commands of up to five kinds and two reads per scan let every
  kind follow every other and a chain begin, continue and end around another
  command. `conn_break` has three breaks, so that one meets the traces of two
  others, and two tasks in two lists, so that a walk skips an empty list,
  follows a list of two and numbers two tasks; its `MaxReads` of 30 is above
  what any walk needs. A reply that was taken for another would read as 9.
  `conn_faults` has one read and three commands, one repetition and one refusal
  by each peer, but every feature together.
* Updates: in `upd_walk` three tasks in four lists, one of them without an
  address, give empty, single and longer lists and a list that is skipped; two
  halts let ids be reused and erased. `upd_faults` has one task and two lists,
  but any of the reads of two updates may return a wrong word: 0, the end of many
  a list, or 3, which is no task and more than any count.
* Target: two tasks, two halts, two lookups of three symbols of which the
  middle one is optional. One stack is enough for the registers, which
  are proved for all; 301 and 302 are above the 224 that "E01" reads as.
* Stream: a buffer of four bytes cuts every packet, every run and every
  checksum somewhere; two packets put a stray byte, an acknowledge or a second
  packet before and after another. The payloads are the empty one, "OK", one
  whose sum exceeds 255, a run whose count is itself a '*', and two runs.
* Server: two sessions (a third connection waits to be accepted), two
  endpoints, one write in flight per channel.

### Fairness

Weak fairness of the proxy's own handlers, because `io_service::run` runs every
handler that is ready, and of the peers' reading and answering: the debug
server answers what it reads. `Halt` is fair only where `SelfStop` lets the
target halt by itself; `conn_break` does not, so that there only the break can
end the run. What the user does (commands, breaks, repetitions, leaving) is
never fair, nor is the arrival of a client.

## Proofs

Checked by TLAPS for every value of the constants, from the named ASSUMEs of
the modules only, which every run evaluates. Two assumptions about a session
come up; where a theorem has neither it needs neither.

    Quiet   == ~StartAck /\ MaxBreaks = 0
    Orderly == /\ Window = 1
               /\ StartAck => MaxBreaks = 0 /\ MaxRetransmits = 0 /\ MaxNaks = 0
               /\ SelfStop => MaxBreaks = 0

`Orderly` is a session as GDB holds it, a command at a time: with breaks, or with
acknowledges until QStartNoAckMode ends them. The constants of `conn_sync`,
`conn_break` and `conn_ack` satisfy it. Its conditions are needed: a break that
meets a target halting by itself takes the stop reply, and its completion the
command that resumed the target (`conn_break_race`), a repeated command is queued
twice and a refused reply is answered again (`conn_faults`), and a break goes before a '+' that is still being
written, whose completion then removes the break.

**The session** (`ProxySessionProofs`). `TypeCorrect` has no assumption.
`QueueIsRoundTrip` (`Quiet => (Spec => []InFlight)`) says that the queue of
requests is, in order, what the target has answered, runs, has not read, and
what is still being written; from it follow `ReplyMeetsRequest`,
`WritesKeepTheirBuffers` and `NeverUndefined`. `Quiet` is needed, as
`conn_break_race` shows; window, number of commands, kinds, reads and stop
replies are arbitrary. `InFlight` is not inductive as it stands. The invariant
is

    IInv == TypeOK /\ Silent /\ Len(running) <= 1 /\ InFlight /\ WritesQueued

`Silent`: nobody acknowledges and every packet is data; without it a completion
could pop the queue. `Len(running) <= 1`: the target runs for one command, so
halting moves exactly that tag. `WritesQueued`: the writes in flight are the
last transfers of the queue; without it `Completed` could find its transfer
gone and pop the front. There is one lemma per kind of step, about `InFlight`
and `WritesQueued` separately; those that only move packets share lemmas about
`Tags` of appended and shortened sequences.

`ClientOrderKept` has no assumption at all: breaks, acknowledges, refusals,
repetitions, an exception in a handler. `Chain` orders the three parts of the
way to the target against each other and against the last number used;
`Stamped` says that a command is repeated under its number only while nothing
was sent after it, without which a repetition would be out of order.

`FrontAlwaysThere` and `OnlyBreaksAreDropped` have none either; what they say
is said of sessions in which the client refuses no reply (`naks = 0`), and that
is needed, since a repeated reply answers no transfer. Such a session may well
have lost the match of requests and replies; but it never runs out of transfers,
and no command is freed under its write. Both are about how the queue is
popped: by a reply that may belong to another request, and by a completion that
may find another transfer in front. The invariant `Solid` therefore counts
instead of naming places. With n for what the target owes (`Owed`: requests it
has not read, the one it runs, answers and refusals on their way)

    Stocked(q, w, n)  ==  n + Len(w) <= Len(q) /\ Lined(q, w)    (types left out)

says that there is a transfer for everything that is owed and for everything
that is being written; `Lined` that the writes other than breaks are the last
transfers of the queue, in their order. The two need each other. A reply pops a
transfer and takes one from n; by the count it is not one of the last that `Lined`
speaks of. The completion of a command pops nothing *because* its transfer is
still there, which is `Lined`, and so the transfer is there for the answer it is
owed. The completion of the rest pops the transfer that was counted for the
write. A '+' for the command that the target runs takes nothing from n and must
not find the queue empty: `Ends` says that it is followed by its answer, or that
the target still runs. `Tally` counts the elements of a sequence in a set; its
lemmas say how it changes at either end.

**Its order** (`DialogueProofs`). Under `Orderly`: `OrderlyReplies`,
`OrderlyBuffers`, `OrderlyDefined`, `OrderlyCleaning`, `OrderlyModes`,
`OrderlyAcks`, `OrderlyAttended` and the refinement `ImplementsDialogue`; `OneWriteAtATime` needs
`Quiet` as well. None of these is inductive, nor is their conjunction: that a
completion removes the right transfer depends on where everything else is. The
invariant `Round` names the places of the command that waits, of what the proxy
asks on its behalf and of the answer:

| place | where the one command is |
|---|---|
| `Fresh` | on its way to the proxy |
| `Sending` | a request of the proxy for it is being written, or on its way to the target |
| `Runs` | it resumed the target |
| `Chased` | the same, with a break behind it: sent, being written or on its way |
| `Returned` | the target replied |
| `Settled` | the answer is on its way to the client |
| `Thrown` | its stop reply made a handler throw |

A place fixes the contents of all queues and streams, up to the '+' of earlier
answers that may be ahead of the command (`Seq(Plus)`). In `Chased` the break is the
last of the writes but the first of the queue, so that each of the two
completions removes its own; `Spent` says that a command whose run has ended can
no longer be broken off, which is what keeps a break away from memory reads.
`RoundStep` shows for each handler and each step of a peer from which places to
which it leads, and that it is a step of `Dialogue` or none (`Asks`, `Answers`).

**The composition** (`FreeRtosSessionProofs`). `ImplementsSession`, without any
assumption: `FreeRtosSession` is a session, so that what is proved of those holds
of it. The rest is for `Orderly` ones, and rests on the invariant

    InSession == TypeOK /\ Round /\ Walks /\ Followed

`Walks`: between two updates no stop reply is kept, during one a scan is queued;
the rest is in `Round`, by which a scan is never queued with a break, nor while
the target runs. `Followed` relates the target's memory to the update's copy:
they are the same, unless the target has halted and its stop reply has not been
read (`Due`), when it is one halt ahead; and as long as it runs (`Ahead`) it has
halted less often than commands were sent, so that no bound stops the update.

* `ReadsStayInStep`: the queue holds exactly one scan as long as an update runs and
  none otherwise, the target stays halted, and no update starts over another.
* `ImplementsUpdate`: the update is one of `ThreadUpdate`. This is where it is
  proved, not supposed, that a callback gets the reply to its own read from
  memory that has not changed (`Intact` holds at each `UpdateRead`), and that
  there is one update for each halt. Without `Orderly` it is not so.
* `SessionShowsTasks`: the session implements `ThreadView` over the target's own
  memory: by `ImplementsUpdate` the theorems of the update come in, through
  `Proved`, an instance of `ThreadUpdateProofs`.
* `HaltReportedComplete`: the client hears of a halt after its update only, when
  what it can be shown is the tasks of the latest halt. With a stop reply on its
  way `Round` leaves only '+' in the queue, so that by `Walks` no update runs, and
  no halt is `Due`.

The last two suppose that reads return the right words (`Wrong = {}`) and the top
priority is not known, like `ImplementsView`.

**The thread update** (`ThreadUpdateProofs`). Whatever the reads return:
`MapFollowsTasks`, `UpdateTypeCorrect` (the count of a list is not decremented
below zero, no walk goes on without a list) and `IdsStayInRange` (the ids never
exceed the number of addresses by more than one, although `get_threadid` is not
what it was meant to be). The invariant of the first and the last is `Readable
/\ Recorded /\ Tracked`: what is read is an address there is; the map holds
addresses only, with ids in range, and every thread found so far; between
updates it holds nothing else. The cardinality argument is in
`NumberedInRange`. `Typed` adds that a task is in one place of one list
(`Heap`), by which the pointers that are read are well-defined, and which
callbacks suppose a list or an element left (`Placed`).
`UpdatesProgress` is what can be proved here of `UpdateEnds`: each reply lowers
`Effort`, a tuple of natural numbers compared from the left (stage, lists left,
whether the count is still to be read, count, reads left of the element). The
pointers do not occur in it, so that no wrong word, whatever the pointer it is
taken for, keeps an update going; with `Placed` the count is above zero where it is
counted down. That the target answers is then all that `UpdateEnds` adds.

What a walk finds: `ImplementsView` and `EveryTaskFound`, for any number of
tasks, lists and halts. They suppose that reads return the right words (`Wrong = {}`:
what the proxy makes of an error it reads as memory is arbitrary) and no symbol
for the top priority (`~TopKnown`: with it the code leaves out a list). The
invariant `Walked` has a conjunct per callback and says of each that what was
found, followed by what the rest of the walk comes to, is the listing of
`ThreadView`:

    Comes(found, Rest(left))  ==  TcbSeq(found) \o Rest(left) = <<CurrentExecution>> \o Listing

and that what was found so far is marked as it should be (`Marked`; the entry
whose name is being read is not yet).

**The requests** (`FreeRtosTargetProofs`). `HaltsReportedOnce`,
`SymbolsOfThisProgram`, `ShownIsAnswered`, `StackedRegisters`, from

    TInv == IInv /\ Reported /\ Resolved /\ Agreed /\ Fetched

`Reported`: halts and reports differ by the update that runs. `Resolved`: what
the lookup in progress has established so far. `Agreed`: ids carry a process
only if the proxy saw the feature, and the proxy only if the client named it;
this is what makes comparison, which is not symmetric, good enough.
`StackedRegisters` rests on `HexRoundTrip` (text gives back its bytes) and on
the offsets lying within the context. `LookupsAreExact` has an
invariant of its own, `Lookup`: what is known are the symbols of the program among
those asked for so far. `PrintedIdsAreRead`: what `to_string`
prints, for any numbers from -1 up and with or without the notation for processes,
the constructor reads as an id that is equal to it on either side of the
comparison; the process number itself comes back only if it was written, and is 0
if not. `TargetTypeCorrect` covers every
variable, those of the update included. `RunningTaskShown` (`~TopKnown`; reads
may fail, the property excepts the update that had one) goes through the
invariant of the walk again, since here halts without an RTOS come in between.

**The packets** (`PacketStreamProofs`), for every set of payloads and signals,
every buffer size and every way TCP cuts the stream: `TypeCorrect`,
`PacketsAreFramed`, `SumsAreVerified`, `OnlyStrayAborts` and
`ComposesWellFormed`. The invariant relates the parser to the peer: `Position`
says that either `m_packet` is fresh and what is unread is the encoding of the
packets not yet delivered (`Between`), or `m_packet` is what the parser has made
of the first j bytes of the next packet and what is unread is the rest
(`Within`). What it makes of them is a sequence of parser states that
ends in a complete packet with the packet's meaning and checksum (`Accepts`).
That there is one for every packet is `TextParsed`, an induction over the runs:
after each run the parser is back in the state "data", has the runs written out
and the sum of the bytes as they came.

**Induction** (`SequenceInduction`). The library's induction theorems take a
predicate, which first-order provers cannot supply; `Induction` and
`SequenceInduct` say the same of a *set* of numbers or sequences, and follow
from the well-foundedness of the subset order. `Recursion` gives a function
defined step by step its equation. From these come the facts about `FlattenSeq`
and about functions applied along a sequence that the walk of the lists and the
stream of packets need.

**The server** (`ProxyServerProofs`). `TypeCorrect`, `SessionsAreWhole` and
`NoSocketLeaks` for any number of sessions, endpoints and writes; the invariant
`Sound` is stated of one connection, and a step of another leaves it alone.

Proved and not among the runs: that every variable of a session stays in its
domain (`TypeCorrect`), and `AckOrder`. Only model-checked: all liveness (`Answered`,
`BreakAnswered`, `UpdateEnds`, `HaltAnnounced`, `Drained`, `SessionEnds`), which is
outside what TLAPS can prove here. Of some the theorems have the safety half:
`OrderlyAttended` (what the client waits for is under way), `UpdatesProgress` and
`HaltsReportedOnce`; what is left is that handlers and peers move. `Answered` and
`Attended` are checked outside acknowledge mode only. Of sessions that are not
`Orderly` the theorems cover the domains, `ClientOrder`, `FrontExists` and
`OnlyBreaksDropped`; the other properties of a session fail there.

## Not modelled

* Memory that is not the lists of FreeRTOS, beyond single words that are wrong.
* Task names (`qThreadExtraInfo` only tells whether there is one) and the bytes
  of addresses in a memory read request.
* Requests that change no state of the target object and are forwarded, `qXfer`
  among them, are `plain`.
* The terminating zero one past a full read buffer: it falls into a field that
  is assigned next.
* Writes of one socket that overlap: they are taken as completing in the order
  they were started.
* What the callbacks of an update do that was started over while its read was
  under way: they use lists that were cleared. `tangled` marks that it happened;
  no orderly session gets there.
* Options, logging, the null target (a session of kind `plain` only), the
  hex2bin tool and the build.

## What could follow

The parts of the program that carry state are modelled. Left to do: with
symbols looked up inside `FreeRtosSession` the composition would be complete;
and `Orderly` could be widened to acknowledge mode with commands the target
refuses and the client repeats, where `Round` would have to follow two copies of
a command.
