# tcomp in TLA+

tcomp runs a command under a pty, mirrors it to a relay, and lets browsers
watch it and, with `--allow-input`, type into it. This directory holds TLA+
models of the parts where that can go wrong: many tasks share a session,
connections break and come back, viewers fall behind, and with `--encrypt` the
relay carries frames it cannot read and browsers send it keystrokes it cannot
read. TLC checks the models on small instances; TLAPS proves their safety, but for one
property, for every instance. Paths below are relative to the repository.

## The system

| Component | Code | State | Operations |
| --- | --- | --- | --- |
| Session, Store | `src/server/session.rs` | per session, under one mutex: status, epoch, permission, input channel, screen or encrypted history, ttl; a broadcast ring; the Store's map of ids | `resume`, `attach_input`, `detach_input`, `mark_exit`, `mark_disconnected`, `send_input`, `feed`, `feed_encrypted`, `set_title`, `set_cwd`, `resize`, `join`, `dump`, `reap` |
| Producer handler | `src/server/produce.rs` | locals of one task per producer socket: session, epoch, clean exit | `read_hello`, `attach`, ack, `pump`, the downstream task |
| Viewer handler | `src/server/view.rs` | locals of one task per viewer socket: receiver, `may_write` | upgrade, join, forward, resynchronise after a lag, keystrokes |
| Reaper | `src/server/mod.rs`, `session.rs` | an iterator and a list of ids | one sweep per tick |
| Plain client | `src/relay.rs` | session id, size, title, directory | reconnect loop, `connect`, `pump` |
| Encrypted client | `src/encrypted.rs`, `src/crypto.rs` | the screen, the Sender's sequence, a mirror of the relay's history length | `run`, `pump`, `snapshot`, `finish` |
| Encrypted frames | `src/crypto.rs`, `web/static/crypto.js` | the host's Sender (next number) and InputReceiver (epoch, newest number of each writer); a browser's cipher object | `seal`, `open`, `derive`; `create`, `open`, `input` |
| Browser | `web/session.html` | terminal, socket, cipher, permission to type, queues of input and output | `connect`, `receive`, `onControl`, `send`, `encryptionError` |
| Keys in the browser | `web/static/crypto.js`, `web/login.html` | fragment of the address, `sessionStorage` | `remember`, `load`, the sign-in in between |
| Supervisor | `src/main.rs` | the shell, the input sink, the restart prompt, the size last told | start, resize, keystrokes, prompt, restart, signals, exit |
| Output gate | `src/term.rs` | held output, linger deadline | notes with links, `child_output`, `open`, timers, `restore` |
| Mode observer | `src/modes.rs` | modes a command has switched on, per output thread an incomplete sequence | `observe`, `cleanup` |
| Screen helpers | `src/screen.rs` | none | UTF-8 carry, dumps |
| Pages, list, login | `src/server/mod.rs`, `auth.rs`, `config.rs`, `web/` | none but the Store | requests |

The supervisor's threads put events (output, resize, metadata, exit) in a
channel; a client takes them off and sends frames over a WebSocket; the
producer's handler applies them to the session under its mutex; the session
broadcasts to the viewers' handlers, which forward to browsers. Keystrokes go
the other way: the page's input queue, which seals them in an encrypted session, the
viewer handler, the session's input channel, the downstream task of the producer
connection that attached it, the client with its InputReceiver, the pty. The reaper
removes sessions that have been terminal for their ttl. Handlers share nothing
but the session and the store.

What is hard:

- *Interleaving.* Every handler is a task of a multi-threaded runtime, and a
  session's operations are single critical sections, but a handler's sequence of
  them is not. Old and new producer handlers overlap on one session; epochs
  are there to keep the old one out. The reaper looks, collects and removes in
  separate critical sections.
- *Failure.* Producers vanish, with or without their connection closing. Frames
  under way are lost; an ack may not arrive. A relay restart drops all sessions.
- *Ordering.* A status is broadcast after the lock is released. A late hello may
  be served after a newer one.
- *Limits.* A viewer slower than the broadcast ring loses frames. The history
  of an encrypted session has a cap, and the host must keep within it blindly.
- *Timeouts.* `producer_timeout` ends a silent producer, ttls end sessions, timers
  open the gate.
- *Threads beside tasks.* In the process around the command, threads that read, write
  and wait share a sink, a gate and the modes with an async task.
- *Awaits in the page.* `open`, `input` and `create` await WebCrypto. Meanwhile the
  socket may break, the next one connect, the page's permission go, or the cipher be
  replaced.
- *Pages that come and go.* The key of a session lives in a fragment, which a sign-in
  drops, and in `sessionStorage`, which several sessions of a tab share.

`PROJECT.json` lists these hazards at their lines, with the properties that
would show them going wrong, or why none does.

What makes each component correct: input goes to the current producer, and only
with its consent; no epoch has two holders; a live session has a producer behind
it; a dead one is forgotten, and nothing but a dead one; a client's reconnect
leaves no trace on what viewers see; an encrypted history can always be replayed
from its snapshot; a viewer that has read everything shows the session; no keystroke
runs twice or out of turn, and a page that lost its socket can type again; a page opened
with its key shows the session, whatever pages come in between; a command's
keystrokes are its own; what it prints appears in order, and the modes it leaves
behind do not.

## Modules

| Module | What |
| --- | --- |
| `Lifecycle` | a session's lifecycle: producer handlers, keystrokes, reaper |
| `SessionContract` | the abstract specification that `Lifecycle` implements |
| `EncryptedStream` | an encrypted session's output: host, relay, viewers |
| `Cipher` | the frames of an encrypted session and both ends of them; operators only |
| `InputPath` | an encrypted session's keystrokes: page, relay, host |
| `InputContract` | the abstract specification that `InputPath` implements |
| `KeyLink` | how a tab comes by a session's key |
| `PlainMirror` | an unencrypted session as its viewers see it |
| `PlainClient` | the plain client, its reconnects and the handlers it meets |
| `Supervisor` | `run_pty`, its keystrokes, sizes and signals |
| `LocalTerminal` | what commands print: output threads, gate, mode observer, clean-up |
| `LifecycleProofs` | theorems about `Lifecycle`, and that it implements the contract |
| `StreamProofs` | theorems about `EncryptedStream` |
| `LinkProofs` | theorems about `Cipher` and `KeyLink` |
| `InputProofs` | theorems about `InputPath`, and that it implements the contract |
| `MirrorProofs`, `ClientProofs` | theorems about `PlainMirror` and `PlainClient` |
| `SupervisorProofs`, `TerminalProofs` | theorems about `Supervisor` and `LocalTerminal` |
| `…MC` | modules that instantiate the above for TLC |

### Lifecycle

`status`, `current` (the epoch), `allowInput`, `input` and `expired` are the
fields of `State`; `pc` is where the handler of a connection stands in
`produce::handle`, and `consent`, `target`, `epoch`, `clean` are its locals. One
action is one critical section, one map operation, or one send or receive:

| Code | Actions |
| --- | --- |
| `read_hello`, `authorize`, `attach` | `Refuse`, `Find` then `Resume` then `Announce`, or `Create` then `ReadEpoch` |
| the ack | `SendAck`, `AckFails` |
| `attach_input`, `pump` | `AttachInput`, `ReceiveExit` then `MarkExit`, `PumpEnds` |
| after `pump` | `DetachInput`, `MarkDisconnected` |
| `view::upgrade`, `send_input`, downstream | `Watch`, `SendInput`, `Downstream` |
| `Store::reap` | `SweepBegins`, `ReadStatus`, `ReadExpiry`, `Remove` |
| environment | `Lose` (a host or network dies), `Elapse` (a ttl passes) |

`Find` reads the map twice in the code; it is one step because only the reaper
can make the two looks differ, and then the session might as well have been
removed before. `shown` is what the newest status-bearing broadcast says, and
`seen` is history: the epoch at which the reaper read a status.
The details of what a pump feeds are left to the stream modules, since feeding
touches none of these variables.

`SessionContract` is the same system without locks, handlers, sweeps and
broadcasts: producers take seats on generations of a session (`Open`,
`TakeOver`), lose (`Drop`) or end it (`End`), and keystrokes are accepted only for
the newest consenting producer of a live session. It grants one weakness of the
code on purpose: a producer that *once* held the session may end it, because `pump`
compares epochs under another lock than `mark_exit`'s.

### EncryptedStream

The host's `screen` is the number of changes to its content and to its metadata.
`client` is `encrypted::run` and `pump` with the Sender's next sequence and the
mirror `historyLen`; `wire`, `epoch` and `open` are the connections; `relay` is the
session's history as `feed_encrypted` keeps it; `viewer` is a receiver in the
relay plus the browser's terminal and last accepted sequence. Frame sizes are
drawn from small sets, so that deltas that do not fit, snapshots that do not and
histories that are exactly full occur. `Shows` is the browser's acceptance rule,
`crypto.js` `open`; the page also restores a checkpoint that changes its size
(`web/session.html:629`), which no checkpoint of the host does, and the model, the stricter one,
leaves that out. An attempt that the host gave up (15 s) may still be served:
`Attach` is enabled for every connection ever dialled. In `Feed` the two looks at the
epoch are one step, because `feed_encrypted` looks again under its lock.

### Cipher

The frame format and the two implementations of it, side by side. `Derive`, `Header`,
`Nonce`, `AdditionalData` and `Seal` are common to both; `NewCipher`, `Admits`, `Opens`,
`Valid`, `Opened`, `MayInput`, `InputTaken` and `InputFrame` are the object that `create`
of `crypto.js` returns, its `open` and `input` cut at their awaits; `OutputFrame`,
`NewReceiver`, `Parses`, `Expects`, `Fresh`, `Receives` and `Received` are `crypto.rs`.
The primitives are ideal: a derived key is what it was derived from, and a sealed body
opens under its own key, nonce and additional data only. What the code concatenates
(label and writer, session and header) is concatenated, so that two inputs that would
collide do so here.

### InputPath and InputContract

`page` holds the globals of `session.html`, `cipher` its cipher object, `receiving` and
`sealing` what its two queues await, `inputs` and `inbox` what waits in them. Between the
two halves of an await (`ReceiveInit` and `Created`, `ReceiveFrame` and `Decrypted`,
`InputBegins` and `InputEnds`) anything may happen: the socket closes, the page
reconnects or is reloaded, the host's connection changes. `relay`, `handler` and `wire`
are the session as a keystroke meets it, `host` the connection loop with its Sender and
InputReceiver, `ran` the input it took. The size of a keystroke is not modelled: `InputBegins`
chooses whether it fits in a frame, and one that does not has taken its number and locks the page
(`web/static/crypto.js:118`). `error` of the page is the notice with which it locked itself.
`Repeat` gives the host a frame that it took
already, since the encryption is there so that the relay need not be trusted. The page has
the right key, the host allows input, and its command goes on; a session that ends or a
key that is wrong are `Lifecycle`'s and `KeyLink`'s.

`InputContract` has one set of keystrokes for each socket of a page: a keystroke typed is on
its way until it runs or is lost, none runs twice, and of a socket's the oldest on its way runs
first. Under the mapping the set, `Way`, is what of the socket waits in `inputs`, `sealing`,
`outbox` and `channel`.

### KeyLink

`tab` is the page in the tab, `stored` its `sessionStorage`, `signedIn` the cookie, `works`
whether the page may use the storage. The user opens links with a complete key, a damaged
one, another session's or none, changes the fragment, reloads, signs in or mistypes the
token; the relay answers with the session page or the sign-in page, whose script calls
`remember`. `ReceiveInit` is `create` with `load`, `ReceiveSnapshot` decrypts with
`Cipher`'s operators. A key that `remember` refuses blocks the sign-in page, as in
`login.html`.

### PlainMirror

`session` holds what the relay knows (screen, size, title, status, history),
`viewer` a receiver and a browser. A screen is the number of its newest output chunk,
`Garbled` once a chunk is missing or twice applied. Frames are what
`session.rs` broadcasts. `handler` says of each epoch where the handler that took it
stands, so old and new ones overlap: `resume` is three steps (`Resume` under the lock,
`Announce` its Live without it, `ResumeResizes` under it again), and between any two of them,
also of two resumes, an older handler may apply the frame it has in hand (`Take`, `Apply`) or
end (`PumpEnds`). `late` is history: the last word on the status was a Live sent after the
session had left live. A handler whose command exited does not call `mark_disconnected`; in
the model it may, which changes nothing, as the session is not live then or another's. A directory
travels exactly like a title and has no action of its own.

### PlainClient

`client` holds the locals of `relay::run`; `handler` is a connection's task in the
relay and `sessions` what the frames it applied made of a session. `Take`
(comparing epochs) and `Apply` (the operation under another lock) are two
steps, as are a resume and its resize, so an old handler can disturb a session after
a takeover; `strays` counts that. `hello` is served whenever the relay gets to
it, also after the client gave up on it. Sizes are within what `clamp_size` lets
through.

### Supervisor

`main` is where `run_pty` stands and which command's master, killer and `exit_rx` it
holds; `cmd` is each command's process and pty; `sink` is `Input`, `queue` the channel
from both sources of keystrokes, `prompt` the channel that `Input::keys` makes. A step of
the select loop is an action (`Winch`, `Terminate`, `Exited`), so is each step of
the prompt (`AsksForKeys`, `Answer`, `TimesOut`, …) and of the restart (`Spawn`, `Attach`).
`Deliver` is `pump_writes`: it delivers to the sink at hand, under the sink's lock. A
write to a pty may not return at once; `writing` is then the write that
holds the lock, and `AsksForKeys` and `Attach` wait for it.

A keystroke is a chunk as read: its number, and whether it is a lone `r`. A size is the
number of resizes so far. Whether `--exit-on-end` was given is a choice in `Drained`, and
so is whether a restart fails. The prompt's countdown is left out. A terminal on both
sides is assumed, since otherwise there is neither a size nor a prompt. A write to the pty of a
command that runs may block but is assumed not to fail; `pump_writes` would close the sink
(`src/main.rs:284`), and the command would get no keystrokes until it is restarted.

### LocalTerminal

`gate` is `OUTPUT.gate`, `modes` is `ACTIVE` and `KITTY_DEPTH`, `reader` the output
thread of each command, with the chunk it is about to hand over and the tail that
`observe` keeps. `timers` are the tasks that sleep before they open the gate. `screen` is
everything the terminal was sent, apart from notes. Output is a sequence of tokens, and chunks
end anywhere, also inside `ESC [ ? 1049 h`, which is two tokens; a chunk has one
or two. `Read` observes, `HandOver` prints: between them another thread, a note, a restart
or the exit may come. The clean-up before a restart is two steps (`CleansForRestart`,
`Restarts`), because what `cleanup` returned is printed after the next
command was spawned. `restore` is two steps as well; `main` calls it again before it
exits, which the second includes.

One mode stands for the thirteen of `ACTIVE`, which are independent bits. Commands complete the
sequences they begin. `CommandEnds` is an exit or a signal; which, and whether there is a
prompt, is the Supervisor's. Writes to the terminal succeed. `restore` cleans up only where
raw mode was on (`RAW_ACTIVE`, `src/term.rs:280`), which a terminal on both sides brings.

## Runs

| Run | Bounds | Shows |
| --- | --- | --- |
| `lifecycle` | 2 connections, 1 session, 1 viewer, 1 keystroke per channel | the safety of `Lifecycle`, that it refines `SessionContract`, that a silent producer is noticed and a dead session forgotten |
| `encrypted_relay` | 3 connections, cap 4, frame limit 3, deltas of 1 and 2, snapshots of 1, 2 and 4, 2 frames in a socket, no viewer | the host's blind mirror keeps the history replayable and every frame welcome, and is its exact length once the relay has taken what was sent |
| `encrypted_viewer` | 2 connections, a ring of 1, 1 viewer | lagging, late and reconnecting viewers never see an incomplete stream, and catch up |
| `plain_follows` | 3 chunks of size 1 or 4, history cap 2, ring of 2, 2 sizes (interchangeable), 1 title, 2 resumes (3 handlers), 1 viewer | joining misses nothing and repeats nothing, through resumes that overlap; the history is the newest output |
| `client_retells` | 3 connections, 2 sessions, 1 relay restart, any 2 of the terminal's events | reconnects bring title, directory, size and output order across |
| `supervised` | 3 commands, 3 keystrokes, 2 resizes, 2 exit codes, both signals | keystrokes, sizes, exit codes and signals through prompts and restarts |
| `terminal` | 2 commands, 3 tokens, 2 links, 3 levels popped at most | output in order, links readable, modes undone, nothing held for ever |
| `input_path` | 2 keystrokes, 2 sockets of the page, 2 connections of the host (the second does not break), 1 writer admitted, 2 frames beside the first snapshots, 1 repetition | what runs is a beginning of what was sealed for the connection, nothing runs twice, nothing that an honest page receives locks it, typing comes back, and `InputPath` refines `InputContract` |
| `key_link` | 2 sessions, complete, damaged, empty and foreign keys, 1 tab | a page that cannot open its session owes that to its link, to the tab's last one or to missing storage; only a well-formed key in a session's own address replaces its stored one |
| `ack_lost`, `reaped`, `plain_lag_screen` | as small as shows it | disagreements, below |

Why the bounds are enough. Two connections are an old and a new producer of one
session, and each may be either. Sessions meet only in a connection that
resumes one after the other and in the reaper's loop; the safety properties are proved for
any number of them and of connections (below), so the run has one.
A ring of 1 loses frames at once; a cap of 2, 3 or 4 is filled and overrun by two
frames. In `encrypted_relay` three connections allow one that holds the session,
one that was given up and one that is new. Viewers do not interact, so one is
enough. In `plain_follows` two resumes may be under way at once while the first producer's handler
is still there, which is each order in which a late Live can fall; two sizes may be exchanged, since
sizes are only compared for equality. In `client_retells` two events cover each pair: two chunks that could
change places, a title and a directory in one event or in two, a resize next to
anything. Three connections allow a late hello between two good ones. In `supervised` three
commands are two restarts, so that a killer or a channel of the first would be noticed
in the second or the third. In `terminal` three tokens are a switch and one more, or one
cut off by anything, and two links are one that finds the gate waiting and one that finds
it lingering or open; that more of them change nothing for `InOrder` and
`LinkStaysReadable` is proved. In `input_path` two
keystrokes can change places or be on two sockets, a second socket is a reconnect or a
reload, a second connection has another epoch and another receiver, and one writer admitted is
used up by the first page; two further frames are an output and a snapshot, in either
order or on either connection. That the host's last connection holds bounds its number and
is what `TypingReturns` supposes anyway. In `key_link` two sessions are what it takes to
mistake one's key for the other's. Deadlock is
checked for `Lifecycle`, `PlainMirror` and `KeyLink`; the other systems stop when the host
is done.

Each module has a type invariant. The runs of `Lifecycle` and `LocalTerminal` check
theirs; those of `EncryptedStream`, `Supervisor` and `PlainClient` are proved (`TypeCorrect`)
and not repeated in a run, and what the proofs about the others need of types is part of their invariants.

Mutations, one for each property, are listed in `PROJECT.json`: each replaces a
definition by one with a plausible bug (operators commented "Mutant" in
the modules), which the run of that property then finds.

### Fairness

`Lifecycle`: a spawned task runs on (`WF` of a handler's next step; in `ack`
sending or failing, whichever comes); `WF(lost /\ PumpEnds)` is
`producer_timeout`, for a socket whose peer is silent, and nothing is assumed of one that
talks; `Elapse` is time passing; the reaper's ticker ticks. No fairness makes
producers come, go or type. `EncryptedStream`: a pump that has just started sends
its snapshot (`First`), the relay's tasks read what has arrived (`Feed`) and
viewers' tasks and browsers handle what was sent to them (`Rejoin`, `Receive`). Events,
dials and disconnects are free. `ViewersCatchUp` assumes in its statement that the
viewer's socket and the host's connection hold from some time on.
`Supervisor`: `run_pty` is a task that runs on. No write to a pty need return, so
`SignalEndsIt` has to name the place where the code waits for one. `InputPath`: the page's
promises settle (`Receiving`, `Sending`), the relay's tasks pass on what has arrived (`Feed`,
`SendInput`) and the host's pump reads (`Receive`); nothing makes a socket or a connection
last, so `TypingReturns` and `ReadyKeysRun` suppose it. `LocalTerminal`: timers
fire (`GiveUp`, `EndLinger`) and the linger passes; nothing makes a command
print, complete a sequence, or exit.

## Proofs

### Lifecycle and its contract

`LifecycleProofs` holds for any number of connections, viewers,
sessions and keystrokes, from `LifecycleAssumption` alone: `NoConn` and
`NoId` are no members of what they stand beside, `MaxKeys` is a natural number.

The inductive invariant `IInv` is the conjunction of the type invariant, the
properties proved (`OneHolder`, `InputBelongsToHolder`, `KeysNeedConsent`,
`LiveHasHandler`, `LiveIsShown`) and six parts that make it inductive:

- `Seats`: a handler's locals are set where its `pc` says so, so that a handler has
  a session when it touches one;
- `Created`: what is listed, known or attached to exists, so that `Create`
  never draws an id in use;
- `Secret`: until an ack has told a producer the id, nobody resumes the session, so its
  epoch is still 0 and its creator is alone. This is why the unguarded read
  of the epoch in `attach` is safe, and `OneHolder` rests on it;
- `Fenced`: no handler's epoch is ahead of the session's, so a resume's epoch
  is new;
- `Permission`: while a connection holds the current epoch the session's
  `allowInput` is what it asked for, so a keystroke accepted by the session
  was consented to by the receiving host;
- `Seen`: a session under the reaper's eyes is terminal unless its
  epoch moved on since; resuming is the only way back to life, and it
  moves the epoch.

There is one lemma per conjunct, with a step per action that could disturb it. The
theorems then follow with `PTL`: `TypeCorrect`, `InputIsTheHolders`,
`EpochsAreUnique`, `InputNeedsConsent`, `LiveSessionsAreHeld`,
`LiveSessionsAreShown`, `ReaperIsFencedByEpochs`.

`RelayKeepsContract` proves `Spec => KeepsContract`. A connection's seat is its
target and epoch from the moment it has taken the session over. `Find`
becomes the contract's `Decide`, `Resume` its `TakeOver`, `Create` its `Open`,
`MarkDisconnected` its `Drop` or `Leave`, `DetachInput` after a clean exit its
`Leave`, `SendInput` its `Accept`; the rest stutters or forwards keystrokes. `Create`
and `ReadEpoch` map to `Open` and a stutter because of `Secret`.

### The local terminal

`TerminalProofs` holds for any number of commands, tokens and links, from
`TerminalAssumption`: the bounds are natural numbers, and there is a command.
`TypeCorrect` and `OutputInOrder` (`Spec => []InOrder`) rest on an inductive invariant of
seven parts. Beside the types and `InOrder` itself:

- `OpenHoldsNothing`: an open gate passes a chunk on without looking at what it holds,
  which keeps the order only if that is nothing;
- `TimersOfLinks`: there are no more timers than links, for the types;
- `ThreadsDone`: unless a thread was given up, those of earlier commands are done, and
  the newest one's too once it was drained;
- `NothingHeld`: hence nobody prints between the two halves of `restore`, whose clean-up goes
  past the gate; without it `InOrder` would fail in the last step;
- `OneMayFollow`: a clean-up before a restart is for a command that exists.

The lemmas before it say of each operation of the gate that what it writes, followed by what
it keeps, is what it held followed by what it was given (`LingerChunkKeeps` for the cut before
a switch to the alternate screen, which needs that a least such switch exists, `LeastOfNat`).

`LinksStayReadable` (`Spec => []LinkStaysReadable`) takes another invariant beside that one,
`Shielded`: while a link lingers there is a link, no switch on the screen comes after it, and
the gate either is blocked or holds nothing but, perhaps, the first half of a switch. If what was shown since
the link ends in such a half, the gate holds one too. That last part is what a chunk
needs: it may complete a switch whose first half is on the screen already, and only
because the gate would be holding that half back cannot the two meet there
(`LingerChunkShields`, `NoSwitchAdded`). `LinkShields` says the same of the moment the link appears.

### The encrypted stream

`StreamProofs` holds for any number of connections, viewers and changes and any sizes and limits,
from `StreamAssumption`. The invariant is

- `Links`: an epoch belongs to one connection, and nothing is under way where nobody reads;
- `Logged`: the log ends with the Sender's last number, and a pump that may send a delta has
  sealed the screen as it is;
- `Truths`: every frame, wherever it is, says what was sealed under its number;
- `Path`: on the connection that holds the session, the frames under way can be counted from the
  relay's length to the host's (`Mirrors`: there is a function that gives the
  length after each of them, never above the limit), and their numbers continue the history
  (`Continues`). This is what the host's mirror is: not the relay's
  length, but what it will be, and hence is when nothing is under way (`MirrorIsExact`);
- `Replayable`: the history is empty or begins with its only snapshot;
- `Watching`: what a viewer gets next is the join's backlog, the queue unless it lagged,
  and then what the relay will broadcast; each frame of it is a snapshot, one the browser has, or the
  next.

`NeverRefused` and `MirrorIsExact` rest on `Path`; `Truths` is what says that a browser, whichever of these frames it
takes, shows what the host once did. The theorems: `TypeCorrect`,
`RelayNeverRefuses`, `HostMirrorsTheHistory`, `HistoryIsReplayable`, `StreamNeverIncomplete`,
`ViewersShowTheHost`.

### Encrypted frames and their keys

`LinkProofs` begins with the operators of `Cipher`: `KeysAreSeparate` (a derived key determines
master key, session, direction and writer, although label and writer are
concatenated), `InputOpensAsSealed` and `OutputOpensAsSealed` (what opens in one direction was sealed
in that direction, for that session, by the writer its header names). They need that the two
labels differ in length, as `input` and `output` do.

`LockedForItsLink` (`Spec => []LockedForAReason`) is about `KeyLink`, for any number of sessions
and keys. Its invariant adds `KeyedByItsLink`: a page's key is the one it was opened with or,
opened without, the last complete one this tab had of the session, because `stored` is
`last` as long as storage works. A key that is right opens (`OwnKeyOpens`), so a page
that cannot decrypt had a wrong one, and the invariant says where from. `StorageFollowsLinks` proves the action
property `StoredByItsLink`.

### Keystrokes

`InputProofs` holds for any number of sockets, connections, keystrokes, frames and repetitions.
It has four invariants, each resting on those before it.

`IInv` is about the host alone and gives `NoInputRunsTwice`. Beside `RunsOnce`: `Shape`, what
the steps need of types; `Epochs`, a frame that was taken carries the
epoch of the connection that took it; `Newest`, the receiver knows a number at least as
great as any it has taken from a writer. It supposes nothing of page, relay or
network, so it holds whatever they do.

`PathInv` is about output on its way to the page and gives `PageNeverLocks`:

- `Script`, `Greeted`: a socket brings one init frame, first, so a cipher is made before anything is
  opened, and only once for a socket;
- `Chain`: the relay's history and what is on the wire to it from the connection that holds
  the session are consecutive numbers that end with the host's last, unless a snapshot
  begins anew;
- `Flow`: each frame on its way to the page is a snapshot or has a predecessor that the page
  knows already or comes to before it (`Reaches`), and the newest in the history is one that it
  will know, so what the relay broadcasts next continues it;
- `Locked`: a page that failed had used up its numbers or was given more to type than a frame
  holds, the reasons `NeverLocked` grants;
- `Links`: who has not said hello has sent nothing, and nobody but the host's last connection
  dials.

`KeyInv` is about keystrokes and gives `RunsABeginning`. Its main part is `Placed`: each frame
sent that was sealed for the connection of the host that is up has run, is on its way, is of a writer that the host
has no room for, or is lost. The point is that a loss is for good: `Lost` says that
what is left of the socket on the channel is older and that nothing more can follow it,
because the session's input no longer goes to this connection (`CutStays`) or the socket is closed
and empty (`DeadStays`). Hence no gap: were a frame lost and a later one run, the later one would
have had a place behind it. `Queue` says that of one socket the numbers
rise from the host to the page, `Counted` and `SealedWaits` that what awaits its encryption has the next
number, `Told` that no page knows an epoch before its connection has sent its first
snapshot, so nothing can be sealed for a connection to come, and `Attained` that the number the receiver
knows is of a frame that ran, so a frame it refuses as old has run.

`TypedInv` says that the page's queue, its encryption and what it has sent hold keystrokes in the
order typed, so that the numbers of a socket rise with its keystrokes. With it each step is one of `InputContract`
(`ContractStep`): `Type` adds to the way, an arrival the receiver accepts is the oldest of its
socket on the way (`Runs`), and everything else keeps or loses what is on the way (`Loses`). This
is `PathKeepsContract`.

### The plain session

`MirrorProofs` holds for any number of viewers, chunks, titles and sizes, from
`MirrorAssumption`. `LeadsTo(a, s, e)` says that a browser that shows `a` shows `e` once it has
handled the frames `s`. `Following`, the main part of the invariant, is that for a viewer that
lost nothing the frames of its backlog and queue lead to what the session shows now. The
status they lead to is `Heard`: one that `Told` grants, which is the session's but for two
cases. The newest resume has released the lock and not yet sent its Live; or a resume sent its Live
after the session had left live, and that was the last word (`late`). A step of a handler
keeps what was heard (`GoesOn`) unless it leaves live or says Live, and then it broadcasts what
is heard from then on. A broadcast adds to the end of that path (`LeadsFurther`), a browser takes from its beginning
(`LeadsOn`), and a join makes one of its own, from a dump or from the history on a blank
terminal (`HistoryLeads`, which is where the history has to be without a gap). The
theorems: `ViewersFollow`, `HistoryStaysNewest`. The length of the history is a recursive function
of the chunks, about which nothing can be shown by induction; that the relay drops until it
is small enough or one chunk is left is enough.

### The plain client

`ClientProofs` holds for any number of connections, sessions, relay restarts and events, from
`ClientAssumption`. Its invariant, beside the types:

- `Dialled`: where the client stands with the connection it dialled last, and each handler with
  its own; a connection not dialled has none;
- `Epochs`: an epoch of a session belongs to one handler;
- `StraysAreSpent`: a session has no more strays than older epochs whose handler has nothing left
  to do to it (`Spent`). A handler that was replaced has one effect left and is spent with it, so
  `OneStrayEach` is a matter of counting;
- `Ordered`, `Newer`: output is in order from the terminal over events and wires to the session,
  and without a stray nothing that the session's holder has still to apply is older than what
  was applied;
- `Heard`, `Retold`: the client will know the terminal's size and title once it has taken the events, and
  the session what the client knows once it has applied what is on the wire. `Settles(seq, kind,
  old, new)` says this of any sequence of frames: the last that speaks of the matter says `new`,
  and if none does `old` is `new` already. A size is told in the hello, a title and a directory
  right after the ack, hence the phases in `Retold`;
- `Exits`, `EndedKnowsAll`: the exit is the last event and the last frame, so a session that ended
  had been told everything;
- `Unconnected`: before its first connection the client has told nobody anything.

The step lemmas come in four kinds: the terminal adds an event (`Heard` goes on), the client takes one
and sends frames (`Sends`, `Tells`), it dials anew, and a handler goes on without effect, with
one, or with a stray. The theorems: `TypeCorrect`, `AtMostOneStray`, `OrderKept`, `SizeTold`,
`TitleTold`.

### The supervisor

`SupervisorProofs` holds for any number of commands, keystrokes and resizes, from
`SupervisorAssumption`. Beside the types, the invariant says that commands start one after another
(`Started`), that their exit codes are known where they are used (`AfterExit`, `Left`), that the newest
was given the terminal's size unless a SIGWINCH is pending or was missed (`Sized`), and what
the sink can be in which phase, also while a write is blocked (`Delivers`). Keystrokes
are numbered as typed: `Ordered` says that the channel holds the newest and that
whatever was taken off it is older, wherever it went; `Written` that what was written rises in
number and is newer than the keystroke that asked for its command. The theorems:
`TypeCorrect`, `SizesAlwaysAgree`, `KeysStay`, `SinkAlwaysFollows`, `EndsTogether`.

### Only model-checked

Liveness under fairness, which is out of the prover's reach: `SilentProducerIsNoticed`,
`DisconnectedIsForgotten`, `ViewersCatchUp`, `SignalEndsIt`, `OutputAppears`, `TypingReturns`,
`ReadyKeysRun`. Of the safety properties only `LeftClean`, whose `Modes` is a fold over the
screen that would have to be reasoned about by induction. The three disagreements below are runs
that find a violation.

## Findings

- **A lost ack leaves a live session** (`ack_lost`). `handle` returns when it cannot send
  the ack (`src/server/produce.rs:60`) without `mark_disconnected`. The session stays
  live and listed until the relay restarts; the reaper looks at terminal
  sessions only. `LiveHasHandler` states what does hold.
- **The reaper removes a session that came back** (`reaped`). `reap`
  (`src/server/session.rs:453`) does not look again; a producer that resumes
  in between feeds a session nobody can open. Epochs bound the
  damage: `DoomedUnlessResumed`.
- **A lagging plain viewer sees output twice** (`plain_lag_screen`). After a lag the
  dump shows the screen of now, and the receiver goes on with older frames
  (`src/server/view.rs:95`).

Not findings but worth knowing, and modelled:

- `pump` compares epochs under another lock than the operation that follows, so one
  frame of a replaced connection can still land (`OneStrayEach`).
- `resume` broadcasts after it released the lock (`src/server/session.rs:317`), so a late
  Live can be the last word viewers get on a session that has ended since, by an old handler's
  exit, or gone stale, by a second resume whose producer is lost. `FollowsTheSession` excepts the status of
  such a session (`late`), and without the exception TLC finds both.
- The plain client forgets a directory that came with a title it could not send, and
  tells a renewed session neither.
- A write to a pty that nobody reads holds the sink's lock, and `run_pty` waits for it:
  no prompt appears, and no signal is handled, until it returns (`Blocked`).
- Keystrokes typed before a command exited can answer the prompt; they never reach the
  restarted command (`KeysStayWithTheirCommand`).
- A lagging plain viewer may also miss the end: the dump does not repeat a lost status, size
  or title (`src/server/view.rs:95`). Nothing says that it should, so `FollowsTheSession` is of
  viewers that lost nothing.
- Keystrokes typed between a new connection's Live and its snapshot are sealed for the old
  one, and the host refuses them without a word; `ReadyKeysRun` is of those typed after it.
- Keystrokes in flight on a page's old socket may run after those of its new one, since each socket
  is its own writer: `InputContract` orders the keystrokes of a socket only.
- A paste larger than a frame holds locks the page until it is reloaded, and what was queued after
  it is dropped (`web/static/crypto.js:118`, `web/session.html:397`); `NeverLocked` grants it.
- Each reload or reconnect of a page is a new writer, and a host admits `MAX_WRITERS` of them
  until it reconnects. Those after that are read-only (`TypingReturns` says when typing comes back).
- A page that locked itself, or that a sign-in left without its key, is not helped by correcting the
  fragment: that navigates within the page, which looks at it only on load.
- A page left before its init frame has not remembered its key; `key=` with nothing after it locks the
  session's page but not the sign-in; a well-formed key that is wrong replaces the right one in
  `sessionStorage`, since nothing is tried before it is kept.
- A resize before the SIGWINCH handler is installed is not noticed until the next
  (`missed`).
- A note that lands inside an escape sequence leaves the terminal without the switch that
  the observer saw (`Torn`); an output thread that is no longer waited for may switch modes on
  after the clean-up (`outlived`).

Seen while reading, and not modelled: `cleanup` pops at most 16 keyboard levels; an
unterminated sequence makes the observer keep up to 1024 bytes before it goes on; the
restart prompt is sent to viewers as output (`src/main.rs`, `run_pty`), whereas README.md:415
says that status lines never go into the stream the browser sees.

## Not modelled

The banner (set by the handler, shown by viewers), which is stored under the lock and
sent without, so that of two producers resuming at once the one stored last need not be
the one sent last; `info`, `list` and `preview`, which read and change nothing; cookies, tokens,
URLs and configuration; fonts, key bar, dashboard layout; UTF-8 carry and SGR normalisation of
dumps, so that a viewer who joins in the middle of a character sees the rest of it broken; the
primitives of key derivation and AEAD, which are taken to be what they promise; an encrypted client
whose session the relay lost, which starts over with a new Sender; the command line and the
start of the embedded relay; raw mode, the wording of notes, and a local terminal whose writes
fail or block (a write that blocks holds the terminal's lock, and whatever would print then waits,
signals included); malformed and unterminated escape sequences. Two hazards of `PROJECT.json` have no
property: the banner's order, which is not modelled, and the status and title a lagging plain
viewer misses, which no resynchronisation repeats; `hazards` says why at each.

## Plan

What remains, the most useful first:

1. An encrypted client whose session was lost, with a new Sender under a new id.
2. `Supervisor` and `LocalTerminal` composed: the restart prompt as output, and the local
   terminal against what viewers are sent.
3. An abstract specification of a viewer (it shows some moment of the session, never an
   older one again) that `EncryptedStream` and, but for lags, `PlainMirror` implement; the proof
   would rest on `Truths`, `Watching` and `Following`.
4. The banner, whose text is stored under the lock and sent without.
