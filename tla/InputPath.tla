----------------------------- MODULE InputPath -----------------------------
(***************************************************************************)
(* Keystrokes of an end-to-end encrypted session on their way from a page  *)
(* (web/session.html, web/static/crypto.js) through the relay              *)
(* (server/view.rs, session.rs, produce.rs) to the host (src/encrypted.rs, *)
(* src/crypto.rs).  Sockets of the page and connections of the host break  *)
(* and come back; each socket of the page has a cipher and with it a       *)
(* writer of its own, each connection of the host an InputReceiver and     *)
(* with it an epoch, which the page learns from the connection's           *)
(* snapshots.  In the page open, input and create await WebCrypto, and     *)
(* anything may happen meanwhile.                                          *)
(*                                                                         *)
(* The page has the session's key and may type, the host allows input and  *)
(* its command does not exit.  What frames show of the terminal is the     *)
(* matter of EncryptedStream, and so are lagging viewers and histories     *)
(* that are full.                                                          *)
(***************************************************************************)
EXTENDS Cipher, SequencesExt

CONSTANTS Master, SessionId,  \* the key and the id of the session
          MaxSockets, MaxConns, MaxKeys,  \* bounds: sockets, connections, keystrokes
          MaxFrames,   \* bound: frames of the host, but for snapshots of new connections
          MaxRepeats   \* bound: frames delivered to the host again

ASSUME PathAssumption ==
  /\ Master \in Int /\ SessionId \in Seq(Int)
  /\ MaxSockets \in Nat \ {0} /\ MaxConns \in Nat \ {0}
  /\ MaxKeys \in Nat /\ MaxFrames \in Nat /\ MaxRepeats \in Nat

VARIABLES
  page,       \* the globals of session.html: socket, allowInput, status, ...
  cipher,     \* the cipher object; its writer is the socket it was made for
  receiving,  \* the receive that awaits; outputQueue lets the next one wait
  inbox,      \* what the page's socket brings, oldest first
  inputs,     \* inputQueue: keystrokes that wait
  sealing,    \* the keystroke whose encryption is awaited
  outbox,     \* per socket of the page, frames on their way to the relay
  relay,      \* the session: its connection, status, input channel, history
  handler,    \* where the handler of each connection stands
  wire,       \* per connection, frames on their way to the relay
  channel,    \* frames on their way to the host on its connection
  host,       \* the host's connection loop, Sender and InputReceiver
  ran,        \* the input the host has taken: frame and connection
  repeats,    \* history: frames that came to the host again
  typed,      \* history: keystrokes typed
  sent        \* history: per socket the frames given to ws.send

pageVars == <<page, cipher, receiving, inputs, sealing, typed, sent>>
relayVars == <<relay, handler>>
hostVars == <<host, ran, repeats>>
vars == <<pageVars, inbox, outbox, relayVars, wire, channel, hostVars>>

Sockets == 1..MaxSockets
ConnIds == 1..MaxConns
Writer(s) == <<s>>
HostWriter == <<0>>

\* Bound: the last connection of the host does not break.
Breaks(n) == n < MaxConns

Idle == [step |-> "none"]
NoCipher == [writer |-> NoWriter]

\* The page as its script starts it; connect has made its first socket.
Page(s) ==
  [socket |-> s, link |-> "connecting", initialized |-> 0, allow |-> FALSE,
   authenticated |-> FALSE, live |-> TRUE, failed |-> FALSE, error |-> "none"]

\* The host has created the session and waits for the ack, a page opens.
Init ==
  /\ page = Page(1)
  /\ cipher = NoCipher
  /\ receiving = Idle
  /\ inbox = <<>> /\ inputs = <<>> /\ sealing = <<>>
  /\ outbox = [s \in Sockets |-> <<>>]
  /\ relay = [holder |-> 1, live |-> TRUE, input |-> 1, ready |-> FALSE,
              history |-> <<>>]
  /\ handler = [n \in ConnIds |-> IF n = 1 THEN "pumping" ELSE "none"]
  /\ wire = [n \in ConnIds |-> <<>>]
  /\ channel = <<>>
  /\ host = [phase |-> "dialing", conn |-> 1, sequence |-> 0,
             receiver |-> NewReceiver(1)]
  /\ ran = <<>> /\ repeats = 0 /\ typed = 0
  /\ sent = [s \in Sockets |-> <<>>]

-----------------------------------------------------------------------------
(* The page: its socket. *)

Unchanged(rest) == UNCHANGED <<outbox, relayVars, wire, channel, hostVars, rest>>

\* encryptionError: locked until the page is reloaded, with a notice that says why.
Failed(error) ==
  [page EXCEPT !.failed = TRUE, !.allow = FALSE, !.link = "closed", !.error = error]

\* The socket closes; what it has brought is still received.
SocketCloses ==
  /\ page.link # "closed"
  /\ page' = [page EXCEPT !.link = "closed", !.allow = FALSE]
  /\ Unchanged(<<cipher, receiving, inbox, inputs, sealing, typed, sent>>)

\* connect, after the backoff: from now on receive passes over what the last socket
\* has brought.
Reconnect ==
  /\ page.link = "closed" /\ ~page.failed /\ page.socket < MaxSockets
  /\ page' = [page EXCEPT !.socket = @ + 1, !.link = "connecting"]
  /\ inbox' = <<>>
  /\ Unchanged(<<cipher, receiving, inputs, sealing, typed, sent>>)

\* The page is reloaded: nothing of it stays but the key.
Reload ==
  /\ page.socket < MaxSockets
  /\ page' = Page(page.socket + 1)
  /\ cipher' = NoCipher /\ receiving' = Idle
  /\ inbox' = <<>> /\ inputs' = <<>> /\ sealing' = <<>>
  /\ Unchanged(<<typed, sent>>)

-----------------------------------------------------------------------------
(* The page: receive, one message after another. *)

Message(t) == receiving = Idle /\ ~page.failed /\ inbox # <<>> /\ Head(inbox).t = t

\* Mutant: the page types as soon as the relay says that it may.
InitialisedAllows(message) ==
  [page EXCEPT !.authenticated = FALSE, !.allow = TRUE, !.live = message.live,
               !.initialized = page.socket]

Initialised(message) ==
  [page EXCEPT !.authenticated = FALSE, !.allow = FALSE, !.live = message.live,
               !.initialized = page.socket]

ReceiveInit ==
  /\ Message("init")
  /\ inbox' = Tail(inbox)
  /\ IF page.initialized = page.socket
     THEN page' = Failed("protocol") /\ UNCHANGED receiving
     ELSE /\ receiving' = [step |-> "create", socket |-> page.socket,
                           message |-> Head(inbox)]
          /\ UNCHANGED page
  /\ Unchanged(<<cipher, inputs, sealing, typed, sent>>)

\* create returns: cipher is assigned before the socket is looked at.
Created ==
  /\ receiving.step = "create"
  /\ cipher' = NewCipher(Master, SessionId, Writer(receiving.socket))
  /\ page' = IF page.socket = receiving.socket /\ ~page.failed
             THEN Initialised(receiving.message) ELSE page
  /\ receiving' = Idle
  /\ Unchanged(<<inbox, inputs, sealing, typed, sent>>)

Status(live) == [page EXCEPT !.allow = page.authenticated, !.live = live]

ReceiveStatus ==
  /\ Message("status")
  /\ inbox' = Tail(inbox)
  /\ page' = IF page.initialized # page.socket THEN Failed("protocol")
             ELSE Status(Head(inbox).live)
  /\ Unchanged(<<cipher, receiving, inputs, sealing, typed, sent>>)

ReceiveUnavailable ==
  /\ Message("unavailable")
  /\ inbox' = Tail(inbox)
  /\ page' = IF page.initialized # page.socket THEN Failed("protocol")
             ELSE [page EXCEPT !.allow = FALSE]
  /\ Unchanged(<<cipher, receiving, inputs, sealing, typed, sent>>)

ReceiveFrame ==
  /\ Message("frame")
  /\ inbox' = Tail(inbox)
  /\ LET frame == Head(inbox).frame IN
       IF page.initialized # page.socket \/ ~Admits(cipher, frame)
       THEN page' = Failed("protocol") /\ UNCHANGED receiving
       ELSE /\ receiving' = [step |-> "open", socket |-> page.socket,
                             frame |-> frame]
            /\ UNCHANGED page
  /\ Unchanged(<<cipher, inputs, sealing, typed, sent>>)

\* decrypt returns: the rest of open, then that of receive.  It awaits the
\* terminal's writes, too, which delays the next receive and nothing else.
Decrypted ==
  /\ receiving.step = "open"
  /\ receiving' = Idle
  /\ LET frame == receiving.frame
         current == page.socket = receiving.socket /\ ~page.failed
         grants == current /\ frame.header.kind = SNAPSHOT
     IN IF Opens(cipher, frame) /\ Repeated(cipher, frame)
        THEN UNCHANGED <<page, cipher>>
        ELSE IF ~Opens(cipher, frame) \/ ~Valid(cipher, frame)
        THEN /\ page' = IF current THEN Failed("protocol") ELSE page
             /\ UNCHANGED cipher
        ELSE /\ cipher' = Opened(cipher, frame)
             /\ page' = IF grants
                        THEN [page EXCEPT !.authenticated = TRUE, !.allow = TRUE]
                        ELSE page
  /\ Unchanged(<<inbox, inputs, sealing, typed, sent>>)

-----------------------------------------------------------------------------
(* The page: send, and the queue that seals one keystroke after another. *)

Typing == page.allow /\ page.live /\ page.link = "open"

\* send: the keystroke is queued with the socket and the cipher of this moment.
Type ==
  /\ typed < MaxKeys
  /\ Typing /\ page.initialized = page.socket
  /\ typed' = typed + 1
  /\ inputs' = Append(inputs, [socket |-> page.socket, writer |-> cipher.writer,
                               key |-> typed'])
  /\ Unchanged(<<page, cipher, receiving, inbox, sealing, sent>>)

Still(job) ==
  ~page.failed /\ page.socket = job.socket /\ cipher.writer = job.writer /\ Typing

\* Mutant: the queue does not wait for its oldest keystroke.
NextInputs == 1..Len(inputs)

NextInput == IF inputs = <<>> THEN {} ELSE {1}

\* input, up to its await.  A paste may be longer than a frame, which shows only
\* after the number was taken.
InputBegins ==
  /\ sealing = <<>>
  /\ \E i \in NextInput :
       LET job == inputs[i] IN
         /\ inputs' = RemoveAt(inputs, i)
         /\ IF ~Still(job)
            THEN UNCHANGED <<page, cipher, sealing>>
            ELSE IF ~MayInput(cipher)
            THEN /\ page' = Failed(IF cipher.epoch = None THEN "epoch" ELSE "counter")
                 /\ UNCHANGED <<cipher, sealing>>
            ELSE /\ cipher' = InputTaken(cipher)
                 /\ \/ /\ sealing' = <<[job |-> job,
                                        frame |-> InputFrame(cipher, job.key)]>>
                       /\ UNCHANGED page
                    \/ page' = Failed("size") /\ UNCHANGED sealing
  /\ Unchanged(<<receiving, inbox, typed, sent>>)

\* encrypt returns: the frame leaves if the page still stands as it did.
InputEnds ==
  /\ sealing # <<>>
  /\ sealing' = <<>>
  /\ LET job == sealing[1].job
         frame == sealing[1].frame
     IN IF Still(job)
        THEN /\ outbox' = [outbox EXCEPT ![job.socket] = Append(@, frame)]
             /\ sent' = [sent EXCEPT ![job.socket] = Append(@, frame)]
        ELSE UNCHANGED <<outbox, sent>>
  /\ UNCHANGED <<page, cipher, receiving, inbox, inputs, typed, relayVars, wire,
                 channel, hostVars>>

-----------------------------------------------------------------------------
(* The relay. *)

\* Messages to the page, if its socket is there.
Broadcast(messages) ==
  inbox' = IF page.link = "open" THEN inbox \o messages ELSE inbox

StatusOf(live) == [t |-> "status", live |-> live]
FrameMessage(frame) == [t |-> "frame", frame |-> frame]

\* A viewer's socket is upgraded: the init frame, and what join gives.
Join ==
  /\ page.link = "connecting"
  /\ page' = [page EXCEPT !.link = "open"]
  /\ inbox' = <<[t |-> "init", live |-> relay.live]>>
              \o (IF relay.ready THEN <<>> ELSE <<[t |-> "unavailable"]>>)
              \o [i \in DOMAIN relay.history |-> FrameMessage(relay.history[i])]
  /\ Unchanged(<<cipher, receiving, inputs, sealing, typed, sent>>)

\* The hello of any connection ever dialled is served: resume, its broadcast and
\* attach_input, which Lifecycle keeps apart.  What is typed in between is lost
\* either way, for want of a channel or for its epoch.
Resume(n) ==
  /\ handler[n] = "none" /\ n <= host.conn
  /\ handler' = [handler EXCEPT ![n] = "pumping"]
  /\ relay' = [relay EXCEPT !.holder = n, !.live = TRUE, !.input = n]
  /\ Broadcast(<<StatusOf(TRUE)>>)
  /\ UNCHANGED <<pageVars, outbox, wire, channel, hostVars>>

\* feed_encrypted, for the connection that holds the session.
Feed(n) ==
  /\ handler[n] = "pumping" /\ relay.holder = n
  /\ wire[n] # <<>>
  /\ LET frame == Head(wire[n])
         snapshot == frame.header.kind = SNAPSHOT
     IN /\ wire' = [wire EXCEPT ![n] = Tail(@)]
        /\ relay' = [relay EXCEPT
                       !.ready = @ \/ snapshot,
                       !.history = Append(IF snapshot THEN <<>> ELSE @, frame)]
        /\ Broadcast(<<FrameMessage(frame)>>)
  /\ UNCHANGED <<pageVars, outbox, handler, channel, hostVars>>

\* pump ends, for the socket died or was silent too long or another connection
\* holds the session: detach_input and mark_disconnected.
HandlerEnds(n) ==
  /\ handler[n] = "pumping" /\ Breaks(n)
  /\ handler' = [handler EXCEPT ![n] = "gone"]
  /\ wire' = [wire EXCEPT ![n] = <<>>]
  /\ IF relay.holder = n
     THEN /\ relay' = [relay EXCEPT !.live = FALSE, !.input = 0]
          /\ Broadcast(<<StatusOf(FALSE)>>)
     ELSE UNCHANGED <<relay, inbox>>
  /\ UNCHANGED <<pageVars, outbox, channel, hostVars>>

\* The viewer's upstream task: send_input.  What goes to a connection that the
\* host has left is lost.
SendInput(s) ==
  /\ outbox[s] # <<>>
  /\ outbox' = [outbox EXCEPT ![s] = Tail(@)]
  /\ channel' = IF relay.live /\ relay.input = host.conn /\ host.phase # "down"
                THEN Append(channel, [frame |-> Head(outbox[s]), again |-> FALSE])
                ELSE channel
  /\ UNCHANGED <<pageVars, inbox, relayVars, wire, hostVars>>

\* A socket that is gone takes with it what was under way.
LoseOutbox(s) ==
  /\ outbox[s] # <<>>
  /\ s # page.socket \/ page.link = "closed"
  /\ outbox' = [outbox EXCEPT ![s] = <<>>]
  /\ UNCHANGED <<pageVars, inbox, relayVars, wire, channel, hostVars>>

\* A frame that the host took comes again, on this connection or on a later one: the
\* relay, which the encryption does not trust, may keep frames and send them twice.
Repeat ==
  /\ host.phase = "up" /\ repeats < MaxRepeats
  /\ \E i \in DOMAIN ran :
       channel' = Append(channel, [frame |-> ran[i].frame, again |-> TRUE])
  /\ repeats' = repeats + 1
  /\ UNCHANGED <<pageVars, inbox, outbox, relayVars, wire, host, ran>>

-----------------------------------------------------------------------------
(* The host. *)

\* The next attempt, after the backoff or after one that took 15 s.
Dial ==
  /\ host.phase \in {"down", "dialing"} /\ host.conn < MaxConns
  /\ host' = [host EXCEPT !.phase = "dialing", !.conn = @ + 1]
  /\ channel' = <<>>
  /\ UNCHANGED <<pageVars, inbox, outbox, relayVars, wire, ran, repeats>>

\* Seals the next frame and sends it; frames sent into a socket that is dead
\* are never fed.
Emit(plain, phase, receiver) ==
  /\ wire' = [wire EXCEPT ![host.conn] =
                IF handler[host.conn] = "gone" THEN @
                ELSE Append(@, OutputFrame(Master, SessionId, HostWriter,
                                           host.sequence, plain))]
  /\ host' = [host EXCEPT !.phase = phase, !.sequence = @ + 1,
                          !.receiver = receiver]
  /\ UNCHANGED <<pageVars, inbox, outbox, relayVars, channel, ran, repeats>>

SnapshotOf(receiver) == [t |-> "snapshot", epoch |-> receiver.epoch]

\* The ack arrives: a new InputReceiver, whose epoch the first snapshot tells.
Connected ==
  /\ host.phase = "dialing"
  /\ handler[host.conn] # "none"
  /\ LET receiver == NewReceiver(host.conn)
     IN Emit(SnapshotOf(receiver), "up", receiver)

\* Output, or a later snapshot.
Pump ==
  /\ host.phase = "up" /\ host.sequence < MaxFrames
  /\ \E plain \in {SnapshotOf(host.receiver), [t |-> "output"]} :
       Emit(plain, "up", host.receiver)

\* The pump sees its socket closed or broken.
Disconnect ==
  /\ host.phase = "up" /\ Breaks(host.conn)
  /\ host' = [host EXCEPT !.phase = "down"]
  /\ channel' = <<>>
  /\ UNCHANGED <<pageVars, inbox, outbox, relayVars, wire, ran, repeats>>

\* A frame is handed to the InputReceiver; what it refuses is dropped.
Receive ==
  /\ host.phase = "up"
  /\ channel # <<>>
  /\ channel' = Tail(channel)
  /\ LET frame == Head(channel).frame IN
       IF Receives(host.receiver, Master, SessionId, frame)
       THEN /\ host' = [host EXCEPT !.receiver = Received(@, frame)]
            /\ ran' = Append(ran, [frame |-> frame, conn |-> host.conn])
       ELSE UNCHANGED <<host, ran>>
  /\ UNCHANGED <<pageVars, inbox, outbox, relayVars, wire, repeats>>

-----------------------------------------------------------------------------
Receiving == \/ ReceiveInit \/ Created \/ ReceiveStatus \/ ReceiveUnavailable
             \/ ReceiveFrame \/ Decrypted

Sending == InputBegins \/ InputEnds

Next ==
  \/ SocketCloses \/ Reconnect \/ Reload \/ Join
  \/ Receiving \/ Type \/ Sending
  \/ \E n \in ConnIds : Resume(n) \/ Feed(n) \/ HandlerEnds(n)
  \/ \E s \in Sockets : SendInput(s) \/ LoseOutbox(s)
  \/ Repeat
  \/ Dial \/ Connected \/ Pump \/ Disconnect \/ Receive

Spec == Init /\ [][Next]_vars

\* The page's promises settle, the relay's tasks and the host's pump run on.
\* Nothing makes sockets or connections last, come back or break.
Fairness ==
  /\ WF_vars(Receiving) /\ WF_vars(Sending)
  /\ \A n \in ConnIds : WF_vars(Feed(n))
  /\ \A s \in Sockets : WF_vars(SendInput(s))
  /\ WF_vars(Receive)

FairSpec == Spec /\ Fairness

-----------------------------------------------------------------------------
(* Properties. *)

\* What a connection of the host runs of a page's keystrokes is a beginning of
\* what that page sealed for it: nothing twice, nothing out of order, nothing left out
\* in between, and nothing that was meant for another connection.  So a frame that
\* has run was sealed for its connection, and what the same socket had sealed for that
\* connection before has run there before.
RunsAPrefix ==
  \A i \in DOMAIN ran :
    /\ \A h \in 1..(i - 1) : ran[h].frame # ran[i].frame
    /\ \E s \in Sockets : \E k \in DOMAIN sent[s] :
         /\ ran[i].frame = sent[s][k]
         /\ sent[s][k].body.plain.epoch = ran[i].conn
         /\ \A j \in 1..(k - 1) :
              sent[s][j].body.plain.epoch = ran[i].conn
                => \E h \in 1..(i - 1) :
                     ran[h] = [frame |-> sent[s][j], conn |-> ran[i].conn]

\* No frame is ever run twice, however often the network brings it and however many
\* connections the host makes; on one connection the numbers of a writer rise.
RunsOnce ==
  \A i, j \in DOMAIN ran :
    i < j =>
      /\ ran[i].frame # ran[j].frame
      /\ (/\ ran[i].conn = ran[j].conn
          /\ ran[i].frame.header.writer = ran[j].frame.header.writer)
         => ran[i].frame.header.sequence < ran[j].frame.header.sequence

\* With a host and a relay that keep to the protocol a page never locks itself,
\* whatever breaks while it awaits, but for two reasons of its own: its counter is
\* exhausted, or it was given more to type than a frame holds.  Nothing that it
\* receives locks it, and it never types before it knows an epoch.
NeverLocked ==
  page.failed =>
    \/ page.error = "size"
    \/ page.error = "counter" /\ cipher.sent = SeqLimit

\* Keystrokes of a socket on their way: at the host's door, in the network, sealed,
\* waiting.
Arriving(s) ==
  {i \in DOMAIN channel : ~channel[i].again /\ channel[i].frame.header.writer = Writer(s)}

Keys(s) ==
  {channel[i].frame.body.plain.key : i \in Arriving(s)}
  \cup {outbox[s][i].body.plain.key : i \in DOMAIN outbox[s]}
  \cup (IF sealing # <<>> /\ sealing[1].job.socket = s THEN {sealing[1].job.key} ELSE {})
  \cup {inputs[i].key : i \in {j \in DOMAIN inputs : inputs[j].socket = s}}

Way == [s \in Sockets |-> Keys(s)]
Done == [i \in DOMAIN ran |-> ran[i].frame.body.plain.key]

Contract == INSTANCE InputContract WITH way <- Way, done <- Done

\* The path implements a channel that may lose keystrokes but runs none twice
\* and those of one socket in the order they were typed, also across connections.
KeepsContract == Contract!Spec

\* From some time on the page's socket and the host's connection hold.
Holding ==
  /\ host.phase = "up" /\ relay.holder = host.conn
  /\ handler[host.conn] = "pumping"
  /\ page.link = "open"

Ready ==
  /\ Typing /\ page.initialized = page.socket
  /\ cipher.epoch = host.receiver.epoch

\* Whatever broke before, a page whose socket and host hold can type again, and what it
\* then seals is for this connection of the host.
TypingReturns == <>[]Holding => <>[]Ready

Admitted(s) ==
  \/ Writer(s) \in DOMAIN host.receiver.writers
  \/ Cardinality(DOMAIN host.receiver.writers) < MaxWriters

Queued(k) == \E i \in DOMAIN inputs :
               inputs[i].key = k /\ inputs[i].socket = page.socket

HasRun(k) == \E i \in DOMAIN ran : ran[i].frame.body.plain.key = k

\* A keystroke typed when the page was ready runs, as long as socket and host hold
\* and the host has room for the page's writer and the page a number.
ReadyKeysRun ==
  \A k \in 1..MaxKeys :
    Queued(k) /\ Ready ~>
      HasRun(k) \/ ~Holding \/ ~Ready \/ ~Admitted(page.socket) \/ page.failed

=============================================================================
