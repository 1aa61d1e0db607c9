-------------------------- MODULE EncryptedStream --------------------------
(***************************************************************************)
(* The output of an end-to-end encrypted session on its way from the host  *)
(* to a browser.  The host (src/encrypted.rs) turns terminal events into   *)
(* numbered snapshots and deltas and mirrors the length of the relay's     *)
(* replay history, which it cannot see; the relay                          *)
(* (Session::feed_encrypted, join) keeps the frames since the newest       *)
(* snapshot without being able to read them and broadcasts them through a  *)
(* ring a slow viewer falls behind on (server/view.rs); the browser        *)
(* (web/static/crypto.js, web/session.html) accepts frames by number.      *)
(* Connections of the host break, and old ones linger in the relay.        *)
(*                                                                         *)
(* A screen is the number of changes made to it.  A delta carries one      *)
(* change, a snapshot all of them.  Title, directory and exit code are the *)
(* metadata: only snapshots carry them, as their number of changes.        *)
(***************************************************************************)
EXTENDS Integers, Sequences

CONSTANTS Viewers,
          HistoryCap,   \* history_bytes of the relay
          MaxFrame,     \* MAX_ENCRYPTED_FRAME
          RingSize,     \* BROADCAST_CAPACITY
          DeltaSizes, SnapshotSizes,  \* sizes a sealed frame may have
          MaxWire,      \* bound: frames a socket buffers before send waits
          MaxVer, MaxMeta, MaxConns   \* bounds: events and connections

ASSUME StreamAssumption ==
  /\ HistoryCap \in Nat /\ MaxFrame \in Nat
  /\ RingSize \in Nat \ {0} /\ MaxWire \in Nat \ {0}
  /\ DeltaSizes \subseteq Nat \ {0} /\ SnapshotSizes \subseteq Nat \ {0}
  /\ MaxVer \in Nat /\ MaxMeta \in Nat /\ MaxConns \in Nat \ {0}

VARIABLES
  screen,  \* the host's Screen: changes to its content and to its metadata
  client,  \* the host's connection loop and pump, its Sender's next sequence
  log,     \* history: the Screen each sequence number was sealed on
  wire,    \* frames on their way to the relay, per connection
  epoch,   \* the epoch the relay gave each connection, None before it did
  open,    \* connections whose handler still reads
  relay,   \* epoch, history, history_len and replay_ready of the session
  viewer   \* per viewer: its relay task's receiver and the browser's cipher

hostVars == <<screen, client, log>>
vars == <<screen, client, log, wire, epoch, open, relay, viewer>>

ConnIds == 1..MaxConns
None == -1
Garbled == -2

Frames == [kind : {"snapshot", "output"}, seq : Nat, ver : Nat, meta : Nat,
           checkpoint : BOOLEAN, size : Nat]

TypeOK ==
  /\ screen \in [ver : 0..MaxVer, meta : 0..MaxMeta, exit : BOOLEAN]
  /\ client \in [phase : {"first", "up", "finish", "down", "dialing", "done",
                          "failed"},
                 conn : ConnIds, seq : Nat, historyLen : Nat, dirty : BOOLEAN]
  /\ log \in Seq([ver : Nat, meta : Nat])
  /\ wire \in [ConnIds -> Seq(Frames)]
  /\ epoch \in [ConnIds -> Nat \cup {None}]
  /\ open \subseteq ConnIds
  /\ relay \in [epoch : Nat, history : Seq(Frames), historyLen : Nat,
                ready : BOOLEAN]
  /\ viewer \in [Viewers -> [on : BOOLEAN, backlog : Seq(Frames),
                             queue : Seq(Frames), lagged : BOOLEAN,
                             last : Nat \cup {None}, failed : BOOLEAN,
                             ver : Nat \cup {Garbled}, meta : Nat]]

Fresh == [on |-> FALSE, backlog |-> <<>>, queue |-> <<>>, lagged |-> FALSE,
          last |-> None, failed |-> FALSE, ver |-> 0, meta |-> 0]

\* The session exists, its first producer is acked and starts its pump.
Init ==
  /\ screen = [ver |-> 0, meta |-> 0, exit |-> FALSE]
  /\ client = [phase |-> "first", conn |-> 1, seq |-> 0, historyLen |-> 0,
               dirty |-> FALSE]
  /\ log = <<>>
  /\ wire = [n \in ConnIds |-> <<>>]
  /\ epoch = [n \in ConnIds |-> IF n = 1 THEN 0 ELSE None]
  /\ open = {1}
  /\ relay = [epoch |-> 0, history |-> <<>>, historyLen |-> 0, ready |-> FALSE]
  /\ viewer = [v \in Viewers |-> Fresh]

-----------------------------------------------------------------------------
(* The host. *)

\* Mutant: the largest frame the relay takes is not considered.
BudgetOfHistory == HistoryCap

Budget == IF HistoryCap < MaxFrame THEN HistoryCap ELSE MaxFrame

\* Screen::update: what an event makes of the screen.
Output == screen.ver < MaxVer /\ screen' = [screen EXCEPT !.ver = @ + 1]
Resize == Output
Metadata == screen.meta < MaxMeta /\ screen' = [screen EXCEPT !.meta = @ + 1]
Exit == /\ screen.meta < MaxMeta
        /\ screen' = [screen EXCEPT !.meta = @ + 1, !.exit = TRUE]

\* The command's exit is the last event.
Event == ~screen.exit /\ (Output \/ Metadata \/ Exit)

\* seal and send.  A frame whose send fails has used up its number; the pump
\* ends and the connection with it.
Send(kind, checkpoint, size, historyLen, dirty) ==
  LET frame == [kind |-> kind, seq |-> client.seq, ver |-> screen'.ver,
                meta |-> IF kind = "snapshot" THEN screen'.meta ELSE 0,
                checkpoint |-> checkpoint, size |-> size]
  IN /\ Len(wire[client.conn]) < MaxWire
     /\ log' = Append(log, [ver |-> screen'.ver, meta |-> screen'.meta])
     /\ \/ /\ wire' = [wire EXCEPT ![client.conn] =
                         IF client.conn \in open THEN Append(@, frame) ELSE @]
           /\ client' = [client EXCEPT
                           !.phase = IF screen'.exit THEN "finish" ELSE "up",
                           !.seq = @ + 1, !.historyLen = historyLen,
                           !.dirty = dirty]
        \/ /\ client' = [client EXCEPT !.phase = "down", !.seq = @ + 1]
           /\ UNCHANGED wire

\* Mutant: a snapshot of a pump that runs is counted on top of what it replaces.
SendSnapshotOnTop(checkpoint) ==
  \E size \in SnapshotSizes :
    IF size <= Budget
    THEN Send("snapshot", checkpoint, size,
              IF client.phase = "first" THEN size ELSE client.historyLen + size, FALSE)
    ELSE /\ client' = [client EXCEPT !.phase = "failed"]
         /\ UNCHANGED <<log, wire>>

\* A snapshot larger than the budget ends the sharing with an error.
SendSnapshot(checkpoint) ==
  \E size \in SnapshotSizes :
    IF size <= Budget
    THEN Send("snapshot", checkpoint, size, size, FALSE)
    ELSE /\ client' = [client EXCEPT !.phase = "failed"]
         /\ UNCHANGED <<log, wire>>

\* pump opens every connection with a snapshot that viewers restore.
First ==
  /\ client.phase = "first"
  /\ UNCHANGED screen
  /\ SendSnapshot(FALSE)
  /\ UNCHANGED <<epoch, open, relay, viewer>>

PumpOutput ==
  /\ client.phase = "up" /\ ~screen.exit
  /\ Output
  /\ \E size \in DeltaSizes :
       IF client.historyLen + size <= Budget
       THEN Send("output", FALSE, size, client.historyLen + size, TRUE)
       ELSE SendSnapshot(FALSE)
  /\ UNCHANGED <<epoch, open, relay, viewer>>

\* Mutant: a resize is sent as a checkpoint.
PumpResizeAsCheckpoint ==
  /\ client.phase = "up" /\ ~screen.exit
  /\ Resize
  /\ SendSnapshot(TRUE)
  /\ UNCHANGED <<epoch, open, relay, viewer>>

PumpResize ==
  /\ client.phase = "up" /\ ~screen.exit
  /\ Resize
  /\ SendSnapshot(FALSE)
  /\ UNCHANGED <<epoch, open, relay, viewer>>

\* Mutant: metadata waits for the next frame that carries it.
PumpMetadataUnsent ==
  /\ client.phase = "up" /\ ~screen.exit
  /\ Metadata
  /\ UNCHANGED <<client, log, wire, epoch, open, relay, viewer>>

\* Metadata and exit leave the content as every viewer has it.
PumpMetadata ==
  /\ client.phase = "up" /\ ~screen.exit
  /\ Metadata \/ Exit
  /\ SendSnapshot(TRUE)
  /\ UNCHANGED <<epoch, open, relay, viewer>>

\* The periodic checkpoint, so that a late viewer has little to replay.
Checkpoint ==
  /\ client.phase = "up" /\ client.dirty
  /\ UNCHANGED screen
  /\ SendSnapshot(TRUE)
  /\ UNCHANGED <<epoch, open, relay, viewer>>

\* finish: the Exit control frame leaves, or the connection is gone.
Finish ==
  /\ client.phase = "finish"
  /\ \E phase \in {"done", "down"} : client' = [client EXCEPT !.phase = phase]
  /\ UNCHANGED <<screen, log, wire, epoch, open, relay, viewer>>

\* The pump sees its socket closed or broken.
Disconnect ==
  /\ client.phase = "up"
  /\ client' = [client EXCEPT !.phase = "down"]
  /\ UNCHANGED <<screen, log, wire, epoch, open, relay, viewer>>

\* The event channel closed without an exit.
EventsClosed ==
  /\ client.phase \in {"up", "down"} /\ ~screen.exit
  /\ client' = [client EXCEPT !.phase = "done"]
  /\ UNCHANGED <<screen, log, wire, epoch, open, relay, viewer>>

\* Between pumps events still change the screen, unsent.
EventOffline ==
  /\ client.phase \in {"down", "dialing"}
  /\ Event
  /\ UNCHANGED <<client, log, wire, epoch, open, relay, viewer>>

\* The next attempt of the loop, after the backoff or after a connect that
\* failed or took 15 s; the relay may yet serve an attempt given up here.
Dial ==
  /\ client.phase \in {"down", "dialing"}
  /\ client.conn < MaxConns
  /\ client' = [client EXCEPT !.phase = "dialing", !.conn = @ + 1]
  /\ UNCHANGED <<screen, log, wire, epoch, open, relay, viewer>>

\* The ack arrives and a pump with a new InputReceiver starts.
Connected ==
  /\ client.phase = "dialing"
  /\ epoch[client.conn] # None
  /\ client' = [client EXCEPT !.phase = "first", !.dirty = FALSE]
  /\ UNCHANGED <<screen, log, wire, epoch, open, relay, viewer>>

-----------------------------------------------------------------------------
(* The relay. *)

\* resume: the hello of a dialled connection is served, whichever came first.
Attach(n) ==
  /\ epoch[n] = None
  /\ n <= client.conn
  /\ relay' = [relay EXCEPT !.epoch = @ + 1]
  /\ epoch' = [epoch EXCEPT ![n] = relay.epoch + 1]
  /\ open' = open \cup {n}
  /\ UNCHANGED <<hostVars, wire, viewer>>

Close(n) == open' = open \ {n} /\ wire' = [wire EXCEPT ![n] = <<>>]

\* The broadcast ring: a receiver more than RingSize behind loses the oldest.
Broadcast(frame) ==
  viewer' = [v \in Viewers |->
    IF ~viewer[v].on THEN viewer[v]
    ELSE IF Len(viewer[v].queue) < RingSize
         THEN [viewer[v] EXCEPT !.queue = Append(@, frame)]
         ELSE [viewer[v] EXCEPT !.queue = Append(Tail(@), frame),
                                !.lagged = TRUE]]

Snapshot(frame) == frame.kind = "snapshot"
\* Mutant: a snapshot does not replace what came before it.
KeptAlways(frame) == relay.history

Kept(frame) == IF Snapshot(frame) THEN <<>> ELSE relay.history
KeptLen(frame) == IF Snapshot(frame) THEN 0 ELSE relay.historyLen
Ready(frame) == IF Snapshot(frame) THEN frame.size <= HistoryCap ELSE relay.ready

TooLarge(frame) == frame.size > MaxFrame

Unreplayable(frame) == ~Ready(frame) \/ KeptLen(frame) + frame.size > HistoryCap

\* pump and feed_encrypted; the epoch is compared under the lock of the feed,
\* so pump's own look at it before makes no difference.  The ReplayUnavailable
\* notice of an unreplayable frame carries no frame.
Feed(n) ==
  /\ n \in open
  /\ wire[n] # <<>>
  /\ LET frame == Head(wire[n]) IN
       IF TooLarge(frame) \/ epoch[n] # relay.epoch
       THEN Close(n) /\ UNCHANGED <<relay, viewer>>
       ELSE IF Unreplayable(frame)
       THEN /\ Close(n)
            /\ relay' = [relay EXCEPT !.history = <<>>, !.historyLen = 0,
                                      !.ready = FALSE]
            /\ UNCHANGED viewer
       ELSE /\ relay' = [relay EXCEPT
                           !.history = Append(Kept(frame), frame),
                           !.historyLen = KeptLen(frame) + frame.size,
                           !.ready = Ready(frame)]
            /\ Broadcast(frame)
            /\ wire' = [wire EXCEPT ![n] = Tail(@)]
            /\ UNCHANGED open
  /\ UNCHANGED <<hostVars, epoch>>

\* The socket dies or producer_timeout passes; what was under way is lost.
HandlerEnds(n) ==
  /\ n \in open
  /\ Close(n)
  /\ UNCHANGED <<hostVars, epoch, relay, viewer>>

-----------------------------------------------------------------------------
(* A viewer: the relay's task for it and the browser.                      *)

Join(v) ==
  [viewer[v] EXCEPT !.backlog = relay.history, !.queue = <<>>, !.lagged = FALSE]

\* A page opens or its socket comes back: a new cipher, and a terminal that is
\* empty or still shows what it showed.
Open(v) ==
  /\ ~viewer[v].failed
  /\ viewer' = [viewer EXCEPT ![v] = [Join(v) EXCEPT !.on = TRUE, !.last = None]]
  /\ UNCHANGED <<hostVars, wire, epoch, open, relay>>

\* The page is closed.
Leave(v) ==
  /\ viewer[v].on
  /\ viewer' = [viewer EXCEPT ![v] = Fresh]
  /\ UNCHANGED <<hostVars, wire, epoch, open, relay>>

\* Mutant: what was lost is skipped.
RejoinSkips(v) ==
  /\ viewer[v].on /\ viewer[v].lagged /\ viewer[v].backlog = <<>>
  /\ viewer' = [viewer EXCEPT ![v].lagged = FALSE]
  /\ UNCHANGED <<hostVars, wire, epoch, open, relay>>

\* recv says Lagged: join again and replay the history after what was sent.
Rejoin(v) ==
  /\ viewer[v].on /\ viewer[v].lagged /\ viewer[v].backlog = <<>>
  /\ viewer' = [viewer EXCEPT ![v] = Join(v)]
  /\ UNCHANGED <<hostVars, wire, epoch, open, relay>>

\* crypto.js open: old numbers are skipped, a snapshot is restored unless it is
\* a checkpoint that follows at once, a delta must follow at once.  That the page
\* also restores a checkpoint that changes its size is left out: no checkpoint of
\* this host does, and a page that relied on it would show too little here.
Shows(w, frame) ==
  LET next == w.last # None /\ frame.seq = w.last + 1 IN
    IF w.last # None /\ frame.seq <= w.last
    THEN w
    ELSE IF Snapshot(frame)
    THEN [w EXCEPT !.last = frame.seq,
                   !.meta = frame.meta,
                   !.ver = IF frame.checkpoint /\ next THEN @ ELSE frame.ver]
    ELSE IF next
    THEN [w EXCEPT !.last = frame.seq,
                   !.ver = IF @ + 1 = frame.ver THEN frame.ver ELSE Garbled]
    ELSE [w EXCEPT !.failed = TRUE]

\* The next frame of the join's payload, then of the receiver.
Receive(v) ==
  LET w == viewer[v] IN
    /\ w.on /\ ~w.failed
    /\ \/ /\ w.backlog # <<>>
          /\ viewer' = [viewer EXCEPT ![v] =
               [Shows(w, Head(w.backlog)) EXCEPT !.backlog = Tail(w.backlog)]]
       \/ /\ w.backlog = <<>> /\ ~w.lagged /\ w.queue # <<>>
          /\ viewer' = [viewer EXCEPT ![v] =
               [Shows(w, Head(w.queue)) EXCEPT !.queue = Tail(w.queue)]]
    /\ UNCHANGED <<hostVars, wire, epoch, open, relay>>

-----------------------------------------------------------------------------
Host == \/ First \/ PumpOutput \/ PumpResize \/ PumpMetadata \/ Checkpoint
        \/ Finish \/ Disconnect \/ EventsClosed \/ EventOffline \/ Dial
        \/ Connected

Next ==
  \/ Host
  \/ \E n \in ConnIds : Attach(n) \/ Feed(n) \/ HandlerEnds(n)
  \/ \E v \in Viewers : Open(v) \/ Leave(v) \/ Rejoin(v) \/ Receive(v)

Spec == Init /\ [][Next]_vars

\* Tasks of the relay and of the browser run on, and so does a pump that has a
\* frame to send; nothing makes events happen or connections last.
Fairness ==
  /\ WF_vars(First)
  /\ \A n \in ConnIds : WF_vars(Feed(n))
  /\ \A v \in Viewers : WF_vars(Rejoin(v)) /\ WF_vars(Receive(v))

FairSpec == Spec /\ Fairness

-----------------------------------------------------------------------------
(* Properties. *)

\* The host's mirror of the history's length is good enough: the relay never
\* refuses a frame of the connection that holds the session, so it never has to
\* tell viewers that replay is unavailable.
NeverRefused ==
  \A n \in open :
    epoch[n] = relay.epoch /\ wire[n] # <<>> =>
      ~TooLarge(Head(wire[n])) /\ ~Unreplayable(Head(wire[n]))

\* Once the relay has taken what the host sent on the connection that holds the
\* session, the host's mirror is the length of the history and not merely a bound,
\* and its next frame continues what the relay keeps: whatever earlier connections
\* lost, whichever sends failed and whoever held the session in between.
MirrorIsExact ==
  /\ client.phase \in {"up", "finish"}
  /\ client.conn \in open /\ epoch[client.conn] = relay.epoch
  /\ wire[client.conn] = <<>>
  => /\ relay.ready /\ relay.history # <<>>
     /\ relay.historyLen = client.historyLen
     /\ relay.history[Len(relay.history)].seq + 1 = client.seq

\* A join can be replayed from nothing: the history starts with its only
\* snapshot, its numbers have no gap, and it fits the cap.
HistoryReplays ==
  LET h == relay.history IN
    /\ relay.historyLen <= HistoryCap
    /\ \A i \in 1..Len(h) : Snapshot(h[i]) <=> i = 1
    /\ \A i \in 1..Len(h) : h[i].seq = h[1].seq + i - 1

\* No viewer is ever told that its encrypted output is incomplete, whatever
\* connections broke, whatever it missed and whenever it joined.
NeverIncomplete == \A v \in Viewers : ~viewer[v].failed

\* A viewer shows what the host's terminal showed when it sealed the newest frame
\* the viewer accepted, also when it did not restore a checkpoint.
ShowsTheHost ==
  \A v \in Viewers :
    viewer[v].on /\ viewer[v].last # None =>
      /\ viewer[v].ver = log[viewer[v].last + 1].ver
      /\ viewer[v].meta = log[viewer[v].last + 1].meta

\* A viewer whose socket holds, on a session whose host stays connected or left
\* after its exit, ends up showing
\* the host's terminal, however far it lagged behind.
Serving ==
  /\ client.phase \in {"up", "finish"} \/ (client.phase = "done" /\ screen.exit)
  /\ client.conn \in open
  /\ epoch[client.conn] = relay.epoch

UpToDate(v) == viewer[v].ver = screen.ver /\ viewer[v].meta = screen.meta

ViewersCatchUp ==
  \A v \in Viewers :
    <>[](Serving /\ viewer[v].on) /\ <>[][~Open(v)]_vars => <>[]UpToDate(v)

=============================================================================
