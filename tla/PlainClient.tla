----------------------------- MODULE PlainClient -----------------------------
(***************************************************************************)
(* The producer side of a session without end-to-end encryption            *)
(* (src/relay.rs): it takes the terminal's events off a channel, sends     *)
(* them over one connection after another, and after a reconnect repeats   *)
(* what the relay may have missed.  Of the relay (src/server/produce.rs)   *)
(* there is what a connection's frames do to a session, whichever          *)
(* connection they come from and whenever its handler runs, and a restart, *)
(* which drops every session.                                              *)
(*                                                                         *)
(* Title and directory are the number of times they changed, a size the    *)
(* number of resizes, output the number of its chunks.                     *)
(***************************************************************************)
EXTENDS Integers, Sequences

CONSTANTS MaxConns, MaxIds, MaxRestarts,         \* bounds: connections,
          MaxOut, MaxTitle, MaxCwd, MaxSize,     \* sessions, events of each
          MaxEvents                              \* kind and in all

ASSUME ClientAssumption ==
  /\ MaxConns \in Nat \ {0} /\ MaxIds \in Nat \ {0} /\ MaxRestarts \in Nat
  /\ MaxOut \in Nat /\ MaxTitle \in Nat /\ MaxCwd \in Nat /\ MaxSize \in Nat
  /\ MaxEvents \in Nat

VARIABLES
  host,     \* the terminal: what its observers and signals have reported
  events,   \* the channel of events between the terminal and the client
  client,   \* the locals of run and pump
  hello,    \* per connection: the session its hello resumes, and its size
  wire,     \* per connection: frames on their way to the relay
  handler,  \* per connection: the relay's task for it
  sessions, \* what the relay holds of each session
  restarts,
  renewed   \* history: the client was given a session in place of a lost one

vars == <<host, events, client, hello, wire, handler, sessions, restarts, renewed>>

ConnIds == 1..MaxConns
Ids == 1..MaxIds
NoId == 0
None == -1

Contents == [title : 0..MaxTitle, cwd : 0..MaxCwd, size : 0..MaxSize]

Frames == [kind : {"output"}, n : Nat] \cup [kind : {"resize"}, size : 0..MaxSize]
          \cup [kind : {"title"}, title : 0..MaxTitle]
          \cup [kind : {"cwd"}, cwd : 0..MaxCwd]
          \cup [kind : {"exit"}]

Events == [kind : {"output"}, n : Nat] \cup [kind : {"resize"}, size : 0..MaxSize]
          \cup [kind : {"metadata"}, title : 0..MaxTitle \cup {None},
                cwd : 0..MaxCwd \cup {None}]
          \cup [kind : {"exit"}]

TypeOK ==
  /\ host \in [title : 0..MaxTitle, cwd : 0..MaxCwd, size : 0..MaxSize,
               out : 0..MaxOut, exit : BOOLEAN]
  /\ events \in Seq(Events)
  /\ client \in [phase : {"dial", "connect", "title", "cwd", "pump", "sleep",
                          "finished", "refused"},
                 conn : 0..MaxConns, id : Ids \cup {NoId}, title : 0..MaxTitle,
                 cwd : 0..MaxCwd, size : 0..MaxSize]
  /\ hello \in [ConnIds -> [id : Ids \cup {NoId}, size : 0..MaxSize]]
  /\ wire \in [ConnIds -> Seq(Frames)]
  /\ handler \in [ConnIds -> [phase : {"hello", "resize", "ack", "pump", "apply",
                                       "closed"},
                              id : Ids \cup {NoId}, epoch : Nat, acked : BOOLEAN]]
  /\ sessions \in [Ids -> [listed : BOOLEAN, epoch : Nat, strays : Nat,
                           status : {"absent", "live", "stale", "ended"},
                           shown : Contents, out : Nat, inOrder : BOOLEAN]]
  /\ restarts \in 0..MaxRestarts
  /\ renewed \in BOOLEAN

NoSession == [listed |-> FALSE, epoch |-> 0, strays |-> 0,
              status |-> "absent", shown |-> [title |-> 0, cwd |-> 0, size |-> 0],
              out |-> 0, inOrder |-> TRUE]

Init ==
  /\ host = [title |-> 0, cwd |-> 0, size |-> 0, out |-> 0, exit |-> FALSE]
  /\ events = <<>>
  /\ client = [phase |-> "dial", conn |-> 0, id |-> NoId, title |-> 0, cwd |-> 0,
               size |-> 0]
  /\ hello = [n \in ConnIds |-> [id |-> NoId, size |-> 0]]
  /\ wire = [n \in ConnIds |-> <<>>]
  /\ handler = [n \in ConnIds |-> [phase |-> "hello", id |-> NoId, epoch |-> 0,
                               acked |-> FALSE]]
  /\ sessions = [id \in Ids |-> NoSession]
  /\ restarts = 0
  /\ renewed = FALSE

-----------------------------------------------------------------------------
(* The terminal. *)

Emit(event) ==
  /\ host'.out + host'.title + host'.cwd + host'.size <= MaxEvents
  /\ events' = Append(events, event)

\* An output thread reads a chunk, or a chunk with a new title or directory in
\* it; the supervisor sees a resize or the end of the command.
Output ==
  /\ ~host.exit /\ host.out < MaxOut
  /\ host' = [host EXCEPT !.out = @ + 1]
  /\ Emit([kind |-> "output", n |-> host.out + 1])
  /\ UNCHANGED <<client, hello, wire, handler, sessions, restarts, renewed>>

Metadata ==
  /\ ~host.exit
  /\ \E title \in {host.title, host.title + 1} \cap (0..MaxTitle),
        cwd \in {host.cwd, host.cwd + 1} \cap (0..MaxCwd) :
       /\ title # host.title \/ cwd # host.cwd
       /\ host' = [host EXCEPT !.title = title, !.cwd = cwd]
       /\ Emit([kind |-> "metadata",
                title |-> IF title = host.title THEN None ELSE title,
                cwd |-> IF cwd = host.cwd THEN None ELSE cwd])
  /\ UNCHANGED <<client, hello, wire, handler, sessions, restarts, renewed>>

Winch ==
  /\ ~host.exit /\ host.size < MaxSize
  /\ host' = [host EXCEPT !.size = @ + 1]
  /\ Emit([kind |-> "resize", size |-> host.size + 1])
  /\ UNCHANGED <<client, hello, wire, handler, sessions, restarts, renewed>>

Exit ==
  /\ ~host.exit
  /\ host' = [host EXCEPT !.exit = TRUE]
  /\ Emit([kind |-> "exit"])
  /\ UNCHANGED <<client, hello, wire, handler, sessions, restarts, renewed>>

-----------------------------------------------------------------------------
(* The client: run, connect and pump. *)

\* The socket takes the frames and the client goes on.  Frames for a closed
\* connection are gone.
Send(frames, phase, next) ==
  /\ wire' = IF handler[client.conn].phase = "closed" THEN wire
             ELSE [wire EXCEPT ![client.conn] = @ \o frames]
  /\ client' = [next EXCEPT !.phase = phase]

\* The last of the frames could not be sent; those before it were.
SendFails(frames, next) == Send(frames, "sleep", next)

\* connect: the hello carries the session to resume and the size as of now.
Dial ==
  /\ client.phase \in {"dial", "sleep"}
  /\ client.conn < MaxConns
  /\ client' = [client EXCEPT !.phase = "connect", !.conn = @ + 1]
  /\ hello' = [hello EXCEPT ![client.conn + 1] = [id |-> client.id,
                                                  size |-> client.size]]
  /\ UNCHANGED <<host, events, wire, handler, sessions, restarts, renewed>>

\* connect fails, also after the relay has read the hello.
DialFails ==
  /\ client.phase = "connect"
  /\ client' = [client EXCEPT !.phase = "sleep"]
  /\ UNCHANGED <<host, events, hello, wire, handler, sessions, restarts, renewed>>

\* The relay turns the producer away for good: drain swallows the events.
Refused ==
  /\ client.phase = "connect"
  /\ handler[client.conn].phase = "hello"
  /\ client' = [client EXCEPT !.phase = "refused"]
  /\ handler' = [handler EXCEPT ![client.conn].phase = "closed"]
  /\ UNCHANGED <<host, events, hello, wire, sessions, restarts, renewed>>

Drain ==
  /\ client.phase = "refused"
  /\ events # <<>>
  /\ events' = Tail(events)
  /\ UNCHANGED <<host, client, hello, wire, handler, sessions, restarts, renewed>>

\* Mutant: what the relay may have missed is not repeated.
ConnectedRepeatsNothing ==
  /\ client.phase = "connect"
  /\ handler[client.conn].acked
  /\ client' = [client EXCEPT !.id = handler[client.conn].id, !.phase = "pump"]
  /\ renewed' = (renewed \/ client.id \notin {NoId, handler[client.conn].id})
  /\ UNCHANGED <<host, events, hello, wire, handler, sessions, restarts>>

\* The ack arrives.  A session that was resumed is told title and directory
\* again, in case the relay missed the last change of either.
Connected ==
  /\ client.phase = "connect"
  /\ handler[client.conn].acked
  /\ LET id == handler[client.conn].id IN
       /\ client' = [client EXCEPT
            !.id = id,
            !.phase = IF client.id # id THEN "pump"
                      ELSE IF client.title # 0 THEN "title" ELSE "cwd"]
       /\ renewed' = (renewed \/ client.id \notin {NoId, id})
  /\ UNCHANGED <<host, events, hello, wire, handler, sessions, restarts>>

RepeatTitle ==
  /\ client.phase = "title"
  /\ LET frame == [kind |-> "title", title |-> client.title] IN
       Send(<<frame>>, "cwd", client) \/ SendFails(<<>>, client)
  /\ UNCHANGED <<host, events, hello, handler, sessions, restarts, renewed>>

RepeatCwd ==
  /\ client.phase = "cwd"
  /\ LET frame == [kind |-> "cwd", cwd |-> client.cwd] IN
       Send(<<frame>>, "pump", client) \/ SendFails(<<>>, client)
  /\ UNCHANGED <<host, events, hello, handler, sessions, restarts, renewed>>

\* pump takes the next event of one kind.
Takes(kind) ==
  /\ client.phase = "pump"
  /\ events # <<>> /\ Head(events).kind = kind
  /\ events' = Tail(events)
  /\ UNCHANGED <<host, hello, handler, sessions, restarts, renewed>>

\* Mutant: output that could not be sent for sure is sent again.
PumpOutputRetried ==
  /\ client.phase = "pump"
  /\ events # <<>> /\ Head(events).kind = "output"
  /\ \/ Send(<<Head(events)>>, "pump", client) /\ events' = Tail(events)
     \/ SendFails(<<Head(events)>>, client) /\ UNCHANGED events
  /\ UNCHANGED <<host, hello, handler, sessions, restarts, renewed>>

PumpOutput ==
  /\ Takes("output")
  /\ Send(<<Head(events)>>, "pump", client) \/ SendFails(<<>>, client)

\* Mutant: the size of the first connection is used for all.
PumpResizeUnrecorded ==
  /\ Takes("resize")
  /\ Send(<<Head(events)>>, "pump", client) \/ SendFails(<<>>, client)

\* The size is recorded before it is sent, for the next hello.
PumpResize ==
  /\ Takes("resize")
  /\ LET next == [client EXCEPT !.size = Head(events).size] IN
       Send(<<Head(events)>>, "pump", next) \/ SendFails(<<>>, next)

\* Title, then directory: each is recorded before it is sent.  A directory whose
\* title could not be sent is not recorded.
PumpMetadata ==
  /\ Takes("metadata")
  /\ LET seen == Head(events)
         titled == IF seen.title = None THEN client
                   ELSE [client EXCEPT !.title = seen.title]
         both == IF seen.cwd = None THEN titled ELSE [titled EXCEPT !.cwd = seen.cwd]
         title == IF seen.title = None THEN <<>>
                  ELSE <<[kind |-> "title", title |-> seen.title]>>
         cwd == IF seen.cwd = None THEN <<>>
                ELSE <<[kind |-> "cwd", cwd |-> seen.cwd]>>
     IN \/ Send(title \o cwd, "pump", both)
        \/ seen.title # None /\ SendFails(<<>>, titled)
        \/ seen.cwd # None /\ SendFails(title, both)

\* Whether the frame could be sent is not looked at.
PumpExit ==
  /\ Takes("exit")
  /\ \E frames \in {<<>>, <<[kind |-> "exit"]>>} : Send(frames, "finished", client)

\* The pump sees its socket closed or broken.
Disconnect ==
  /\ client.phase = "pump"
  /\ client' = [client EXCEPT !.phase = "sleep"]
  /\ UNCHANGED <<host, events, hello, wire, handler, sessions, restarts, renewed>>

-----------------------------------------------------------------------------
(* The relay: one handler per connection, several of them at work at once. *)

Current(n) == handler[n].epoch = sessions[handler[n].id].epoch

\* History: effects of handlers whose session has gone on to a newer connection.
Strays(n, session) == [session EXCEPT !.strays = IF Current(n) THEN @ ELSE @ + 1]

Listed == {id \in Ids : sessions[id].listed}

\* attach: resume a listed session, or create one.
Resume(n) ==
  /\ n <= client.conn /\ handler[n].phase = "hello"
  /\ LET id == hello[n].id IN
       /\ id \in Listed
       /\ sessions' = [sessions EXCEPT ![id].epoch = @ + 1, ![id].status = "live"]
       /\ handler' = [handler EXCEPT
            ![n] = [@ EXCEPT !.phase = "resize", !.id = id,
                             !.epoch = sessions[id].epoch + 1]]
  /\ UNCHANGED <<host, events, client, hello, wire, restarts, renewed>>

Create(n) ==
  /\ n <= client.conn /\ handler[n].phase = "hello"
  /\ hello[n].id \notin Listed
  /\ \E id \in Ids :
       /\ sessions[id].status = "absent"
       /\ \A i \in Ids : i < id => sessions[i].status # "absent"
       /\ sessions' = [sessions EXCEPT
            ![id] = [NoSession EXCEPT !.listed = TRUE, !.status = "live",
                                      !.shown.size = hello[n].size]]
       /\ handler' = [handler EXCEPT ![n] = [@ EXCEPT !.phase = "ack", !.id = id]]
  /\ UNCHANGED <<host, events, client, hello, wire, restarts, renewed>>

\* resume goes on without the lock.
ResumeResizes(n) ==
  /\ handler[n].phase = "resize"
  /\ sessions' = [sessions EXCEPT
       ![handler[n].id] = [Strays(n, @) EXCEPT !.shown.size = hello[n].size]]
  /\ handler' = [handler EXCEPT ![n].phase = "ack"]
  /\ UNCHANGED <<host, events, client, hello, wire, restarts, renewed>>

\* The ack is sent and the pump starts, or the connection is gone by now.
Ack(n) ==
  /\ handler[n].phase = "ack"
  /\ \/ /\ handler' = [handler EXCEPT ![n].phase = "pump", ![n].acked = TRUE]
        /\ UNCHANGED wire
     \/ /\ handler' = [handler EXCEPT ![n].phase = "closed"]
        /\ wire' = [wire EXCEPT ![n] = <<>>]
  /\ UNCHANGED <<host, events, client, hello, sessions, restarts, renewed>>

\* Mutant: frames of a connection that was replaced are still let in.
TakeUnfenced(n) ==
  /\ handler[n].phase = "pump" /\ wire[n] # <<>>
  /\ handler' = [handler EXCEPT ![n].phase = "apply"]
  /\ UNCHANGED <<host, events, client, hello, wire, sessions, restarts, renewed>>

\* pump receives a frame and compares epochs.
Take(n) ==
  /\ handler[n].phase = "pump" /\ wire[n] # <<>>
  /\ Current(n)
  /\ handler' = [handler EXCEPT ![n].phase = "apply"]
  /\ UNCHANGED <<host, events, client, hello, wire, sessions, restarts, renewed>>

\* feed, resize, set_title, set_cwd or mark_exit, under another lock.
Apply(n) ==
  /\ handler[n].phase = "apply"
  /\ LET frame == Head(wire[n])
         id == handler[n].id
         session == Strays(n, sessions[id])
     IN sessions' = [sessions EXCEPT ![id] =
          CASE frame.kind = "output" ->
                 [session EXCEPT !.out = frame.n,
                                 !.inOrder = @ /\ frame.n > session.out]
            [] frame.kind = "resize" -> [session EXCEPT !.shown.size = frame.size]
            [] frame.kind = "title" -> [session EXCEPT !.shown.title = frame.title]
            [] frame.kind = "cwd" -> [session EXCEPT !.shown.cwd = frame.cwd]
            [] frame.kind = "exit" -> [session EXCEPT !.status = "ended"]]
  /\ wire' = [wire EXCEPT ![n] = Tail(@)]
  /\ handler' = [handler EXCEPT ![n].phase = "pump"]
  /\ UNCHANGED <<host, events, client, hello, restarts, renewed>>

\* pump breaks: the connection is gone or silent, or a frame found a newer
\* epoch; then mark_disconnected.
HandlerEnds(n) ==
  /\ handler[n].phase = "pump"
  /\ handler' = [handler EXCEPT ![n].phase = "closed"]
  /\ wire' = [wire EXCEPT ![n] = <<>>]
  /\ LET id == handler[n].id IN
       sessions' = IF Current(n) /\ sessions[id].status = "live"
                   THEN [sessions EXCEPT ![id].status = "stale"] ELSE sessions
  /\ UNCHANGED <<host, events, client, hello, restarts, renewed>>

\* The relay restarts: no session is listed and no handler runs any more.
Restart ==
  /\ restarts < MaxRestarts
  /\ restarts' = restarts + 1
  /\ sessions' = [id \in Ids |-> [sessions[id] EXCEPT !.listed = FALSE]]
  /\ handler' = [n \in ConnIds |->
       IF n <= client.conn THEN [handler[n] EXCEPT !.phase = "closed"]
                           ELSE handler[n]]
  /\ wire' = [n \in ConnIds |-> <<>>]
  /\ UNCHANGED <<host, events, client, hello, renewed>>

-----------------------------------------------------------------------------
Terminal == Output \/ Metadata \/ Winch \/ Exit

Client == \/ Dial \/ DialFails \/ Refused \/ Drain \/ Connected \/ RepeatTitle
          \/ RepeatCwd \/ PumpOutput \/ PumpResize \/ PumpMetadata \/ PumpExit
          \/ Disconnect

Relay == \/ \E n \in ConnIds : \/ Resume(n) \/ Create(n) \/ ResumeResizes(n)
                               \/ Ack(n) \/ Take(n) \/ Apply(n) \/ HandlerEnds(n)
         \/ Restart

Next == Terminal \/ Client \/ Relay

Spec == Init /\ [][Next]_vars

-----------------------------------------------------------------------------
(* What the relay ends up knowing of the terminal. *)

\* All there was to tell has been told, over the connection that holds the
\* session now, or the session has ended with its exit.
Told(id) ==
  \/ sessions[id].status = "ended"
  \/ /\ client.phase = "pump" /\ client.id = id /\ events = <<>>
     /\ handler[client.conn].phase = "pump" /\ wire[client.conn] = <<>>
     /\ Current(client.conn)

\* Once all has been told the relay shows the terminal's last title, whichever
\* connections broke with it on its way, and the last directory the client
\* recorded; unless an effect strayed or the session replaces a lost one.
TitleFollows ==
  \A id \in Ids :
    Told(id) /\ sessions[id].strays = 0 /\ ~renewed =>
      /\ sessions[id].shown.title = host.title
      /\ sessions[id].shown.cwd = client.cwd

\* So it does its size, also in a session that replaces a lost one.
SizeFollows ==
  \A id \in Ids :
    Told(id) /\ sessions[id].strays = 0 => sessions[id].shown.size = host.size

\* Output reaches a session in the order the terminal wrote it and not twice,
\* whatever connections carry it, but for a frame that an older handler had
\* already compared epochs for.
OutputInOrder ==
  \A id \in Ids : sessions[id].strays = 0 => sessions[id].inOrder

\* A connection that was replaced has at most one effect left on the session:
\* the frame it had compared epochs for, or the resize of its own resume.
OneStrayEach == \A id \in Ids : sessions[id].strays <= sessions[id].epoch

=============================================================================
