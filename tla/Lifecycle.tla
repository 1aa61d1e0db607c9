----------------------------- MODULE Lifecycle -----------------------------
(***************************************************************************)
(* The life of a session in the relay: producer connections that create,   *)
(* resume, end and lose it (src/server/produce.rs), the session's own      *)
(* state under its one mutex (src/server/session.rs), viewers that type    *)
(* into it (src/server/view.rs) and the reaper that forgets it.            *)
(*                                                                         *)
(* A step is one critical section of Session's mutex, one operation on the *)
(* concurrent map of sessions, or one send or receive on a socket: that is *)
(* where the tasks of the relay can interleave.  What a session shows is   *)
(* the subject of EncryptedStream and PlainMirror; frames that only carry  *)
(* output leave every variable of this module alone.                       *)
(***************************************************************************)
EXTENDS Integers, FiniteSets

CONSTANTS Conns,    \* producer connections, each served by one handler task
          Viewers,  \* browser sockets watching a session
          Ids,      \* session ids the relay can draw (bounds the sessions)
          NoConn, NoId,
          MaxKeys   \* bound: keystrokes waiting in one input channel

ASSUME LifecycleAssumption ==
  /\ NoConn \notin Conns
  /\ NoId \notin Ids
  /\ MaxKeys \in Nat

VARIABLES
  \* The State of each session, guarded by its mutex.
  status,      \* absent (never created), live, stale or ended
  current,     \* its epoch
  allowInput,
  input,       \* the connection whose input channel it holds
  expired,     \* terminal_at plus the ttl of its status has passed
  \* The relay at large.
  store,       \* ids listed in the Store
  known,       \* ids a producer has been told in a HelloAck
  shown,       \* what the newest status-bearing broadcast of a session says
  \* The handler of each producer connection.
  pc,
  consent,     \* the input flag of the Hello it read
  target,      \* the session it attached to
  epoch,       \* the epoch it was given
  clean,       \* its clean_exit
  lost,        \* its peer is gone or silent: nothing more will arrive
  inbox,       \* keystrokes waiting in its input channel
  \* Viewers: the session they hold and their may_write.
  watching, mayWrite,
  \* The reaper: ids its iterator has still to visit, the one it is testing, the
  \* ones it will remove; history: the epoch it read their status at.
  todo, testing, doomed, seen

sessionVars == <<status, current, allowInput, input, expired>>
handlerVars == <<pc, consent, target, epoch, clean, lost>>
viewerVars == <<watching, mayWrite>>
reaperVars == <<todo, testing, doomed, seen>>
vars == <<sessionVars, store, known, shown, handlerVars, inbox, viewerVars,
          reaperVars>>

Terminal == {"stale", "ended"}

Labels == {"hello", "created", "resume", "announce", "ack", "unacked", "input",
           "pump", "exit", "detach", "disconnect", "gone"}

TypeOK ==
  /\ status \in [Ids -> {"absent", "live"} \cup Terminal]
  /\ current \in [Ids -> Nat]
  /\ allowInput \in [Ids -> BOOLEAN]
  /\ input \in [Ids -> Conns \cup {NoConn}]
  /\ expired \in [Ids -> BOOLEAN]
  /\ store \subseteq Ids
  /\ known \subseteq Ids
  /\ shown \in [Ids -> {"absent", "live"} \cup Terminal]
  /\ pc \in [Conns -> Labels]
  /\ consent \in [Conns -> BOOLEAN]
  /\ target \in [Conns -> Ids \cup {NoId}]
  /\ epoch \in [Conns -> Nat]
  /\ clean \in [Conns -> BOOLEAN]
  /\ lost \in [Conns -> BOOLEAN]
  /\ inbox \in [Conns -> 0..MaxKeys]
  /\ watching \in [Viewers -> Ids \cup {NoId}]
  /\ mayWrite \in [Viewers -> BOOLEAN]
  /\ todo \subseteq Ids
  /\ testing \in Ids \cup {NoId}
  /\ doomed \subseteq Ids
  /\ seen \in [Ids -> Nat]

Init ==
  /\ status = [id \in Ids |-> "absent"]
  /\ current = [id \in Ids |-> 0]
  /\ allowInput = [id \in Ids |-> FALSE]
  /\ input = [id \in Ids |-> NoConn]
  /\ expired = [id \in Ids |-> FALSE]
  /\ store = {}
  /\ known = {}
  /\ shown = [id \in Ids |-> "absent"]
  /\ pc = [c \in Conns |-> "hello"]
  /\ consent = [c \in Conns |-> FALSE]
  /\ target = [c \in Conns |-> NoId]
  /\ epoch = [c \in Conns |-> 0]
  /\ clean = [c \in Conns |-> FALSE]
  /\ lost = [c \in Conns |-> FALSE]
  /\ inbox = [c \in Conns |-> 0]
  /\ watching = [v \in Viewers |-> NoId]
  /\ mayWrite = [v \in Viewers |-> FALSE]
  /\ todo = {} /\ testing = NoId /\ doomed = {}
  /\ seen = [id \in Ids |-> 0]

-----------------------------------------------------------------------------
(* The producer's handler: produce::handle and the calls it makes.         *)

Goto(c, label) == pc' = [pc EXCEPT ![c] = label]

\* The handler of c holds the epoch its session has now.
Current(c) == current[target[c]] = epoch[c]

\* The handler returns: its locals and its socket are gone with it.
Return(c) ==
  /\ Goto(c, "gone")
  /\ consent' = [consent EXCEPT ![c] = FALSE]
  /\ target' = [target EXCEPT ![c] = NoId]
  /\ epoch' = [epoch EXCEPT ![c] = 0]
  /\ clean' = [clean EXCEPT ![c] = FALSE]
  /\ lost' = [lost EXCEPT ![c] = TRUE]

\* No hello, a bad one, a producer turned away by authorize, or one that speaks
\* another encryption mode than the session it wants to resume.
Refuse(c) ==
  /\ pc[c] = "hello"
  /\ Return(c)
  /\ UNCHANGED <<sessionVars, store, known, shown, inbox, viewerVars, reaperVars>>

\* A hello that resumes a listed session; the producer learnt the id, 128 random
\* bits, from an ack.  attach keeps the Arc; the lock comes later.  Reading the
\* hello and looking the id up, twice, is one step: only the reaper can make
\* the two looks differ, and a session it removes in between is as good as
\* removed before.
Find(c) ==
  /\ pc[c] = "hello"
  /\ \E id \in known \cap store, wants \in BOOLEAN :
       /\ target' = [target EXCEPT ![c] = id]
       /\ consent' = [consent EXCEPT ![c] = wants]
  /\ Goto(c, "resume")
  /\ UNCHANGED <<sessionVars, store, known, shown, epoch, clean, lost, inbox,
                 viewerVars, reaperVars>>

\* A hello that resumes nothing, or a session that is no longer listed.
Create(c) ==
  /\ pc[c] = "hello"
  /\ \E id \in {i \in Ids : status[i] = "absent"}, wants \in BOOLEAN :
       /\ status' = [status EXCEPT ![id] = "live"]
       /\ allowInput' = [allowInput EXCEPT ![id] = wants]
       /\ store' = store \cup {id}
       /\ shown' = [shown EXCEPT ![id] = "live"]
       /\ target' = [target EXCEPT ![c] = id]
       /\ consent' = [consent EXCEPT ![c] = wants]
  /\ Goto(c, "created")
  /\ UNCHANGED <<current, input, expired, known, epoch, clean, lost, inbox,
                 viewerVars, reaperVars>>

\* The epoch of a new session is read under a lock of its own.
ReadEpoch(c) ==
  /\ pc[c] = "created"
  /\ epoch' = [epoch EXCEPT ![c] = current[target[c]]]
  /\ Goto(c, "ack")
  /\ UNCHANGED <<sessionVars, store, known, shown, consent, target, clean, lost,
                 inbox, viewerVars, reaperVars>>

\* Mutants: the epoch is not moved on; the permission is not replaced.
ResumeSameEpoch(c) ==
  /\ pc[c] = "resume"
  /\ LET id == target[c] IN
       /\ allowInput' = [allowInput EXCEPT ![id] = consent[c]]
       /\ input' = [input EXCEPT ![id] = NoConn]
       /\ status' = [status EXCEPT ![id] = "live"]
       /\ expired' = [expired EXCEPT ![id] = FALSE]
       /\ epoch' = [epoch EXCEPT ![c] = current[id]]
  /\ Goto(c, "announce")
  /\ UNCHANGED <<current, store, known, shown, consent, target, clean, lost,
                 inbox, viewerVars, reaperVars>>

ResumeKeepsPermission(c) ==
  /\ pc[c] = "resume"
  /\ LET id == target[c] IN
       /\ current' = [current EXCEPT ![id] = @ + 1]
       /\ input' = [input EXCEPT ![id] = NoConn]
       /\ status' = [status EXCEPT ![id] = "live"]
       /\ expired' = [expired EXCEPT ![id] = FALSE]
       /\ epoch' = [epoch EXCEPT ![c] = current[id] + 1]
  /\ Goto(c, "announce")
  /\ UNCHANGED <<allowInput, store, known, shown, consent, target, clean, lost,
                 inbox, viewerVars, reaperVars>>

Resume(c) ==
  /\ pc[c] = "resume"
  /\ LET id == target[c] IN
       /\ current' = [current EXCEPT ![id] = @ + 1]
       /\ allowInput' = [allowInput EXCEPT ![id] = consent[c]]
       /\ input' = [input EXCEPT ![id] = NoConn]
       /\ status' = [status EXCEPT ![id] = "live"]
       /\ expired' = [expired EXCEPT ![id] = FALSE]
       /\ epoch' = [epoch EXCEPT ![c] = current[id] + 1]
  /\ Goto(c, "announce")
  /\ UNCHANGED <<store, known, shown, consent, target, clean, lost, inbox,
                 viewerVars, reaperVars>>

\* Mutant: nothing is broadcast.
AnnounceNothing(c) ==
  /\ pc[c] = "announce"
  /\ Goto(c, "ack")
  /\ UNCHANGED <<sessionVars, store, known, shown, consent, target, epoch, clean,
                 lost, inbox, viewerVars, reaperVars>>

\* resume broadcasts the new status after it dropped the lock.
Announce(c) ==
  /\ pc[c] = "announce"
  /\ shown' = [shown EXCEPT ![target[c]] = "live"]
  /\ Goto(c, "ack")
  /\ UNCHANGED <<sessionVars, store, known, consent, target, epoch, clean, lost,
                 inbox, viewerVars, reaperVars>>

SendAck(c) ==
  /\ pc[c] = "ack"
  /\ known' = known \cup {target[c]}
  /\ Goto(c, "input")
  /\ UNCHANGED <<sessionVars, store, shown, consent, target, epoch, clean, lost,
                 inbox, viewerVars, reaperVars>>

\* The handler returns at once: neither detach_input nor mark_disconnected.  What
\* it held is kept in its locals for the properties.
AckFails(c) ==
  /\ pc[c] = "ack"
  /\ lost[c]
  /\ Goto(c, "unacked")
  /\ UNCHANGED <<sessionVars, store, known, shown, consent, target, epoch, clean,
                 lost, inbox, viewerVars, reaperVars>>

\* Mutant: the epochs are not compared.
AttachInputUnfenced(c) ==
  /\ pc[c] = "input"
  /\ input' = [input EXCEPT ![target[c]] = c]
  /\ Goto(c, "pump")
  /\ UNCHANGED <<status, current, allowInput, expired, store, known, shown,
                 consent, target, epoch, clean, lost, inbox, viewerVars,
                 reaperVars>>

AttachInput(c) ==
  /\ pc[c] = "input"
  /\ input' = IF Current(c) THEN [input EXCEPT ![target[c]] = c] ELSE input
  /\ Goto(c, "pump")
  /\ UNCHANGED <<status, current, allowInput, expired, store, known, shown,
                 consent, target, epoch, clean, lost, inbox, viewerVars,
                 reaperVars>>

\* pump receives an Exit and compares epochs; the exit is applied later, under
\* another lock.  A client sends one Exit on a connection.
ReceiveExit(c) ==
  /\ pc[c] = "pump"
  /\ ~lost[c]
  /\ ~clean[c]
  /\ Goto(c, IF Current(c) THEN "exit" ELSE "detach")
  /\ UNCHANGED <<sessionVars, store, known, shown, consent, target, epoch, clean,
                 lost, inbox, viewerVars, reaperVars>>

MarkExit(c) ==
  /\ pc[c] = "exit"
  /\ LET id == target[c] IN
       /\ status' = [status EXCEPT ![id] = "ended"]
       /\ input' = [input EXCEPT ![id] = NoConn]
       /\ expired' = [expired EXCEPT ![id] = FALSE]
       /\ shown' = [shown EXCEPT ![id] = "ended"]
  /\ clean' = [clean EXCEPT ![c] = TRUE]
  /\ Goto(c, "pump")
  /\ UNCHANGED <<current, allowInput, store, known, consent, target, epoch, lost,
                 inbox, viewerVars, reaperVars>>

\* Mutants: a stream that ends counts as an exit; a silent peer is waited for.
PumpEndsAsExit(c) ==
  /\ pc[c] = "pump"
  /\ clean' = [clean EXCEPT ![c] = TRUE]
  /\ Goto(c, "detach")
  /\ UNCHANGED <<sessionVars, store, known, shown, consent, target, epoch, lost,
                 inbox, viewerVars, reaperVars>>

PumpEndsUnlessSilent(c) ==
  /\ pc[c] = "pump"
  /\ ~lost[c]
  /\ Goto(c, "detach")
  /\ UNCHANGED <<sessionVars, store, known, shown, consent, target, epoch, clean,
                 lost, inbox, viewerVars, reaperVars>>

\* The loop breaks: the stream ended or closed, nothing came for
\* producer_timeout, a frame was refused, or a frame found a newer epoch.
PumpEnds(c) ==
  /\ pc[c] = "pump"
  /\ Goto(c, "detach")
  /\ UNCHANGED <<sessionVars, store, known, shown, consent, target, epoch, clean,
                 lost, inbox, viewerVars, reaperVars>>

\* downstream.abort drops what the input channel still holds.
DetachInput(c) ==
  /\ pc[c] = "detach"
  /\ input' = IF Current(c) THEN [input EXCEPT ![target[c]] = NoConn] ELSE input
  /\ inbox' = [inbox EXCEPT ![c] = 0]
  /\ \/ clean[c] /\ Return(c)
     \/ /\ ~clean[c]
        /\ Goto(c, "disconnect")
        /\ UNCHANGED <<consent, target, epoch, clean, lost>>
  /\ UNCHANGED <<status, current, allowInput, expired, store, known, shown,
                 viewerVars, reaperVars>>

\* Mutant: the epochs are not compared.
MarkDisconnectedUnfenced(c) ==
  /\ pc[c] = "disconnect"
  /\ LET id == target[c] IN
       IF status[id] = "live"
       THEN /\ status' = [status EXCEPT ![id] = "stale"]
            /\ input' = [input EXCEPT ![id] = NoConn]
            /\ expired' = [expired EXCEPT ![id] = FALSE]
            /\ shown' = [shown EXCEPT ![id] = "stale"]
       ELSE UNCHANGED <<status, input, expired, shown>>
  /\ Return(c)
  /\ UNCHANGED <<current, allowInput, store, known, inbox, viewerVars, reaperVars>>

MarkDisconnected(c) ==
  /\ pc[c] = "disconnect"
  /\ LET id == target[c] IN
       IF Current(c) /\ status[id] = "live"
       THEN /\ status' = [status EXCEPT ![id] = "stale"]
            /\ input' = [input EXCEPT ![id] = NoConn]
            /\ expired' = [expired EXCEPT ![id] = FALSE]
            /\ shown' = [shown EXCEPT ![id] = "stale"]
       ELSE UNCHANGED <<status, input, expired, shown>>
  /\ Return(c)
  /\ UNCHANGED <<current, allowInput, store, known, inbox, viewerVars, reaperVars>>

-----------------------------------------------------------------------------
(* Keystrokes, the peer, the clock and the reaper.                         *)

\* A viewer's upgrade: may_write is decided once, from the permission the
\* session has now and the viewer's own right to write.
Watch(v) ==
  /\ \E id \in store, mayType \in BOOLEAN :
       /\ watching' = [watching EXCEPT ![v] = id]
       /\ mayWrite' = [mayWrite EXCEPT ![v] = allowInput[id] /\ mayType]
  /\ UNCHANGED <<sessionVars, store, known, shown, handlerVars, inbox,
                 reaperVars>>

\* send_input; a keystroke it refuses changes nothing.
SendInput(v) ==
  /\ mayWrite[v]
  /\ LET id == watching[v] IN
       /\ allowInput[id]
       /\ status[id] = "live"
       /\ input[id] # NoConn
       /\ inbox[input[id]] < MaxKeys
       /\ inbox' = [inbox EXCEPT ![input[id]] = @ + 1]
  /\ UNCHANGED <<sessionVars, store, known, shown, handlerVars, viewerVars,
                 reaperVars>>

\* Mutant: keystrokes are counted off without looking whether there is one.
DownstreamUnchecked(c) ==
  /\ pc[c] = "pump"
  /\ inbox' = [inbox EXCEPT ![c] = @ - 1]
  /\ UNCHANGED <<sessionVars, store, known, shown, handlerVars, viewerVars,
                 reaperVars>>

\* The downstream task forwards a keystroke to the host, also when the session
\* has passed to another connection in the meantime.
Downstream(c) ==
  /\ inbox[c] > 0
  /\ inbox' = [inbox EXCEPT ![c] = @ - 1]
  /\ UNCHANGED <<sessionVars, store, known, shown, handlerVars, viewerVars,
                 reaperVars>>

\* The peer dies or its network does.  What was under way is taken as received
\* before; a loss shows only where the handler is about to use the socket.
Lose(c) ==
  /\ ~lost[c]
  /\ pc[c] \in {"ack", "pump"}
  /\ lost' = [lost EXCEPT ![c] = TRUE]
  /\ UNCHANGED <<sessionVars, store, known, shown, pc, consent, target, epoch,
                 clean, inbox, viewerVars, reaperVars>>

\* Time passes: the ttl of a terminal session runs out.
Elapse(id) ==
  /\ status[id] \in Terminal
  /\ ~expired[id]
  /\ expired' = [expired EXCEPT ![id] = TRUE]
  /\ UNCHANGED <<status, current, allowInput, input, store, known, shown,
                 handlerVars, inbox, viewerVars, reaperVars>>

\* The ticker of mod.rs calls reap: iterate, filter, collect, then remove.
SweepBegins ==
  /\ todo = {} /\ testing = NoId /\ doomed = {}
  /\ todo' = store
  /\ UNCHANGED <<sessionVars, store, known, shown, handlerVars, inbox,
                 viewerVars, testing, doomed, seen>>

\* Mutant: the status is not looked at; expires_in is None for a live session.
ReadStatusOfAny(id) ==
  /\ testing = NoId
  /\ id \in todo
  /\ todo' = todo \ {id}
  /\ testing' = id /\ seen' = [seen EXCEPT ![id] = current[id]]
  /\ UNCHANGED <<sessionVars, store, known, shown, handlerVars, inbox,
                 viewerVars, doomed>>

ReadStatus(id) ==
  /\ testing = NoId
  /\ id \in todo
  /\ todo' = todo \ {id}
  /\ IF status[id] \in Terminal
     THEN testing' = id /\ seen' = [seen EXCEPT ![id] = current[id]]
     ELSE UNCHANGED <<testing, seen>>
  /\ UNCHANGED <<sessionVars, store, known, shown, handlerVars, inbox,
                 viewerVars, doomed>>

\* Mutant: only an ended session has a ttl.
ReadExpiryOfEnded ==
  /\ testing # NoId
  /\ IF status[testing] = "ended" /\ expired[testing]
     THEN doomed' = doomed \cup {testing} /\ UNCHANGED seen
     ELSE seen' = [seen EXCEPT ![testing] = 0] /\ UNCHANGED doomed
  /\ testing' = NoId
  /\ UNCHANGED <<sessionVars, store, known, shown, handlerVars, inbox,
                 viewerVars, todo>>

\* expires_in, under a lock of its own, is None for a live session as well as
\* for an expired one.
ReadExpiry ==
  /\ testing # NoId
  /\ IF status[testing] = "live" \/ expired[testing]
     THEN doomed' = doomed \cup {testing} /\ UNCHANGED seen
     ELSE seen' = [seen EXCEPT ![testing] = 0] /\ UNCHANGED doomed
  /\ testing' = NoId
  /\ UNCHANGED <<sessionVars, store, known, shown, handlerVars, inbox,
                 viewerVars, todo>>

Remove(id) ==
  /\ todo = {} /\ testing = NoId
  /\ id \in doomed
  /\ store' = store \ {id}
  /\ doomed' = doomed \ {id}
  /\ seen' = [seen EXCEPT ![id] = 0]
  /\ UNCHANGED <<sessionVars, known, shown, handlerVars, inbox, viewerVars,
                 todo, testing>>

-----------------------------------------------------------------------------
Handler(c) ==
  \/ ReadEpoch(c) \/ Resume(c) \/ Announce(c) \/ SendAck(c) \/ AckFails(c)
  \/ AttachInput(c) \/ MarkExit(c) \/ DetachInput(c) \/ MarkDisconnected(c)

Reaper ==
  \/ SweepBegins
  \/ \E id \in Ids : ReadStatus(id) \/ Remove(id)
  \/ ReadExpiry

Next ==
  \/ \E c \in Conns : \/ Refuse(c) \/ Find(c) \/ Create(c) \/ Handler(c)
                      \/ ReceiveExit(c) \/ PumpEnds(c) \/ Downstream(c)
                      \/ Lose(c)
  \/ \E v \in Viewers : Watch(v) \/ SendInput(v)
  \/ \E id \in Ids : Elapse(id)
  \/ Reaper

Spec == Init /\ [][Next]_vars

\* A spawned task runs on; a silent producer runs into producer_timeout (the
\* socket of one that is not silent may stay open for ever); time passes and
\* the reaper's ticker ticks.
Fairness ==
  /\ \A c \in Conns : WF_vars(Handler(c)) /\ WF_vars(lost[c] /\ PumpEnds(c))
  /\ \A id \in Ids : WF_vars(Elapse(id))
  /\ WF_vars(Reaper)

FairSpec == Spec /\ Fairness

-----------------------------------------------------------------------------
(* What must hold of a session whatever its producers and viewers do.      *)

\* The handler of c has taken the session over, under the epoch it holds.
Seated(c) == target[c] # NoId /\ pc[c] # "resume"

Holds(c, id) == Seated(c) /\ target[c] = id /\ epoch[c] = current[id]

\* A session's input channel is the one of the connection that holds its
\* current epoch, and of a handler that will still detach it: attach_input and
\* detach_input compare epochs, resume and the terminal marks drop the channel.
InputBelongsToHolder ==
  \A id \in Ids :
    LET c == input[id] IN
      c # NoConn => Holds(c, id) /\ pc[c] \in {"pump", "exit", "detach"}

\* Keystrokes reach only a host that asked for them in its own hello, also when
\* the session's permission was set by another connection before or since.
KeysNeedConsent ==
  \A c \in Conns : inbox[c] > 0 => consent[c]

\* An epoch of a session is held by one connection: the unguarded read of the
\* epoch in attach and the increment in resume never hand it out twice.
OneHolder ==
  \A c, d \in Conns :
    Seated(c) /\ Seated(d) /\ target[c] = target[d] /\ epoch[c] = epoch[d]
      => c = d

\* Behind a live session there is a handler that holds its epoch and will still
\* mark it disconnected or ended; the one exception is a producer that was gone
\* before its ack could be sent.
LiveHasHandler ==
  \A id \in Ids :
    status[id] = "live" =>
      \E c \in Conns : Holds(c, id) /\ ~clean[c] /\ pc[c] # "gone"

\* Viewers are told of every return to life: a session that is live and not
\* shown so has a broadcast by its current producer still to come.
LiveIsShown ==
  \A id \in Ids :
    status[id] = "live" /\ shown[id] # "live" =>
      \E c \in Conns : pc[c] = "announce" /\ Holds(c, id)

\* The reaper removes a session without looking at it again: unless a producer
\* resumed it since its status was read, it is as dead as it was then.
DoomedUnlessResumed ==
  \A id \in doomed :
    current[id] = seen[id] => status[id] \in Terminal

\* A producer whose host died stops being shown as the live producer of its
\* session: producer_timeout ends the pump, then detach_input and
\* mark_disconnected follow.
SilentProducerIsNoticed ==
  \A c \in Conns, id \in Ids :
    pc[c] = "pump" /\ lost[c] /\ Holds(c, id) /\ status[id] = "live"
      ~> ~(Holds(c, id) /\ status[id] = "live")

\* A session nobody brings back to life leaves the store: neither an exit that
\* restarts its ttl nor an endless row of sweeps keeps it there.
DisconnectedIsForgotten ==
  \A id \in Ids :
    id \in store /\ status[id] \in Terminal
      ~> id \notin store \/ status[id] = "live"

\* README, "Sessions": a session is live while its producer is connected.  No
\* handler serves a connection whose ack failed.
LiveHasProducer ==
  \A id \in Ids :
    status[id] = "live" =>
      \E c \in Conns : Holds(c, id) /\ pc[c] \notin {"unacked", "gone"}

\* README, "Sessions": a live session is kept while its producer is connected.
LiveIsListed ==
  \A c \in Conns, id \in Ids :
    Holds(c, id) /\ pc[c] = "pump" /\ status[id] = "live"
      => id \in store

\* The seat of a connection: what its handler took over.
SeatOf(c) ==
  IF Seated(c) THEN [id |-> target[c], gen |-> epoch[c]]
               ELSE [id |-> NoId, gen |-> 0]

Seat == [c \in Conns |-> SeatOf(c)]

Contract ==
  INSTANCE SessionContract WITH
    phase <- status, gen <- current, seat <- Seat, keys <- inbox

\* The relay keeps the contract of SessionContract: whatever handlers, viewers
\* and sweeps do to the mutex-guarded state, each step of it is one the contract
\* allows or leaves the contract's state alone.
KeepsContract == Contract!CSpec

=============================================================================
