---------------------------- MODULE PlainMirror ----------------------------
(***************************************************************************)
(* A session without end-to-end encryption as its viewers see it: the      *)
(* relay keeps a terminal of its own and the newest output                 *)
(* (src/server/session.rs), tells viewers of every change through a        *)
(* broadcast ring, and each viewer's task (src/server/view.rs) forwards    *)
(* what it receives to a browser (web/session.html).  The handlers of the  *)
(* producers that took the session over (src/server/produce.rs), one for   *)
(* each epoch, are here as far as they change what viewers see: an old one *)
(* may still have a frame in hand when the next resumes, and resume itself *)
(* says Live and resizes after it released the lock.                       *)
(*                                                                         *)
(* A screen is the number of the newest output chunk on it, with none      *)
(* before it missing since it was last reset and none applied twice, and   *)
(* the size its lines are wrapped for.                                     *)
(***************************************************************************)
EXTENDS Integers, Sequences

CONSTANTS Viewers, Titles, Sizes, NoTitle,
          RingSize,    \* BROADCAST_CAPACITY
          HistoryCap,  \* history_bytes
          ChunkSizes,  \* sizes of an output chunk
          MaxChunks,   \* bound: chunks of output
          MaxEpoch     \* bound: resumes, each with a handler of its own

ASSUME MirrorAssumption ==
  /\ NoTitle \notin Titles
  /\ 0 \notin Sizes  \* clamp_size
  /\ RingSize \in Nat \ {0}
  /\ HistoryCap \in Nat /\ ChunkSizes \subseteq Nat \ {0}
  /\ MaxChunks \in Nat /\ MaxEpoch \in Nat

VARIABLES
  session,     \* State: screen, size, title, status, epoch, history, its length
  handler,     \* by epoch: where it is
  late,        \* history: the last thing said of the status was a resume's Live,
               \* and the session was no longer live when it was sent
  viewer       \* its receiver (queue, lagged), the join's payload it has still
               \* to write (backlog), what its browser shows; history: strayed

vars == <<session, handler, late, viewer>>

Garbled == -1  \* a chunk is missing or was applied twice
Blank == -2    \* just reset, about to be given the history
Live == session.status = "live"

Statuses == {"live", "stale", "ended"}

\* announce: resume has released the lock; resize: it has sent Live; pump:
\* waiting for a frame; apply: with one in hand, its epoch found to be the newest.
Phases == {"gone", "announce", "resize", "pump", "apply"}
Frames == [kind : {"data"}, n : Nat, size : Nat]
          \cup [kind : {"dump"}, n : Nat, wrap : Sizes]
          \cup [kind : {"resize"}, size : Sizes]
          \cup [kind : {"title"}, title : Titles]
          \cup [kind : {"status"}, status : Statuses]
          \cup [kind : {"reset"}]

TypeOK ==
  /\ session \in [n : 0..MaxChunks, size : Sizes, title : Titles \cup {NoTitle},
                  status : Statuses, epoch : 0..MaxEpoch, history : Seq(Frames),
                  historyLen : Nat]
  /\ handler \in [0..MaxEpoch -> Phases]
  /\ late \in BOOLEAN
  /\ viewer \in [Viewers -> [on : BOOLEAN, strayed : BOOLEAN, lagged : BOOLEAN,
                             backlog : Seq(Frames), queue : Seq(Frames),
                             n : Nat \cup {Garbled, Blank},
                             wrap : Sizes \cup {0}, size : Sizes \cup {0},
                             title : Titles \cup {NoTitle}, status : Statuses]]

Away == [on |-> FALSE, strayed |-> FALSE, lagged |-> FALSE, backlog |-> <<>>,
         queue |-> <<>>, n |-> 0, wrap |-> 0, size |-> 0, title |-> NoTitle,
         status |-> "live"]

Init ==
  /\ session \in [n : {0}, size : Sizes, title : {NoTitle}, status : {"live"},
                  epoch : {0}, history : {<<>>}, historyLen : {0}]
  /\ handler = [e \in 0..MaxEpoch |-> IF e = 0 THEN "pump" ELSE "gone"]
  /\ late = FALSE
  /\ viewer = [v \in Viewers |-> Away]

-----------------------------------------------------------------------------
(* The relay: each operation of Session under its lock.                    *)

Newest(queue) ==
  SubSeq(queue, IF Len(queue) > RingSize THEN Len(queue) - RingSize + 1 ELSE 1,
         Len(queue))

Gets(w, frames) ==
  LET queue == w.queue \o frames
      lost == Len(queue) > RingSize
  IN [w EXCEPT !.queue = Newest(queue), !.lagged = w.lagged \/ lost,
               !.strayed = w.strayed \/ lost]

\* tx.send, of one frame or of several under one lock.
Broadcast(frames) ==
  viewer' = [v \in Viewers |->
    IF viewer[v].on THEN Gets(viewer[v], frames) ELSE viewer[v]]

\* Mutant: at most one chunk leaves.
EvictedOnce(history) ==
  LET total[k \in 0..Len(history)] ==
        IF k = 0 THEN 0 ELSE total[k - 1] + history[k].size
      length == total[Len(history)]
  IN IF length <= HistoryCap \/ Len(history) = 1
     THEN [history |-> history, length |-> length]
     ELSE [history |-> Tail(history), length |-> length - history[1].size]

\* Chunks leave at the front while the history is too long, but one stays.
Evicted(history) ==
  LET total[k \in 0..Len(history)] ==
        IF k = 0 THEN 0 ELSE total[k - 1] + history[k].size
      length(i) == total[Len(history)] - total[i - 1]
      Fits(i) == length(i) <= HistoryCap \/ i = Len(history)
      first == CHOOSE i \in 1..Len(history) :
                 Fits(i) /\ \A j \in 1..(i - 1) : ~Fits(j)
  IN [history |-> SubSeq(history, first, Len(history)),
      length |-> length(first)]

Feed ==
  /\ session.n < MaxChunks
  /\ \E size \in ChunkSizes :
       LET chunk == [kind |-> "data", n |-> session.n + 1, size |-> size]
           kept == Evicted(Append(session.history, chunk))
       IN /\ session' = [session EXCEPT !.n = @ + 1, !.history = kept.history,
                                        !.historyLen = kept.length]
          /\ Broadcast(<<chunk>>)
  /\ UNCHANGED late

SetTitle ==
  /\ \E title \in Titles \ {session.title} :
       /\ session' = [session EXCEPT !.title = title]
       /\ Broadcast(<<[kind |-> "title", title |-> title]>>)
  /\ UNCHANGED late

\* Mutant: no dump follows.
ResizeToUndumped(size) ==
  IF size = session.size
  THEN UNCHANGED <<session, viewer>>
  ELSE /\ session' = [session EXCEPT !.size = size]
       /\ Broadcast(<<[kind |-> "resize", size |-> size]>>)

\* A dump follows, for the viewer's terminal wraps its lines on its own.
ResizeTo(size) ==
  IF size = session.size
  THEN UNCHANGED <<session, viewer>>
  ELSE /\ session' = [session EXCEPT !.size = size]
       /\ Broadcast(<<[kind |-> "resize", size |-> size],
                      [kind |-> "dump", n |-> session.n, wrap |-> size]>>)

Resize ==
  /\ \E size \in Sizes : ResizeTo(size)
  /\ UNCHANGED late

\* mark_exit and mark_disconnected: the status and the word of it, under one lock.
Leaves(status) ==
  /\ session' = [session EXCEPT !.status = status]
  /\ Broadcast(<<[kind |-> "status", status |-> status]>>)
  /\ late' = FALSE

-----------------------------------------------------------------------------
(* A producer's handler: resume in its three steps, then the pump.         *)

\* What resume does under its lock.
Resume ==
  /\ session.epoch < MaxEpoch
  /\ session' = [session EXCEPT !.status = "live", !.epoch = @ + 1]
  /\ handler' = [handler EXCEPT ![session.epoch + 1] = "announce"]
  /\ late' = FALSE
  /\ UNCHANGED viewer

\* Live is sent without the lock, whatever has become of the session.
Announce(e) ==
  /\ handler[e] = "announce"
  /\ Broadcast(<<[kind |-> "status", status |-> "live"]>>)
  /\ handler' = [handler EXCEPT ![e] = "resize"]
  /\ late' = ~Live
  /\ UNCHANGED session

\* The size of the hello, under the lock again; then the ack, and when its send
\* fails the handler returns.
ResumeResizes(e) ==
  /\ handler[e] = "resize"
  /\ Resize
  /\ \E phase \in {"pump", "gone"} :
       handler' = [handler EXCEPT ![e] = phase]

\* pump reads the epoch under one lock, and applies the frame under another.
Take(e) ==
  /\ handler[e] = "pump" /\ session.epoch = e
  /\ handler' = [handler EXCEPT ![e] = "apply"]
  /\ UNCHANGED <<session, late, viewer>>

Apply(e) ==
  /\ handler[e] = "apply"
  /\ Feed \/ SetTitle \/ Resize \/ Leaves("ended")
  /\ handler' = [handler EXCEPT ![e] = "pump"]

\* The connection ends, or its epoch is over: mark_disconnected.  A handler that
\* marked the exit does not call it; the call would find the session not live or
\* the epoch over.
PumpEnds(e) ==
  /\ handler[e] \in {"pump", "apply"}
  /\ handler' = [handler EXCEPT ![e] = "gone"]
  /\ IF session.epoch = e /\ Live
     THEN Leaves("stale")
     ELSE UNCHANGED <<session, late, viewer>>

-----------------------------------------------------------------------------
(* A viewer: its task in the relay and its browser.                        *)

Dump == [kind |-> "dump", n |-> session.n, wrap |-> session.size]

\* The init frame carries the state, the payload the screen: a dump, or the
\* history on a blank terminal.
Join(v) ==
  /\ viewer' = [viewer EXCEPT ![v] =
       [Away EXCEPT
          !.on = TRUE, !.size = session.size, !.title = session.title,
          !.status = session.status, !.wrap = session.size,
          !.backlog = IF Live \/ session.history = <<>>
                      THEN <<Dump>>
                      ELSE <<[kind |-> "reset"]>> \o session.history]]
  /\ UNCHANGED <<session, handler, late>>

Leave(v) ==
  /\ viewer[v].on
  /\ viewer' = [viewer EXCEPT ![v] = Away]
  /\ UNCHANGED <<session, handler, late>>

\* onControl and term.write.
Shows(w, frame) ==
  CASE frame.kind = "data" ->
         [w EXCEPT !.n = IF @ \in {Blank, frame.n - 1} THEN frame.n ELSE Garbled]
    [] frame.kind = "dump" -> [w EXCEPT !.n = frame.n, !.wrap = frame.wrap]
    [] frame.kind = "reset" -> [w EXCEPT !.n = Blank, !.wrap = w.size]
    [] frame.kind = "resize" -> [w EXCEPT !.size = frame.size]
    [] frame.kind = "title" -> [w EXCEPT !.title = frame.title]
    [] frame.kind = "status" -> [w EXCEPT !.status = frame.status]

\* recv says Lagged: a dump of the screen as it is now, then on with the oldest
\* frame the ring still has.
Resync(v) ==
  /\ viewer[v].on /\ viewer[v].lagged /\ viewer[v].backlog = <<>>
  /\ viewer' = [viewer EXCEPT
       ![v] = [Shows(viewer[v], Dump) EXCEPT !.lagged = FALSE]]
  /\ UNCHANGED <<session, handler, late>>

Receive(v) ==
  /\ viewer[v].on
  /\ LET w == viewer[v] IN
       \/ /\ w.backlog # <<>>
          /\ viewer' = [viewer EXCEPT
               ![v] = [Shows(w, Head(w.backlog)) EXCEPT !.backlog = Tail(w.backlog)]]
       \/ /\ w.backlog = <<>> /\ ~w.lagged
          /\ w.queue # <<>>
          /\ viewer' = [viewer EXCEPT
               ![v] = [Shows(w, Head(w.queue)) EXCEPT !.queue = Tail(w.queue)]]
  /\ UNCHANGED <<session, handler, late>>

Producer ==
  \/ Resume
  \/ \E e \in 0..MaxEpoch :
       Announce(e) \/ ResumeResizes(e) \/ Take(e) \/ Apply(e) \/ PumpEnds(e)

Next ==
  \/ Producer
  \/ \E v \in Viewers : Join(v) \/ Leave(v) \/ Resync(v) \/ Receive(v)

Spec == Init /\ [][Next]_vars

-----------------------------------------------------------------------------
CaughtUp(v) ==
  /\ viewer[v].on /\ ~viewer[v].lagged
  /\ viewer[v].backlog = <<>> /\ viewer[v].queue = <<>>

ShowsScreen(v) == viewer[v].n = session.n /\ viewer[v].wrap = session.size

\* The status a viewer that has read all may show: the session's, but for a
\* resume that has yet to say Live, and for a Live that was said too late.
Told(status) ==
  \/ status = session.status
  \/ Live /\ handler[session.epoch] = "announce"
  \/ late /\ status = "live"

ShowsState(v) ==
  /\ viewer[v].size = session.size /\ viewer[v].title = session.title
  /\ Told(viewer[v].status)

\* A viewer that never lost a frame shows the session's screen, size and title
\* once it has read all there is, through overlapping takeovers: joining under
\* the lock that each of them is changed and broadcast under leaves no change
\* unseen and applies none twice.  The status is weaker, for resume says Live
\* without the lock: it is the session's, but until the newest resume's Live, and
\* when a resume's Live was the last word on a session that had left live before.
FollowsTheSession ==
  \A v \in Viewers :
    CaughtUp(v) /\ ~viewer[v].strayed => ShowsScreen(v) /\ ShowsState(v)

\* The history is the newest output without a gap, and within its cap unless a
\* single chunk is larger.
HistoryIsNewest ==
  /\ \A i \in 1..Len(session.history) :
       session.history[i].n = session.n - Len(session.history) + i
  /\ session.historyLen <= HistoryCap \/ Len(session.history) = 1

\* session.rs, a_lagging_viewer_can_resync_from_an_accurate_dump: the dump a
\* lagging viewer is sent shows it the current screen.
LaggingViewerResyncs ==
  \A v \in Viewers : CaughtUp(v) => ShowsScreen(v)

=============================================================================
