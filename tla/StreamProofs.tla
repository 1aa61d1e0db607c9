---------------------------- MODULE StreamProofs ----------------------------
(***************************************************************************)
(* Theorems about EncryptedStream for any number of viewers, connections   *)
(* and changes, and any sizes and limits: the relay never refuses a frame  *)
(* of the connection that holds the session, whose length the host counts  *)
(* exactly, what it keeps can be replayed from nothing, and no viewer      *)
(* finds the stream incomplete or shows anything but what the host's       *)
(* terminal showed.                                                        *)
(***************************************************************************)
EXTENDS EncryptedStream, SequenceTheorems, TLAPS

Final(s) == s[Len(s)]

Screens == [ver : Nat, meta : Nat]
Receivers == [on : BOOLEAN, backlog : Seq(Frames), queue : Seq(Frames),
              lagged : BOOLEAN, last : Nat \cup {None}, failed : BOOLEAN,
              ver : Nat \cup {Garbled}, meta : Nat]

\* A delta needs what comes before it; a snapshot does not.
Follows(f, g) == ~Snapshot(g) => g.seq = f.seq + 1

Consecutive(s) == \A i \in 1..(Len(s) - 1) : Follows(s[i], s[i + 1])

-----------------------------------------------------------------------------
(* The inductive invariant. *)

\* In the phases in which a pump may send deltas.
Sending == client.phase \in {"up", "finish"}

Holds(n) == n \in open /\ epoch[n] = relay.epoch

\* Connections: one epoch each, and nothing under way on those that are not open, not
\* yet connected or about to send their first snapshot.
Links ==
  /\ \A n \in ConnIds : n \notin open => wire[n] = <<>>
  /\ \A n \in ConnIds : epoch[n] = None => n \notin open
  /\ \A n \in ConnIds : n > client.conn => epoch[n] = None
  /\ \A n \in ConnIds : epoch[n] <= relay.epoch
  /\ \A m, n \in ConnIds : epoch[m] = epoch[n] /\ epoch[m] # None => m = n
  /\ client.phase \in {"first", "dialing"} => wire[client.conn] = <<>>
  /\ client.phase \in {"first", "up", "finish"} => epoch[client.conn] # None

\* The log ends with the Sender's last number, and a pump that may send deltas has
\* sealed the screen as it is.
Logged ==
  /\ client.seq = Len(log)
  /\ Sending => log # <<>> /\ Final(log) = [ver |-> screen.ver, meta |-> screen.meta]

\* With the screens l sealed so far, a frame says what was sealed under its number,
\* and what it leaves to the frame before it to say has not changed since.
Truthful(l, f) ==
  /\ f.seq + 1 \in 1..Len(l)
  /\ f.size <= Budget
  /\ f.ver = l[f.seq + 1].ver
  /\ Snapshot(f) => f.meta = l[f.seq + 1].meta
  /\ ~Snapshot(f) => /\ f.seq > 0
                     /\ f.ver = l[f.seq].ver + 1
                     /\ l[f.seq + 1].meta = l[f.seq].meta
  /\ Snapshot(f) /\ f.checkpoint => f.seq > 0 /\ f.ver = l[f.seq].ver

AllTruthful(l, s) == \A i \in 1..Len(s) : Truthful(l, s[i])

Truths ==
  /\ \A n \in ConnIds : AllTruthful(log, wire[n])
  /\ AllTruthful(log, relay.history)
  /\ \A v \in Viewers : /\ AllTruthful(log, viewer[v].backlog)
                        /\ AllTruthful(log, viewer[v].queue)

\* The length a history of length start has after i frames of s, as the host counts
\* it; sending is whether s ends with what its pump sent last.
Counts(f, s, start) ==
  /\ f[0] = start
  /\ \A i \in 1..Len(s) :
       /\ f[i] = IF Snapshot(s[i]) THEN s[i].size ELSE f[i - 1] + s[i].size
       /\ f[i] <= Budget

Mirrors(s, start, sending, end) ==
  \E f \in [0..Len(s) -> Nat] :
    Counts(f, s, start) /\ (sending => f[Len(s)] = end)

\* What is under way continues the history h, and what is sent next both.
Continues(s, h, ready, sending, next) ==
  /\ Consecutive(s)
  /\ s # <<>> /\ ~Snapshot(s[1]) => ready /\ Follows(Final(h), s[1])
  /\ sending => IF s = <<>> THEN ready /\ next = Final(h).seq + 1
                ELSE next = Final(s).seq + 1

PathOf(n) ==
  LET sending == n = client.conn /\ Sending IN
    /\ Mirrors(wire[n], relay.historyLen, sending, client.historyLen)
    /\ Continues(wire[n], relay.history, relay.ready, sending, client.seq)

Path == \A n \in ConnIds : Holds(n) => PathOf(n)

Replayable == HistoryReplays /\ (relay.ready => relay.history # <<>>)

\* A delta that a browser gets next is one it has or the next one.
InReach(w, f) == ~Snapshot(f) => w.last # None /\ f.seq <= w.last + 1

\* What a viewer gets next is the backlog, then, unless it lagged, the queue, and then
\* what the relay will broadcast after the newest frame of its history h.
Gets(w, h) ==
  /\ Consecutive(w.backlog)
  /\ w.backlog # <<>> => InReach(w, w.backlog[1])
  /\ ~w.lagged =>
       /\ Consecutive(w.queue)
       /\ w.queue # <<>> => IF w.backlog # <<>>
                            THEN Follows(Final(w.backlog), w.queue[1])
                            ELSE InReach(w, w.queue[1])
       /\ h # <<>> =>
            IF w.queue # <<>> THEN Final(w.queue).seq = Final(h).seq
            ELSE IF w.backlog # <<>> THEN Final(w.backlog).seq = Final(h).seq
            ELSE w.last # None /\ Final(h).seq <= w.last

\* It shows the screen of the frame it accepted last.
Faithful(w, l) ==
  w.last # None =>
    w.last + 1 \in 1..Len(l) /\ w.ver = l[w.last + 1].ver /\ w.meta = l[w.last + 1].meta

Watching ==
  \A v \in Viewers :
    /\ ~viewer[v].failed
    /\ viewer[v].on => Gets(viewer[v], relay.history) /\ Faithful(viewer[v], log)

IInv == TypeOK /\ Links /\ Logged /\ Truths /\ Path /\ Replayable /\ Watching

-----------------------------------------------------------------------------
(* Sequences. *)

\* Only the empty sequence has no elements.
LEMMA Emptied ==
  ASSUME NEW S, NEW s \in Seq(S)
  PROVE  Len(s) \in Nat /\ (s = <<>> <=> Len(s) = 0)
BY EmptySeq

\* What is in a sequence of frames is a frame.
LEMMA Framed ==
  ASSUME NEW s \in Seq(Frames), NEW i \in 1..Len(s)
  PROVE  s[i] \in Frames /\ s[i].seq \in Nat /\ s[i].size \in Nat
<1>1. s[i] \in Frames
  BY ElementOfSeq
<1> QED BY <1>1 DEF Frames

\* What Append makes of a sequence.
LEMMA Appended ==
  ASSUME NEW S, NEW s \in Seq(S), NEW x \in S
  PROVE  /\ Append(s, x) \in Seq(S) /\ Append(s, x) # <<>>
         /\ Len(Append(s, x)) = Len(s) + 1 /\ Len(s) \in Nat
         /\ \A i \in 1..Len(s) : Append(s, x)[i] = s[i]
         /\ Append(s, x)[Len(s) + 1] = x /\ Final(Append(s, x)) = x
         /\ s = <<>> <=> Len(s) = 0
BY AppendProperties, EmptySeq DEF Final

\* What Head and Tail make of a sequence.
LEMMA Tailed ==
  ASSUME NEW S, NEW s \in Seq(S), s # <<>>
  PROVE  /\ Tail(s) \in Seq(S) /\ Len(Tail(s)) = Len(s) - 1
         /\ Len(s) \in Nat /\ Len(s) > 0 /\ Head(s) = s[1] /\ Head(s) \in S
         /\ \A i \in 1..Len(Tail(s)) : Tail(s)[i] = s[i + 1]
         /\ Tail(s) = <<>> <=> Len(s) = 1
         /\ Tail(s) # <<>> => Final(Tail(s)) = Final(s)
<1>1. Len(s) \in Nat /\ Len(s) > 0 /\ Head(s) = s[1] /\ Head(s) \in S
  BY EmptySeq
<1>2. /\ Tail(s) \in Seq(S) /\ Len(Tail(s)) = Len(s) - 1
      /\ \A i \in 1..Len(Tail(s)) : Tail(s)[i] = s[i + 1]
  BY HeadTailProperties
<1>3. Tail(s) = <<>> <=> Len(s) = 1
  <2>1. Tail(s) = <<>> <=> Len(Tail(s)) = 0
    BY <1>2, Emptied
  <2> QED BY <1>1, <1>2, <2>1
<1>4. ASSUME Tail(s) # <<>> PROVE Final(Tail(s)) = Final(s)
  BY <1>1, <1>2, <1>3, <1>4 DEF Final
<1> QED BY <1>1, <1>2, <1>3, <1>4

\* A frame that follows the last one may be appended.
LEMMA ConsecutiveAppended ==
  ASSUME NEW s \in Seq(Frames), NEW x \in Frames, Consecutive(s),
         s # <<>> => Follows(Final(s), x)
  PROVE  Consecutive(Append(s, x))
BY Appended DEF Consecutive, Final

\* Without its first frame a sequence stays consecutive.
LEMMA ConsecutiveTailed ==
  ASSUME NEW s \in Seq(Frames), s # <<>>, Consecutive(s)
  PROVE  /\ Consecutive(Tail(s))
         /\ Tail(s) # <<>> => Follows(s[1], Tail(s)[1])
BY Tailed DEF Consecutive

\* Taking the first of consecutive frames, as the relay and the browser do.
LEMMA Taken ==
  ASSUME NEW s \in Seq(Frames), s # <<>>, Consecutive(s)
  PROVE  /\ Head(s) \in Frames /\ Head(s) = s[1] /\ Tail(s) \in Seq(Frames)
         /\ Consecutive(Tail(s))
         /\ Tail(s) # <<>> => /\ Final(Tail(s)) = Final(s)
                              /\ Tail(s)[1] \in Frames
                              /\ Follows(Head(s), Tail(s)[1])
         /\ Tail(s) = <<>> => Final(s) = Head(s)
<1>1. /\ Tail(s) \in Seq(Frames) /\ Head(s) = s[1] /\ Head(s) \in Frames
      /\ Len(s) \in Nat /\ Tail(s) = <<>> <=> Len(s) = 1
      /\ Tail(s) # <<>> => Final(Tail(s)) = Final(s)
  BY Tailed
<1>2. /\ Consecutive(Tail(s))
      /\ Tail(s) # <<>> => Follows(s[1], Tail(s)[1])
  BY ConsecutiveTailed
<1>3. Tail(s) # <<>> => Tail(s)[1] \in Frames
  <2>1. Tail(s) # <<>> => 1 \in 1..Len(Tail(s))
    BY <1>1, Emptied
  <2> QED BY <1>1, <2>1, ElementOfSeq
<1>4. Tail(s) = <<>> => Final(s) = Head(s)
  BY <1>1 DEF Final
<1> QED BY <1>1, <1>2, <1>3, <1>4
-----------------------------------------------------------------------------
(* What is sealed. *)

\* What comes later takes no truth from a frame.
LEMMA TruthStays ==
  ASSUME NEW l \in Seq(Screens), NEW x \in Screens, NEW f \in Frames, Truthful(l, f)
  PROVE  Truthful(Append(l, x), f)
<1>1. f.seq \in Nat /\ f.seq + 1 \in 1..Len(l)
  BY DEF Frames, Truthful
<1>2. /\ f.seq + 1 \in 1..Len(Append(l, x))
      /\ Append(l, x)[f.seq + 1] = l[f.seq + 1]
      /\ f.seq > 0 => Append(l, x)[f.seq] = l[f.seq]
  BY <1>1, Appended
<1> QED BY <1>2 DEF Truthful

\* The same of a sequence of frames.
LEMMA TruthsStay ==
  ASSUME NEW l \in Seq(Screens), NEW x \in Screens, NEW s \in Seq(Frames),
         AllTruthful(l, s)
  PROVE  AllTruthful(Append(l, x), s)
BY TruthStays, ElementOfSeq DEF AllTruthful

\* A truthful frame may be appended.
LEMMA TruthsAppended ==
  ASSUME NEW l, NEW s \in Seq(Frames), NEW f \in Frames,
         AllTruthful(l, s), Truthful(l, f)
  PROVE  AllTruthful(l, Append(s, f))
BY Appended DEF AllTruthful

\* The first frame of a truthful sequence is truthful, and so are the others.
LEMMA TruthsTailed ==
  ASSUME NEW l, NEW s \in Seq(Frames), s # <<>>, AllTruthful(l, s)
  PROVE  AllTruthful(l, Tail(s)) /\ Truthful(l, Head(s))
BY Tailed DEF AllTruthful

\* What is sealed later takes no truth from what a viewer shows.
LEMMA FaithStays ==
  ASSUME NEW l \in Seq(Screens), NEW x \in Screens, NEW w \in Receivers, Faithful(w, l)
  PROVE  Faithful(w, Append(l, x))
BY Appended DEF Faithful, Receivers

-----------------------------------------------------------------------------
(* What is under way. *)

\* The budget of the host is within both limits of the relay.
LEMMA BudgetIsNat == Budget \in Nat /\ Budget <= MaxFrame /\ Budget <= HistoryCap
BY StreamAssumption DEF Budget

\* A pump sends a snapshot, or a delta after what it sent last.
LEMMA MirrorsAppended ==
  ASSUME NEW s \in Seq(Frames), NEW x \in Frames, NEW start, NEW sending \in BOOLEAN,
         NEW old, NEW end \in Nat,
         Mirrors(s, start, sending, old),
         end <= Budget,
         IF Snapshot(x) THEN end = x.size ELSE sending /\ end = old + x.size
  PROVE  Mirrors(Append(s, x), start, TRUE, end)
<1> PICK f \in [0..Len(s) -> Nat] :
           Counts(f, s, start) /\ (sending => f[Len(s)] = old)
  BY DEF Mirrors
<1> DEFINE n == Len(s)
           g == [i \in 0..(n + 1) |-> IF i = n + 1 THEN end ELSE f[i]]
<1>1. /\ n \in Nat /\ Len(Append(s, x)) = n + 1
      /\ \A i \in 1..n : Append(s, x)[i] = s[i]
      /\ Append(s, x)[n + 1] = x
  BY Appended
<1>2. g \in [0..(n + 1) -> Nat]
  BY <1>1
<1>3. /\ g[n + 1] = end
      /\ \A i \in 0..n : g[i] = f[i]
  BY <1>1
<1> HIDE DEF g
<1>4. Counts(g, Append(s, x), start)
  <2>1. g[0] = start
    BY <1>1, <1>3 DEF Counts
  <2>2. ASSUME NEW i \in 1..n
        PROVE  /\ g[i] = IF Snapshot(Append(s, x)[i]) THEN Append(s, x)[i].size
                         ELSE g[i - 1] + Append(s, x)[i].size
               /\ g[i] <= Budget
    <3>1. i \in 0..n /\ i - 1 \in 0..n
      BY <1>1
    <3> QED BY <1>1, <1>3, <3>1 DEF Counts
  <2>3. /\ g[n + 1] = IF Snapshot(x) THEN x.size ELSE g[n] + x.size
        /\ g[n + 1] <= Budget
    BY <1>1, <1>3
  <2>4. ASSUME NEW i \in 1..Len(Append(s, x))
        PROVE  /\ g[i] = IF Snapshot(Append(s, x)[i]) THEN Append(s, x)[i].size
                         ELSE g[i - 1] + Append(s, x)[i].size
               /\ g[i] <= Budget
    <3>1. CASE i = n + 1
      <4>1. i - 1 = n
        BY <1>1, <3>1
      <4> QED BY <1>1, <2>3, <3>1, <4>1
    <3>2. CASE i \in 1..n
      BY <2>2, <3>2
    <3> QED BY <1>1, <3>1, <3>2
  <2> QED BY <2>1, <2>4 DEF Counts
<1> QED BY <1>1, <1>2, <1>3, <1>4 DEF Mirrors

\* The relay feeds the first frame.
LEMMA MirrorsTailed ==
  ASSUME NEW s \in Seq(Frames), s # <<>>, NEW start, NEW sending \in BOOLEAN, NEW end,
         Mirrors(s, start, sending, end)
  PROVE  LET fed == IF Snapshot(Head(s)) THEN Head(s).size ELSE start + Head(s).size
         IN fed <= Budget /\ Mirrors(Tail(s), fed, sending, end)
<1> PICK f \in [0..Len(s) -> Nat] :
           Counts(f, s, start) /\ (sending => f[Len(s)] = end)
  BY DEF Mirrors
<1> DEFINE t == Tail(s)
           g == [i \in 0..Len(t) |-> f[i + 1]]
<1>1. /\ Len(s) \in Nat /\ Len(s) > 0 /\ Len(t) = Len(s) - 1 /\ Head(s) = s[1]
      /\ \A i \in 1..Len(t) : t[i] = s[i + 1]
  BY Tailed
<1> HIDE DEF t
<1>2. g \in [0..Len(t) -> Nat]
  BY <1>1
<1>3. \A i \in 0..Len(t) : g[i] = f[i + 1]
  OBVIOUS
<1> HIDE DEF g
<1>4. /\ f[1] = IF Snapshot(Head(s)) THEN Head(s).size ELSE start + Head(s).size
      /\ f[1] <= Budget
  BY <1>1 DEF Counts
<1>5. Counts(g, t, f[1])
  <2>1. g[0] = f[1]
    BY <1>1, <1>3
  <2>2. ASSUME NEW i \in 1..Len(t)
        PROVE  /\ g[i] = IF Snapshot(t[i]) THEN t[i].size ELSE g[i - 1] + t[i].size
               /\ g[i] <= Budget
    <3>1. i + 1 \in 1..Len(s) /\ i - 1 \in 0..Len(t) /\ i \in 0..Len(t)
          /\ (i + 1) - 1 = i /\ (i - 1) + 1 = i
      BY <1>1
    <3>2. g[i] = f[i + 1] /\ g[i - 1] = f[i] /\ t[i] = s[i + 1]
      BY <1>1, <1>3, <3>1
    <3>3. /\ f[i + 1] = IF Snapshot(s[i + 1]) THEN s[i + 1].size
                        ELSE f[i] + s[i + 1].size
          /\ f[i + 1] <= Budget
      BY <3>1 DEF Counts
    <3> QED BY <3>2, <3>3
  <2> QED BY <2>1, <2>2 DEF Counts
<1>6. sending => g[Len(t)] = end
  BY <1>1, <1>3
<1> QED BY <1>2, <1>4, <1>5, <1>6 DEF Mirrors, t

\* The frame sent next continues what is under way.
LEMMA ContinuesAppended ==
  ASSUME NEW s \in Seq(Frames), NEW x \in Frames, NEW h, NEW ready \in BOOLEAN,
         NEW sending \in BOOLEAN,
         Continues(s, h, ready, sending, x.seq),
         Snapshot(x) \/ sending
  PROVE  Continues(Append(s, x), h, ready, TRUE, x.seq + 1)
<1>1. Consecutive(Append(s, x))
  BY ConsecutiveAppended DEF Continues, Follows
<1>2. Append(s, x) # <<>> /\ Final(Append(s, x)) = x
  BY Appended
<1>3. ASSUME ~Snapshot(Append(s, x)[1])
      PROVE  ready /\ Follows(Final(h), Append(s, x)[1])
  <2>1. CASE s = <<>>
    <3>1. Append(s, x)[1] = x
      BY <2>1, Appended
    <3> QED BY <1>3, <2>1, <3>1 DEF Continues, Follows
  <2>2. CASE s # <<>>
    <3>1. Append(s, x)[1] = s[1]
      BY <2>2, Appended
    <3> QED BY <1>3, <2>2, <3>1 DEF Continues
  <2> QED BY <2>1, <2>2
<1> QED BY <1>1, <1>2, <1>3 DEF Continues

\* After the relay fed the first frame, the others continue the new history.
LEMMA ContinuesTailed ==
  ASSUME NEW s \in Seq(Frames), s # <<>>, NEW h, NEW ready \in BOOLEAN,
         NEW sending \in BOOLEAN, NEW next, NEW g, Final(g) = Head(s),
         Continues(s, h, ready, sending, next)
  PROVE  Continues(Tail(s), g, TRUE, sending, next)
<1>1. /\ Consecutive(Tail(s))
      /\ Tail(s) # <<>> => Follows(s[1], Tail(s)[1])
  BY ConsecutiveTailed DEF Continues
<1>2. /\ Head(s) = s[1]
      /\ Tail(s) # <<>> => Final(Tail(s)) = Final(s)
      /\ Tail(s) = <<>> => Final(s) = Head(s)
  BY Tailed DEF Final
<1> QED BY <1>1, <1>2 DEF Continues

\* What is not sent on says nothing of the pump.
LEMMA MirrorsRest ==
  ASSUME NEW s, NEW start, NEW sending \in BOOLEAN, NEW end, NEW e,
         Mirrors(s, start, sending, end)
  PROVE  Mirrors(s, start, FALSE, e)
BY DEF Mirrors

\* The same of the order of what is under way.
LEMMA ContinuesRest ==
  ASSUME NEW s, NEW h, NEW ready, NEW sending \in BOOLEAN, NEW next, NEW n,
         Continues(s, h, ready, sending, next)
  PROVE  Continues(s, h, ready, FALSE, n)
BY DEF Continues

\* An empty wire continues any history.
LEMMA NothingUnderWay ==
  ASSUME NEW start \in Nat, NEW h, NEW ready, NEW e, NEW n
  PROVE  Mirrors(<<>>, start, FALSE, e) /\ Continues(<<>>, h, ready, FALSE, n)
<1>1. Len(<<>>) = 0
  BY EmptySeq
<1>2. Mirrors(<<>>, start, FALSE, e)
  <2> DEFINE f == [i \in 0..0 |-> start]
  <2>1. f \in [0..Len(<<>>) -> Nat]
    BY <1>1
  <2>2. Counts(f, <<>>, start)
    BY <1>1 DEF Counts
  <2> QED BY <2>1, <2>2 DEF Mirrors
<1>3. Continues(<<>>, h, ready, FALSE, n)
  BY <1>1 DEF Continues, Consecutive
<1> QED BY <1>2, <1>3
-----------------------------------------------------------------------------
(* What a viewer gets and shows. *)

\* Every frame leaves a browser with a state of its type.
LEMMA ShowsTypes ==
  ASSUME NEW w \in Receivers, NEW f \in Frames
  PROVE  Shows(w, f) \in Receivers
<1>1. /\ f.seq \in Nat \cup {None} /\ f.meta \in Nat /\ f.ver \in Nat \cup {Garbled}
      /\ w.ver \in Nat \cup {Garbled} /\ TRUE \in BOOLEAN
  BY DEF Frames, Receivers
<1> QED BY ZenonT(40), <1>1 DEF Shows, Receivers

\* The browser accepts what is in its reach, and shows what it says.
LEMMA ShowsAccepts ==
  ASSUME NEW w \in Receivers, NEW f \in Frames, NEW l \in Seq(Screens),
         InReach(w, f), Truthful(l, f), Faithful(w, l)
  PROVE  LET r == Shows(w, f) IN
           /\ r \in Receivers
           /\ r.on = w.on /\ r.backlog = w.backlog /\ r.queue = w.queue
           /\ r.lagged = w.lagged /\ r.failed = w.failed
           /\ r.last # None /\ f.seq <= r.last
           /\ Faithful(r, l)
<1> DEFINE next == w.last # None /\ f.seq = w.last + 1
<1>1. /\ f.seq \in Nat /\ f.ver \in Nat /\ f.meta \in Nat
      /\ w.last \in Nat \cup {None} /\ f.seq + 1 \in 1..Len(l)
  BY DEF Frames, Receivers, Truthful
<1>2. CASE w.last # None /\ f.seq <= w.last
  BY <1>2 DEF Shows
<1>3. CASE ~(w.last # None /\ f.seq <= w.last) /\ Snapshot(f)
  <2> DEFINE ver == IF f.checkpoint /\ next THEN w.ver ELSE f.ver
  <2>1. Shows(w, f) = [w EXCEPT !.last = f.seq, !.meta = f.meta, !.ver = ver]
    BY <1>3 DEF Shows
  <2>2. ver = l[f.seq + 1].ver /\ f.meta = l[f.seq + 1].meta
    BY <1>1, <1>3 DEF Truthful, Faithful
  <2>3. ver \in Nat \cup {Garbled}
    BY <1>1 DEF Receivers
  <2> HIDE DEF ver, next
  <2>4. /\ Shows(w, f) \in Receivers
        /\ Shows(w, f).last = f.seq /\ Shows(w, f).ver = ver
        /\ Shows(w, f).meta = f.meta
        /\ Shows(w, f).on = w.on /\ Shows(w, f).backlog = w.backlog
        /\ Shows(w, f).queue = w.queue /\ Shows(w, f).lagged = w.lagged
        /\ Shows(w, f).failed = w.failed
    BY <1>1, <2>1, <2>3 DEF Receivers
  <2>5. f.seq # None /\ f.seq <= f.seq
    BY <1>1 DEF None
  <2> QED BY <1>1, <2>2, <2>4, <2>5 DEF Faithful
<1>4. CASE ~(w.last # None /\ f.seq <= w.last) /\ ~Snapshot(f)
  <2>1. w.last \in Nat /\ f.seq = w.last + 1
    BY <1>1, <1>4 DEF InReach
  <2>2. /\ w.ver = l[f.seq].ver /\ w.meta = l[f.seq].meta
        /\ f.ver = l[f.seq].ver + 1 /\ l[f.seq + 1].meta = l[f.seq].meta
        /\ f.ver = l[f.seq + 1].ver
    BY <1>4, <2>1 DEF Truthful, Faithful, None
  <2>3. Shows(w, f) = [w EXCEPT !.last = f.seq, !.ver = f.ver]
    BY <1>4, <2>1, <2>2 DEF Shows, None
  <2>4. /\ Shows(w, f) \in Receivers
        /\ Shows(w, f).last = f.seq /\ Shows(w, f).ver = f.ver
        /\ Shows(w, f).meta = w.meta
        /\ Shows(w, f).on = w.on /\ Shows(w, f).backlog = w.backlog
        /\ Shows(w, f).queue = w.queue /\ Shows(w, f).lagged = w.lagged
        /\ Shows(w, f).failed = w.failed
    BY <1>1, <2>3 DEF Receivers
  <2>5. f.seq # None /\ f.seq <= f.seq
    BY <1>1 DEF None
  <2> QED BY <1>1, <2>2, <2>4, <2>5 DEF Faithful
<1> QED BY <1>2, <1>3, <1>4

\* After it, what follows is in reach.
LEMMA FollowsReach ==
  ASSUME NEW w \in Receivers, NEW f \in Frames, NEW g \in Frames,
         w.last # None, f.seq <= w.last, Follows(f, g)
  PROVE  InReach(w, g)
BY DEF InReach, Follows, Receivers, Frames

\* Two states of a viewer that differ in what is under way to it.
Alike(r, p) ==
  /\ r.on = p.on /\ r.lagged = p.lagged /\ r.failed = p.failed
  /\ r.last = p.last /\ r.ver = p.ver /\ r.meta = p.meta

\* The browser accepts the next frame of its join's payload.
LEMMA BacklogReceived ==
  ASSUME NEW w \in Receivers, NEW h \in Seq(Frames), NEW l \in Seq(Screens),
         Gets(w, h), Faithful(w, l), w.backlog # <<>>, Truthful(l, Head(w.backlog)),
         NEW p \in Receivers, p = Shows(w, Head(w.backlog)),
         NEW r \in Receivers, Alike(r, p), r.backlog = Tail(w.backlog), r.queue = p.queue
  PROVE  /\ r \in Receivers /\ r.on = w.on /\ r.failed = w.failed
         /\ r.backlog = Tail(w.backlog) /\ r.queue = w.queue
         /\ Gets(r, h) /\ Faithful(r, l)
<1> DEFINE b == w.backlog
           f == Head(b)
<1>1. /\ b \in Seq(Frames) /\ w.queue \in Seq(Frames) /\ w.lagged \in BOOLEAN
  BY DEF Receivers
<1>2. /\ f \in Frames /\ f = b[1] /\ Tail(b) \in Seq(Frames)
      /\ Tail(b) # <<>> => Final(Tail(b)) = Final(b) /\ Tail(b)[1] \in Frames
      /\ Tail(b) = <<>> => Final(b) = f
      /\ Consecutive(Tail(b))
      /\ Tail(b) # <<>> => Follows(f, Tail(b)[1])
  <2>1. Consecutive(b)
    BY DEF Gets
  <2> QED BY <1>1, <2>1, Taken
<1>3. InReach(w, f)
  BY <1>2 DEF Gets
<1>4. /\ p \in Receivers
      /\ p.on = w.on /\ p.queue = w.queue /\ p.lagged = w.lagged
      /\ p.failed = w.failed /\ p.last # None /\ f.seq <= p.last /\ Faithful(p, l)
  BY <1>2, <1>3, ShowsAccepts
<1> HIDE DEF f
<1>5. /\ r \in Receivers
      /\ r.on = w.on /\ r.queue = w.queue /\ r.lagged = w.lagged
      /\ r.failed = w.failed /\ r.last = p.last /\ r.ver = p.ver /\ r.meta = p.meta
      /\ r.backlog = Tail(b)
  BY <1>4 DEF Alike
<1>6. Faithful(r, l)
  BY <1>4, <1>5 DEF Faithful
<1>7. r.backlog # <<>> => InReach(r, r.backlog[1])
  BY <1>2, <1>4, <1>5, FollowsReach
<1>8. ASSUME ~w.lagged
      PROVE  /\ Consecutive(w.queue)
             /\ w.queue # <<>> => IF r.backlog # <<>>
                                  THEN Follows(Final(r.backlog), w.queue[1])
                                  ELSE InReach(r, w.queue[1])
             /\ h # <<>> =>
                  IF w.queue # <<>> THEN Final(w.queue).seq = Final(h).seq
                  ELSE IF r.backlog # <<>> THEN Final(r.backlog).seq = Final(h).seq
                  ELSE r.last # None /\ Final(h).seq <= r.last
  <2>1. /\ Consecutive(w.queue)
        /\ w.queue # <<>> => Follows(Final(b), w.queue[1])
        /\ h # <<>> => IF w.queue # <<>> THEN Final(w.queue).seq = Final(h).seq
                       ELSE Final(b).seq = Final(h).seq
    BY <1>8 DEF Gets
  <2>2. ASSUME w.queue # <<>>, r.backlog = <<>> PROVE InReach(r, w.queue[1])
    <3>1. w.queue[1] \in Frames
      BY <1>1, <2>2, Emptied, ElementOfSeq
    <3>2. Follows(f, w.queue[1])
      BY <1>2, <1>5, <2>1, <2>2
    <3> QED BY <1>2, <1>4, <1>5, <3>1, <3>2, FollowsReach
  <2> QED BY <1>2, <1>4, <1>5, <2>1, <2>2
<1> QED BY <1>2, <1>5, <1>6, <1>7, <1>8 DEF Gets

\* The browser accepts the next frame of its receiver's queue.
LEMMA QueueReceived ==
  ASSUME NEW w \in Receivers, NEW h \in Seq(Frames), NEW l \in Seq(Screens),
         Gets(w, h), Faithful(w, l), w.backlog = <<>>, ~w.lagged, w.queue # <<>>,
         Truthful(l, Head(w.queue)),
         NEW p \in Receivers, p = Shows(w, Head(w.queue)),
         NEW r \in Receivers, Alike(r, p), r.queue = Tail(w.queue), r.backlog = p.backlog
  PROVE  /\ r \in Receivers /\ r.on = w.on /\ r.failed = w.failed
         /\ r.queue = Tail(w.queue) /\ r.backlog = w.backlog
         /\ Gets(r, h) /\ Faithful(r, l)
<1> DEFINE q == w.queue
           f == Head(q)
<1>1. q \in Seq(Frames)
  BY DEF Receivers
<1>2. /\ f \in Frames /\ f = q[1] /\ Tail(q) \in Seq(Frames)
      /\ Tail(q) # <<>> => Final(Tail(q)) = Final(q) /\ Tail(q)[1] \in Frames
      /\ Tail(q) = <<>> => Final(q) = f
      /\ Consecutive(Tail(q))
      /\ Tail(q) # <<>> => Follows(f, Tail(q)[1])
  <2>1. Consecutive(q)
    BY DEF Gets
  <2> QED BY <1>1, <2>1, Taken
<1>3. InReach(w, f)
  BY <1>2 DEF Gets
<1>4. /\ p \in Receivers
      /\ p.on = w.on /\ p.backlog = w.backlog /\ p.lagged = w.lagged
      /\ p.failed = w.failed /\ p.last # None /\ f.seq <= p.last /\ Faithful(p, l)
  BY <1>2, <1>3, ShowsAccepts
<1> HIDE DEF f
<1>5. /\ r \in Receivers
      /\ r.on = w.on /\ r.backlog = w.backlog /\ r.lagged = w.lagged
      /\ r.failed = w.failed /\ r.last = p.last /\ r.ver = p.ver /\ r.meta = p.meta
      /\ r.queue = Tail(q)
  BY <1>4 DEF Alike
<1>6. Faithful(r, l)
  BY <1>4, <1>5 DEF Faithful
<1>7. r.queue # <<>> => InReach(r, r.queue[1])
  BY <1>2, <1>4, <1>5, FollowsReach
<1>8. h # <<>> => IF r.queue # <<>> THEN Final(r.queue).seq = Final(h).seq
                  ELSE r.last # None /\ Final(h).seq <= r.last
  <2>1. h # <<>> => Final(q).seq = Final(h).seq
    BY DEF Gets
  <2> QED BY <1>2, <1>4, <1>5, <2>1
<1>9. Consecutive(r.backlog)
  BY <1>5 DEF Gets
<1> QED BY <1>2, <1>5, <1>6, <1>7, <1>8, <1>9 DEF Gets

\* What the relay broadcasts ends up in the queue of a receiver that keeps up.
LEMMA GetsBroadcast ==
  ASSUME NEW w \in Receivers, NEW h, NEW f \in Frames, Gets(w, h),
         ~Snapshot(f) => h # <<>> /\ Follows(Final(h), f),
         h \in Seq(Frames),
         NEW g, Final(g) = f,
         NEW r, r = [w EXCEPT !.queue = Append(@, f)]
  PROVE  Gets(r, g)
<1>1. w.queue \in Seq(Frames) /\ w.backlog \in Seq(Frames) /\ w.lagged \in BOOLEAN
  BY DEF Receivers
<1> DEFINE q == Append(w.queue, f)
<1>2. /\ q # <<>> /\ Final(q) = f
      /\ w.queue = <<>> => q[1] = f
      /\ w.queue # <<>> => q[1] = w.queue[1]
  BY <1>1, Appended
<1>3. /\ r.queue = q /\ r.backlog = w.backlog /\ r.lagged = w.lagged /\ r.last = w.last
  BY DEF Receivers
<1>4. ASSUME ~w.lagged
      PROVE  /\ Consecutive(q)
             /\ IF w.backlog # <<>> THEN Follows(Final(w.backlog), q[1])
                ELSE InReach(w, q[1])
  <2>1. /\ Consecutive(w.queue)
        /\ w.queue # <<>> => IF w.backlog # <<>>
                             THEN Follows(Final(w.backlog), w.queue[1])
                             ELSE InReach(w, w.queue[1])
        /\ h # <<>> =>
             IF w.queue # <<>> THEN Final(w.queue).seq = Final(h).seq
             ELSE IF w.backlog # <<>> THEN Final(w.backlog).seq = Final(h).seq
             ELSE w.last # None /\ Final(h).seq <= w.last
    BY <1>4 DEF Gets
  <2>2. w.queue # <<>> => Follows(Final(w.queue), f)
    BY <2>1 DEF Follows
  <2>3. Consecutive(q)
    BY <1>1, <2>1, <2>2, ConsecutiveAppended
  <2>4. CASE w.queue # <<>>
    BY <1>2, <2>1, <2>3, <2>4
  <2>5. CASE w.queue = <<>> /\ w.backlog # <<>>
    <3>1. Follows(Final(w.backlog), f)
      BY <2>1, <2>5 DEF Follows
    <3> QED BY <1>2, <2>3, <2>5, <3>1
  <2>6. CASE w.queue = <<>> /\ w.backlog = <<>>
    <3>1. ASSUME ~Snapshot(f) PROVE w.last # None /\ f.seq <= w.last + 1
      <4>1. /\ w.last # None /\ Final(h).seq <= w.last
            /\ f.seq = Final(h).seq + 1
        BY <2>1, <2>6, <3>1 DEF Follows
      <4>2. Final(h).seq \in Nat /\ w.last \in Nat
        <5>1. Len(h) \in 1..Len(h)
          BY <3>1, Emptied
        <5> QED BY <4>1, <5>1, Framed DEF Final, Receivers
      <4> QED BY <4>1, <4>2
    <3>2. InReach(w, f)
      BY <3>1 DEF InReach
    <3> QED BY <1>2, <2>3, <2>6, <3>2
  <2> QED BY <2>4, <2>5, <2>6
<1>5. /\ Consecutive(r.backlog)
      /\ r.backlog # <<>> => InReach(r, r.backlog[1])
  BY <1>3 DEF Gets, InReach
<1> HIDE DEF q
<1> QED BY <1>2, <1>3, <1>4, <1>5 DEF Gets, InReach

\* A receiver that lost a frame gets nothing of its queue any more.
LEMMA GetsLagged ==
  ASSUME NEW w \in Receivers, NEW h, NEW g, Gets(w, h),
         NEW q, NEW r, r = [w EXCEPT !.queue = q, !.lagged = TRUE]
  PROVE  Gets(r, g)
<1>1. r.backlog = w.backlog /\ r.lagged = TRUE /\ r.last = w.last
  BY DEF Receivers
<1> QED BY <1>1 DEF Gets, InReach

\* Whoever joins can replay all of the history.
LEMMA GetsHistory ==
  ASSUME NEW h \in Seq(Frames),
         \A i \in 1..Len(h) : Snapshot(h[i]) <=> i = 1,
         \A i \in 1..Len(h) : h[i].seq = h[1].seq + i - 1,
         NEW w, w.backlog = h, w.queue = <<>>
  PROVE  Gets(w, h)
<1>1. Len(h) \in Nat /\ (h = <<>> <=> Len(h) = 0) /\ Len(<<>>) = 0
  BY Emptied, EmptySeq
<1>2. \A i \in 1..Len(h) : h[i].seq \in Nat
  BY Framed
<1>3. Consecutive(h)
  <2> SUFFICES ASSUME NEW i \in 1..(Len(h) - 1) PROVE h[i + 1].seq = h[i].seq + 1
    BY DEF Consecutive, Follows
  <2>1. i \in 1..Len(h) /\ i + 1 \in 1..Len(h) /\ 1 \in 1..Len(h)
    BY <1>1
  <2>2. h[i].seq = h[1].seq + i - 1 /\ h[i + 1].seq = h[1].seq + (i + 1) - 1
    BY <2>1
  <2>3. h[1].seq \in Nat /\ i \in Nat
    BY <1>2, <2>1
  <2> QED BY ONLY <2>2, <2>3
<1>4. h # <<>> => InReach(w, h[1])
  BY <1>1 DEF InReach
<1>5. Consecutive(<<>>)
  BY <1>1 DEF Consecutive
<1>6. /\ Consecutive(w.backlog) /\ Consecutive(w.queue)
      /\ w.backlog # <<>> => InReach(w, w.backlog[1])
      /\ Final(w.backlog).seq = Final(h).seq
  BY <1>3, <1>4, <1>5, Zenon
<1> QED BY ONLY <1>6, w.backlog = h, w.queue = <<>>, Zenon DEF Gets
-----------------------------------------------------------------------------
(* Steps of the host. *)

\* The first connection has sent nothing.
LEMMA InitHolds == Init => IInv
<1> SUFFICES ASSUME Init PROVE IInv
  OBVIOUS
<1> USE StreamAssumption
<1>1. Len(<<>>) = 0 /\ <<>> \in Seq(Frames) /\ <<>> \in Seq(Screens)
  BY EmptySeq
<1>2. TypeOK
  BY <1>1 DEF Init, TypeOK, Fresh, ConnIds, None, Screens
<1>3. Links
  BY <1>1 DEF Init, Links, ConnIds, None
<1>4. Logged
  BY <1>1 DEF Init, Logged, Sending
<1>5. Truths
  BY <1>1 DEF Init, Truths, AllTruthful, Fresh
<1>6. Path
  <2> SUFFICES ASSUME NEW n \in ConnIds PROVE PathOf(n)
    BY DEF Path
  <2>1. /\ wire[n] = <<>> /\ relay.historyLen = 0
        /\ (n = client.conn /\ Sending) = FALSE
    BY DEF Init, Sending
  <2>2. /\ Mirrors(<<>>, 0, FALSE, client.historyLen)
        /\ Continues(<<>>, relay.history, relay.ready, FALSE, client.seq)
    BY NothingUnderWay
  <2> QED BY <2>1, <2>2 DEF PathOf
<1>7. Replayable
  BY <1>1 DEF Init, Replayable, HistoryReplays
<1>8. Watching
  BY DEF Init, Watching, Fresh
<1> QED BY <1>2, <1>3, <1>4, <1>5, <1>6, <1>7, <1>8 DEF IInv

\* The variables that say what is sealed, under way and kept stay, and no pump sends.
LEMMA Pauses ==
  ASSUME IInv, TypeOK', UNCHANGED <<log, wire, epoch, open, relay, viewer>>,
         ~Sending', client'.seq = client.seq, client'.conn >= client.conn,
         client'.phase \in {"first", "dialing"} => wire[client'.conn] = <<>>,
         client'.phase = "first" => epoch[client'.conn] # None
  PROVE  IInv'
<1> USE DEF IInv
<1>1. client.conn \in Nat /\ client'.conn \in Nat
  BY SMTT(30) DEF TypeOK, ConnIds
<1>2. Links'
  BY <1>1 DEF Links, Sending, ConnIds
<1>3. Logged'
  BY DEF Logged
<1>4. Path'
  <2> SUFFICES ASSUME NEW n \in ConnIds, Holds(n)' PROVE PathOf(n)'
    BY DEF Path
  <2>1. PathOf(n)
    BY DEF Path, Holds
  <2>2. (n = client'.conn /\ Sending') = FALSE
    OBVIOUS
  <2>3. /\ Mirrors(wire[n], relay.historyLen, FALSE, client'.historyLen)
        /\ Continues(wire[n], relay.history, relay.ready, FALSE, client'.seq)
    BY <2>1, MirrorsRest, ContinuesRest DEF PathOf
  <2> QED BY <2>2, <2>3 DEF PathOf
<1>5. Truths' /\ Replayable' /\ Watching'
  BY DEF Truths, Replayable, HistoryReplays, Watching
<1> QED BY <1>2, <1>3, <1>4, <1>5

\* Types the steps of the host need.
LEMMA HostTypes ==
  ASSUME TypeOK
  PROVE  /\ client.conn \in ConnIds /\ client.seq \in Nat /\ client.historyLen \in Nat
         /\ screen.ver \in Nat /\ screen.meta \in Nat
         /\ log \in Seq(Screens) /\ wire[client.conn] \in Seq(Frames)
         /\ relay.history \in Seq(Frames) /\ relay.historyLen \in Nat
         /\ relay.ready \in BOOLEAN
BY StreamAssumption DEF TypeOK, Screens

\* What a pump leaves a client with.
Phases == {"first", "up", "finish", "down", "dialing", "done", "failed"}
Clients == [phase : Phases, conn : ConnIds, seq : Nat, historyLen : Nat, dirty : BOOLEAN]

\* A pump seals the screen as it then is, and sends the frame or fails to.
LEMMA SendKeeps ==
  ASSUME IInv, client.phase \in {"first", "up"},
         screen' \in [ver : 0..MaxVer, meta : 0..MaxMeta, exit : BOOLEAN],
         NEW kind \in {"snapshot", "output"}, NEW checkpoint \in BOOLEAN,
         NEW size \in Nat, NEW historyLen \in Nat, NEW dirty \in BOOLEAN,
         size <= Budget, historyLen <= Budget,
         kind = "snapshot" => historyLen = size,
         kind = "output" => /\ client.phase = "up" /\ ~checkpoint
                            /\ historyLen = client.historyLen + size
                            /\ screen'.ver = screen.ver + 1
                            /\ screen'.meta = screen.meta,
         checkpoint => client.phase = "up" /\ screen'.ver = screen.ver,
         Send(kind, checkpoint, size, historyLen, dirty),
         UNCHANGED <<epoch, open, relay, viewer>>
  PROVE  IInv'
<1> USE DEF IInv
<1> DEFINE n == client.conn
           shown == [ver |-> screen'.ver, meta |-> screen'.meta]
           frame == [kind |-> kind, seq |-> client.seq, ver |-> screen'.ver,
                     meta |-> IF kind = "snapshot" THEN screen'.meta ELSE 0,
                     checkpoint |-> checkpoint, size |-> size]
           sent == /\ wire' = [wire EXCEPT ![n] = IF n \in open THEN Append(@, frame)
                                                  ELSE @]
                   /\ client' = [client EXCEPT
                                   !.phase = IF screen'.exit THEN "finish" ELSE "up",
                                   !.seq = @ + 1, !.historyLen = historyLen,
                                   !.dirty = dirty]
           failed == /\ client' = [client EXCEPT !.phase = "down", !.seq = @ + 1]
                     /\ UNCHANGED wire
<1>1. /\ n \in ConnIds /\ client.seq \in Nat /\ client.historyLen \in Nat
      /\ log \in Seq(Screens) /\ wire[n] \in Seq(Frames)
      /\ relay.history \in Seq(Frames) /\ relay.historyLen \in Nat
      /\ relay.ready \in BOOLEAN
  BY HostTypes
<1>2. shown \in Screens /\ frame \in Frames
  BY <1>1, StreamAssumption DEF Screens, Frames
<1>3. /\ frame.kind = kind /\ frame.seq = client.seq /\ frame.ver = screen'.ver
      /\ frame.checkpoint = checkpoint /\ frame.size = size
      /\ kind = "snapshot" => frame.meta = screen'.meta
      /\ shown.ver = screen'.ver /\ shown.meta = screen'.meta
  OBVIOUS
<1>4. log' = Append(log, shown) /\ (sent \/ failed)
  BY DEF Send
<1> HIDE DEF frame, shown
<1>5. /\ client' \in [phase : {"first", "up", "finish", "down", "dialing", "done",
                               "failed"},
                      conn : ConnIds, seq : Nat, historyLen : Nat, dirty : BOOLEAN]
      /\ client'.conn = n /\ client'.seq = client.seq + 1
      /\ \/ /\ sent /\ client'.phase \in {"up", "finish"}
            /\ client'.historyLen = historyLen
         \/ failed /\ ~sent /\ client'.phase = "down"
  <2>1. client \in Clients
    BY DEF TypeOK, Clients, Phases
  <2>2. client.seq + 1 \in Nat
    BY <1>1
  <2>3. CASE sent
    <3> DEFINE phase == IF screen'.exit THEN "finish" ELSE "up"
    <3>1. phase \in {"up", "finish"} /\ phase \in Phases
      BY DEF Phases
    <3>2. client' = [client EXCEPT !.phase = phase, !.seq = @ + 1,
                                   !.historyLen = historyLen, !.dirty = dirty]
      BY <2>3
    <3> HIDE DEF phase, sent, failed, n
    <3>3. /\ client' \in Clients
          /\ client'.conn = client.conn /\ client'.seq = client.seq + 1
          /\ client'.phase = phase /\ client'.historyLen = historyLen
      BY <2>1, <2>2, <3>1, <3>2 DEF Clients
    <3> QED BY <2>3, <3>1, <3>3 DEF n, Clients, Phases
  <2>4. CASE ~sent
    <3>1. failed /\ client' = [client EXCEPT !.phase = "down", !.seq = @ + 1]
      BY <1>4, <2>4
    <3> HIDE DEF sent, failed, n
    <3>2. /\ client' \in Clients
          /\ client'.conn = client.conn /\ client'.seq = client.seq + 1
          /\ client'.phase = "down"
      BY <2>1, <2>2, <3>1 DEF Clients, Phases
    <3> QED BY <2>4, <3>1, <3>2 DEF n, Clients, Phases
  <2> QED BY <2>3, <2>4
<1>6. \A m \in ConnIds :
        wire'[m] = IF sent /\ m = n /\ n \in open THEN Append(wire[m], frame)
                   ELSE wire[m]
  <2>1. CASE sent
    BY <1>1, <2>1 DEF TypeOK
  <2>2. CASE ~sent
    <3>1. wire' = wire
      BY <1>4, <2>2
    <3> QED BY <2>2, <3>1
  <2> QED BY <2>1, <2>2
<1>7. wire' \in [ConnIds -> Seq(Frames)]
  <2>1. Append(wire[n], frame) \in Seq(Frames)
    BY <1>1, <1>2, Appended
  <2>2. CASE sent
    BY <1>1, <2>1, <2>2 DEF TypeOK
  <2>3. CASE failed
    BY <2>3 DEF TypeOK
  <2> QED BY <1>4, <2>2, <2>3
<1>8. /\ log' \in Seq(Screens) /\ log' # <<>> /\ Final(log') = shown
      /\ Len(log') = Len(log) + 1 /\ Len(log) \in Nat
      /\ \A i \in 1..Len(log) : log'[i] = log[i]
      /\ log'[Len(log) + 1] = shown
  BY <1>1, <1>2, <1>4, Appended
<1> HIDE DEF sent, failed, n
<1>9. TypeOK'
  BY <1>5, <1>7, <1>8 DEF TypeOK, Screens
<1>10. Links'
  BY <1>5, <1>6 DEF Links, n
<1>11. client.seq = Len(log)
  BY DEF Logged
<1>12. Logged'
  <2>1. Final(log') = [ver |-> screen'.ver, meta |-> screen'.meta]
    BY <1>8 DEF shown
  <2> QED BY <1>5, <1>8, <1>11, <2>1 DEF Logged
<1>13. Truthful(log', frame)
  <2>1. /\ frame.seq + 1 = Len(log) + 1 /\ frame.seq + 1 \in 1..Len(log')
        /\ log'[frame.seq + 1] = shown
    BY <1>3, <1>8, <1>11
  <2>2. ASSUME client.phase = "up"
        PROVE  /\ client.seq > 0
               /\ log'[client.seq].ver = screen.ver /\ log'[client.seq].meta = screen.meta
    <3>1. log # <<>> /\ Final(log) = [ver |-> screen.ver, meta |-> screen.meta]
      BY <2>2 DEF Logged, Sending
    <3>2. Len(log) \in 1..Len(log)
      BY <1>1, <3>1, Emptied
    <3>3. log'[client.seq] = [ver |-> screen.ver, meta |-> screen.meta]
      BY <1>8, <1>11, <3>1, <3>2 DEF Final
    <3> QED BY <1>11, <3>2, <3>3
  <2> QED BY <1>3, <2>1, <2>2 DEF Truthful, Snapshot
<1>14. Truths'
  <2>1. ASSUME NEW m \in ConnIds PROVE AllTruthful(log', wire'[m])
    <3>1. wire[m] \in Seq(Frames) /\ AllTruthful(log, wire[m])
      BY DEF TypeOK, Truths
    <3>2. AllTruthful(log', wire[m])
      BY <1>1, <1>2, <1>4, <3>1, TruthsStay
    <3> QED BY <1>2, <1>6, <1>13, <3>1, <3>2, TruthsAppended
  <2>2. AllTruthful(log', relay.history)
    BY <1>1, <1>2, <1>4, TruthsStay DEF Truths
  <2>3. ASSUME NEW v \in Viewers
        PROVE  /\ AllTruthful(log', viewer[v].backlog)
               /\ AllTruthful(log', viewer[v].queue)
    <3>1. viewer[v].backlog \in Seq(Frames) /\ viewer[v].queue \in Seq(Frames)
      BY DEF TypeOK
    <3> QED BY <1>1, <1>2, <1>4, <3>1, TruthsStay DEF Truths
  <2> QED BY <2>1, <2>2, <2>3 DEF Truths
<1>15. Path'
  <2> SUFFICES ASSUME NEW m \in ConnIds, Holds(m)' PROVE PathOf(m)'
    BY DEF Path
  <2>1. Holds(m) /\ PathOf(m)
    BY DEF Path, Holds
  <2> DEFINE sending == m = client.conn /\ Sending
  <2>2. /\ Mirrors(wire[m], relay.historyLen, sending, client.historyLen)
        /\ Continues(wire[m], relay.history, relay.ready, sending, client.seq)
        /\ sending \in BOOLEAN
    BY <2>1 DEF PathOf
  <2>3. CASE sent /\ m = n
    <3>1. /\ wire'[m] = Append(wire[m], frame) /\ wire[m] \in Seq(Frames)
          /\ client'.historyLen = historyLen
      BY <1>1, <1>5, <1>6, <2>1, <2>3 DEF Holds
    <3>2. client.phase = "up" => sending
      BY <2>3 DEF Sending, n
    <3> HIDE DEF sending
    <3>3. Mirrors(Append(wire[m], frame), relay.historyLen, TRUE, historyLen)
      <4>1. IF Snapshot(frame) THEN historyLen = frame.size
            ELSE sending /\ historyLen = client.historyLen + frame.size
        BY <1>3, <3>2 DEF Snapshot
      <4> QED BY <1>2, <2>2, <3>1, <4>1, MirrorsAppended
    <3>4. Continues(Append(wire[m], frame), relay.history, relay.ready, TRUE,
                    client.seq + 1)
      <4>1. Snapshot(frame) \/ sending
        BY <1>3, <3>2 DEF Snapshot
      <4>2. Continues(wire[m], relay.history, relay.ready, sending, frame.seq)
        BY <1>3, <2>2
      <4>3. Continues(Append(wire[m], frame), relay.history, relay.ready, TRUE,
                      frame.seq + 1)
        BY ZenonT(40), <1>1, <1>2, <2>2, <3>1, <4>1, <4>2, ContinuesAppended
      <4> QED BY <1>3, <4>3
    <3>5. /\ Mirrors(Append(wire[m], frame), relay.historyLen, FALSE, historyLen)
          /\ Continues(Append(wire[m], frame), relay.history, relay.ready, FALSE,
                       client.seq + 1)
      BY <3>3, <3>4, MirrorsRest, ContinuesRest
    <3>6. \/ (m = client'.conn /\ Sending') = TRUE
          \/ (m = client'.conn /\ Sending') = FALSE
      OBVIOUS
    <3> QED BY <1>5, <3>1, <3>3, <3>4, <3>5, <3>6 DEF PathOf
  <2>4. CASE ~(sent /\ m = n)
    <3> HIDE DEF sending
    <3>1. (m = client'.conn /\ Sending') = FALSE
      BY <1>4, <1>5, <2>4 DEF Sending
    <3>2. wire'[m] = wire[m]
      BY <1>6, <2>4
    <3>3. /\ Mirrors(wire[m], relay.historyLen, FALSE, client'.historyLen)
          /\ Continues(wire[m], relay.history, relay.ready, FALSE, client'.seq)
      BY <2>2, MirrorsRest, ContinuesRest
    <3> QED BY <3>1, <3>2, <3>3 DEF PathOf
  <2> QED BY <2>3, <2>4
<1>16. Replayable'
  BY DEF Replayable, HistoryReplays
<1>17. Watching'
  <2> SUFFICES ASSUME NEW v \in Viewers, viewer[v].on
               PROVE  Faithful(viewer[v], log')
    BY DEF Watching
  <2>1. viewer[v] \in Receivers
    BY DEF TypeOK, Receivers
  <2> QED BY <1>1, <1>2, <1>4, <2>1, FaithStays DEF Watching
<1> QED BY <1>9, <1>10, <1>12, <1>14, <1>15, <1>16, <1>17

\* What an event makes of the screen.
LEMMA Changes ==
  ASSUME TypeOK
  PROVE  /\ Output => /\ screen' \in [ver : 0..MaxVer, meta : 0..MaxMeta, exit : BOOLEAN]
                      /\ screen'.ver = screen.ver + 1 /\ screen'.meta = screen.meta
         /\ Metadata \/ Exit =>
              /\ screen' \in [ver : 0..MaxVer, meta : 0..MaxMeta, exit : BOOLEAN]
              /\ screen'.ver = screen.ver
<1>1. /\ screen \in [ver : 0..MaxVer, meta : 0..MaxMeta, exit : BOOLEAN]
      /\ MaxVer \in Nat /\ MaxMeta \in Nat
  BY StreamAssumption DEF TypeOK
<1>2. ASSUME Output
      PROVE  /\ screen' \in [ver : 0..MaxVer, meta : 0..MaxMeta, exit : BOOLEAN]
             /\ screen'.ver = screen.ver + 1 /\ screen'.meta = screen.meta
  <2>1. screen.ver + 1 \in 0..MaxVer
    BY <1>1, <1>2 DEF Output
  <2> QED BY <1>1, <1>2, <2>1 DEF Output
<1>3. ASSUME Metadata \/ Exit
      PROVE  /\ screen' \in [ver : 0..MaxVer, meta : 0..MaxMeta, exit : BOOLEAN]
             /\ screen'.ver = screen.ver
  <2>1. screen.meta + 1 \in 0..MaxMeta
    BY <1>1, <1>3 DEF Metadata, Exit
  <2> QED BY <1>1, <1>3, <2>1 DEF Metadata, Exit
<1> QED BY <1>2, <1>3

\* The host stops sending without a frame: its next phase, maybe its next connection.
LEMMA Turned ==
  ASSUME IInv, UNCHANGED <<log, wire, epoch, open, relay, viewer>>,
         screen' \in [ver : 0..MaxVer, meta : 0..MaxMeta, exit : BOOLEAN],
         NEW phase \in {"first", "down", "dialing", "done", "failed"},
         NEW conn \in ConnIds, conn >= client.conn, NEW dirty \in BOOLEAN,
         client' = [client EXCEPT !.phase = phase, !.conn = conn, !.dirty = dirty],
         phase \in {"first", "dialing"} => wire[conn] = <<>>,
         phase = "first" => epoch[conn] # None
  PROVE  IInv'
<1>1. client \in Clients /\ phase \in Phases
  BY DEF IInv, TypeOK, Clients, Phases
<1>2. /\ client' \in Clients
      /\ client'.phase = phase /\ client'.conn = conn /\ client'.seq = client.seq
  BY <1>1 DEF Clients
<1>3. TypeOK'
  BY <1>2 DEF IInv, TypeOK, Clients, Phases
<1> QED BY <1>2, <1>3, Pauses DEF Sending

\* A pump that sends a snapshot, or gives up as none fits.
LEMMA SnapshotKeeps ==
  ASSUME IInv, client.phase \in {"first", "up"},
         screen' \in [ver : 0..MaxVer, meta : 0..MaxMeta, exit : BOOLEAN],
         NEW checkpoint \in BOOLEAN,
         checkpoint => client.phase = "up" /\ screen'.ver = screen.ver,
         SendSnapshot(checkpoint), UNCHANGED <<epoch, open, relay, viewer>>
  PROVE  IInv'
<1> PICK size \in SnapshotSizes :
      IF size <= Budget
      THEN Send("snapshot", checkpoint, size, size, FALSE)
      ELSE /\ client' = [client EXCEPT !.phase = "failed"]
           /\ UNCHANGED <<log, wire>>
  BY DEF SendSnapshot
<1>1. size \in Nat
  BY StreamAssumption
<1>2. CASE size <= Budget
  <2>1. Send("snapshot", checkpoint, size, size, FALSE)
    BY <1>2
  <2> QED BY <1>1, <1>2, <2>1, SendKeeps
<1>3. CASE ~(size <= Budget)
  <2>1. client \in Clients
    BY DEF IInv, TypeOK, Clients, Phases
  <2>2. client' = [client EXCEPT !.phase = "failed", !.conn = client.conn,
                                 !.dirty = client.dirty]
    BY <1>3, <2>1 DEF Clients
  <2>3. /\ client.conn \in ConnIds /\ client.dirty \in BOOLEAN
        /\ client.conn >= client.conn
    BY <2>1 DEF Clients, ConnIds
  <2> QED BY <1>3, <2>2, <2>3, Turned
<1> QED BY <1>2, <1>3

\* Every action of the host keeps the invariant.
LEMMA HostKeeps == IInv /\ Host => IInv'
<1> SUFFICES ASSUME IInv, Host PROVE IInv'
  OBVIOUS
<1>1. /\ client \in Clients /\ client.conn \in ConnIds /\ client.dirty \in BOOLEAN
      /\ client.conn \in Nat /\ client.conn >= client.conn /\ TypeOK
      /\ screen \in [ver : 0..MaxVer, meta : 0..MaxMeta, exit : BOOLEAN]
  BY SMTT(30) DEF IInv, TypeOK, Clients, Phases, ConnIds
<1>2. CASE First
  BY <1>1, <1>2, SnapshotKeeps DEF First
<1>3. CASE PumpOutput
  <2>1. /\ screen' \in [ver : 0..MaxVer, meta : 0..MaxMeta, exit : BOOLEAN]
        /\ screen'.ver = screen.ver + 1 /\ screen'.meta = screen.meta
        /\ client.phase = "up" /\ UNCHANGED <<epoch, open, relay, viewer>>
    BY <1>1, <1>3, Changes DEF PumpOutput
  <2>2. PICK size \in DeltaSizes :
          IF client.historyLen + size <= Budget
          THEN Send("output", FALSE, size, client.historyLen + size, TRUE)
          ELSE SendSnapshot(FALSE)
    BY <1>3 DEF PumpOutput
  <2>3. /\ size \in Nat /\ client.historyLen \in Nat /\ Budget \in Nat
        /\ client.historyLen + size \in Nat /\ size <= client.historyLen + size
    BY <1>1, StreamAssumption, BudgetIsNat DEF Clients
  <2>4. CASE client.historyLen + size <= Budget
    <3>1. Send("output", FALSE, size, client.historyLen + size, TRUE)
      BY <2>2, <2>4
    <3>2. size <= Budget
      BY <2>3, <2>4
    <3> QED BY <2>1, <2>3, <2>4, <3>1, <3>2, SendKeeps
  <2>5. CASE ~(client.historyLen + size <= Budget)
    BY <2>1, <2>2, <2>5, SnapshotKeeps
  <2> QED BY <2>4, <2>5
<1>4. CASE PumpResize
  BY <1>1, <1>4, Changes, SnapshotKeeps DEF PumpResize, Resize
<1>5. CASE PumpMetadata
  BY <1>1, <1>5, Changes, SnapshotKeeps DEF PumpMetadata
<1>6. CASE Checkpoint
  BY <1>1, <1>6, SnapshotKeeps DEF Checkpoint
<1>7. CASE Finish
  <2>1. PICK phase \in {"done", "down"} : client' = [client EXCEPT !.phase = phase]
    BY <1>7 DEF Finish
  <2>2. client' = [client EXCEPT !.phase = phase, !.conn = client.conn,
                                 !.dirty = client.dirty]
    BY <1>1, <2>1 DEF Clients
  <2> QED BY <1>1, <1>7, <2>2, Turned DEF Finish
<1>8. CASE Disconnect
  <2>1. client' = [client EXCEPT !.phase = "down", !.conn = client.conn,
                                 !.dirty = client.dirty]
    BY <1>1, <1>8 DEF Disconnect, Clients
  <2> QED BY <1>1, <1>8, <2>1, Turned DEF Disconnect
<1>9. CASE EventsClosed
  <2>1. client' = [client EXCEPT !.phase = "done", !.conn = client.conn,
                                 !.dirty = client.dirty]
    BY <1>1, <1>9 DEF EventsClosed, Clients
  <2> QED BY <1>1, <1>9, <2>1, Turned DEF EventsClosed
<1>10. CASE EventOffline
  <2>1. screen' \in [ver : 0..MaxVer, meta : 0..MaxMeta, exit : BOOLEAN]
    BY <1>1, <1>10, Changes DEF EventOffline, Event
  <2>2. client' = [client EXCEPT !.phase = client.phase, !.conn = client.conn,
                                 !.dirty = client.dirty]
    BY <1>1, <1>10 DEF EventOffline, Clients
  <2>3. client.phase = "dialing" => wire[client.conn] = <<>>
    BY DEF IInv, Links
  <2> QED BY ZenonT(40), <1>1, <1>10, <2>1, <2>2, <2>3, Turned DEF EventOffline
<1>11. CASE Dial
  <2>1. /\ client.conn + 1 \in ConnIds /\ client.conn + 1 >= client.conn
        /\ client.conn + 1 > client.conn
    BY <1>1, <1>11, StreamAssumption DEF Dial, ConnIds
  <2>2. client' = [client EXCEPT !.phase = "dialing", !.conn = client.conn + 1,
                                 !.dirty = client.dirty]
    BY <1>1, <1>11, <2>1 DEF Dial, Clients
  <2>3. wire[client.conn + 1] = <<>>
    BY <2>1 DEF IInv, Links
  <2>4. UNCHANGED <<screen, log, wire, epoch, open, relay, viewer>>
    BY <1>11 DEF Dial
  <2> DEFINE conn == client.conn + 1
  <2>5. /\ conn \in ConnIds /\ conn >= client.conn /\ wire[conn] = <<>>
        /\ client' = [client EXCEPT !.phase = "dialing", !.conn = conn,
                                    !.dirty = client.dirty]
    BY <2>1, <2>2, <2>3
  <2> HIDE DEF conn
  <2> QED BY <1>1, <2>4, <2>5, Turned
<1>12. CASE Connected
  <2>1. client' = [client EXCEPT !.phase = "first", !.conn = client.conn, !.dirty = FALSE]
    BY <1>1, <1>12 DEF Connected, Clients
  <2>2. wire[client.conn] = <<>>
    BY <1>12 DEF IInv, Links, Connected
  <2> QED BY <1>1, <1>12, <2>1, <2>2, Turned DEF Connected
<1> QED BY <1>2, <1>3, <1>4, <1>5, <1>6, <1>7, <1>8, <1>9, <1>10, <1>11, <1>12 DEF Host

-----------------------------------------------------------------------------
(* Steps of the relay. *)

\* The connection that holds the session sends what the relay can keep.
LEMMA HeadFits ==
  ASSUME IInv, NEW n \in ConnIds, Holds(n), wire[n] # <<>>,
         NEW f, f = Head(wire[n])
  PROVE  /\ f \in Frames /\ KeptLen(f) + f.size \in Nat
         /\ ~TooLarge(f) /\ ~Unreplayable(f) /\ Ready(f) = TRUE
         /\ ~Snapshot(f) => relay.history # <<>> /\ Follows(Final(relay.history), f)
         /\ KeptLen(f) + f.size <= HistoryCap
         /\ Mirrors(Tail(wire[n]), KeptLen(f) + f.size, n = client.conn /\ Sending,
                    client.historyLen)
<1> USE DEF IInv
<1> DEFINE sending == n = client.conn /\ Sending
           fed == KeptLen(f) + f.size
<1>1. /\ wire[n] \in Seq(Frames) /\ relay.historyLen \in Nat /\ relay.ready \in BOOLEAN
      /\ HistoryCap \in Nat /\ MaxFrame \in Nat /\ sending \in BOOLEAN
  BY StreamAssumption DEF TypeOK
<1>2. f \in Frames /\ f = wire[n][1] /\ f.size \in Nat /\ f.seq \in Nat
  <2>1. f \in Frames /\ f = wire[n][1]
    BY <1>1, Tailed
  <2> QED BY <2>1 DEF Frames
<1>3. /\ Mirrors(wire[n], relay.historyLen, sending, client.historyLen)
      /\ Continues(wire[n], relay.history, relay.ready, sending, client.seq)
  BY DEF Path, PathOf
<1>4. fed = IF Snapshot(f) THEN f.size ELSE relay.historyLen + f.size
  BY <1>1, <1>2 DEF KeptLen
<1>5. fed \in Nat
  BY <1>1, <1>2, <1>4
<1> HIDE DEF sending
<1>6. fed <= Budget /\ Mirrors(Tail(wire[n]), fed, sending, client.historyLen)
  BY <1>1, <1>3, <1>4, MirrorsTailed
<1>7. f.size <= Budget
  BY <1>1, TruthsTailed DEF Truths, Truthful
<1>8. ~Snapshot(f) => relay.ready /\ relay.history # <<>>
                      /\ Follows(Final(relay.history), f)
  BY <1>2, <1>3 DEF Continues, Replayable
<1> HIDE DEF fed
<1>9. fed <= HistoryCap /\ f.size <= HistoryCap /\ f.size <= MaxFrame
  BY <1>1, <1>2, <1>5, <1>6, <1>7, BudgetIsNat
<1>10. Ready(f) = TRUE
  BY <1>1, <1>8, <1>9 DEF Ready
<1>11. ~TooLarge(f) /\ ~Unreplayable(f)
  BY <1>1, <1>2, <1>5, <1>9, <1>10 DEF TooLarge, Unreplayable, fed
<1> QED BY <1>2, <1>5, <1>6, <1>8, <1>9, <1>10, <1>11 DEF fed, sending

\* A handler ends, with what was under way to it.
LEMMA CloseKeeps ==
  ASSUME IInv, NEW n \in ConnIds, Close(n), UNCHANGED <<hostVars, epoch, relay, viewer>>
  PROVE  IInv'
<1> USE DEF IInv
<1>1. /\ <<>> \in Seq(Frames) /\ Len(<<>>) = 0
      /\ UNCHANGED <<screen, client, log>>
  BY EmptySeq DEF hostVars
<1>2. /\ open' = open \ {n}
      /\ \A m \in ConnIds : wire'[m] = IF m = n THEN <<>> ELSE wire[m]
  BY DEF Close, TypeOK
<1>3. TypeOK'
  BY <1>1 DEF TypeOK, Close
<1>4. Links'
  BY <1>1, <1>2 DEF Links, TypeOK
<1>5. Logged'
  BY <1>1 DEF Logged, Sending
<1>6. Truths'
  BY <1>1, <1>2 DEF Truths, AllTruthful
<1>7. Path'
  BY <1>1, <1>2 DEF Path, PathOf, Holds, Sending
<1>8. Replayable' /\ Watching'
  BY <1>1 DEF Replayable, HistoryReplays, Watching
<1> QED BY <1>3, <1>4, <1>5, <1>6, <1>7, <1>8

\* A connection that takes the session over has nothing under way yet.
LEMMA AttachKeeps ==
  ASSUME IInv, NEW n \in ConnIds, Attach(n)
  PROVE  IInv'
<1> USE DEF IInv
<1>1. /\ UNCHANGED <<screen, client, log, wire, viewer>>
      /\ relay.epoch \in Nat /\ client.conn \in Nat /\ relay.historyLen \in Nat
      /\ epoch[n] = None /\ n <= client.conn /\ n \in Nat
  BY DEF Attach, hostVars, TypeOK, ConnIds
<1>2. relay.epoch + 1 \in Nat
  BY <1>1
<1>3. /\ relay'.epoch = relay.epoch + 1 /\ relay'.history = relay.history
      /\ relay'.historyLen = relay.historyLen /\ relay'.ready = relay.ready
      /\ relay' \in [epoch : Nat, history : Seq(Frames), historyLen : Nat,
                     ready : BOOLEAN]
  BY <1>2 DEF Attach, TypeOK
<1>4. /\ epoch' \in [ConnIds -> Nat \cup {None}]
      /\ \A m \in ConnIds : epoch'[m] = IF m = n THEN relay.epoch + 1 ELSE epoch[m]
      /\ open' = open \cup {n}
  BY <1>2 DEF Attach, TypeOK
<1>5. TypeOK'
  BY <1>1, <1>3, <1>4 DEF TypeOK
<1>6. \A m \in ConnIds : epoch[m] \in Int /\ epoch[m] <= relay.epoch
                         /\ epoch[m] # relay.epoch + 1
  <2> TAKE m \in ConnIds
  <2>1. epoch[m] \in Nat \cup {None} /\ epoch[m] <= relay.epoch
    BY DEF TypeOK, Links
  <2> QED BY <1>1, <2>1 DEF None
<1>7. wire[n] = <<>>
  BY <1>1 DEF Links
<1>8. Links'
  <2>1. \A m \in ConnIds : m \notin open' => wire'[m] = <<>>
    BY <1>1, <1>4 DEF Links
  <2>2. \A m \in ConnIds : epoch'[m] = None => m \notin open'
    BY <1>1, <1>4 DEF Links, None
  <2>3. \A m \in ConnIds : m > client'.conn => epoch'[m] = None
    BY <1>1, <1>4 DEF Links
  <2>4. \A m \in ConnIds : epoch'[m] <= relay'.epoch
    BY <1>1, <1>3, <1>4, <1>6
  <2>5. \A m, k \in ConnIds : epoch'[m] = epoch'[k] /\ epoch'[m] # None => m = k
    BY <1>4, <1>6 DEF Links
  <2>6. /\ client'.phase \in {"first", "dialing"} => wire'[client'.conn] = <<>>
        /\ client'.phase \in {"first", "up", "finish"} => epoch'[client'.conn] # None
    <3>1. client.conn \in ConnIds /\ relay.epoch + 1 # None
      BY <1>1 DEF TypeOK, None
    <3> QED BY <1>1, <1>4, <3>1 DEF Links
  <2> QED BY <2>1, <2>2, <2>3, <2>4, <2>5, <2>6 DEF Links
<1>9. Logged' /\ Truths' /\ Replayable' /\ Watching'
  BY <1>1, <1>3 DEF Logged, Sending, Truths, Replayable, HistoryReplays,
                    Watching
<1>10. Path'
  <2> SUFFICES ASSUME NEW m \in ConnIds, Holds(m)' PROVE PathOf(m)'
    BY DEF Path
  <2>1. m = n
    BY <1>3, <1>4, <1>6 DEF Holds
  <2>2. (m = client'.conn /\ Sending') = FALSE
    BY <1>1, <2>1 DEF Links, Sending
  <2>3. /\ Mirrors(<<>>, relay.historyLen, FALSE, client.historyLen)
        /\ Continues(<<>>, relay.history, relay.ready, FALSE, client.seq)
    BY <1>1, NothingUnderWay
  <2> QED BY <1>1, <1>3, <1>7, <2>1, <2>2, <2>3 DEF PathOf
<1> QED BY <1>5, <1>8, <1>9, <1>10

\* A snapshot is all of its history.
LEMMA Alone ==
  ASSUME NEW f \in Frames
  PROVE  LET k == Append(<<>>, f)
         IN k \in Seq(Frames) /\ k # <<>> /\ Final(k) = f /\ Len(k) = 1 /\ k[1] = f
<1> DEFINE k == Append(<<>>, f)
<1>1. k \in Seq(Frames) /\ k # <<>> /\ Len(k) = 1 /\ k[1] = f
  BY AppendProperties, EmptySeq
<1> QED BY <1>1 DEF Final

\* The history after a frame that was not refused.
Whole(h) ==
  /\ \A i \in 1..Len(h) : Snapshot(h[i]) <=> i = 1
  /\ \A i \in 1..Len(h) : h[i].seq = h[1].seq + i - 1

\* A frame that is not refused leaves a history a join can replay.
LEMMA HistoryGrows ==
  ASSUME relay.history \in Seq(Frames), Whole(relay.history), NEW f \in Frames,
         ~Snapshot(f) => relay.history # <<>> /\ Follows(Final(relay.history), f)
  PROVE  LET k == Append(Kept(f), f)
         IN k \in Seq(Frames) /\ k # <<>> /\ Final(k) = f /\ Whole(k)
<1> DEFINE h == relay.history
           k == Append(Kept(f), f)
<1>1. f.seq \in Nat
  BY DEF Frames
<1>2. CASE Snapshot(f)
  <2>1. k \in Seq(Frames) /\ k # <<>> /\ Final(k) = f /\ Len(k) = 1 /\ k[1] = f
    BY <1>2, Alone DEF Kept
  <2> HIDE DEF k
  <2>2. 1..Len(k) = {1}
    BY <2>1
  <2> QED BY <1>1, <1>2, <2>1, <2>2 DEF k, Whole
<1>3. CASE ~Snapshot(f)
  <2>1. k = Append(h, f)
    BY <1>3 DEF Kept
  <2> HIDE DEF k, h
  <2>2. /\ k \in Seq(Frames) /\ k # <<>> /\ Final(k) = f /\ Len(k) = Len(h) + 1
        /\ Len(h) \in Nat /\ (h = <<>> <=> Len(h) = 0)
        /\ \A i \in 1..Len(h) : k[i] = h[i]
        /\ k[Len(h) + 1] = f
    BY <2>1, Appended DEF h
  <2>3. 1 \in 1..Len(h) /\ Len(h) \in 1..Len(h) /\ Len(h) > 0
    BY <1>3, <2>2 DEF h
  <2>4. h[1].seq \in Nat /\ k[1] = h[1]
    BY <2>2, <2>3, Framed DEF h
  <2>5. /\ \A i \in 1..Len(h) : Snapshot(h[i]) <=> i = 1
        /\ \A i \in 1..Len(h) : h[i].seq = h[1].seq + i - 1
    BY DEF Whole, h
  <2>6. f.seq = h[1].seq + (Len(h) + 1) - 1
    <3>1. f.seq = h[Len(h)].seq + 1 /\ h[Len(h)].seq = h[1].seq + Len(h) - 1
      BY <1>3, <2>3, <2>5 DEF Follows, Final, h
    <3> QED BY SMTT(30), <2>2, <2>4, <3>1
  <2>7. ASSUME NEW i \in 1..Len(k)
        PROVE  (Snapshot(k[i]) <=> i = 1) /\ k[i].seq = k[1].seq + i - 1
    <3>1. CASE i \in 1..Len(h)
      BY <2>2, <2>4, <2>5, <3>1
    <3>2. CASE i = Len(h) + 1
      BY <1>3, <2>2, <2>3, <2>4, <2>6, <3>2
    <3> QED BY <2>2, <3>1, <3>2
  <2> QED BY <2>2, <2>7 DEF Whole, k
<1> QED BY <1>2, <1>3

\* The relay feeds a frame, or ends a connection that lost the session.
LEMMA FeedKeeps ==
  ASSUME IInv, NEW n \in ConnIds, Feed(n)
  PROVE  IInv'
<1> USE DEF IInv
<1> DEFINE f == Head(wire[n])
           h == relay.history
           k == Append(Kept(f), f)
           fed == KeptLen(f) + f.size
<1>1. /\ n \in open /\ wire[n] # <<>> /\ wire[n] \in Seq(Frames)
      /\ UNCHANGED <<hostVars, epoch>> /\ UNCHANGED <<screen, client, log, epoch>>
      /\ epoch[n] # None
  BY DEF Feed, hostVars, TypeOK, Links
<1>2. CASE epoch[n] # relay.epoch
  BY <1>1, <1>2, CloseKeeps DEF Feed
<1>3. CASE epoch[n] = relay.epoch
  <2>1. /\ f \in Frames /\ fed \in Nat
        /\ ~TooLarge(f) /\ ~Unreplayable(f) /\ Ready(f) = TRUE
        /\ ~Snapshot(f) => h # <<>> /\ Follows(Final(h), f)
        /\ fed <= HistoryCap
        /\ Mirrors(Tail(wire[n]), fed, n = client.conn /\ Sending, client.historyLen)
    BY <1>1, <1>3, HeadFits DEF Holds
  <2>2. /\ relay' = [relay EXCEPT !.history = k, !.historyLen = fed, !.ready = Ready(f)]
        /\ Broadcast(f)
        /\ wire' = [wire EXCEPT ![n] = Tail(@)]
        /\ UNCHANGED open
    BY <1>3, <2>1 DEF Feed
  <2>3. /\ h \in Seq(Frames) /\ Truthful(log, f) /\ AllTruthful(log, Tail(wire[n]))
        /\ Tail(wire[n]) \in Seq(Frames) /\ AllTruthful(log, h)
    BY <1>1, TruthsTailed, Tailed DEF TypeOK, Truths
  <2> HIDE DEF fed
  <2>4. k \in Seq(Frames) /\ k # <<>> /\ Final(k) = f /\ Whole(k)
    <3>1. Whole(relay.history)
      BY DEF Replayable, HistoryReplays, Whole
    <3>2. /\ f \in Frames /\ relay.history \in Seq(Frames)
          /\ ~Snapshot(f) => relay.history # <<>> /\ Follows(Final(relay.history), f)
      BY <2>1, <2>3
    <3> HIDE DEF f
    <3> QED BY <3>1, <3>2, HistoryGrows
  <2>5. AllTruthful(log, k)
    <3>1. CASE Snapshot(f)
      <4>1. <<>> \in Seq(Frames) /\ AllTruthful(log, <<>>)
        BY EmptySeq DEF AllTruthful
      <4> QED BY <2>1, <2>3, <3>1, <4>1, TruthsAppended DEF Kept
    <3>2. CASE ~Snapshot(f)
      BY <2>1, <2>3, <3>2, TruthsAppended DEF Kept
    <3> QED BY <3>1, <3>2
  <2> HIDE DEF k, f
  <2>6. /\ relay'.epoch = relay.epoch /\ relay'.history = k /\ relay'.historyLen = fed
        /\ relay'.ready = TRUE
        /\ relay' \in [epoch : Nat, history : Seq(Frames), historyLen : Nat,
                       ready : BOOLEAN]
    BY <2>1, <2>2, <2>4 DEF TypeOK
  <2>7. /\ \A m \in ConnIds : wire'[m] = IF m = n THEN Tail(wire[n]) ELSE wire[m]
        /\ wire' \in [ConnIds -> Seq(Frames)]
    BY <2>2, <2>3 DEF TypeOK
  <2>8. ASSUME NEW v \in Viewers
        PROVE  \/ ~viewer[v].on /\ viewer'[v] = viewer[v]
               \/ /\ viewer[v].on
                  /\ viewer'[v] = [viewer[v] EXCEPT !.queue = Append(@, f)]
               \/ /\ viewer[v].on /\ viewer[v].queue # <<>>
                  /\ viewer'[v] = [viewer[v] EXCEPT !.queue = Append(Tail(@), f),
                                                    !.lagged = TRUE]
    <3>1. viewer[v].queue = <<>> => Len(viewer[v].queue) < RingSize
      BY SMTT(30), EmptySeq, StreamAssumption
    <3> QED BY <2>2, <3>1 DEF Broadcast
  <2>9. ASSUME NEW v \in Viewers
        PROVE  /\ viewer'[v] \in Receivers
               /\ AllTruthful(log, viewer'[v].backlog) /\ AllTruthful(log, viewer'[v].queue)
               /\ viewer'[v].on = viewer[v].on /\ viewer'[v].failed = viewer[v].failed
               /\ viewer[v].on => Gets(viewer'[v], k) /\ Faithful(viewer'[v], log)
    <3> DEFINE w == viewer[v]
    <3>1. /\ w \in Receivers /\ w.queue \in Seq(Frames)
          /\ AllTruthful(log, w.backlog) /\ AllTruthful(log, w.queue)
          /\ w.on => Gets(w, h) /\ Faithful(w, log)
      BY DEF TypeOK, Receivers, Truths, Watching
    <3>2. CASE ~w.on /\ viewer'[v] = w
      BY <3>1, <3>2
    <3> HIDE DEF w
    <3>3. CASE w.on /\ viewer'[v] = [w EXCEPT !.queue = Append(@, f)]
      <4>1. Append(w.queue, f) \in Seq(Frames) /\ AllTruthful(log, Append(w.queue, f))
        BY <2>1, <2>3, <3>1, Appended, TruthsAppended DEF f
      <4>2. /\ viewer'[v] \in Receivers
            /\ viewer'[v].backlog = w.backlog /\ viewer'[v].queue = Append(w.queue, f)
            /\ viewer'[v].on = w.on /\ viewer'[v].failed = w.failed
            /\ viewer'[v].last = w.last /\ viewer'[v].ver = w.ver
            /\ viewer'[v].meta = w.meta
        BY ZenonT(40), <3>1, <3>3, <4>1 DEF Receivers
      <4>3. Gets(viewer'[v], k)
        BY <2>1, <2>3, <2>4, <3>1, <3>3, GetsBroadcast
      <4> QED BY <3>1, <3>3, <4>1, <4>2, <4>3 DEF Faithful, w
    <3>4. CASE /\ w.on /\ w.queue # <<>>
               /\ viewer'[v] = [w EXCEPT !.queue = Append(Tail(@), f), !.lagged = TRUE]
      <4>1. Tail(w.queue) \in Seq(Frames) /\ AllTruthful(log, Tail(w.queue))
        BY <3>1, <3>4, Tailed, TruthsTailed
      <4> DEFINE q == Append(Tail(w.queue), f)
      <4>2. q \in Seq(Frames) /\ AllTruthful(log, q)
        BY <2>1, <2>3, <4>1, Appended, TruthsAppended DEF f
      <4>3. viewer'[v] = [w EXCEPT !.queue = q, !.lagged = TRUE]
        BY <3>4
      <4> HIDE DEF q
      <4>4. /\ viewer'[v] \in Receivers
            /\ viewer'[v].backlog = w.backlog /\ viewer'[v].queue = q
            /\ viewer'[v].on = w.on /\ viewer'[v].failed = w.failed
            /\ viewer'[v].last = w.last /\ viewer'[v].ver = w.ver
            /\ viewer'[v].meta = w.meta
        BY <3>1, <4>2, <4>3 DEF Receivers
      <4>5. Gets(viewer'[v], k)
        BY <3>1, <3>4, <4>3, GetsLagged
      <4> QED BY <3>1, <3>4, <4>2, <4>4, <4>5 DEF Faithful, w
    <3> QED BY <2>8, <3>2, <3>3, <3>4 DEF w
  <2>10. TypeOK'
    <3>1. viewer' \in [Viewers -> Receivers]
      <4>1. viewer' = [v \in Viewers |-> viewer'[v]]
        BY <2>2 DEF Broadcast
      <4> QED BY <2>9, <4>1
    <3> QED BY <1>1, <2>2, <2>6, <2>7, <3>1 DEF TypeOK, Receivers
  <2>11. Links'
    BY <1>1, <2>2, <2>6, <2>7 DEF Links
  <2>12. Logged'
    BY <1>1 DEF Logged, Sending
  <2>13. Truths'
    BY <1>1, <2>3, <2>5, <2>6, <2>7, <2>9 DEF Truths
  <2>14. Path'
    <3> SUFFICES ASSUME NEW m \in ConnIds, Holds(m)' PROVE PathOf(m)'
      BY DEF Path
    <3>1. m = n
      BY <1>1, <1>3, <2>6 DEF Holds, Links
    <3> DEFINE sending == n = client.conn /\ Sending
    <3>2. /\ Mirrors(Tail(wire[n]), fed, sending, client.historyLen)
          /\ Continues(wire[n], h, relay.ready, sending, client.seq)
          /\ (m = client'.conn /\ Sending') = sending
      BY <1>1, <1>3, <2>1, <3>1 DEF Path, PathOf, Holds, Sending, f
    <3>3. sending \in BOOLEAN /\ relay.ready \in BOOLEAN /\ Head(wire[n]) = Final(k)
      BY <2>4 DEF TypeOK, f
    <3> HIDE DEF sending
    <3>4. Continues(Tail(wire[n]), k, TRUE, sending, client.seq)
      BY <1>1, <3>2, <3>3, ContinuesTailed
    <3> QED BY <1>1, <2>6, <2>7, <3>1, <3>2, <3>4 DEF PathOf
  <2>15. Replayable'
    BY <2>1, <2>4, <2>6 DEF Replayable, HistoryReplays, Whole
  <2>16. Watching'
    BY <1>1, <2>6, <2>9 DEF Watching
  <2> QED BY <2>10, <2>11, <2>12, <2>13, <2>14, <2>15, <2>16
<1> QED BY <1>2, <1>3

-----------------------------------------------------------------------------
(* Steps of a viewer. *)

\* One viewer changes, and what it has is still what it should get.
LEMMA ViewerKeeps ==
  ASSUME IInv, NEW v \in Viewers, NEW r \in Receivers,
         viewer' = [viewer EXCEPT ![v] = r],
         AllTruthful(log, r.backlog), AllTruthful(log, r.queue),
         ~r.failed, r.on => Gets(r, relay.history) /\ Faithful(r, log),
         UNCHANGED <<hostVars, wire, epoch, open, relay>>
  PROVE  IInv'
<1> USE DEF IInv
<1>1. /\ UNCHANGED <<screen, client, log, wire, epoch, open, relay>>
      /\ \A u \in Viewers : viewer'[u] = IF u = v THEN r ELSE viewer[u]
  BY DEF hostVars, TypeOK
<1>2. TypeOK'
  BY ZenonT(40), <1>1 DEF TypeOK, Receivers
<1>3. Links' /\ Logged' /\ Path' /\ Replayable'
  BY <1>1 DEF Links, Logged, Sending, Path, PathOf, Holds, Replayable,
              HistoryReplays
<1>4. Truths' /\ Watching'
  BY <1>1 DEF Truths, Watching
<1> QED BY <1>2, <1>3, <1>4

\* Whoever joins gets all of the history.
LEMMA JoinKeeps ==
  ASSUME IInv, NEW v \in Viewers, NEW r \in Receivers,
         viewer' = [viewer EXCEPT ![v] = r],
         r.backlog = relay.history, r.queue = <<>>, ~r.failed, Faithful(r, log),
         UNCHANGED <<hostVars, wire, epoch, open, relay>>
  PROVE  IInv'
<1>1. AllTruthful(log, r.backlog) /\ AllTruthful(log, r.queue)
  BY EmptySeq DEF IInv, Truths, AllTruthful
<1>2. Gets(r, relay.history)
  BY GetsHistory DEF IInv, TypeOK, Replayable, HistoryReplays
<1> QED BY <1>1, <1>2, ViewerKeeps

\* Every action of a viewer keeps the invariant.
LEMMA WatchKeeps ==
  ASSUME IInv, NEW v \in Viewers, Open(v) \/ Leave(v) \/ Rejoin(v) \/ Receive(v)
  PROVE  IInv'
<1> DEFINE w == viewer[v]
<1>1. /\ w \in Receivers /\ ~w.failed /\ <<>> \in Seq(Frames)
      /\ w.backlog \in Seq(Frames) /\ w.queue \in Seq(Frames)
      /\ relay.history \in Seq(Frames) /\ log \in Seq(Screens)
      /\ AllTruthful(log, w.backlog) /\ AllTruthful(log, w.queue)
      /\ w.on => Gets(w, relay.history) /\ Faithful(w, log)
  BY EmptySeq DEF IInv, TypeOK, Receivers, Screens, Truths, Watching
<1>2. CASE Open(v)
  <2> DEFINE r == [Join(v) EXCEPT !.on = TRUE, !.last = None]
  <2>1. /\ r \in Receivers
        /\ r.backlog = relay.history /\ r.queue = <<>> /\ ~r.failed /\ r.last = None
    BY <1>1 DEF Join, Receivers
  <2>2. viewer' = [viewer EXCEPT ![v] = r]
    BY <1>2 DEF Open
  <2> HIDE DEF r
  <2>3. Faithful(r, log)
    BY <2>1 DEF Faithful
  <2> QED BY <1>2, <2>1, <2>2, <2>3, JoinKeeps DEF Open
<1>3. CASE Leave(v)
  <2>1. /\ Fresh \in Receivers /\ ~Fresh.failed /\ ~Fresh.on
        /\ Fresh.backlog = <<>> /\ Fresh.queue = <<>>
    BY <1>1 DEF Fresh, Receivers
  <2>2. AllTruthful(log, Fresh.backlog) /\ AllTruthful(log, Fresh.queue)
    BY <2>1, EmptySeq DEF AllTruthful
  <2> QED BY <1>3, <2>1, <2>2, ViewerKeeps DEF Leave
<1>4. CASE Rejoin(v)
  <2> DEFINE r == Join(v)
  <2>1. /\ r \in Receivers
        /\ r.backlog = relay.history /\ r.queue = <<>> /\ ~r.failed
        /\ r.last = w.last /\ r.ver = w.ver /\ r.meta = w.meta
    BY <1>1 DEF Join, Receivers
  <2>2. viewer' = [viewer EXCEPT ![v] = r]
    BY <1>4 DEF Rejoin
  <2> HIDE DEF r
  <2>3. Faithful(r, log)
    BY <1>1, <1>4, <2>1 DEF Faithful, Rejoin
  <2> QED BY <1>4, <2>1, <2>2, <2>3, JoinKeeps DEF Rejoin
<1>5. CASE Receive(v)
  <2>1. w.on /\ UNCHANGED <<hostVars, wire, epoch, open, relay>>
    BY <1>5 DEF Receive
  <2>2. CASE /\ w.backlog # <<>>
             /\ viewer' = [viewer EXCEPT ![v] =
                  [Shows(w, Head(w.backlog)) EXCEPT !.backlog = Tail(w.backlog)]]
    <3> DEFINE p == Shows(w, Head(w.backlog))
               r == [p EXCEPT !.backlog = Tail(w.backlog)]
    <3>1. /\ AllTruthful(log, Tail(w.backlog)) /\ Truthful(log, Head(w.backlog))
          /\ Head(w.backlog) \in Frames
      BY <1>1, <2>2, TruthsTailed, Tailed
    <3>2. viewer' = [viewer EXCEPT ![v] = r]
      BY <2>2
    <3>3. /\ p \in Receivers /\ p = Shows(w, Head(w.backlog))
          /\ Tail(w.backlog) \in Seq(Frames)
      BY <1>1, <2>2, <3>1, ShowsTypes, Tailed
    <3> HIDE DEF w, p
    <3>4. /\ r \in Receivers /\ Alike(r, p)
          /\ r.backlog = Tail(w.backlog) /\ r.queue = p.queue
      BY <3>3 DEF Receivers, Alike
    <3> HIDE DEF r
    <3>5. /\ r \in Receivers /\ r.failed = w.failed /\ r.backlog = Tail(w.backlog)
          /\ r.queue = w.queue /\ Gets(r, relay.history) /\ Faithful(r, log)
      BY <1>1, <2>1, <2>2, <3>1, <3>3, <3>4, BacklogReceived
    <3> QED BY <1>1, <2>1, <3>1, <3>2, <3>5, ViewerKeeps
  <2>3. CASE /\ w.backlog = <<>> /\ ~w.lagged /\ w.queue # <<>>
             /\ viewer' = [viewer EXCEPT ![v] =
                  [Shows(w, Head(w.queue)) EXCEPT !.queue = Tail(w.queue)]]
    <3> DEFINE p == Shows(w, Head(w.queue))
               r == [p EXCEPT !.queue = Tail(w.queue)]
    <3>1. /\ AllTruthful(log, Tail(w.queue)) /\ Truthful(log, Head(w.queue))
          /\ Head(w.queue) \in Frames
      BY <1>1, <2>3, TruthsTailed, Tailed
    <3>2. viewer' = [viewer EXCEPT ![v] = r]
      BY <2>3
    <3>3. /\ p \in Receivers /\ p = Shows(w, Head(w.queue))
          /\ Tail(w.queue) \in Seq(Frames)
      BY <1>1, <2>3, <3>1, ShowsTypes, Tailed
    <3> HIDE DEF w, p
    <3>4. /\ r \in Receivers /\ Alike(r, p)
          /\ r.queue = Tail(w.queue) /\ r.backlog = p.backlog
      BY <3>3 DEF Receivers, Alike
    <3> HIDE DEF r
    <3>5. /\ r \in Receivers /\ r.failed = w.failed /\ r.queue = Tail(w.queue)
          /\ r.backlog = w.backlog /\ Gets(r, relay.history) /\ Faithful(r, log)
      BY <1>1, <2>1, <2>3, <3>1, <3>3, <3>4, QueueReceived
    <3> QED BY <1>1, <2>1, <3>1, <3>2, <3>5, ViewerKeeps
  <2> QED BY <1>5, <2>2, <2>3 DEF Receive
<1> QED BY <1>2, <1>3, <1>4, <1>5

-----------------------------------------------------------------------------
(* Theorems. *)

\* Every step keeps the invariant.
LEMMA StepKeeps == IInv /\ [Next]_vars => IInv'
<1> SUFFICES ASSUME IInv, [Next]_vars PROVE IInv'
  OBVIOUS
<1>1. CASE Host
  BY <1>1, HostKeeps
<1>2. ASSUME NEW n \in ConnIds, Attach(n) \/ Feed(n) \/ HandlerEnds(n)
      PROVE  IInv'
  BY <1>2, AttachKeeps, FeedKeeps, CloseKeeps DEF HandlerEnds
<1>3. ASSUME NEW v \in Viewers, Open(v) \/ Leave(v) \/ Rejoin(v) \/ Receive(v)
      PROVE  IInv'
  BY <1>3, WatchKeeps
<1>4. CASE UNCHANGED vars
  BY SMTT(30), <1>4 DEF vars, hostVars, IInv, TypeOK, Links, Logged, Sending, Truths,
              Path, PathOf, Holds, Replayable, HistoryReplays, Watching
<1> QED BY <1>1, <1>2, <1>3, <1>4 DEF Next

\* What the parts of the invariant say together.
LEMMA Together ==
  ASSUME IInv
  PROVE  /\ NeverRefused /\ MirrorIsExact /\ HistoryReplays
         /\ NeverIncomplete /\ ShowsTheHost
<1>1. NeverRefused
  <2> SUFFICES ASSUME NEW n \in open, epoch[n] = relay.epoch, wire[n] # <<>>
               PROVE  ~TooLarge(Head(wire[n])) /\ ~Unreplayable(Head(wire[n]))
    BY DEF NeverRefused
  <2>1. n \in ConnIds /\ Holds(n)
    BY DEF IInv, TypeOK, Holds
  <2> QED BY <2>1, HeadFits
<1>2. MirrorIsExact
  <2> SUFFICES ASSUME Sending, Holds(client.conn), wire[client.conn] = <<>>
               PROVE  /\ relay.ready /\ relay.history # <<>>
                      /\ relay.historyLen = client.historyLen
                      /\ Final(relay.history).seq + 1 = client.seq
    BY DEF MirrorIsExact, Sending, Holds, Final
  <2>1. client.conn \in ConnIds
    BY HostTypes DEF IInv
  <2>2. /\ Mirrors(<<>>, relay.historyLen, TRUE, client.historyLen)
        /\ Continues(<<>>, relay.history, relay.ready, TRUE, client.seq)
    BY <2>1 DEF IInv, Path, PathOf
  <2>3. relay.historyLen = client.historyLen
    BY <2>2 DEF Mirrors, Counts
  <2>4. relay.ready /\ client.seq = Final(relay.history).seq + 1
    BY <2>2 DEF Continues
  <2> QED BY <2>3, <2>4 DEF IInv, Replayable
<1> QED BY <1>1, <1>2 DEF IInv, Replayable, Watching, NeverIncomplete, ShowsTheHost,
                          Faithful

\* The inductive invariant holds in every reachable state.
THEOREM Invariance == Spec => []IInv
<1>1. IInv /\ [Next]_vars => IInv'
  BY StepKeeps
<1> QED BY InitHolds, <1>1, PTL DEF Spec

\* Every variable of the stream keeps its type.
THEOREM TypeCorrect == Spec => []TypeOK
<1>1. IInv => TypeOK
  BY DEF IInv
<1> QED BY <1>1, Invariance, PTL

\* The length the host counts is good enough: feed_encrypted refuses no frame of the
\* connection that holds the session.
THEOREM RelayNeverRefuses == Spec => []NeverRefused
<1>1. IInv => NeverRefused
  BY Together
<1> QED BY <1>1, Invariance, PTL

\* What the relay keeps for a join starts with its only snapshot, has no gap and fits.
THEOREM HistoryIsReplayable == Spec => []HistoryReplays
<1>1. IInv => HistoryReplays
  BY Together
<1> QED BY <1>1, Invariance, PTL

\* What the host counts for a history it cannot see is its length once the relay has
\* taken what is under way, and the number the host seals next is the one after it,
\* through any number of connections, takeovers and failed sends.
THEOREM HostMirrorsTheHistory == Spec => []MirrorIsExact
<1>1. IInv => MirrorIsExact
  BY Together
<1> QED BY <1>1, Invariance, PTL

\* No browser's open finds a gap in the stream.
THEOREM StreamNeverIncomplete == Spec => []NeverIncomplete
<1>1. IInv => NeverIncomplete
  BY Together
<1> QED BY <1>1, Invariance, PTL

\* A browser shows what the host's terminal showed when it sealed the frame the browser
\* accepted last, after any snapshots, deltas and skipped checkpoints.
THEOREM ViewersShowTheHost == Spec => []ShowsTheHost
<1>1. IInv => ShowsTheHost
  BY Together
<1> QED BY <1>1, Invariance, PTL

=============================================================================
