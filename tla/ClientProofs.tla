---------------------------- MODULE ClientProofs ----------------------------
(***************************************************************************)
(* What PlainClient promises, for any number of connections, restarts and  *)
(* events.                                                                 *)
(*                                                                         *)
(* An older handler has one effect left at most, for a frame is taken      *)
(* under the epoch it was compared with; so strays are bounded by the      *)
(* epochs that are spent.  Without strays a session is told by one         *)
(* connection at a time, and what the frames of that connection still say  *)
(* leads from what the session shows to what the client has recorded, as   *)
(* what the events still say leads from there to the terminal.             *)
(***************************************************************************)
EXTENDS PlainClient, SequenceTheorems, FiniteSetTheorems, TLAPS

USE ClientAssumption

-----------------------------------------------------------------------------
(* What sequences of events and frames say. *)

\* What a frame or an event says of a size, a title or a directory.
Says(f, kind) ==
  \/ f.kind = kind
  \/ kind = "title" /\ f.kind = "metadata" /\ f.title # None

Value(f, kind) == IF kind = "title" THEN f.title
                  ELSE IF kind = "cwd" THEN f.cwd ELSE f.size

\* Whoever knows old and takes what seq says knows new in the end.
Settles(seq, kind, old, new) ==
  /\ \A i \in DOMAIN seq :
       /\ Says(seq[i], kind)
       /\ \A j \in DOMAIN seq : j > i => ~Says(seq[j], kind)
       => Value(seq[i], kind) = new
  /\ (\A i \in DOMAIN seq : ~Says(seq[i], kind)) => old = new

Rising(seq) ==
  \A i, j \in DOMAIN seq :
    i < j /\ seq[i].kind = "output" /\ seq[j].kind = "output" => seq[i].n < seq[j].n

-----------------------------------------------------------------------------
(* The types of the records, by name. *)

Clients == [phase : {"dial", "connect", "title", "cwd", "pump", "sleep",
                     "finished", "refused"},
            conn : 0..MaxConns, id : Ids \cup {NoId}, title : 0..MaxTitle,
            cwd : 0..MaxCwd, size : 0..MaxSize]

Handlers == [phase : {"hello", "resize", "ack", "pump", "apply", "closed"},
             id : Ids \cup {NoId}, epoch : Nat, acked : BOOLEAN]

Sessions == [listed : BOOLEAN, epoch : Nat, strays : Nat,
             status : {"absent", "live", "stale", "ended"},
             shown : Contents, out : Nat, inOrder : BOOLEAN]

LEMMA Types ==
  TypeOK <=>
    /\ host \in [title : 0..MaxTitle, cwd : 0..MaxCwd, size : 0..MaxSize,
                 out : 0..MaxOut, exit : BOOLEAN]
    /\ events \in Seq(Events)
    /\ client \in Clients
    /\ hello \in [ConnIds -> [id : Ids \cup {NoId}, size : 0..MaxSize]]
    /\ wire \in [ConnIds -> Seq(Frames)]
    /\ handler \in [ConnIds -> Handlers]
    /\ sessions \in [Ids -> Sessions]
    /\ restarts \in 0..MaxRestarts
    /\ renewed \in BOOLEAN
BY DEF TypeOK, Clients, Handlers, Sessions

LEMMA TypesAfter ==
  TypeOK' <=>
    /\ host' \in [title : 0..MaxTitle, cwd : 0..MaxCwd, size : 0..MaxSize,
                  out : 0..MaxOut, exit : BOOLEAN]
    /\ events' \in Seq(Events)
    /\ client' \in Clients
    /\ hello' \in [ConnIds -> [id : Ids \cup {NoId}, size : 0..MaxSize]]
    /\ wire' \in [ConnIds -> Seq(Frames)]
    /\ handler' \in [ConnIds -> Handlers]
    /\ sessions' \in [Ids -> Sessions]
    /\ restarts' \in 0..MaxRestarts
    /\ renewed' \in BOOLEAN
BY DEF TypeOK, Clients, Handlers, Sessions

-----------------------------------------------------------------------------
(* The invariant. *)

\* Where a connection stands with its handler.
Stands(n) ==
  /\ n > client.conn => handler[n].phase = "hello"
  /\ handler[n].phase = "hello" => handler[n].id = NoId /\ handler[n].epoch = 0
  /\ handler[n].phase \notin {"hello", "closed"} => handler[n].id \in Ids
  /\ handler[n].acked => handler[n].phase \in {"pump", "apply", "closed"}
  /\ handler[n].acked => handler[n].id \in Ids
  /\ handler[n].phase \in {"pump", "apply"} => handler[n].acked
  /\ wire[n] # <<>> => handler[n].phase \in {"pump", "apply"}
  /\ handler[n].phase = "apply" => wire[n] # <<>>

\* Where the client stands with its connection.
Dialled ==
  /\ client.phase # "dial" => client.conn \in ConnIds
  /\ client.phase = "dial" => client.conn = 0 /\ client.id = NoId
  /\ client.phase \in {"title", "cwd", "pump", "finished"} =>
       /\ handler[client.conn].acked
       /\ client.id = handler[client.conn].id /\ client.id \in Ids
  /\ client.phase = "connect" =>
       /\ wire[client.conn] = <<>>
       /\ hello[client.conn] = [id |-> client.id, size |-> client.size]
  /\ client.phase \in {"title", "cwd"} => hello[client.conn].size = client.size
  /\ \A n \in ConnIds : Stands(n)

\* A session no connection has made yet.
Unused(session) ==
  /\ ~session.listed /\ session.epoch = 0 /\ session.strays = 0 /\ session.out = 0
  /\ session.shown.title = 0 /\ session.shown.cwd = 0

\* Epochs of a session are held by one handler each, the last by its newest.
Epochs ==
  /\ \A id \in Ids : sessions[id].status = "absent" => Unused(sessions[id])
  /\ \A n \in ConnIds :
       handler[n].id \in Ids =>
         /\ handler[n].epoch <= sessions[handler[n].id].epoch
         /\ sessions[handler[n].id].status # "absent"
  /\ \A m, n \in ConnIds :
       handler[m].id \in Ids /\ handler[m].id = handler[n].id
         /\ handler[m].epoch = handler[n].epoch => m = n

\* Older epochs whose handler has nothing left to do to the session.
Spent(id) ==
  {e \in 0..(sessions[id].epoch - 1) :
     \A n \in ConnIds : handler[n].id = id /\ handler[n].epoch = e
                          => handler[n].phase \notin {"resize", "apply"}}

StraysAreSpent ==
  \A id \in Ids : sessions[id].strays <= Cardinality(Spent(id))

\* Output has one order from the terminal to the sessions.
Ordered ==
  /\ Rising(events) /\ \A n \in ConnIds : Rising(wire[n])
  /\ \A i \in DOMAIN events : events[i].kind = "output" =>
       /\ events[i].n <= host.out
       /\ \A n \in ConnIds : \A j \in DOMAIN wire[n] :
            wire[n][j].kind = "output" => wire[n][j].n < events[i].n
       /\ \A id \in Ids : sessions[id].out < events[i].n
  /\ \A n \in ConnIds : \A j \in DOMAIN wire[n] :
       wire[n][j].kind = "output" => wire[n][j].n <= host.out
  /\ \A id \in Ids : sessions[id].out <= host.out

\* The handler that holds a session has nothing to apply that is older than what the
\* session has.
Newer ==
  \A id \in Ids : sessions[id].strays = 0 =>
    /\ sessions[id].inOrder
    /\ \A n \in ConnIds : \A j \in DOMAIN wire[n] :
         handler[n].id = id /\ Current(n) /\ wire[n][j].kind = "output"
           => sessions[id].out < wire[n][j].n

\* The exit is the last there is.
Exits ==
  /\ \A i \in DOMAIN events : events[i].kind = "exit" => i = Len(events) /\ host.exit
  /\ client.phase = "finished" => events = <<>> /\ host.exit
  /\ \A n \in ConnIds : \A i \in DOMAIN wire[n] :
       wire[n][i].kind = "exit" =>
         i = Len(wire[n]) /\ n = client.conn /\ client.phase = "finished"

\* Before its first connection the client has told nobody anything.
Unconnected ==
  /\ client.id = NoId =>
       /\ client.title = 0 /\ client.cwd = 0
       /\ \A n \in ConnIds : wire[n] = <<>>
       /\ \A id \in Ids : sessions[id].shown.title = 0 /\ sessions[id].shown.cwd = 0
  /\ client.title = 0 =>
       /\ \A n \in ConnIds : \A j \in DOMAIN wire[n] : wire[n][j].kind # "title"
       /\ \A id \in Ids : sessions[id].shown.title = 0
       /\ client.phase # "title"
  /\ \A i \in DOMAIN events : Says(events[i], "title") => Value(events[i], "title") # 0

\* What the client has not taken yet brings it up to date.
Heard ==
  client.phase # "refused" =>
    /\ Settles(events, "resize", client.size, host.size)
    /\ Settles(events, "title", client.title, host.title)

\* What the handler of the client's connection has not applied yet brings the
\* session up to date.
Holds(id) ==
  /\ handler[client.conn].phase \in {"ack", "pump", "apply"}
  /\ handler[client.conn].id = id /\ Current(client.conn)

Retold ==
  \A id \in Ids : sessions[id].strays = 0 /\ client.conn \in ConnIds /\ Holds(id) =>
    LET shown == sessions[id].shown
        frames == wire[client.conn]
    IN /\ client.phase \in {"connect", "title", "cwd", "pump", "finished"} =>
            Settles(frames, "resize", shown.size, client.size)
       /\ ~renewed /\ client.phase \in {"cwd", "pump", "finished"} =>
            Settles(frames, "title", shown.title, client.title)
       /\ ~renewed /\ client.phase \in {"pump", "finished"} =>
            Settles(frames, "cwd", shown.cwd, client.cwd)

\* A session that ended knows all, and nobody tells it more.
EndedKnowsAll ==
  \A id \in Ids : sessions[id].status = "ended" =>
    /\ client.phase = "finished"
    /\ sessions[id].strays = 0 =>
         /\ sessions[id].shown.size = host.size
         /\ ~renewed => /\ sessions[id].shown.title = host.title
                        /\ sessions[id].shown.cwd = client.cwd
         /\ \A n \in ConnIds : handler[n].id = id /\ Current(n) =>
              handler[n].phase \notin {"resize", "apply"} /\ wire[n] = <<>>

IInv ==
  /\ TypeOK /\ Dialled /\ Epochs /\ StraysAreSpent /\ Ordered /\ Newer
  /\ Exits /\ Unconnected /\ Heard /\ Retold /\ EndedKnowsAll

-----------------------------------------------------------------------------
(* Sequences. *)

LEMMA Emptied ==
  ASSUME NEW S, NEW s \in Seq(S)
  PROVE  /\ Len(s) \in Nat /\ DOMAIN s = 1..Len(s) /\ (s = <<>> <=> Len(s) = 0)
         /\ \A i \in DOMAIN s : s[i] \in S
BY EmptySeq, ElementOfSeq, LenProperties

\* The elements of two sequences in a row.
LEMMA ConcatHas ==
  ASSUME NEW S, NEW s \in Seq(S), NEW t \in Seq(S)
  PROVE  /\ s \o t \in Seq(S) /\ Len(s \o t) = Len(s) + Len(t)
         /\ DOMAIN (s \o t) = 1..(Len(s) + Len(t))
         /\ \A i \in DOMAIN s : i \in DOMAIN (s \o t) /\ (s \o t)[i] = s[i]
         /\ \A i \in DOMAIN t : /\ Len(s) + i \in DOMAIN (s \o t)
                                /\ (s \o t)[Len(s) + i] = t[i]
         /\ \A i \in DOMAIN (s \o t) :
              \/ i \in DOMAIN s /\ (s \o t)[i] = s[i]
              \/ /\ i > Len(s) /\ i - Len(s) \in DOMAIN t
                 /\ (s \o t)[i] = t[i - Len(s)]
<1>1. /\ s \o t \in Seq(S) /\ Len(s \o t) = Len(s) + Len(t)
      /\ \A i \in 1 .. Len(s) + Len(t) : (s \o t)[i] =
           IF i <= Len(s) THEN s[i] ELSE t[i - Len(s)]
  BY ConcatProperties
<1>2. /\ Len(s) \in Nat /\ DOMAIN s = 1..Len(s) /\ Len(t) \in Nat
      /\ DOMAIN t = 1..Len(t) /\ DOMAIN (s \o t) = 1..Len(s \o t)
  BY <1>1, Emptied
<1> DEFINE u == s \o t
<1> HIDE DEF u
<1>3. \A i \in DOMAIN t : Len(s) + i \in DOMAIN u /\ u[Len(s) + i] = t[i]
  <2> SUFFICES ASSUME NEW i \in DOMAIN t
               PROVE  Len(s) + i \in DOMAIN u /\ u[Len(s) + i] = t[i]
    OBVIOUS
  <2>1. /\ Len(s) + i \in 1..Len(s) + Len(t) /\ ~(Len(s) + i <= Len(s))
        /\ (Len(s) + i) - Len(s) = i
    BY <1>2
  <2> QED BY <1>1, <1>2, <2>1 DEF u
<1> QED BY <1>1, <1>2, <1>3 DEF u

\* Those of a tail.
LEMMA TailHas ==
  ASSUME NEW S, NEW s \in Seq(S), s # <<>>
  PROVE  /\ Head(s) \in S /\ Tail(s) \in Seq(S) /\ Len(Tail(s)) = Len(s) - 1
         /\ 1 \in DOMAIN s /\ s[1] = Head(s)
         /\ DOMAIN Tail(s) = 1..(Len(s) - 1)
         /\ \A i \in DOMAIN Tail(s) : i + 1 \in DOMAIN s /\ Tail(s)[i] = s[i + 1]
         /\ \A i \in DOMAIN s : i # 1 => /\ i - 1 \in DOMAIN Tail(s)
                                         /\ s[i] = Tail(s)[i - 1]
<1>1. /\ Head(s) \in S /\ Tail(s) \in Seq(S) /\ Len(Tail(s)) = Len(s) - 1
      /\ \A i \in 1 .. Len(Tail(s)) : Tail(s)[i] = s[i + 1]
  BY HeadTailProperties
<1>2. /\ Len(s) \in Nat /\ DOMAIN s = 1..Len(s) /\ Len(s) # 0
      /\ DOMAIN Tail(s) = 1..Len(Tail(s))
  BY <1>1, Emptied
<1>3. s[1] = Head(s)
  OBVIOUS
<1> DEFINE u == Tail(s)
<1> HIDE DEF u
<1>4. \A i \in DOMAIN s : i # 1 => i - 1 \in DOMAIN u /\ s[i] = u[i - 1]
  BY <1>1, <1>2 DEF u
<1> QED BY <1>1, <1>2, <1>3, <1>4 DEF u

\* An event at the end.
LEMMA AppendIs ==
  ASSUME NEW S, NEW s \in Seq(S), NEW e \in S
  PROVE  /\ <<e>> \in Seq(S) /\ Append(s, e) = s \o <<e>>
         /\ Len(<<e>>) = 1 /\ DOMAIN <<e>> = {1} /\ <<e>>[1] = e
<1>1. <<e>> \in Seq(S) /\ Len(<<e>>) = 1 /\ DOMAIN <<e>> = {1} /\ <<e>>[1] = e
  OBVIOUS
<1> QED BY <1>1, AppendIsConcat

-----------------------------------------------------------------------------
(* Settles and Rising. *)

LEMMA SettlesNone ==
  ASSUME NEW kind, NEW old, NEW new
  PROVE  Settles(<<>>, kind, old, new) <=> old = new
BY DEF Settles

LEMMA SettlesOne ==
  ASSUME NEW f, NEW kind, NEW old
  PROVE  /\ Says(f, kind) => Settles(<<f>>, kind, old, Value(f, kind))
         /\ ~Says(f, kind) => Settles(<<f>>, kind, old, old)
<1> DEFINE s == <<f>>
<1>1. DOMAIN s = {1} /\ s[1] = f
  OBVIOUS
<1> HIDE DEF s
<1>2. /\ Says(f, kind) => Settles(s, kind, old, Value(f, kind))
      /\ ~Says(f, kind) => Settles(s, kind, old, old)
  BY <1>1 DEF Settles
<1> QED BY <1>2 DEF s

LEMMA SettlesConcat ==
  ASSUME NEW S, NEW s \in Seq(S), NEW t \in Seq(S), NEW kind,
         NEW old, NEW mid, NEW new,
         Settles(s, kind, old, mid), Settles(t, kind, mid, new)
  PROVE  Settles(s \o t, kind, old, new)
<1> DEFINE u == s \o t
<1>1. /\ DOMAIN u = 1..(Len(s) + Len(t))
      /\ \A i \in DOMAIN s : i \in DOMAIN u /\ u[i] = s[i]
      /\ \A i \in DOMAIN t : Len(s) + i \in DOMAIN u /\ u[Len(s) + i] = t[i]
      /\ \A i \in DOMAIN u :
           \/ i \in DOMAIN s /\ u[i] = s[i]
           \/ i > Len(s) /\ i - Len(s) \in DOMAIN t /\ u[i] = t[i - Len(s)]
  BY ConcatHas
<1>2. /\ Len(s) \in Nat /\ DOMAIN s = 1..Len(s)
      /\ Len(t) \in Nat /\ DOMAIN t = 1..Len(t)
  BY Emptied
<1> HIDE DEF u
<1>3. ASSUME NEW i \in DOMAIN u, Says(u[i], kind),
             \A j \in DOMAIN u : j > i => ~Says(u[j], kind)
      PROVE  Value(u[i], kind) = new
  <2>1. CASE i \in DOMAIN s
    <3>1. Value(u[i], kind) = mid
      BY <1>1, <1>2, <1>3, <2>1 DEF Settles
    <3>2. \A j \in DOMAIN t : ~Says(t[j], kind)
      <4> SUFFICES ASSUME NEW j \in DOMAIN t PROVE ~Says(t[j], kind)
        OBVIOUS
      <4>1. Len(s) + j \in DOMAIN u /\ u[Len(s) + j] = t[j] /\ Len(s) + j > i
        BY <1>1, <1>2, <2>1
      <4> QED BY <1>3, <4>1
    <3>3. mid = new
      BY <3>2 DEF Settles
    <3> QED BY <3>1, <3>3
  <2>2. CASE i \notin DOMAIN s
    <3> DEFINE k == i - Len(s)
    <3>1. k \in DOMAIN t /\ u[i] = t[k] /\ i = Len(s) + k /\ k \in Int
      BY <1>1, <1>2, <2>2
    <3> HIDE DEF k
    <3>2. ASSUME NEW j \in DOMAIN t, j > k PROVE ~Says(t[j], kind)
      <4>1. Len(s) + j \in DOMAIN u /\ u[Len(s) + j] = t[j] /\ Len(s) + j > i
        BY <1>1, <1>2, <3>1, <3>2
      <4> QED BY <1>3, <4>1
    <3> QED BY <1>3, <3>1, <3>2 DEF Settles
  <2> QED BY <2>1, <2>2
<1>4. ASSUME \A i \in DOMAIN u : ~Says(u[i], kind) PROVE old = new
  <2>1. \A i \in DOMAIN s : ~Says(s[i], kind)
    BY <1>1, <1>4
  <2>2. \A i \in DOMAIN t : ~Says(t[i], kind)
    BY <1>1, <1>4
  <2> QED BY <2>1, <2>2 DEF Settles
<1>5. Settles(u, kind, old, new)
  BY <1>3, <1>4 DEF Settles
<1> QED BY <1>5 DEF u

LEMMA SettlesTail ==
  ASSUME NEW S, NEW s \in Seq(S), s # <<>>, NEW kind, NEW old, NEW new,
         Settles(s, kind, old, new)
  PROVE  /\ Says(Head(s), kind) => Settles(Tail(s), kind, Value(Head(s), kind), new)
         /\ ~Says(Head(s), kind) => Settles(Tail(s), kind, old, new)
<1> DEFINE u == Tail(s)
           h == Head(s)
<1>1. /\ 1 \in DOMAIN s /\ s[1] = h
      /\ \A i \in DOMAIN u : i + 1 \in DOMAIN s /\ u[i] = s[i + 1]
      /\ \A i \in DOMAIN s : i # 1 => i - 1 \in DOMAIN u /\ s[i] = u[i - 1]
  BY TailHas
<1>2. DOMAIN s = 1..Len(s) /\ Len(s) \in Nat /\ DOMAIN u = 1..Len(u) /\ Len(u) \in Nat
  BY Emptied, TailHas
<1> HIDE DEF u, h
<1>3. ASSUME NEW i \in DOMAIN u, Says(u[i], kind),
             \A j \in DOMAIN u : j > i => ~Says(u[j], kind)
      PROVE  Value(u[i], kind) = new
  <2>1. ASSUME NEW j \in DOMAIN s, j > i + 1 PROVE ~Says(s[j], kind)
    <3>1. j - 1 \in DOMAIN u /\ j - 1 > i /\ s[j] = u[j - 1]
      BY <1>1, <1>2, <2>1
    <3> QED BY <1>3, <3>1
  <2> QED BY <1>1, <1>3, <2>1 DEF Settles
<1>4. ASSUME \A i \in DOMAIN u : ~Says(u[i], kind)
      PROVE  /\ Says(h, kind) => Value(h, kind) = new
             /\ ~Says(h, kind) => old = new
  <2>1. \A j \in DOMAIN s : j # 1 => ~Says(s[j], kind)
    BY <1>1, <1>4
  <2>2. \A j \in DOMAIN s : j > 1 => ~Says(s[j], kind)
    BY <1>2, <2>1
  <2>3. Says(h, kind) => Value(h, kind) = new
    BY <1>1, <2>2 DEF Settles
  <2>4. ~Says(h, kind) => \A j \in DOMAIN s : ~Says(s[j], kind)
    BY <1>1, <2>1
  <2> QED BY <2>3, <2>4 DEF Settles
<1>5. /\ Says(h, kind) => Settles(u, kind, Value(h, kind), new)
      /\ ~Says(h, kind) => Settles(u, kind, old, new)
  BY <1>3, <1>4 DEF Settles
<1> QED BY <1>5 DEF u, h

LEMMA RisingConcat ==
  ASSUME NEW S, NEW s \in Seq(S), NEW t \in Seq(S), Rising(s), Rising(t),
         \A i \in DOMAIN s, j \in DOMAIN t :
           s[i].kind = "output" /\ t[j].kind = "output" => s[i].n < t[j].n
  PROVE  Rising(s \o t)
<1> DEFINE u == s \o t
<1>1. \A i \in DOMAIN u :
        \/ i \in DOMAIN s /\ u[i] = s[i]
        \/ i > Len(s) /\ i - Len(s) \in DOMAIN t /\ u[i] = t[i - Len(s)]
  BY ConcatHas
<1>2. /\ Len(s) \in Nat /\ DOMAIN s = 1..Len(s) /\ DOMAIN u = 1..Len(u)
      /\ Len(u) \in Nat
  BY Emptied, ConcatHas
<1> HIDE DEF u
<1>3. ASSUME NEW i \in DOMAIN u, NEW j \in DOMAIN u, i < j,
             u[i].kind = "output", u[j].kind = "output"
      PROVE  u[i].n < u[j].n
  <2>1. CASE j \in DOMAIN s
    BY <1>1, <1>2, <1>3, <2>1 DEF Rising
  <2>2. CASE i \in DOMAIN s /\ j \notin DOMAIN s
    BY <1>1, <1>2, <1>3, <2>2
  <2>3. CASE i \notin DOMAIN s /\ j \notin DOMAIN s
    <3>1. /\ i - Len(s) \in DOMAIN t /\ u[i] = t[i - Len(s)]
          /\ j - Len(s) \in DOMAIN t /\ u[j] = t[j - Len(s)]
          /\ i - Len(s) < j - Len(s)
      BY <1>1, <1>2, <1>3, <2>3
    <3> QED BY <1>3, <3>1 DEF Rising
  <2> QED BY <1>2, <1>3, <2>1, <2>2, <2>3
<1> QED BY <1>3 DEF Rising, u

LEMMA RisingTail ==
  ASSUME NEW S, NEW s \in Seq(S), s # <<>>, Rising(s)
  PROVE  /\ Rising(Tail(s))
         /\ Head(s).kind = "output" =>
              \A i \in DOMAIN Tail(s) : Tail(s)[i].kind = "output" => Head(s).n < Tail(s)[i].n
<1> DEFINE u == Tail(s)
           h == Head(s)
<1>1. /\ 1 \in DOMAIN s /\ s[1] = h
      /\ \A i \in DOMAIN u : i + 1 \in DOMAIN s /\ u[i] = s[i + 1]
  BY TailHas
<1>2. DOMAIN u = 1..Len(u) /\ Len(u) \in Nat
  BY Emptied, TailHas
<1> HIDE DEF u, h
<1>3. /\ \A i \in DOMAIN u : 1 < i + 1
      /\ \A i, j \in DOMAIN u : i < j => i + 1 < j + 1
  BY <1>2
<1>4. Rising(u)
  BY <1>1, <1>3 DEF Rising
<1>5. h.kind = "output" => \A i \in DOMAIN u : u[i].kind = "output" => h.n < u[i].n
  BY <1>1, <1>3 DEF Rising
<1> QED BY <1>4, <1>5 DEF u, h

-----------------------------------------------------------------------------
(* Steps of the terminal. *)

\* Nothing was said.
LEMMA InitHolds == Init => IInv
<1> SUFFICES ASSUME Init PROVE IInv
  OBVIOUS
<1>1. /\ host = [title |-> 0, cwd |-> 0, size |-> 0, out |-> 0, exit |-> FALSE]
      /\ events = <<>> /\ restarts = 0 /\ renewed = FALSE
      /\ client = [phase |-> "dial", conn |-> 0, id |-> NoId, title |-> 0, cwd |-> 0,
                   size |-> 0]
      /\ hello = [n \in ConnIds |-> [id |-> NoId, size |-> 0]]
      /\ wire = [n \in ConnIds |-> <<>>]
      /\ handler = [n \in ConnIds |-> [phase |-> "hello", id |-> NoId, epoch |-> 0,
                                       acked |-> FALSE]]
      /\ sessions = [id \in Ids |-> NoSession]
  BY DEF Init
<1>2. NoId \notin Ids /\ 0 \notin ConnIds
  BY DEF NoId, Ids, ConnIds
<1>3. TypeOK
  <2>1. \A id \in Ids : sessions[id] \in
          [listed : BOOLEAN, epoch : Nat, strays : Nat,
           status : {"absent", "live", "stale", "ended"},
           shown : Contents, out : Nat, inOrder : BOOLEAN]
    BY <1>1 DEF NoSession, Contents
  <2>2. \A n \in ConnIds : handler[n] \in
          [phase : {"hello", "resize", "ack", "pump", "apply", "closed"},
           id : Ids \cup {NoId}, epoch : Nat, acked : BOOLEAN]
    BY <1>1
  <2>3. /\ host \in [title : 0..MaxTitle, cwd : 0..MaxCwd, size : 0..MaxSize,
                    out : 0..MaxOut, exit : BOOLEAN]
        /\ client \in [phase : {"dial", "connect", "title", "cwd", "pump", "sleep",
                               "finished", "refused"},
                      conn : 0..MaxConns, id : Ids \cup {NoId}, title : 0..MaxTitle,
                      cwd : 0..MaxCwd, size : 0..MaxSize]
    BY <1>1
  <2>4. /\ hello \in [ConnIds -> [id : Ids \cup {NoId}, size : 0..MaxSize]]
        /\ wire \in [ConnIds -> Seq(Frames)] /\ events \in Seq(Events)
        /\ restarts \in 0..MaxRestarts /\ renewed \in BOOLEAN
    <3>1. <<>> \in Seq(Frames) /\ <<>> \in Seq(Events)
      OBVIOUS
    <3>2. 0 \in 0..MaxSize /\ 0 \in 0..MaxRestarts
      OBVIOUS
    <3> QED BY <1>1, <3>1, <3>2
  <2>5. /\ handler \in [ConnIds -> [phase : {"hello", "resize", "ack", "pump", "apply",
                                            "closed"},
                                   id : Ids \cup {NoId}, epoch : Nat, acked : BOOLEAN]]
        /\ sessions \in [Ids -> [listed : BOOLEAN, epoch : Nat, strays : Nat,
                                status : {"absent", "live", "stale", "ended"},
                                shown : Contents, out : Nat, inOrder : BOOLEAN]]
    BY <1>1, <2>1, <2>2
  <2> QED BY <2>3, <2>4, <2>5 DEF TypeOK
<1>4. Dialled
  BY <1>1, <1>2 DEF Dialled, Stands, ConnIds, NoId
<1>5. Epochs
  <2>1. \A id \in Ids : Unused(sessions[id])
    BY <1>1 DEF NoSession, Unused
  <2> QED BY <1>1, <1>2, <2>1 DEF Epochs
<1>6. StraysAreSpent
  <2> SUFFICES ASSUME NEW id \in Ids PROVE sessions[id].strays <= Cardinality(Spent(id))
    BY DEF StraysAreSpent
  <2>1. sessions[id].strays = 0 /\ sessions[id].epoch = 0
    BY <1>1 DEF NoSession
  <2>2. Spent(id) = {}
    BY <2>1 DEF Spent
  <2> QED BY <2>1, <2>2, FS_EmptySet
<1>7. Ordered /\ Newer
  BY <1>1, <1>2 DEF Ordered, Newer, Rising, NoSession
<1>8. Exits /\ Unconnected /\ Heard
  BY <1>1, SettlesNone DEF Exits, Unconnected, Heard, NoSession
<1>9. Retold /\ EndedKnowsAll
  BY <1>1, <1>2 DEF Retold, EndedKnowsAll, NoSession
<1> QED BY <1>3, <1>4, <1>5, <1>6, <1>7, <1>8, <1>9 DEF IInv

\* An event that says how the terminal has changed, and all that follow from it.
LEMMA EmitKeeps ==
  ASSUME IInv, TypeOK', ~host.exit, NEW event \in Events, events' = Append(events, event),
         UNCHANGED <<client, hello, wire, handler, sessions, restarts, renewed>>,
         IF event.kind = "output" THEN host'.out = host.out + 1 /\ event.n = host'.out
                                  ELSE host'.out = host.out,
         event.kind = "exit" => host'.exit,
         Settles(<<event>>, "resize", host.size, host'.size),
         Settles(<<event>>, "title", host.title, host'.title),
         Says(event, "title") => Value(event, "title") # 0
  PROVE  IInv'
<1> USE DEF IInv
<1>1. /\ events \in Seq(Events) /\ host.out \in Nat
  BY DEF TypeOK
<1>2. /\ <<event>> \in Seq(Events) /\ events' = events \o <<event>>
      /\ DOMAIN <<event>> = {1} /\ <<event>>[1] = event
  BY <1>1, AppendIs
<1>3. /\ Len(events) \in Nat /\ DOMAIN events = 1..Len(events)
      /\ Len(events') = Len(events) + 1
      /\ \A i \in DOMAIN events : events'[i] = events[i]
      /\ \A i \in DOMAIN events' :
           \/ i \in DOMAIN events /\ events'[i] = events[i]
           \/ i = Len(events') /\ events'[i] = event
  <2>1. Len(<<event>>) = 1
    OBVIOUS
  <2>2. Len(events) \in Nat /\ DOMAIN events = 1..Len(events)
    BY <1>1, Emptied
  <2>3. \A i \in DOMAIN events' :
           \/ i \in DOMAIN events /\ events'[i] = events[i]
           \/ i > Len(events) /\ i - Len(events) \in {1} /\ events'[i] = event
    BY <1>1, <1>2, ConcatHas
  <2>4. Len(events') = Len(events) + 1 /\ DOMAIN events' = 1..(Len(events) + 1)
    BY <1>1, <1>2, <2>1, ConcatHas
  <2>5. \A i \in DOMAIN events : events'[i] = events[i]
    BY <1>1, <1>2, ConcatHas
  <2> QED BY <2>2, <2>3, <2>4, <2>5
<1>4. Dialled' /\ Epochs' /\ StraysAreSpent'
  <2>1. Dialled'
    BY DEF Dialled, Stands
  <2>2. Epochs' /\ StraysAreSpent'
    BY DEF Epochs, Unused, StraysAreSpent, Spent
  <2> QED BY <2>1, <2>2
<1>5. Newer' /\ Retold'
  BY DEF Newer, Retold, Holds, Current
<1>6. Ordered'
  <2>1. Rising(events) /\ Rising(<<event>>)
    BY <1>2 DEF Ordered, Rising
  <2>2. \A i \in DOMAIN events, j \in DOMAIN <<event>> :
          events[i].kind = "output" /\ <<event>>[j].kind = "output"
            => events[i].n < <<event>>[j].n
    <3> SUFFICES ASSUME NEW i \in DOMAIN events, events[i].kind = "output",
                        event.kind = "output"
                 PROVE  events[i].n < event.n
      BY <1>2
    <3>1. events[i].n \in Nat /\ events[i].n <= host.out
      <4>1. events[i] \in Events
        BY <1>1, Emptied
      <4> QED BY <4>1 DEF Ordered, Events
    <3>2. event.n = host.out + 1
      OBVIOUS
    <3> QED BY <1>1, <3>1, <3>2
  <2>3. Rising(events')
    BY <1>1, <1>2, <2>1, <2>2, RisingConcat
  <2>4. \A n \in ConnIds : \A j \in DOMAIN wire[n] :
          wire[n][j].kind = "output" => wire[n][j].n \in Nat
    <3> SUFFICES ASSUME NEW n \in ConnIds, NEW j \in DOMAIN wire[n],
                        wire[n][j].kind = "output"
                 PROVE  wire[n][j].n \in Nat
      OBVIOUS
    <3>1. wire[n] \in Seq(Frames)
      BY DEF TypeOK
    <3>2. wire[n][j] \in Frames
      BY <3>1, Emptied
    <3> QED BY <3>2 DEF Frames
  <2>5. \A id \in Ids : sessions[id].out \in Nat
    BY DEF TypeOK
  <2>6. \A i \in DOMAIN events : events[i].kind = "output" => events[i].n \in Nat
    <3> SUFFICES ASSUME NEW i \in DOMAIN events, events[i].kind = "output"
                 PROVE  events[i].n \in Nat
      OBVIOUS
    <3>1. events[i] \in Events
      BY <1>1, Emptied
    <3> QED BY <3>1 DEF Events
  <2>7. host'.out \in Nat /\ host.out <= host'.out
        /\ (event.kind = "output" => event.n = host.out + 1 /\ event.n = host'.out)
    BY <1>1
  <2>8. \A i \in DOMAIN events' : events'[i].kind = "output" =>
          /\ events'[i].n <= host'.out
          /\ \A n \in ConnIds : \A j \in DOMAIN wire[n] :
               wire[n][j].kind = "output" => wire[n][j].n < events'[i].n
          /\ \A id \in Ids : sessions[id].out < events'[i].n
    <3> SUFFICES ASSUME NEW i \in DOMAIN events', events'[i].kind = "output"
                 PROVE  /\ events'[i].n <= host'.out
                        /\ \A n \in ConnIds : \A j \in DOMAIN wire[n] :
                             wire[n][j].kind = "output" => wire[n][j].n < events'[i].n
                        /\ \A id \in Ids : sessions[id].out < events'[i].n
      OBVIOUS
    <3>1. CASE i \in DOMAIN events /\ events'[i] = events[i]
      BY <1>1, <2>6, <2>7, <3>1 DEF Ordered
    <3>2. CASE events'[i] = event
      BY <1>1, <2>4, <2>5, <2>7, <3>2 DEF Ordered
    <3> QED BY <1>3, <3>1, <3>2
  <2>9. /\ \A n \in ConnIds : \A j \in DOMAIN wire[n] :
             wire[n][j].kind = "output" => wire[n][j].n <= host'.out
        /\ \A id \in Ids : sessions[id].out <= host'.out
    BY <1>1, <2>4, <2>5, <2>7 DEF Ordered
  <2> QED BY <2>3, <2>8, <2>9 DEF Ordered
<1>7. Exits'
  <2>1. client.phase # "finished"
    BY DEF Exits
  <2>2. \A i \in DOMAIN events : events[i].kind # "exit"
    BY DEF Exits
  <2>3. \A i \in DOMAIN events' : events'[i].kind = "exit" => i = Len(events') /\ host'.exit
    BY <1>3, <2>2
  <2> QED BY <2>1, <2>3 DEF Exits
<1>8. Unconnected'
  <2>1. \A i \in DOMAIN events' : Says(events'[i], "title") => Value(events'[i], "title") # 0
    BY <1>3 DEF Unconnected
  <2> QED BY <2>1 DEF Unconnected
<1>9. Heard'
  BY <1>1, <1>2, SettlesConcat DEF Heard
<1>10. EndedKnowsAll'
  BY DEF EndedKnowsAll, Exits
<1> QED BY <1>4, <1>5, <1>6, <1>7, <1>8, <1>9, <1>10

LEMMA OutputKeeps == IInv /\ Output => IInv'
<1> SUFFICES ASSUME IInv, Output PROVE IInv'
  OBVIOUS
<1> DEFINE event == [kind |-> "output", n |-> host.out + 1]
<1>1. /\ ~host.exit /\ host.out < MaxOut /\ host' = [host EXCEPT !.out = @ + 1]
      /\ events' = Append(events, event)
      /\ UNCHANGED <<client, hello, wire, handler, sessions, restarts, renewed>>
  BY DEF Output, Emit
<1>2. /\ host.out \in Nat /\ event \in Events /\ events \in Seq(Events)
  <2>1. /\ host \in [title : 0..MaxTitle, cwd : 0..MaxCwd, size : 0..MaxSize,
                     out : 0..MaxOut, exit : BOOLEAN]
        /\ events \in Seq(Events)
    BY Types DEF IInv
  <2>2. host.out \in 0..MaxOut
    BY <2>1
  <2>3. host.out + 1 \in 1..MaxOut
    BY <1>1, <2>2
  <2>4. event \in [kind : {"output"}, n : 1..MaxOut]
    BY <2>3
  <2>5. event \in Events
    BY <2>4 DEF Events
  <2> QED BY <2>1, <2>2, <2>5
<1>3. /\ host'.out = host.out + 1 /\ host'.size = host.size /\ host'.title = host.title
      /\ event.n = host'.out /\ event.kind = "output"
  BY <1>1 DEF IInv, TypeOK
<1>4. TypeOK'
  <2>1. events' \in Seq(Events)
    BY <1>1, <1>2, AppendProperties
  <2>2. host.out + 1 \in 0..MaxOut
    <3>1. host.out \in 0..MaxOut /\ MaxOut \in Nat
      BY DEF IInv, TypeOK
    <3> QED BY <1>1, <3>1
  <2> HIDE DEF event
  <2> QED BY <1>1, <2>1, <2>2 DEF IInv, TypeOK
<1>5. ~Says(event, "resize") /\ ~Says(event, "title")
  BY DEF Says
<1> HIDE DEF event
<1>6. /\ Settles(<<event>>, "resize", host.size, host'.size)
      /\ Settles(<<event>>, "title", host.title, host'.title)
  BY <1>3, <1>5, SettlesOne
<1> QED BY <1>1, <1>2, <1>3, <1>4, <1>5, <1>6, EmitKeeps

LEMMA MetadataKeeps == IInv /\ Metadata => IInv'
<1> SUFFICES ASSUME IInv, Metadata PROVE IInv'
  OBVIOUS
<1> PICK title \in {host.title, host.title + 1} \cap (0..MaxTitle),
         cwd \in {host.cwd, host.cwd + 1} \cap (0..MaxCwd) :
           /\ host' = [host EXCEPT !.title = title, !.cwd = cwd]
           /\ Emit([kind |-> "metadata",
                    title |-> IF title = host.title THEN None ELSE title,
                    cwd |-> IF cwd = host.cwd THEN None ELSE cwd])
  BY DEF Metadata
<1> DEFINE event == [kind |-> "metadata",
                     title |-> IF title = host.title THEN None ELSE title,
                     cwd |-> IF cwd = host.cwd THEN None ELSE cwd]
<1>1. /\ ~host.exit /\ events' = Append(events, event)
      /\ UNCHANGED <<client, hello, wire, handler, sessions, restarts, renewed>>
  BY DEF Metadata, Emit
<1>2. /\ host.title \in Nat /\ host.cwd \in Nat /\ title \in Nat /\ cwd \in Nat
      /\ events \in Seq(Events)
  BY DEF IInv, TypeOK
<1>3. event \in Events
  <2>1. /\ (IF title = host.title THEN None ELSE title) \in Nat \cup {None}
        /\ (IF cwd = host.cwd THEN None ELSE cwd) \in Nat \cup {None}
    BY <1>2
  <2> QED BY <2>1 DEF Events
<1>4. /\ host'.out = host.out /\ host'.size = host.size /\ host'.title = title
      /\ event.kind = "metadata"
      /\ event.title = IF title = host.title THEN None ELSE title
  BY DEF IInv, TypeOK
<1>5. TypeOK'
  <2>1. events' \in Seq(Events)
    BY <1>1, <1>2, <1>3, AppendProperties
  <2> HIDE DEF event
  <2> QED BY <1>1, <2>1 DEF IInv, TypeOK
<1> HIDE DEF event
<1>6. /\ ~Says(event, "resize") /\ Value(event, "title") = event.title
      /\ Says(event, "title") <=> title # host.title
  BY <1>2, <1>4 DEF Says, Value, None
<1>7. Says(event, "title") => Value(event, "title") = title /\ title # 0
  BY <1>2, <1>4, <1>6
<1>8. /\ Settles(<<event>>, "resize", host.size, host'.size)
      /\ Settles(<<event>>, "title", host.title, host'.title)
  BY <1>4, <1>6, <1>7, SettlesOne
<1> QED BY <1>1, <1>3, <1>4, <1>5, <1>7, <1>8, EmitKeeps

LEMMA WinchKeeps == IInv /\ Winch => IInv'
<1> SUFFICES ASSUME IInv, Winch PROVE IInv'
  OBVIOUS
<1> DEFINE event == [kind |-> "resize", size |-> host.size + 1]
<1>1. /\ ~host.exit /\ host.size < MaxSize /\ host' = [host EXCEPT !.size = @ + 1]
      /\ events' = Append(events, event)
      /\ UNCHANGED <<client, hello, wire, handler, sessions, restarts, renewed>>
  BY DEF Winch, Emit
<1>2. /\ host.size \in Nat /\ event \in Events /\ events \in Seq(Events)
  <2>1. host.size \in 0..MaxSize /\ events \in Seq(Events) /\ MaxSize \in Nat
    BY DEF IInv, TypeOK
  <2>2. host.size + 1 \in 0..MaxSize
    BY <1>1, <2>1
  <2> QED BY <2>1, <2>2 DEF Events
<1>3. /\ host'.out = host.out /\ host'.size = event.size /\ host'.title = host.title
      /\ event.kind = "resize"
  BY <1>1 DEF IInv, TypeOK
<1>4. TypeOK'
  <2>1. events' \in Seq(Events)
    BY <1>1, <1>2, AppendProperties
  <2>2. host.size + 1 \in 0..MaxSize
    <3>1. host.size \in 0..MaxSize /\ MaxSize \in Nat
      BY DEF IInv, TypeOK
    <3> QED BY <1>1, <3>1
  <2> HIDE DEF event
  <2> QED BY <1>1, <2>1, <2>2 DEF IInv, TypeOK
<1> HIDE DEF event
<1>5. Says(event, "resize") /\ ~Says(event, "title") /\ Value(event, "resize") = event.size
  BY <1>3 DEF Says, Value
<1>6. /\ Settles(<<event>>, "resize", host.size, host'.size)
      /\ Settles(<<event>>, "title", host.title, host'.title)
  BY <1>3, <1>5, SettlesOne
<1> QED BY <1>1, <1>2, <1>3, <1>4, <1>5, <1>6, EmitKeeps

LEMMA ExitKeeps == IInv /\ Exit => IInv'
<1> SUFFICES ASSUME IInv, Exit PROVE IInv'
  OBVIOUS
<1> DEFINE event == [kind |-> "exit"]
<1>1. /\ ~host.exit /\ host' = [host EXCEPT !.exit = TRUE]
      /\ events' = Append(events, event)
      /\ UNCHANGED <<client, hello, wire, handler, sessions, restarts, renewed>>
  BY DEF Exit, Emit
<1>2. event \in Events /\ events \in Seq(Events)
  BY DEF IInv, TypeOK, Events
<1>3. /\ host'.out = host.out /\ host'.size = host.size /\ host'.title = host.title
      /\ event.kind = "exit" /\ host'.exit = TRUE
  BY <1>1 DEF IInv, TypeOK
<1>4. TypeOK'
  <2>1. events' \in Seq(Events)
    BY <1>1, <1>2, AppendProperties
  <2> HIDE DEF event
  <2> QED BY <1>1, <2>1 DEF IInv, TypeOK
<1> HIDE DEF event
<1>5. ~Says(event, "resize") /\ ~Says(event, "title")
  BY <1>3 DEF Says
<1>6. /\ Settles(<<event>>, "resize", host.size, host'.size)
      /\ Settles(<<event>>, "title", host.title, host'.title)
  BY <1>3, <1>5, SettlesOne
<1> QED BY <1>1, <1>2, <1>3, <1>4, <1>5, <1>6, EmitKeeps

-----------------------------------------------------------------------------
(* Steps of the client that send nothing. *)

\* The first event is taken: what was so of all events is so of the rest.
LEMMA TakenEvent ==
  ASSUME TypeOK, events # <<>>, events' = Tail(events)
  PROVE  /\ events' \in Seq(Events) /\ Head(events) \in Events
         /\ 1 \in DOMAIN events /\ events[1] = Head(events)
         /\ \A i \in DOMAIN events' : i + 1 \in DOMAIN events /\ events'[i] = events[i + 1]
         /\ Len(events') = Len(events) - 1 /\ Len(events) \in Nat \ {0}
         /\ \A i \in DOMAIN events' : i \in Nat
<1>1. events \in Seq(Events)
  BY DEF TypeOK
<1>2. /\ Len(events) \in Nat /\ DOMAIN events = 1..Len(events) /\ Len(events) # 0
  BY <1>1, Emptied
<1>3. /\ Head(events) \in Events /\ Tail(events) \in Seq(Events)
      /\ Len(Tail(events)) = Len(events) - 1
      /\ 1 \in DOMAIN events /\ events[1] = Head(events)
      /\ DOMAIN Tail(events) = 1..(Len(events) - 1)
      /\ \A i \in DOMAIN Tail(events) : i + 1 \in DOMAIN events
                                        /\ Tail(events)[i] = events[i + 1]
  BY <1>1, TailHas
<1> QED BY <1>2, <1>3

\* A step of the client alone keeps what is said of the relay alone.
LEMMA RelayUntouched ==
  ASSUME IInv, UNCHANGED <<wire, handler, sessions>>
  PROVE  Epochs' /\ StraysAreSpent' /\ Newer'
BY DEF IInv, Epochs, StraysAreSpent, Spent, Newer, Current

\* The client goes to sleep, before its next connection.
LEMMA SleepKeeps ==
  ASSUME IInv, client.phase \in {"connect", "pump"},
         client' = [client EXCEPT !.phase = "sleep"],
         UNCHANGED <<host, events, hello, wire, handler, sessions, restarts, renewed>>
  PROVE  IInv'
<1>1. /\ client'.phase = "sleep" /\ client'.conn = client.conn /\ client'.id = client.id
      /\ client'.title = client.title /\ client'.cwd = client.cwd
      /\ client'.size = client.size
  BY DEF IInv, TypeOK
<1>2. TypeOK'
  BY DEF IInv, TypeOK
<1>3. Dialled'
  BY <1>1 DEF IInv, Dialled, Stands
<1>4. Epochs' /\ StraysAreSpent' /\ Newer'
  BY RelayUntouched
<1>5. Ordered'
  BY DEF IInv, Ordered
<1>6. Exits' /\ Unconnected' /\ EndedKnowsAll'
  BY <1>1 DEF IInv, Exits, Unconnected, EndedKnowsAll
<1>7. Heard' /\ Retold'
  BY <1>1 DEF IInv, Heard, Retold
<1> QED BY <1>2, <1>3, <1>4, <1>5, <1>6, <1>7 DEF IInv

LEMMA DialKeeps == IInv /\ Dial => IInv'
<1> SUFFICES ASSUME IInv, Dial PROVE IInv'
  OBVIOUS
<1>1. /\ client.phase \in {"dial", "sleep"} /\ client.conn < MaxConns
      /\ client' = [client EXCEPT !.phase = "connect", !.conn = @ + 1]
      /\ hello' = [hello EXCEPT ![client.conn + 1] = [id |-> client.id,
                                                      size |-> client.size]]
      /\ UNCHANGED <<host, events, wire, handler, sessions, restarts, renewed>>
  BY DEF Dial
<1>2. client.conn \in 0..MaxConns /\ client.conn + 1 \in ConnIds /\ client.conn \in Int
  <2>1. client.conn \in 0..MaxConns
    BY DEF IInv, TypeOK
  <2> QED BY <1>1, <2>1 DEF ConnIds
<1>3. /\ client'.phase = "connect" /\ client'.conn = client.conn + 1
      /\ client'.id = client.id
      /\ client'.title = client.title /\ client'.cwd = client.cwd
      /\ client'.size = client.size
  BY <1>1 DEF IInv, TypeOK
<1>4. TypeOK'
  <2>1. client.conn + 1 \in 0..MaxConns
    BY <1>2 DEF ConnIds
  <2>2. /\ client' \in [phase : {"dial", "connect", "title", "cwd", "pump", "sleep",
                               "finished", "refused"},
                      conn : 0..MaxConns, id : Ids \cup {NoId}, title : 0..MaxTitle,
                      cwd : 0..MaxCwd, size : 0..MaxSize]
        /\ hello' \in [ConnIds -> [id : Ids \cup {NoId}, size : 0..MaxSize]]
    BY <1>1, <2>1 DEF IInv, TypeOK
  <2> QED BY <1>1, <2>2 DEF IInv, TypeOK
<1>5. handler[client.conn + 1].phase = "hello" /\ wire[client.conn + 1] = <<>>
  <2>1. client.conn + 1 > client.conn
    BY <1>2
  <2> QED BY <1>2, <2>1 DEF IInv, Dialled, Stands
<1>6. Dialled'
  <2>1. hello'[client.conn + 1] = [id |-> client.id, size |-> client.size]
    BY <1>1, <1>2 DEF IInv, TypeOK
  <2>2. \A n \in ConnIds : n > client'.conn => n > client.conn
    BY <1>2, <1>3 DEF ConnIds
  <2>3. \A n \in ConnIds :
          /\ handler'[n] = handler[n] /\ wire'[n] = wire[n]
          /\ n > client'.conn => handler[n].phase = "hello"
    BY <1>1, <2>2 DEF IInv, Dialled, Stands
  <2> QED BY <1>1, <1>2, <1>3, <1>5, <2>1, <2>3 DEF IInv, Dialled, Stands
<1>7. Epochs' /\ StraysAreSpent' /\ Newer'
  BY <1>1, RelayUntouched
<1>8. Ordered'
  BY <1>1 DEF IInv, Ordered
<1>9. Exits' /\ Unconnected' /\ EndedKnowsAll'
  BY <1>1, <1>3 DEF IInv, Exits, Unconnected, EndedKnowsAll
<1>10. Heard'
  BY <1>1, <1>3 DEF IInv, Heard
<1>11. Retold'
  BY <1>1, <1>3, <1>5 DEF Retold, Holds
<1> QED BY <1>4, <1>6, <1>7, <1>8, <1>9, <1>10, <1>11 DEF IInv

LEMMA RefusedKeeps == IInv /\ Refused => IInv'
<1> SUFFICES ASSUME IInv, Refused PROVE IInv'
  OBVIOUS
<1> DEFINE c == client.conn
<1>1. /\ client.phase = "connect" /\ handler[c].phase = "hello"
      /\ client' = [client EXCEPT !.phase = "refused"]
      /\ handler' = [handler EXCEPT ![c].phase = "closed"]
      /\ UNCHANGED <<host, events, hello, wire, sessions, restarts, renewed>>
  BY DEF Refused
<1>2. /\ client'.phase = "refused" /\ client'.conn = c /\ client'.id = client.id
      /\ client'.title = client.title /\ client'.cwd = client.cwd
      /\ client'.size = client.size
  BY <1>1 DEF IInv, TypeOK
<1>3. c \in ConnIds /\ handler[c].id = NoId /\ ~handler[c].acked /\ wire[c] = <<>>
  BY <1>1 DEF IInv, Dialled, Stands
<1>4. TypeOK'
  <2>1. handler[c] \in Handlers /\ handler \in [ConnIds -> Handlers]
    BY <1>3, Types DEF IInv
  <2>2. [handler[c] EXCEPT !.phase = "closed"] \in Handlers
    BY <2>1 DEF Handlers
  <2>3. handler' \in [ConnIds -> Handlers]
    BY <1>1, <2>1, <2>2
  <2>4. client' \in Clients
    BY <1>1, Types DEF IInv, Clients
  <2> QED BY <1>1, <2>3, <2>4, Types, TypesAfter DEF IInv
<1>5. /\ \A n \in ConnIds : n # c => handler'[n] = handler[n]
      /\ handler'[c].phase = "closed" /\ handler'[c].id = NoId
      /\ handler'[c].epoch = handler[c].epoch /\ ~handler'[c].acked
  BY <1>1, <1>3 DEF IInv, TypeOK
<1>6. Dialled'
  <2>1. \A n \in ConnIds : n > c => n # c
    BY DEF ConnIds
  <2> HIDE DEF c
  <2>2. ASSUME NEW n \in ConnIds PROVE Stands(n)'
    <3>1. CASE n = c
      BY <1>1, <1>2, <1>3, <1>5, <2>1, <3>1 DEF Stands
    <3>2. CASE n # c
      <4>1. handler'[n] = handler[n] /\ wire'[n] = wire[n] /\ client'.conn = client.conn
        BY <1>1, <1>2, <1>5, <3>2 DEF c
      <4> QED BY <4>1 DEF IInv, Dialled, Stands
    <3> QED BY <3>1, <3>2
  <2> QED BY <1>2, <1>3, <2>2 DEF Dialled, Stands, c
<1>7. NoId \notin Ids
  BY DEF NoId, Ids
<1>8. Epochs'
  <2>1. \A n \in ConnIds : /\ handler'[n].id = handler[n].id
                           /\ handler'[n].epoch = handler[n].epoch
    BY <1>3, <1>5
  <2> QED BY <1>1, <2>1 DEF IInv, Epochs
<1>9. StraysAreSpent'
  <2>1. \A id \in Ids : Spent(id)' = Spent(id)
    <3>1. \A id \in Ids : \A n \in ConnIds :
            handler'[n].id = id <=> handler[n].id = id /\ n # c
      BY <1>3, <1>5, <1>7
    <3>2. \A id \in Ids : \A n \in ConnIds :
            handler[n].id = id => n # c
      BY <1>3, <1>7
    <3> QED BY <1>1, <1>5, <3>1, <3>2 DEF Spent
  <2> QED BY <1>1, <2>1 DEF IInv, StraysAreSpent
<1>10. Newer' /\ Ordered'
  BY <1>1, <1>3, <1>5 DEF IInv, Newer, Current, Ordered
<1>11. Exits' /\ Unconnected' /\ EndedKnowsAll'
  BY <1>1, <1>2 DEF IInv, Exits, Unconnected, EndedKnowsAll
<1>12. Heard' /\ Retold'
  BY <1>2 DEF Heard, Retold
<1> QED BY <1>4, <1>6, <1>8, <1>9, <1>10, <1>11, <1>12 DEF IInv

\* Fewer events are no less in order.
LEMMA TakenOrdered ==
  ASSUME IInv, events # <<>>, events' = Tail(events), UNCHANGED <<host, sessions>>
  PROVE  /\ Rising(events')
         /\ \A i \in DOMAIN events' : events'[i].kind = "output" =>
              /\ events'[i].n <= host.out
              /\ \A n \in ConnIds : \A j \in DOMAIN wire[n] :
                   wire[n][j].kind = "output" => wire[n][j].n < events'[i].n
              /\ \A id \in Ids : sessions[id].out < events'[i].n
         /\ \A i \in DOMAIN events' : events'[i].kind = "exit"
              => i = Len(events') /\ host.exit
         /\ \A i \in DOMAIN events' : Says(events'[i], "title")
              => Value(events'[i], "title") # 0
<1>1. /\ \A i \in DOMAIN events' : i + 1 \in DOMAIN events /\ events'[i] = events[i + 1]
      /\ Len(events') = Len(events) - 1 /\ Len(events) \in Nat \ {0}
      /\ \A i \in DOMAIN events' : i \in Nat
  BY TakenEvent DEF IInv
<1>2. Rising(events')
  BY RisingTail DEF IInv, Ordered, TypeOK
<1>3. \A i \in DOMAIN events' : events'[i].kind = "exit" => i = Len(events') /\ host.exit
  BY <1>1 DEF IInv, Exits
<1>4. \A i \in DOMAIN events' : events'[i].kind = "output" =>
        /\ events'[i].n <= host.out
        /\ \A n \in ConnIds : \A j \in DOMAIN wire[n] :
             wire[n][j].kind = "output" => wire[n][j].n < events'[i].n
        /\ \A id \in Ids : sessions[id].out < events'[i].n
  BY <1>1 DEF IInv, Ordered
<1>5. \A i \in DOMAIN events' : Says(events'[i], "title") => Value(events'[i], "title") # 0
  BY <1>1 DEF IInv, Unconnected
<1> QED BY <1>2, <1>3, <1>4, <1>5

LEMMA DrainKeeps == IInv /\ Drain => IInv'
<1> SUFFICES ASSUME IInv, Drain PROVE IInv'
  OBVIOUS
<1>1. /\ client.phase = "refused" /\ events # <<>> /\ events' = Tail(events)
      /\ UNCHANGED <<host, client, hello, wire, handler, sessions, restarts, renewed>>
  BY DEF Drain
<1>2. TypeOK'
  BY <1>1, TakenEvent DEF IInv, TypeOK
<1>3. Dialled'
  BY <1>1 DEF IInv, Dialled, Stands
<1>4. Epochs' /\ StraysAreSpent' /\ Newer'
  BY <1>1, RelayUntouched
<1>5. Ordered'
  BY <1>1, TakenOrdered DEF IInv, Ordered
<1>6. Exits' /\ Unconnected' /\ EndedKnowsAll'
  BY <1>1, TakenOrdered DEF IInv, Exits, Unconnected, EndedKnowsAll
<1>7. Heard' /\ Retold'
  BY <1>1 DEF Heard, Retold
<1> QED BY <1>2, <1>3, <1>4, <1>5, <1>6, <1>7 DEF IInv

LEMMA ConnectedKeeps == IInv /\ Connected => IInv'
<1> SUFFICES ASSUME IInv, Connected PROVE IInv'
  OBVIOUS
<1> DEFINE c == client.conn
           id == handler[c].id
<1>1. /\ client.phase = "connect" /\ handler[c].acked
      /\ client' = [client EXCEPT
            !.id = id,
            !.phase = IF client.id # id THEN "pump"
                      ELSE IF client.title # 0 THEN "title" ELSE "cwd"]
      /\ renewed' = (renewed \/ client.id \notin {NoId, id})
      /\ UNCHANGED <<host, events, hello, wire, handler, sessions, restarts>>
  BY DEF Connected
<1>2. c \in ConnIds /\ id \in Ids /\ wire[c] = <<>> /\ hello[c].size = client.size
  BY <1>1 DEF IInv, Dialled, Stands
<1>3. NoId \notin Ids
  BY DEF NoId, Ids
<1>4. /\ client'.conn = c /\ client'.id = id
      /\ client'.title = client.title /\ client'.cwd = client.cwd
      /\ client'.size = client.size
      /\ client'.phase = IF client.id # id THEN "pump"
                         ELSE IF client.title # 0 THEN "title" ELSE "cwd"
  BY <1>1 DEF IInv, TypeOK
<1>5. TypeOK'
  <2>1. client' \in [phase : {"dial", "connect", "title", "cwd", "pump", "sleep",
                               "finished", "refused"},
                      conn : 0..MaxConns, id : Ids \cup {NoId}, title : 0..MaxTitle,
                      cwd : 0..MaxCwd, size : 0..MaxSize]
    <3> HIDE DEF id, c
    <3>1. client \in [phase : {"dial", "connect", "title", "cwd", "pump", "sleep",
                               "finished", "refused"},
                      conn : 0..MaxConns, id : Ids \cup {NoId}, title : 0..MaxTitle,
                      cwd : 0..MaxCwd, size : 0..MaxSize]
      BY DEF IInv, TypeOK
    <3>2. (IF client.id # id THEN "pump"
           ELSE IF client.title # 0 THEN "title" ELSE "cwd") \in {"pump", "title", "cwd"}
      OBVIOUS
    <3> QED BY <1>1, <1>2, <3>1, <3>2
  <2> QED BY <1>1, <2>1 DEF IInv, TypeOK
<1>6. Dialled'
  BY <1>1, <1>2, <1>4 DEF IInv, Dialled, Stands
<1>7. Epochs' /\ StraysAreSpent' /\ Newer'
  BY <1>1, RelayUntouched
<1>8. Ordered'
  BY <1>1 DEF IInv, Ordered
<1>9. Exits' /\ EndedKnowsAll'
  BY <1>1, <1>4 DEF IInv, Exits, EndedKnowsAll
<1>10. Unconnected'
  BY <1>1, <1>2, <1>3, <1>4 DEF IInv, Unconnected
<1>11. Heard'
  BY <1>1, <1>4 DEF IInv, Heard
<1>12. Retold'
  <2> SUFFICES ASSUME NEW i \in Ids, sessions[i].strays = 0, Holds(i)'
               PROVE  /\ Settles(wire[c], "resize", sessions[i].shown.size, client.size)
                      /\ ~renewed' /\ client'.phase \in {"cwd", "pump", "finished"} =>
                           Settles(wire[c], "title", sessions[i].shown.title, client.title)
                      /\ ~renewed' /\ client'.phase \in {"pump", "finished"} =>
                           Settles(wire[c], "cwd", sessions[i].shown.cwd, client.cwd)
    BY <1>1, <1>4 DEF Retold
  <2>1. Holds(i)
    BY <1>1, <1>4 DEF Holds, Current
  <2>2. Settles(wire[c], "resize", sessions[i].shown.size, client.size)
    BY <1>1, <1>2, <2>1 DEF IInv, Retold
  <2>3. ASSUME ~renewed', client'.phase \in {"cwd", "pump", "finished"}
        PROVE  sessions[i].shown.title = client.title
    <3>0. client.id \in {NoId, id}
      BY <1>1, <2>3, Zenon
    <3>1. client.id = NoId \/ client.title = 0
      BY <1>4, <2>3, <3>0
    <3> QED BY <1>2, <3>1 DEF IInv, Unconnected
  <2>4. ASSUME ~renewed', client'.phase \in {"pump", "finished"}
        PROVE  sessions[i].shown.cwd = client.cwd
    <3>0. client.id \in {NoId, id}
      BY <1>1, <2>4, Zenon
    <3>1. client.id = NoId
      BY <1>4, <2>4, <3>0
    <3> QED BY <3>1 DEF IInv, Unconnected
  <2> QED BY <1>2, <2>2, <2>3, <2>4, SettlesNone
<1> QED BY <1>5, <1>6, <1>7, <1>8, <1>9, <1>10, <1>11, <1>12 DEF IInv

-----------------------------------------------------------------------------
(* Steps of the client that send. *)

\* A step of the client that sends frames, and an event perhaps taken for them.
Sends(frames, next) ==
  /\ client.phase \in {"title", "cwd", "pump"}
  /\ UNCHANGED <<host, hello, handler, sessions, restarts, renewed>>
  /\ frames \in Seq(Frames)
  /\ wire' = IF handler[client.conn].phase = "closed" THEN wire
             ELSE [wire EXCEPT ![client.conn] = @ \o frames]
  /\ client' = next
  /\ next \in Clients /\ next.conn = client.conn /\ next.id = client.id
  /\ next.phase \in {"cwd", "pump", "sleep", "finished"}
  /\ next.phase = "cwd" => client.phase = "title" /\ next.size = client.size
  /\ UNCHANGED events \/ (events # <<>> /\ events' = Tail(events))

\* Its output is the event's, its exit the last, and it says what it records.
Tells(frames, next) ==
  /\ Rising(frames)
  /\ \A i \in DOMAIN frames :
       /\ frames[i].kind = "output" =>
            events # <<>> /\ events' = Tail(events) /\ frames[i] = Head(events)
       /\ frames[i].kind = "exit" => i = Len(frames) /\ next.phase = "finished"
  /\ next.phase = "finished" => events' = <<>> /\ host.exit
  /\ next.title = 0 => /\ client.title = 0
                       /\ \A i \in DOMAIN frames : frames[i].kind # "title"
  /\ next.phase \in {"cwd", "pump", "finished"} =>
       /\ Settles(frames, "resize", client.size, next.size)
       /\ Settles(frames, "title", client.title, next.title)
       /\ client.phase = "title" => \E i \in DOMAIN frames : Says(frames[i], "title")
  /\ next.phase \in {"pump", "finished"} =>
       /\ Settles(frames, "cwd", client.cwd, next.cwd)
       /\ client.phase # "pump" => \E i \in DOMAIN frames : Says(frames[i], "cwd")

\* The connection that is sent to has its handler's word.
LEMMA SendsTo ==
  ASSUME IInv, NEW frames, NEW next, Sends(frames, next)
  PROVE  /\ client.conn \in ConnIds /\ client.id \in Ids
         /\ client.id = handler[client.conn].id /\ handler[client.conn].acked
         /\ handler[client.conn].phase \in {"pump", "apply", "closed"}
         /\ \A id \in Ids : sessions[id].status # "ended"
         /\ NoId \notin Ids
BY DEF IInv, Dialled, Stands, EndedKnowsAll, Sends, NoId, Ids

\* What is on its way after it.
LEMMA SendsWire ==
  ASSUME IInv, NEW frames, NEW next, Sends(frames, next)
  PROVE  /\ wire' \in [ConnIds -> Seq(Frames)]
         /\ \A n \in ConnIds :
              IF n = client.conn /\ handler[n].phase # "closed"
              THEN wire'[n] = wire[n] \o frames ELSE wire'[n] = wire[n]
         /\ \A n \in ConnIds : \A j \in DOMAIN wire'[n] :
              \/ j \in DOMAIN wire[n] /\ wire'[n][j] = wire[n][j]
              \/ /\ n = client.conn /\ wire'[n] = wire[n] \o frames
                 /\ j > Len(wire[n]) /\ j - Len(wire[n]) \in DOMAIN frames
                 /\ wire'[n][j] = frames[j - Len(wire[n])]
<1> DEFINE c == client.conn
<1>1. /\ wire' = (IF handler[c].phase = "closed" THEN wire
                  ELSE [wire EXCEPT ![c] = @ \o frames])
      /\ frames \in Seq(Frames) /\ wire \in [ConnIds -> Seq(Frames)] /\ c \in ConnIds
  BY SendsTo, Types DEF Sends, IInv
<1> HIDE DEF c
<1>2. wire[c] \in Seq(Frames)
  BY <1>1
<1>3. wire[c] \o frames \in Seq(Frames)
  BY <1>1, <1>2, ConcatHas
<1>4. wire' \in [ConnIds -> Seq(Frames)]
  BY <1>1, <1>3
<1>5. \A n \in ConnIds :
        IF n = c /\ handler[n].phase # "closed"
        THEN wire'[n] = wire[n] \o frames ELSE wire'[n] = wire[n]
  BY <1>1
<1>6. ASSUME NEW n \in ConnIds, NEW j \in DOMAIN wire'[n]
      PROVE  \/ j \in DOMAIN wire[n] /\ wire'[n][j] = wire[n][j]
             \/ /\ n = c /\ wire'[n] = wire[n] \o frames
                /\ j > Len(wire[n]) /\ j - Len(wire[n]) \in DOMAIN frames
                /\ wire'[n][j] = frames[j - Len(wire[n])]
  <2>1. CASE wire'[n] = wire[n]
    BY <1>6, <2>1
  <2>2. CASE n = c /\ wire'[n] = wire[n] \o frames
    <3> DEFINE u == wire[n] \o frames
    <3>1. \A i \in DOMAIN u :
            \/ i \in DOMAIN wire[n] /\ u[i] = wire[n][i]
            \/ /\ i > Len(wire[n]) /\ i - Len(wire[n]) \in DOMAIN frames
               /\ u[i] = frames[i - Len(wire[n])]
      BY <1>1, <1>2, <2>2, ConcatHas
    <3> HIDE DEF u
    <3>2. wire'[n] = u /\ j \in DOMAIN u
      BY <1>6, <2>2 DEF u
    <3> QED BY <2>2, <3>1, <3>2
  <2> QED BY <1>5, <2>1, <2>2
<1> QED BY <1>4, <1>5, <1>6 DEF c

LEMMA SendsDialled ==
  ASSUME IInv, NEW frames, NEW next, Sends(frames, next)
  PROVE  TypeOK' /\ Dialled' /\ Epochs' /\ StraysAreSpent'
<1>1. TypeOK'
  <2>1. events' \in Seq(Events)
    BY TakenEvent, Types DEF IInv, Sends
  <2> QED BY <2>1, SendsWire, Types, TypesAfter DEF IInv, Sends
<1>2. Dialled'
  <2>1. \A n \in ConnIds :
          \/ wire'[n] = wire[n]
          \/ wire'[n] # <<>> /\ handler[n].phase \in {"pump", "apply"}
          \/ wire'[n] = <<>> /\ wire[n] = <<>>
    <3> SUFFICES ASSUME NEW n \in ConnIds, wire'[n] # wire[n]
                 PROVE  \/ wire'[n] # <<>> /\ handler[n].phase \in {"pump", "apply"}
                        \/ wire'[n] = <<>> /\ wire[n] = <<>>
      OBVIOUS
    <3>1. /\ n = client.conn /\ handler[n].phase # "closed"
          /\ wire'[n] = wire[n] \o frames
      BY SendsWire
    <3>2. handler[n].phase \in {"pump", "apply"}
      BY <3>1, SendsTo
    <3>3. wire[n] \in Seq(Frames) /\ frames \in Seq(Frames)
      BY Types DEF IInv, Sends
    <3>4. wire[n] # <<>> => wire'[n] # <<>>
      BY <3>1, <3>3, ConcatHas, Emptied
    <3> QED BY <3>2, <3>4
  <2>2. /\ client'.conn = client.conn /\ client'.id = client.id
        /\ client'.phase \in {"cwd", "pump", "sleep", "finished"}
        /\ UNCHANGED <<hello, handler>>
        /\ client'.phase = "cwd" => client.phase = "title" /\ client'.size = client.size
    BY DEF Sends
  <2> QED BY <2>1, <2>2, SendsTo DEF IInv, Dialled, Stands
<1>3. Epochs' /\ StraysAreSpent'
  BY DEF IInv, Sends, Epochs, StraysAreSpent, Spent
<1> QED BY <1>1, <1>2, <1>3

LEMMA SendsOrdered ==
  ASSUME IInv, NEW frames, NEW next, Sends(frames, next), Tells(frames, next)
  PROVE  Ordered' /\ Newer'
<1>1. /\ UNCHANGED <<host, sessions, handler>> /\ frames \in Seq(Frames)
      /\ UNCHANGED events \/ (events # <<>> /\ events' = Tail(events))
  BY DEF Sends
<1>2. ASSUME NEW i \in DOMAIN frames, frames[i].kind = "output"
      PROVE  /\ events # <<>> /\ events' = Tail(events) /\ 1 \in DOMAIN events
             /\ frames[i] = events[1] /\ events[1].kind = "output"
             /\ frames[i].n <= host.out
             /\ \A n \in ConnIds : \A j \in DOMAIN wire[n] :
                  wire[n][j].kind = "output" => wire[n][j].n < frames[i].n
             /\ \A id \in Ids : sessions[id].out < frames[i].n
             /\ \A j \in DOMAIN events' : events'[j].kind = "output"
                  => frames[i].n < events'[j].n
  <2>1. events # <<>> /\ events' = Tail(events) /\ frames[i] = Head(events)
    BY <1>2 DEF Tells
  <2>2. 1 \in DOMAIN events /\ events[1] = Head(events)
    BY <2>1, TakenEvent DEF IInv
  <2>3. \A j \in DOMAIN events' : events'[j].kind = "output" => frames[i].n < events'[j].n
    BY <1>2, <2>1, RisingTail, Types DEF IInv, Ordered
  <2> QED BY <1>2, <2>1, <2>2, <2>3 DEF IInv, Ordered
<1>3. \A i \in DOMAIN events' : events'[i].kind = "output" =>
        /\ events'[i].n <= host.out
        /\ \A n \in ConnIds : \A j \in DOMAIN wire[n] :
             wire[n][j].kind = "output" => wire[n][j].n < events'[i].n
        /\ \A id \in Ids : sessions[id].out < events'[i].n
  <2>1. CASE UNCHANGED events
    BY <2>1 DEF IInv, Ordered
  <2>2. CASE events # <<>> /\ events' = Tail(events)
    BY <1>1, <2>2, TakenOrdered
  <2> QED BY <1>1, <2>1, <2>2
<1>4. Rising(events')
  BY <1>1, TakenOrdered DEF IInv, Ordered
<1>5. ASSUME NEW n \in ConnIds PROVE Rising(wire'[n])
  <2>1. CASE wire'[n] = wire[n]
    BY <2>1 DEF IInv, Ordered
  <2>2. CASE wire'[n] = wire[n] \o frames
    <3>1. wire[n] \in Seq(Frames) /\ Rising(wire[n]) /\ Rising(frames)
      BY Types DEF IInv, Ordered, Tells
    <3>2. \A i \in DOMAIN wire[n], j \in DOMAIN frames :
            wire[n][i].kind = "output" /\ frames[j].kind = "output"
              => wire[n][i].n < frames[j].n
      BY <1>2
    <3> QED BY <1>1, <2>2, <3>1, <3>2, RisingConcat
  <2> QED BY <2>1, <2>2, SendsWire
<1>6. ASSUME NEW n \in ConnIds, NEW j \in DOMAIN wire'[n], wire'[n][j].kind = "output"
      PROVE  /\ wire'[n][j].n <= host.out
             /\ \A i \in DOMAIN events' : events'[i].kind = "output"
                  => wire'[n][j].n < events'[i].n
             /\ \/ j \in DOMAIN wire[n] /\ wire'[n][j] = wire[n][j]
                \/ \A id \in Ids : sessions[id].out < wire'[n][j].n
  <2>1. CASE j \in DOMAIN wire[n] /\ wire'[n][j] = wire[n][j]
    BY <1>3, <1>6, <2>1 DEF IInv, Ordered
  <2>2. CASE /\ j - Len(wire[n]) \in DOMAIN frames
             /\ wire'[n][j] = frames[j - Len(wire[n])]
    BY <1>2, <1>6, <2>2
  <2> QED BY <1>6, <2>1, <2>2, SendsWire
<1>7. Ordered'
  <2>1. \A id \in Ids : sessions'[id].out <= host'.out
    BY <1>1 DEF IInv, Ordered
  <2> QED BY <1>1, <1>3, <1>4, <1>5, <1>6, <2>1 DEF Ordered
<1>8. Newer'
  BY <1>1, <1>6 DEF IInv, Newer, Current
<1> QED BY <1>7, <1>8

LEMMA SendsExits ==
  ASSUME IInv, NEW frames, NEW next, Sends(frames, next), Tells(frames, next)
  PROVE  Exits' /\ Unconnected' /\ EndedKnowsAll'
<1>1. /\ UNCHANGED <<host, sessions, handler>> /\ frames \in Seq(Frames)
      /\ UNCHANGED events \/ (events # <<>> /\ events' = Tail(events))
      /\ client' = next /\ client'.conn = client.conn /\ client'.id = client.id
      /\ client.phase \in {"title", "cwd", "pump"}
      /\ client'.phase \in {"cwd", "pump", "sleep", "finished"}
  BY DEF Sends
<1>2. /\ \A i \in DOMAIN events' : events'[i].kind = "exit" => i = Len(events') /\ host.exit
      /\ \A i \in DOMAIN events' : Says(events'[i], "title")
           => Value(events'[i], "title") # 0
  <2>1. CASE UNCHANGED events
    BY <2>1 DEF IInv, Exits, Unconnected
  <2>2. CASE events # <<>> /\ events' = Tail(events)
    BY <1>1, <2>2, TakenOrdered
  <2> QED BY <1>1, <2>1, <2>2
<1>3. ASSUME NEW n \in ConnIds, NEW i \in DOMAIN wire'[n], wire'[n][i].kind = "exit"
      PROVE  i = Len(wire'[n]) /\ n = client'.conn /\ client'.phase = "finished"
  <2>1. ~(i \in DOMAIN wire[n] /\ wire'[n][i] = wire[n][i])
    BY <1>1, <1>3 DEF IInv, Exits
  <2>2. /\ n = client.conn /\ wire'[n] = wire[n] \o frames
        /\ i > Len(wire[n]) /\ i - Len(wire[n]) \in DOMAIN frames
        /\ wire'[n][i] = frames[i - Len(wire[n])]
    BY <1>3, <2>1, SendsWire
  <2>3. i - Len(wire[n]) = Len(frames) /\ next.phase = "finished"
    BY <1>3, <2>2 DEF Tells
  <2>4. /\ Len(wire'[n]) = Len(wire[n]) + Len(frames)
        /\ DOMAIN wire'[n] = 1..(Len(wire[n]) + Len(frames))
        /\ Len(wire[n]) \in Nat /\ Len(frames) \in Nat
    <3>1. wire[n] \in Seq(Frames)
      BY Types DEF IInv
    <3> QED BY <1>1, <2>2, <3>1, ConcatHas, Emptied
  <2>5. i = Len(wire'[n])
    BY <1>3, <2>3, <2>4
  <2> QED BY <1>1, <2>2, <2>3, <2>5
<1>4. Exits'
  BY <1>1, <1>2, <1>3 DEF Exits, Tells
<1>5. ASSUME client'.title = 0
      PROVE  /\ \A n \in ConnIds : \A j \in DOMAIN wire'[n] : wire'[n][j].kind # "title"
             /\ \A id \in Ids : sessions'[id].shown.title = 0
  <2>1. /\ client.title = 0
        /\ \A i \in DOMAIN frames : frames[i].kind # "title"
    BY <1>1, <1>5 DEF Tells
  <2>2. /\ \A n \in ConnIds : \A j \in DOMAIN wire[n] : wire[n][j].kind # "title"
        /\ \A id \in Ids : sessions[id].shown.title = 0
    BY <2>1 DEF IInv, Unconnected
  <2> QED BY <1>1, <2>1, <2>2, SendsWire
<1>6. Unconnected'
  BY <1>1, <1>2, <1>5, SendsTo DEF Unconnected
<1>7. EndedKnowsAll'
  BY <1>1, SendsTo DEF EndedKnowsAll
<1> QED BY <1>4, <1>6, <1>7

\* Frames that speak of a kind settle it, whatever went before.
LEMMA SettlesAnew ==
  ASSUME NEW S, NEW s \in Seq(S), NEW t \in Seq(S), NEW kind,
         NEW old, NEW mid, NEW new,
         \E i \in DOMAIN t : Says(t[i], kind), Settles(t, kind, mid, new)
  PROVE  Settles(s \o t, kind, old, new)
<1> DEFINE u == s \o t
<1>1. /\ DOMAIN u = 1..(Len(s) + Len(t))
      /\ \A i \in DOMAIN t : Len(s) + i \in DOMAIN u /\ u[Len(s) + i] = t[i]
      /\ \A i \in DOMAIN u :
           \/ i \in DOMAIN s /\ u[i] = s[i]
           \/ i > Len(s) /\ i - Len(s) \in DOMAIN t /\ u[i] = t[i - Len(s)]
  BY ConcatHas
<1>2. /\ Len(s) \in Nat /\ DOMAIN s = 1..Len(s)
      /\ Len(t) \in Nat /\ DOMAIN t = 1..Len(t)
  BY Emptied
<1>3. PICK l \in DOMAIN t : Says(t[l], kind)
  OBVIOUS
<1> HIDE DEF u
<1>4. ASSUME NEW i \in DOMAIN u, Says(u[i], kind),
             \A j \in DOMAIN u : j > i => ~Says(u[j], kind)
      PROVE  Value(u[i], kind) = new
  <2>1. i \notin DOMAIN s
    <3>1. Len(s) + l \in DOMAIN u /\ u[Len(s) + l] = t[l]
      BY <1>1
    <3>2. i \in DOMAIN s => Len(s) + l > i
      BY <1>2
    <3> QED BY <1>3, <1>4, <3>1, <3>2
  <2> DEFINE k == i - Len(s)
  <2>2. k \in DOMAIN t /\ u[i] = t[k] /\ i = Len(s) + k /\ k \in Int
    BY <1>1, <1>2, <2>1
  <2> HIDE DEF k
  <2>3. ASSUME NEW j \in DOMAIN t, j > k PROVE ~Says(t[j], kind)
    <3>1. Len(s) + j \in DOMAIN u /\ u[Len(s) + j] = t[j] /\ Len(s) + j > i
      BY <1>1, <1>2, <2>2, <2>3
    <3> QED BY <1>4, <3>1
  <2> QED BY <1>4, <2>2, <2>3 DEF Settles
<1>5. Len(s) + l \in DOMAIN u /\ Says(u[Len(s) + l], kind)
  BY <1>1, <1>3
<1>6. Settles(u, kind, old, new)
  BY <1>4, <1>5 DEF Settles
<1> QED BY <1>6 DEF u

LEMMA SendsRetold ==
  ASSUME IInv, NEW frames, NEW next, Sends(frames, next), Tells(frames, next)
  PROVE  Retold'
<1> DEFINE c == client.conn
<1>1. /\ UNCHANGED <<sessions, handler, renewed>> /\ frames \in Seq(Frames)
      /\ client' = next /\ client'.conn = c /\ c \in ConnIds
      /\ client.phase \in {"title", "cwd", "pump"}
      /\ client'.phase \in {"cwd", "pump", "sleep", "finished"}
      /\ client'.phase = "cwd" => client.phase = "title"
      /\ wire[c] \in Seq(Frames)
  BY SendsTo, Types DEF IInv, Sends
<1> SUFFICES ASSUME NEW id \in Ids, sessions[id].strays = 0, Holds(id)',
                    client'.phase \in {"cwd", "pump", "finished"}
             PROVE  /\ Settles(wire'[c], "resize", sessions[id].shown.size, client'.size)
                    /\ ~renewed =>
                         Settles(wire'[c], "title", sessions[id].shown.title, client'.title)
                    /\ ~renewed /\ client'.phase \in {"pump", "finished"} =>
                         Settles(wire'[c], "cwd", sessions[id].shown.cwd, client'.cwd)
  BY <1>1 DEF Retold
<1>2. Holds(id)
  BY <1>1 DEF Holds, Current
<1>3. wire'[c] = wire[c] \o frames
  <2>1. handler[c].phase # "closed"
    BY <1>2 DEF Holds
  <2>2. \A n \in ConnIds :
          n = client.conn /\ handler[n].phase # "closed" => wire'[n] = wire[n] \o frames
    BY SendsWire
  <2>3. c \in ConnIds
    BY <1>1
  <2> QED BY <2>1, <2>2, <2>3
<1>4. Settles(wire'[c], "resize", sessions[id].shown.size, client'.size)
  <2>1. Settles(wire[c], "resize", sessions[id].shown.size, client.size)
    BY <1>1, <1>2 DEF IInv, Retold
  <2>2. Settles(frames, "resize", client.size, next.size)
    BY <1>1 DEF Tells
  <2> QED BY <1>1, <1>3, <2>1, <2>2, SettlesConcat
<1>5. ASSUME ~renewed
      PROVE  Settles(wire'[c], "title", sessions[id].shown.title, client'.title)
  <2>1. Settles(frames, "title", client.title, next.title)
    BY <1>1 DEF Tells
  <2>2. CASE client.phase = "title"
    <3>1. \E i \in DOMAIN frames : Says(frames[i], "title")
      BY <1>1, <2>2 DEF Tells
    <3> QED BY <1>1, <1>3, <2>1, <3>1, SettlesAnew
  <2>3. CASE client.phase # "title"
    <3>1. Settles(wire[c], "title", sessions[id].shown.title, client.title)
      BY <1>1, <1>2, <1>5, <2>3 DEF IInv, Retold
    <3> QED BY <1>1, <1>3, <2>1, <3>1, SettlesConcat
  <2> QED BY <2>2, <2>3
<1>6. ASSUME ~renewed, client'.phase \in {"pump", "finished"}
      PROVE  Settles(wire'[c], "cwd", sessions[id].shown.cwd, client'.cwd)
  <2>1. Settles(frames, "cwd", client.cwd, next.cwd)
    BY <1>1, <1>6 DEF Tells
  <2>2. CASE client.phase # "pump"
    <3>1. \E i \in DOMAIN frames : Says(frames[i], "cwd")
      BY <1>1, <1>6, <2>2 DEF Tells
    <3> QED BY <1>1, <1>3, <2>1, <3>1, SettlesAnew
  <2>3. CASE client.phase = "pump"
    <3>1. Settles(wire[c], "cwd", sessions[id].shown.cwd, client.cwd)
      BY <1>1, <1>2, <1>6, <2>3 DEF IInv, Retold
    <3> QED BY <1>1, <1>3, <2>1, <3>1, SettlesConcat
  <2> QED BY <2>2, <2>3
<1> QED BY <1>4, <1>5, <1>6

\* A step that sends keeps the invariant if it tells what it records.
LEMMA SendsKeep ==
  ASSUME IInv, NEW frames, NEW next, Sends(frames, next), Tells(frames, next), Heard'
  PROVE  IInv'
BY SendsDialled, SendsOrdered, SendsExits, SendsRetold DEF IInv

\* Both kinds of steps below take no event or the first.
LEMMA SendIs ==
  ASSUME IInv, client.phase \in {"title", "cwd", "pump"},
         UNCHANGED <<host, hello, handler, sessions, restarts, renewed>>,
         UNCHANGED events \/ (events # <<>> /\ events' = Tail(events)),
         NEW frames \in Seq(Frames), NEW phase \in {"cwd", "pump", "sleep", "finished"},
         NEW next \in Clients, next.conn = client.conn, next.id = client.id,
         phase = "cwd" => client.phase = "title" /\ next.size = client.size,
         Send(frames, phase, next)
  PROVE  /\ Sends(frames, client') /\ client'.phase = phase
         /\ client'.title = next.title /\ client'.cwd = next.cwd
         /\ client'.size = next.size
<1> DEFINE after == [next EXCEPT !.phase = phase]
<1>1. /\ after \in Clients /\ after.phase = phase /\ after.conn = next.conn
      /\ after.id = next.id /\ after.title = next.title /\ after.cwd = next.cwd
      /\ after.size = next.size
  BY DEF Clients
<1>2. /\ client' = after
      /\ wire' = IF handler[client.conn].phase = "closed" THEN wire
                 ELSE [wire EXCEPT ![client.conn] = @ \o frames]
  BY DEF Send
<1> HIDE DEF after
<1> QED BY <1>1, <1>2 DEF Sends

\* Only a part was sent: the client is to go to sleep.
LEMMA FailedKeeps ==
  ASSUME IInv, client.phase \in {"title", "cwd", "pump"},
         UNCHANGED <<host, hello, handler, sessions, restarts, renewed>>,
         UNCHANGED events \/ (events # <<>> /\ events' = Tail(events)),
         NEW frames \in Seq(Frames), NEW next \in Clients,
         \A i \in DOMAIN frames : frames[i].kind \in {"title", "cwd"},
         next.conn = client.conn, next.id = client.id,
         next.title = 0 => client.title = 0
                           /\ \A i \in DOMAIN frames : frames[i].kind # "title",
         Settles(events', "resize", next.size, host.size),
         Settles(events', "title", next.title, host.title),
         SendFails(frames, next)
  PROVE  IInv'
<1>1. /\ Sends(frames, client') /\ client'.phase = "sleep"
      /\ client'.title = next.title /\ client'.size = next.size
  <2>1. Send(frames, "sleep", next)
    BY DEF SendFails
  <2> QED BY <2>1, SendIs
<1>2. Tells(frames, client')
  <2>1. Rising(frames)
    BY DEF Rising
  <2> QED BY <1>1, <2>1 DEF Tells
<1>3. Heard'
  BY <1>1 DEF Heard
<1> QED BY <1>1, <1>2, <1>3, SendsKeep

LEMMA FailedUnsaid ==
  ASSUME IInv, client.phase \in {"title", "cwd", "pump"},
         UNCHANGED <<host, hello, handler, sessions, restarts, renewed>>,
         UNCHANGED events \/ (events # <<>> /\ events' = Tail(events)),
         NEW next \in Clients, next.conn = client.conn, next.id = client.id,
         next.title = 0 => client.title = 0,
         Settles(events', "resize", next.size, host.size),
         Settles(events', "title", next.title, host.title),
         SendFails(<<>>, next)
  PROVE  IInv'
<1> DEFINE frames == <<>>
<1>1. frames \in Seq(Frames) /\ \A i \in DOMAIN frames : FALSE
  OBVIOUS
<1>2. SendFails(frames, next)
  OBVIOUS
<1> HIDE DEF frames
<1> QED BY <1>1, <1>2, FailedKeeps

LEMMA RepeatTitleKeeps == IInv /\ RepeatTitle => IInv'
<1> SUFFICES ASSUME IInv, RepeatTitle PROVE IInv'
  OBVIOUS
<1> DEFINE frame == [kind |-> "title", title |-> client.title]
<1>1. /\ client.phase = "title"
      /\ Send(<<frame>>, "cwd", client) \/ SendFails(<<>>, client)
      /\ UNCHANGED <<host, events, hello, handler, sessions, restarts, renewed>>
  BY DEF RepeatTitle
<1>2. /\ client \in Clients /\ client.title \in 0..MaxTitle /\ client.title # 0
      /\ Settles(events, "resize", client.size, host.size)
      /\ Settles(events, "title", client.title, host.title)
  BY <1>1, Types DEF IInv, Unconnected, Heard, Clients
<1>3. CASE SendFails(<<>>, client)
  BY <1>1, <1>2, <1>3, FailedUnsaid
<1>4. CASE Send(<<frame>>, "cwd", client)
  <2>1. frame \in Frames /\ frame.kind = "title" /\ Value(frame, "title") = client.title
    BY <1>2 DEF Frames, Value
  <2>2. Says(frame, "title") /\ ~Says(frame, "resize")
    BY DEF Says
  <2> HIDE DEF frame
  <2>3. <<frame>> \in Seq(Frames) /\ DOMAIN <<frame>> = {1} /\ <<frame>>[1] = frame
    BY <2>1, AppendIs, EmptySeq
  <2>4. /\ Sends(<<frame>>, client') /\ client'.phase = "cwd"
        /\ client'.title = client.title /\ client'.cwd = client.cwd
        /\ client'.size = client.size
    BY <1>1, <1>2, <1>4, <2>3, SendIs
  <2>5. /\ Settles(<<frame>>, "resize", client.size, client.size)
        /\ Settles(<<frame>>, "title", client.title, client.title)
    BY <2>1, <2>2, SettlesOne
  <2>6. Tells(<<frame>>, client')
    <3>1. Rising(<<frame>>)
      BY <2>3 DEF Rising
    <3>2. \E i \in DOMAIN <<frame>> : Says(<<frame>>[i], "title")
      BY <2>2, <2>3
    <3> QED BY <1>2, <2>1, <2>3, <2>4, <2>5, <3>1, <3>2 DEF Tells
  <2>7. Heard'
    BY <1>1, <1>2, <2>4 DEF Heard
  <2> QED BY <2>4, <2>6, <2>7, SendsKeep
<1> QED BY <1>1, <1>3, <1>4

LEMMA RepeatCwdKeeps == IInv /\ RepeatCwd => IInv'
<1> SUFFICES ASSUME IInv, RepeatCwd PROVE IInv'
  OBVIOUS
<1> DEFINE frame == [kind |-> "cwd", cwd |-> client.cwd]
<1>1. /\ client.phase = "cwd"
      /\ Send(<<frame>>, "pump", client) \/ SendFails(<<>>, client)
      /\ UNCHANGED <<host, events, hello, handler, sessions, restarts, renewed>>
  BY DEF RepeatCwd
<1>2. /\ client \in Clients /\ client.cwd \in 0..MaxCwd
      /\ Settles(events, "resize", client.size, host.size)
      /\ Settles(events, "title", client.title, host.title)
  BY <1>1, Types DEF IInv, Heard, Clients
<1>3. CASE SendFails(<<>>, client)
  BY <1>1, <1>2, <1>3, FailedUnsaid
<1>4. CASE Send(<<frame>>, "pump", client)
  <2>1. frame \in Frames /\ frame.kind = "cwd" /\ Value(frame, "cwd") = client.cwd
    BY <1>2 DEF Frames, Value
  <2>2. Says(frame, "cwd") /\ ~Says(frame, "resize") /\ ~Says(frame, "title")
    BY DEF Says
  <2> HIDE DEF frame
  <2>3. <<frame>> \in Seq(Frames) /\ DOMAIN <<frame>> = {1} /\ <<frame>>[1] = frame
    BY <2>1, AppendIs, EmptySeq
  <2>4. /\ Sends(<<frame>>, client') /\ client'.phase = "pump"
        /\ client'.title = client.title /\ client'.cwd = client.cwd
        /\ client'.size = client.size
    BY <1>1, <1>2, <1>4, <2>3, SendIs
  <2>5. /\ Settles(<<frame>>, "resize", client.size, client.size)
        /\ Settles(<<frame>>, "title", client.title, client.title)
        /\ Settles(<<frame>>, "cwd", client.cwd, client.cwd)
    BY <2>1, <2>2, SettlesOne
  <2>6. Tells(<<frame>>, client')
    <3>1. Rising(<<frame>>)
      BY <2>3 DEF Rising
    <3>2. \E i \in DOMAIN <<frame>> : Says(<<frame>>[i], "cwd")
      BY <2>2, <2>3
    <3> QED BY <1>1, <2>1, <2>3, <2>4, <2>5, <3>1, <3>2 DEF Tells
  <2>7. Heard'
    BY <1>1, <1>2, <2>4 DEF Heard
  <2> QED BY <2>4, <2>6, <2>7, SendsKeep
<1> QED BY <1>1, <1>3, <1>4

\* What taking the first event leaves to be heard.
LEMMA TakesHears ==
  ASSUME IInv, NEW kind, Takes(kind)
  PROVE  /\ client.phase = "pump" /\ events # <<>> /\ events' = Tail(events)
         /\ UNCHANGED <<host, hello, handler, sessions, restarts, renewed>>
         /\ Head(events) \in Events /\ Head(events).kind = kind
         /\ client \in Clients
         /\ IF Says(Head(events), "resize")
            THEN Settles(events', "resize", Value(Head(events), "resize"), host.size)
            ELSE Settles(events', "resize", client.size, host.size)
         /\ IF Says(Head(events), "title")
            THEN /\ Settles(events', "title", Value(Head(events), "title"), host.title)
                 /\ Value(Head(events), "title") # 0
            ELSE Settles(events', "title", client.title, host.title)
<1>1. /\ client.phase = "pump" /\ events # <<>> /\ events' = Tail(events)
      /\ UNCHANGED <<host, hello, handler, sessions, restarts, renewed>>
      /\ Head(events).kind = kind
  BY DEF Takes
<1>2. /\ events \in Seq(Events) /\ client \in Clients
      /\ Settles(events, "resize", client.size, host.size)
      /\ Settles(events, "title", client.title, host.title)
  BY <1>1, Types DEF IInv, Heard
<1>3. 1 \in DOMAIN events /\ events[1] = Head(events) /\ Head(events) \in Events
  BY <1>1, TakenEvent DEF IInv
<1>4. Says(Head(events), "title") => Value(Head(events), "title") # 0
  BY <1>3 DEF IInv, Unconnected
<1>5. /\ Says(Head(events), "resize")
           => Settles(events', "resize", Value(Head(events), "resize"), host.size)
      /\ ~Says(Head(events), "resize")
           => Settles(events', "resize", client.size, host.size)
      /\ Says(Head(events), "title")
           => Settles(events', "title", Value(Head(events), "title"), host.title)
      /\ ~Says(Head(events), "title")
           => Settles(events', "title", client.title, host.title)
  BY <1>1, <1>2, SettlesTail
<1> QED BY <1>1, <1>2, <1>3, <1>4, <1>5

LEMMA PumpOutputKeeps == IInv /\ PumpOutput => IInv'
<1> SUFFICES ASSUME IInv, PumpOutput PROVE IInv'
  OBVIOUS
<1> DEFINE h == Head(events)
<1>1. /\ client.phase = "pump" /\ events # <<>> /\ events' = Tail(events)
      /\ UNCHANGED <<host, hello, handler, sessions, restarts, renewed>>
      /\ h \in Events /\ h.kind = "output" /\ client \in Clients
      /\ Settles(events', "resize", client.size, host.size)
      /\ Settles(events', "title", client.title, host.title)
  BY TakesHears DEF PumpOutput, Says
<1>2. Send(<<h>>, "pump", client) \/ SendFails(<<>>, client)
  BY DEF PumpOutput
<1>3. CASE SendFails(<<>>, client)
  BY <1>1, <1>3, FailedUnsaid
<1>4. CASE Send(<<h>>, "pump", client)
  <2>1. h \in Frames /\ h = Head(events)
    BY <1>1 DEF Events, Frames
  <2>2. ~Says(h, "cwd") /\ ~Says(h, "resize") /\ ~Says(h, "title")
    BY <1>1 DEF Says
  <2> HIDE DEF h
  <2>3. <<h>> \in Seq(Frames) /\ DOMAIN <<h>> = {1} /\ <<h>>[1] = h
    BY <2>1, AppendIs, EmptySeq
  <2>4. /\ Sends(<<h>>, client') /\ client'.phase = "pump"
        /\ client'.title = client.title /\ client'.cwd = client.cwd
        /\ client'.size = client.size
    BY <1>1, <1>4, <2>3, SendIs
  <2>5. /\ Settles(<<h>>, "resize", client.size, client.size)
        /\ Settles(<<h>>, "title", client.title, client.title)
        /\ Settles(<<h>>, "cwd", client.cwd, client.cwd)
    BY <2>2, SettlesOne
  <2>6. Tells(<<h>>, client')
    <3>1. Rising(<<h>>)
      BY <2>3 DEF Rising
    <3> QED BY <1>1, <2>1, <2>3, <2>4, <2>5, <3>1 DEF Tells
  <2>7. Heard'
    BY <1>1, <2>4 DEF Heard
  <2> QED BY <2>4, <2>6, <2>7, SendsKeep
<1> QED BY <1>2, <1>3, <1>4

LEMMA PumpResizeKeeps == IInv /\ PumpResize => IInv'
<1> SUFFICES ASSUME IInv, PumpResize PROVE IInv'
  OBVIOUS
<1> DEFINE h == Head(events)
           next == [client EXCEPT !.size = h.size]
<1>1. /\ client.phase = "pump" /\ events # <<>> /\ events' = Tail(events)
      /\ UNCHANGED <<host, hello, handler, sessions, restarts, renewed>>
      /\ h \in Events /\ h.kind = "resize" /\ client \in Clients
      /\ Settles(events', "resize", h.size, host.size)
      /\ Settles(events', "title", client.title, host.title)
  BY TakesHears DEF PumpResize, Says, Value
<1>2. Send(<<h>>, "pump", next) \/ SendFails(<<>>, next)
  BY DEF PumpResize
<1>3. /\ next \in Clients /\ next.conn = client.conn /\ next.id = client.id
      /\ next.title = client.title /\ next.cwd = client.cwd /\ next.size = h.size
  <2>1. h.size \in 0..MaxSize
    BY <1>1 DEF Events
  <2> QED BY <1>1, <2>1 DEF Clients
<1> HIDE DEF next
<1>4. CASE SendFails(<<>>, next)
  BY <1>1, <1>3, <1>4, FailedUnsaid
<1>5. CASE Send(<<h>>, "pump", next)
  <2>1. h \in Frames
    BY <1>1 DEF Events, Frames
  <2>2. ~Says(h, "cwd") /\ Says(h, "resize") /\ ~Says(h, "title") /\ Value(h, "resize") = h.size
    BY <1>1 DEF Says, Value
  <2> HIDE DEF h
  <2>3. <<h>> \in Seq(Frames) /\ DOMAIN <<h>> = {1} /\ <<h>>[1] = h
    BY <2>1, AppendIs, EmptySeq
  <2>4. /\ Sends(<<h>>, client') /\ client'.phase = "pump"
        /\ client'.title = client.title /\ client'.cwd = client.cwd
        /\ client'.size = h.size
    BY <1>1, <1>3, <1>5, <2>3, SendIs
  <2>5. /\ Settles(<<h>>, "resize", client.size, h.size)
        /\ Settles(<<h>>, "title", client.title, client.title)
        /\ Settles(<<h>>, "cwd", client.cwd, client.cwd)
    BY <2>2, SettlesOne
  <2>6. Tells(<<h>>, client')
    <3>1. Rising(<<h>>)
      BY <2>3 DEF Rising
    <3> QED BY <1>1, <2>1, <2>3, <2>4, <2>5, <3>1 DEF Tells
  <2>7. Heard'
    BY <1>1, <2>4 DEF Heard
  <2> QED BY <2>4, <2>6, <2>7, SendsKeep
<1> QED BY <1>2, <1>4, <1>5

LEMMA PumpExitKeeps == IInv /\ PumpExit => IInv'
<1> SUFFICES ASSUME IInv, PumpExit PROVE IInv'
  OBVIOUS
<1> DEFINE exit == [kind |-> "exit"]
<1>1. /\ client.phase = "pump" /\ events # <<>> /\ events' = Tail(events)
      /\ UNCHANGED <<host, hello, handler, sessions, restarts, renewed>>
      /\ Head(events).kind = "exit" /\ client \in Clients
      /\ Settles(events', "resize", client.size, host.size)
      /\ Settles(events', "title", client.title, host.title)
  BY TakesHears DEF PumpExit, Says
<1>2. events' = <<>> /\ host.exit
  <2>1. 1 \in DOMAIN events /\ events[1] = Head(events) /\ Len(events') = Len(events) - 1
        /\ Len(events) \in Nat /\ events' \in Seq(Events)
    BY <1>1, TakenEvent DEF IInv
  <2>2. Len(events) = 1 /\ host.exit
    BY <1>1, <2>1 DEF IInv, Exits
  <2>3. Len(events') = 0
    BY <2>1, <2>2
  <2>4. events' = <<>>
    BY <2>1, <2>3, Emptied
  <2> QED BY <2>2, <2>4
<1>3. PICK frames \in {<<>>, <<exit>>} : Send(frames, "finished", client)
  BY DEF PumpExit
<1>4. /\ frames \in Seq(Frames)
      /\ \A i \in DOMAIN frames : frames[i] = exit /\ i = 1 /\ i = Len(frames)
  <2>1. exit \in Frames
    BY DEF Frames
  <2> HIDE DEF exit
  <2>2. CASE frames = <<>>
    BY <2>2
  <2>3. CASE frames = <<exit>>
    <3>1. /\ <<exit>> \in Seq(Frames) /\ DOMAIN <<exit>> = {1} /\ <<exit>>[1] = exit
          /\ Len(<<exit>>) = 1
      BY <2>1, AppendIs, EmptySeq
    <3> QED BY <2>3, <3>1
  <2> QED BY <1>3, <2>2, <2>3
<1>5. \A i \in DOMAIN frames : frames[i].kind = "exit" /\ i = Len(frames)
  BY <1>4
<1>6. /\ Sends(frames, client') /\ client'.phase = "finished"
      /\ client'.title = client.title /\ client'.cwd = client.cwd
      /\ client'.size = client.size
  BY <1>1, <1>3, <1>4, SendIs
<1>7. \A kind \in {"resize", "title", "cwd"} : \A old : Settles(frames, kind, old, old)
  BY <1>5 DEF Settles, Says
<1>8. Tells(frames, client')
  <2>1. Rising(frames)
    BY <1>5 DEF Rising
  <2> QED BY <1>1, <1>2, <1>5, <1>6, <1>7, <2>1 DEF Tells
<1>9. Heard'
  BY <1>1, <1>6 DEF Heard
<1> QED BY <1>6, <1>8, <1>9, SendsKeep

LEMMA PumpMetadataKeeps == IInv /\ PumpMetadata => IInv'
<1> SUFFICES ASSUME IInv, PumpMetadata PROVE IInv'
  OBVIOUS
<1> DEFINE seen == Head(events)
           titled == IF seen.title = None THEN client
                     ELSE [client EXCEPT !.title = seen.title]
           both == IF seen.cwd = None THEN titled ELSE [titled EXCEPT !.cwd = seen.cwd]
           title == IF seen.title = None THEN <<>>
                    ELSE <<[kind |-> "title", title |-> seen.title]>>
           cwd == IF seen.cwd = None THEN <<>>
                  ELSE <<[kind |-> "cwd", cwd |-> seen.cwd]>>
<1>1. /\ client.phase = "pump" /\ events # <<>> /\ events' = Tail(events)
      /\ UNCHANGED <<host, hello, handler, sessions, restarts, renewed>>
      /\ seen \in Events /\ seen.kind = "metadata" /\ client \in Clients
      /\ Settles(events', "resize", client.size, host.size)
      /\ IF seen.title = None THEN Settles(events', "title", client.title, host.title)
         ELSE /\ Settles(events', "title", seen.title, host.title)
              /\ seen.title # 0
  BY TakesHears DEF PumpMetadata, Says, Value
<1>2. \/ Send(title \o cwd, "pump", both)
      \/ SendFails(<<>>, titled)
      \/ SendFails(title, both)
  BY DEF PumpMetadata
<1>3. /\ seen.title = None \/ seen.title \in 0..MaxTitle
      /\ seen.cwd = None \/ seen.cwd \in 0..MaxCwd
  BY <1>1 DEF Events
<1>4. /\ titled \in Clients /\ titled.conn = client.conn /\ titled.id = client.id
      /\ titled.title = IF seen.title = None THEN client.title ELSE seen.title
      /\ titled.cwd = client.cwd /\ titled.size = client.size
  <2> HIDE DEF seen
  <2> QED BY <1>1, <1>3 DEF Clients
<1>5. /\ both \in Clients /\ both.conn = client.conn /\ both.id = client.id
      /\ both.title = titled.title
      /\ both.cwd = (IF seen.cwd = None THEN client.cwd ELSE seen.cwd)
      /\ both.size = client.size
  <2> HIDE DEF seen, titled
  <2> QED BY <1>3, <1>4 DEF Clients
<1>6. /\ title \in Seq(Frames)
      /\ \A i \in DOMAIN title : title[i].kind = "title" /\ seen.title # None
      /\ Settles(title, "title", client.title, titled.title)
      /\ Settles(title, "cwd", client.cwd, client.cwd)
      /\ Settles(title, "resize", client.size, client.size)
  <2> HIDE DEF titled
  <2>1. CASE seen.title = None
    <3>1. title = <<>>
      BY <2>1
    <3>2. titled.title = client.title
      BY <1>4, <2>1
    <3> QED BY <2>1, <3>1, <3>2, SettlesNone
  <2>2. CASE seen.title # None
    <3> DEFINE f == [kind |-> "title", title |-> seen.title]
    <3>1. f \in Frames /\ f.kind = "title"
      BY <1>3, <2>2 DEF Frames
    <3>2. /\ Says(f, "title") /\ ~Says(f, "cwd") /\ ~Says(f, "resize")
          /\ Value(f, "title") = seen.title
      BY DEF Says, Value
    <3>3. title = <<f>>
      BY <2>2
    <3> HIDE DEF f, title
    <3>4. <<f>> \in Seq(Frames) /\ DOMAIN <<f>> = {1} /\ <<f>>[1] = f
      BY <3>1, AppendIs, EmptySeq
    <3> QED BY <1>4, <2>2, <3>1, <3>2, <3>3, <3>4, SettlesOne
  <2> QED BY <2>1, <2>2
<1>7. /\ cwd \in Seq(Frames)
      /\ \A i \in DOMAIN cwd : cwd[i].kind = "cwd"
      /\ Settles(cwd, "title", titled.title, titled.title)
      /\ Settles(cwd, "cwd", client.cwd, both.cwd)
      /\ Settles(cwd, "resize", client.size, client.size)
  <2> HIDE DEF titled, both
  <2>1. CASE seen.cwd = None
    <3>1. cwd = <<>>
      BY <2>1
    <3>2. both.cwd = client.cwd
      BY <1>5, <2>1
    <3> QED BY <2>1, <3>1, <3>2, SettlesNone
  <2>2. CASE seen.cwd # None
    <3> DEFINE f == [kind |-> "cwd", cwd |-> seen.cwd]
    <3>1. f \in Frames /\ f.kind = "cwd"
      BY <1>3, <2>2 DEF Frames
    <3>2. /\ Says(f, "cwd") /\ ~Says(f, "title") /\ ~Says(f, "resize")
          /\ Value(f, "cwd") = seen.cwd
      BY DEF Says, Value
    <3>3. cwd = <<f>>
      BY <2>2
    <3> HIDE DEF f, cwd
    <3>4. <<f>> \in Seq(Frames) /\ DOMAIN <<f>> = {1} /\ <<f>>[1] = f
      BY <3>1, AppendIs, EmptySeq
    <3> QED BY <1>5, <2>2, <3>1, <3>2, <3>3, <3>4, SettlesOne
  <2> QED BY <2>1, <2>2
<1>8. /\ Settles(events', "resize", client.size, host.size)
      /\ Settles(events', "title", titled.title, host.title)
      /\ titled.title = 0 => client.title = 0 /\ seen.title = None
  BY <1>1, <1>4
<1> HIDE DEF seen, titled, both, title, cwd
<1>9. CASE SendFails(<<>>, titled)
  BY <1>1, <1>4, <1>8, <1>9, FailedUnsaid
<1>10. CASE SendFails(title, both)
  <2>1. \A i \in DOMAIN title : title[i].kind \in {"title", "cwd"}
    BY <1>6
  <2>2. both.title = 0 => client.title = 0 /\ \A i \in DOMAIN title : title[i].kind # "title"
    BY <1>5, <1>6, <1>8
  <2> QED BY <1>1, <1>5, <1>6, <1>8, <1>10, <2>1, <2>2, FailedKeeps
<1>11. CASE Send(title \o cwd, "pump", both)
  <2> DEFINE frames == title \o cwd
  <2>1. /\ frames \in Seq(Frames)
        /\ \A i \in DOMAIN frames :
             /\ frames[i].kind \in {"title", "cwd"}
             /\ frames[i].kind = "title" => seen.title # None
    <3>1. \A i \in DOMAIN frames :
            \/ i \in DOMAIN title /\ frames[i] = title[i]
            \/ i - Len(title) \in DOMAIN cwd /\ frames[i] = cwd[i - Len(title)]
      BY <1>6, <1>7, ConcatHas
    <3>2. frames \in Seq(Frames)
      BY <1>6, <1>7, ConcatHas
    <3> QED BY <1>6, <1>7, <3>1, <3>2
  <2>2. /\ Settles(frames, "resize", client.size, client.size)
        /\ Settles(frames, "title", client.title, titled.title)
        /\ Settles(frames, "cwd", client.cwd, both.cwd)
    BY <1>6, <1>7, SettlesConcat
  <2>3. Send(frames, "pump", both)
    BY <1>11
  <2> HIDE DEF frames
  <2>4. /\ Sends(frames, client') /\ client'.phase = "pump"
        /\ client'.title = titled.title /\ client'.cwd = both.cwd
        /\ client'.size = client.size
    BY <1>1, <1>5, <2>1, <2>3, SendIs
  <2>5. Tells(frames, client')
    <3>1. Rising(frames)
      BY <2>1 DEF Rising
    <3>2. client'.title = 0 => client.title = 0 /\ \A i \in DOMAIN frames : frames[i].kind # "title"
      BY <1>8, <2>1, <2>4
    <3>3. \A i \in DOMAIN frames : frames[i].kind # "output" /\ frames[i].kind # "exit"
      BY <2>1
    <3> QED BY <1>1, <2>2, <2>4, <3>1, <3>2, <3>3 DEF Tells
  <2>6. Heard'
    BY <1>1, <1>8, <2>4 DEF Heard
  <2> QED BY <2>4, <2>5, <2>6, SendsKeep
<1> QED BY <1>2, <1>9, <1>10, <1>11

-----------------------------------------------------------------------------
(* Steps of the relay. *)

LEMMA DialFailsKeeps == IInv /\ DialFails => IInv'
BY SleepKeeps DEF DialFails

LEMMA DisconnectKeeps == IInv /\ Disconnect => IInv'
BY SleepKeeps DEF Disconnect

\* A step of the relay that takes no frame adds none.
LEMMA FewerFrames ==
  ASSUME IInv, UNCHANGED <<host, events, client>>,
         \A n \in ConnIds : wire'[n] = wire[n] \/ wire'[n] = <<>>
  PROVE  /\ Exits' /\ Heard'
         /\ \A n \in ConnIds : Rising(wire'[n])
         /\ \A n \in ConnIds : \A j \in DOMAIN wire'[n] :
              j \in DOMAIN wire[n] /\ wire'[n][j] = wire[n][j]
<1>1. \A n \in ConnIds : \A j \in DOMAIN wire'[n] :
        j \in DOMAIN wire[n] /\ wire'[n][j] = wire[n][j] /\ wire'[n] = wire[n]
  <2> SUFFICES ASSUME NEW n \in ConnIds, NEW j \in DOMAIN wire'[n]
               PROVE  wire'[n] = wire[n]
    OBVIOUS
  <2>1. wire'[n] # <<>>
    OBVIOUS
  <2> QED BY <2>1
<1>2. \A n \in ConnIds : Rising(wire'[n])
  <2>1. Rising(<<>>)
    BY DEF Rising
  <2> QED BY <2>1 DEF IInv, Ordered
<1>3. Exits'
  BY <1>1 DEF IInv, Exits
<1>4. Heard'
  BY DEF IInv, Heard
<1> QED BY <1>1, <1>2, <1>3, <1>4

\* What a session holds of title, order and epoch, if the step leaves that alone.
LEMMA SameOrder ==
  ASSUME IInv, UNCHANGED <<host, events, client>>,
         \A n \in ConnIds : wire'[n] = wire[n] \/ wire'[n] = <<>>,
         \A id \in Ids : sessions'[id].out = sessions[id].out
  PROVE  Ordered'
BY FewerFrames DEF IInv, Ordered

LEMMA SameTitles ==
  ASSUME IInv, UNCHANGED <<host, events, client>>,
         \A n \in ConnIds : wire'[n] = wire[n] \/ wire'[n] = <<>>,
         \A id \in Ids : /\ sessions'[id].shown.title = sessions[id].shown.title
                         /\ sessions'[id].shown.cwd = sessions[id].shown.cwd
  PROVE  Unconnected'
<1>1. client.id = NoId =>
       /\ client.title = 0 /\ client.cwd = 0
       /\ \A n \in ConnIds : wire'[n] = <<>>
  BY DEF IInv, Unconnected
<1> QED BY <1>1, FewerFrames DEF IInv, Unconnected

\* The connections that stand as they stood.
LEMMA StandStill ==
  ASSUME IInv, UNCHANGED client, NEW n \in ConnIds,
         handler'[n] = handler[n], wire'[n] = wire[n]
  PROVE  Stands(n)'
BY DEF IInv, Dialled, Stands

\* The client is told by the handler it was told by.
LEMMA StillDialled ==
  ASSUME IInv, UNCHANGED <<client, hello>>,
         \A n \in ConnIds : Stands(n)',
         \A n \in ConnIds : handler[n].acked => handler'[n].acked /\ handler'[n].id = handler[n].id,
         \A n \in ConnIds : wire[n] = <<>> => wire'[n] = <<>>
  PROVE  Dialled'
BY DEF IInv, Dialled

\* Sets of older epochs are counted.
LEMMA Counted ==
  ASSUME NEW k \in Nat, NEW S, NEW T, S \subseteq T, T \subseteq 0..(k - 1)
  PROVE  /\ IsFiniteSet(T) /\ Cardinality(T) \in Nat /\ Cardinality(S) \in Nat
         /\ Cardinality(S) <= Cardinality(T) /\ Cardinality(T) <= k
         /\ \A e \in T : e \notin S => Cardinality(S) + 1 <= Cardinality(T)
<1>1. IsFiniteSet(0..(k - 1)) /\ Cardinality(0..(k - 1)) = k
  <2>1. k - 1 \in Int /\ 0 \in Int
    OBVIOUS
  <2>2. /\ IsFiniteSet(0..(k - 1))
        /\ Cardinality(0..(k - 1)) = IF 0 > k - 1 THEN 0 ELSE (k - 1) - 0 + 1
    BY <2>1, FS_Interval
  <2> QED BY <2>2
<1>2. IsFiniteSet(T) /\ Cardinality(T) <= k
  BY <1>1, FS_Subset
<1>3. IsFiniteSet(S) /\ Cardinality(S) <= Cardinality(T)
  BY <1>2, FS_Subset
<1>4. Cardinality(T) \in Nat /\ Cardinality(S) \in Nat
  BY <1>2, <1>3, FS_CardinalityType
<1>5. ASSUME NEW e \in T, e \notin S PROVE Cardinality(S) + 1 <= Cardinality(T)
  <2>1. IsFiniteSet(S \cup {e}) /\ Cardinality(S \cup {e}) = Cardinality(S) + 1
    BY <1>3, <1>5, FS_AddElement
  <2>2. Cardinality(S \cup {e}) <= Cardinality(T)
    BY <1>2, <1>5, FS_Subset
  <2> QED BY <2>1, <2>2
<1> QED BY <1>2, <1>3, <1>4, <1>5

\* An epoch that was spent stays so, and a stray spends one more.
LEMMA StraysCounted ==
  ASSUME IInv, NEW id \in Ids, sessions'[id].epoch \in Nat,
         Spent(id) \subseteq Spent(id)',
         \/ sessions'[id].strays = sessions[id].strays
         \/ sessions'[id].strays = sessions[id].strays + 1
            /\ \E e \in Spent(id)' : e \notin Spent(id)
  PROVE  sessions'[id].strays <= Cardinality(Spent(id)')
<1> DEFINE S == Spent(id)
           T == Spent(id)'
<1>1. T \subseteq 0..(sessions'[id].epoch - 1)
  BY DEF Spent
<1>2. sessions[id].strays \in Nat /\ sessions[id].strays <= Cardinality(S)
  BY Types DEF IInv, StraysAreSpent, Sessions
<1> HIDE DEF S, T
<1>3. /\ Cardinality(T) \in Nat /\ Cardinality(S) \in Nat
      /\ Cardinality(S) <= Cardinality(T)
      /\ \A e \in T : e \notin S => Cardinality(S) + 1 <= Cardinality(T)
  <2>1. S \subseteq T
    BY DEF S, T
  <2> QED BY <1>1, <2>1, Counted
<1>4. CASE sessions'[id].strays = sessions[id].strays
  BY <1>2, <1>3, <1>4 DEF T
<1>5. CASE /\ sessions'[id].strays = sessions[id].strays + 1
           /\ \E e \in T : e \notin S
  BY <1>2, <1>3, <1>5 DEF T
<1> QED BY <1>4, <1>5 DEF S, T

\* One handler takes a step.
LEMMA HandlerSteps ==
  ASSUME IInv, NEW n \in ConnIds, NEW h \in Handlers,
         handler' = [handler EXCEPT ![n] = h]
  PROVE  /\ handler' \in [ConnIds -> Handlers] /\ handler'[n] = h
         /\ \A m \in ConnIds : m # n => handler'[m] = handler[m]
         /\ handler[n] \in Handlers
BY Types DEF IInv

LEMMA ResumeKeeps == \A n \in ConnIds : IInv /\ Resume(n) => IInv'
<1> SUFFICES ASSUME NEW n \in ConnIds, IInv, Resume(n) PROVE IInv'
  OBVIOUS
<1> DEFINE id == hello[n].id
           h == [handler[n] EXCEPT !.phase = "resize", !.id = id,
                                   !.epoch = sessions[id].epoch + 1]
           s == [sessions[id] EXCEPT !.epoch = @ + 1, !.status = "live"]
<1>1. /\ n <= client.conn /\ handler[n].phase = "hello" /\ id \in Listed
      /\ sessions' = [sessions EXCEPT ![id] = s]
      /\ handler' = [handler EXCEPT ![n] = h]
      /\ UNCHANGED <<host, events, client, hello, wire, restarts, renewed>>
  BY DEF Resume
<1>2. /\ id \in Ids /\ sessions[id] \in Sessions /\ handler[n] \in Handlers
      /\ sessions \in [Ids -> Sessions] /\ sessions[id].listed
  BY <1>1, Types DEF IInv, Listed
<1> HIDE DEF id
<1>0. sessions[id].epoch \in Nat /\ sessions[id].epoch + 1 \in Nat
  BY <1>2 DEF Sessions
<1>3. /\ h \in Handlers /\ h.phase = "resize" /\ h.id = id /\ h.acked = handler[n].acked
      /\ h.epoch = sessions[id].epoch + 1
  BY <1>0, <1>2 DEF Handlers
<1>4. /\ s \in Sessions /\ s.epoch = sessions[id].epoch + 1 /\ s.status = "live"
      /\ s.strays = sessions[id].strays /\ s.shown = sessions[id].shown
      /\ s.out = sessions[id].out /\ s.inOrder = sessions[id].inOrder
      /\ sessions[id].epoch \in Nat
  BY <1>0, <1>2 DEF Sessions
<1> HIDE DEF h, s
<1>5. /\ handler' \in [ConnIds -> Handlers] /\ handler'[n] = h
      /\ \A m \in ConnIds : m # n => handler'[m] = handler[m]
  BY <1>1, <1>3, HandlerSteps
<1>6. /\ sessions' \in [Ids -> Sessions] /\ sessions'[id] = s
      /\ \A i \in Ids : i # id => sessions'[i] = sessions[i]
  BY <1>1, <1>2, <1>4
<1>7. /\ handler[n].id = NoId /\ NoId \notin Ids /\ ~handler[n].acked /\ wire[n] = <<>>
  BY <1>1 DEF IInv, Dialled, Stands, NoId, Ids
<1>8. TypeOK'
  BY <1>1, <1>5, <1>6, Types, TypesAfter DEF IInv
<1>9. Dialled'
  <2>1. \A m \in ConnIds : Stands(m)'
    <3> SUFFICES ASSUME NEW m \in ConnIds PROVE Stands(m)'
      OBVIOUS
    <3>1. CASE m = n
      <4>1. n \in Int /\ client.conn \in Int
        BY Types DEF IInv, ConnIds, Clients
      <4> QED BY <1>1, <1>2, <1>3, <1>5, <1>7, <3>1, <4>1 DEF Stands
    <3>2. CASE m # n
      BY <1>1, <1>5, <3>2, StandStill
    <3> QED BY <3>1, <3>2
  <2>2. \A m \in ConnIds :
          handler[m].acked => handler'[m].acked /\ handler'[m].id = handler[m].id
    BY <1>5, <1>7
  <2> QED BY <1>1, <2>1, <2>2, StillDialled
<1>10. \A m \in ConnIds : m # n /\ handler[m].id = id =>
         handler[m].epoch \in Nat /\ handler[m].epoch < s.epoch
  <2> SUFFICES ASSUME NEW m \in ConnIds, handler[m].id = id
               PROVE  handler[m].epoch \in Nat /\ handler[m].epoch < s.epoch
    OBVIOUS
  <2>1. handler[m].epoch \in Nat /\ handler[m].epoch <= sessions[id].epoch
    BY <1>2, Types DEF IInv, Epochs, Handlers
  <2> QED BY <1>4, <2>1
<1>11. Epochs'
  <2>1. \A i \in Ids : sessions'[i].status = "absent" => Unused(sessions'[i])
    BY <1>4, <1>6 DEF IInv, Epochs
  <2>2. ASSUME NEW m \in ConnIds, handler'[m].id \in Ids
        PROVE  /\ handler'[m].epoch <= sessions'[handler'[m].id].epoch
               /\ sessions'[handler'[m].id].status # "absent"
    <3>1. CASE m = n
      BY <1>3, <1>4, <1>5, <1>6, <3>1
    <3>2. CASE m # n /\ handler[m].id = id
      BY <1>4, <1>5, <1>6, <1>10, <3>2
    <3>3. CASE m # n /\ handler[m].id # id
      BY <1>5, <1>6, <2>2, <3>3 DEF IInv, Epochs
    <3> QED BY <3>1, <3>2, <3>3
  <2>3. ASSUME NEW l \in ConnIds, NEW m \in ConnIds,
               handler'[l].id \in Ids, handler'[l].id = handler'[m].id,
               handler'[l].epoch = handler'[m].epoch
        PROVE  l = m
    <3>1. CASE l # n /\ m # n
      BY <1>5, <2>3, <3>1 DEF IInv, Epochs
    <3>2. CASE l = n /\ m # n
      BY <1>3, <1>4, <1>5, <1>10, <2>3, <3>2
    <3>3. CASE l # n /\ m = n
      BY <1>3, <1>4, <1>5, <1>10, <2>3, <3>3
    <3> QED BY <3>1, <3>2, <3>3
  <2> QED BY <2>1, <2>2, <2>3 DEF Epochs
<1>12. StraysAreSpent'
  <2> SUFFICES ASSUME NEW i \in Ids
               PROVE  sessions'[i].strays <= Cardinality(Spent(i)')
    BY DEF StraysAreSpent
  <2>1. sessions'[i].epoch \in Nat /\ sessions[i].epoch \in Nat
        /\ sessions[i].epoch <= sessions'[i].epoch
    <3>1. sessions[i] \in Sessions
      BY Types DEF IInv
    <3>2. sessions[i].epoch \in Nat
      BY <3>1 DEF Sessions
    <3> QED BY <1>4, <1>6, <3>2
  <2>2. Spent(i) \subseteq Spent(i)'
    <3> SUFFICES ASSUME NEW e \in Spent(i) PROVE e \in Spent(i)'
      OBVIOUS
    <3>1. /\ e \in 0..(sessions[i].epoch - 1) /\ e \in 0..(sessions'[i].epoch - 1)
          /\ e < sessions[i].epoch
      BY <2>1 DEF Spent
    <3>2. ASSUME NEW m \in ConnIds, handler'[m].id = i, handler'[m].epoch = e
          PROVE  handler'[m].phase \notin {"resize", "apply"}
      <4>1. m # n
        BY <1>3, <1>4, <1>5, <3>1, <3>2
      <4> QED BY <1>5, <3>2, <4>1 DEF Spent
    <3> QED BY <3>1, <3>2 DEF Spent
  <2>3. sessions'[i].strays = sessions[i].strays
    BY <1>4, <1>6
  <2> QED BY <2>1, <2>2, <2>3, StraysCounted
<1>13. Ordered'
  <2>1. \A i \in Ids : sessions'[i].out = sessions[i].out
    BY <1>4, <1>6
  <2> QED BY <1>1, <2>1, SameOrder
<1>14. Exits' /\ Heard'
  BY <1>1, FewerFrames
<1>15. Unconnected'
  <2>1. \A i \in Ids : /\ sessions'[i].shown.title = sessions[i].shown.title
                       /\ sessions'[i].shown.cwd = sessions[i].shown.cwd
    BY <1>4, <1>6
  <2> QED BY <1>1, <2>1, SameTitles
<1>16. \A m \in ConnIds : \A i \in Ids : m # n /\ handler'[m].id = i /\ Current(m)' =>
         i # id /\ handler[m].id = i /\ Current(m) /\ sessions'[i] = sessions[i]
  <2> SUFFICES ASSUME NEW m \in ConnIds, NEW i \in Ids, m # n,
                      handler'[m].id = i, Current(m)'
               PROVE  i # id /\ handler[m].id = i /\ Current(m) /\ sessions'[i] = sessions[i]
    OBVIOUS
  <2>1. handler'[m] = handler[m] /\ handler[m].epoch = sessions'[i].epoch
    BY <1>5 DEF Current
  <2>2. i # id
    BY <1>4, <1>6, <1>10, <2>1
  <2> QED BY <1>6, <2>1, <2>2 DEF Current
<1>17. Newer'
  <2>1. \A i \in Ids : /\ sessions'[i].strays = sessions[i].strays
                       /\ sessions'[i].inOrder = sessions[i].inOrder
                       /\ sessions'[i].out = sessions[i].out
    BY <1>4, <1>6
  <2>2. ASSUME NEW i \in Ids, sessions[i].strays = 0, NEW m \in ConnIds,
               NEW j \in DOMAIN wire[m],
               handler'[m].id = i, Current(m)', wire[m][j].kind = "output"
        PROVE  sessions[i].out < wire[m][j].n
    <3>1. m # n
      BY <1>7
    <3> QED BY <1>16, <2>2, <3>1 DEF IInv, Newer
  <2>3. \A i \in Ids : sessions[i].strays = 0 => sessions[i].inOrder
    BY DEF IInv, Newer
  <2> QED BY <1>1, <2>1, <2>2, <2>3 DEF Newer
<1>18. Retold'
  <2>1. ASSUME NEW i \in Ids, sessions'[i].strays = 0, client.conn \in ConnIds, Holds(i)'
        PROVE  sessions[i].strays = 0 /\ Holds(i) /\ sessions'[i] = sessions[i]
    <3>1. client.conn # n
      BY <1>1, <1>3, <1>5, <2>1 DEF Holds
    <3> QED BY <1>1, <1>5, <1>16, <2>1, <3>1 DEF Holds
  <2> QED BY <1>1, <2>1 DEF IInv, Retold
<1>19. EndedKnowsAll'
  <2> SUFFICES ASSUME NEW i \in Ids, sessions'[i].status = "ended"
               PROVE  /\ client.phase = "finished"
                      /\ sessions'[i].strays = 0 =>
                           /\ sessions'[i].shown.size = host.size
                           /\ ~renewed => /\ sessions'[i].shown.title = host.title
                                          /\ sessions'[i].shown.cwd = client.cwd
                           /\ \A m \in ConnIds : handler'[m].id = i /\ Current(m)' =>
                                handler'[m].phase \notin {"resize", "apply"} /\ wire[m] = <<>>
    BY <1>1 DEF EndedKnowsAll
  <2>1. i # id /\ sessions'[i] = sessions[i]
    BY <1>4, <1>6
  <2>2. \A m \in ConnIds : handler'[m].id = i /\ Current(m)' =>
          m # n /\ handler[m].id = i /\ Current(m) /\ handler'[m] = handler[m]
    BY <1>3, <1>5, <1>16, <2>1
  <2> QED BY <2>1, <2>2 DEF IInv, EndedKnowsAll
<1> QED BY <1>8, <1>9, <1>11, <1>12, <1>13, <1>14, <1>15, <1>17, <1>18, <1>19 DEF IInv

\* A handler goes on without an effect on what its session shows.
LEMMA HandlerMoves ==
  ASSUME IInv, NEW n \in ConnIds, NEW h \in Handlers,
         UNCHANGED <<host, events, client, hello, restarts, renewed>>,
         handler' = [handler EXCEPT ![n] = h],
         h.id = handler[n].id, h.epoch = handler[n].epoch,
         handler[n].id \in Ids, handler[n].acked => h.acked,
         wire' \in [ConnIds -> Seq(Frames)],
         \A m \in ConnIds : m # n => wire'[m] = wire[m],
         wire'[n] = wire[n] \/ wire'[n] = <<>>,
         Stands(n)',
         handler[n].phase # "resize", h.phase # "resize",
         h.phase = "apply" => wire[n] # <<>> /\ Current(n),
         h.phase # "closed" => wire'[n] = wire[n] /\ handler[n].phase \in {"ack", "pump"},
         \/ UNCHANGED sessions
         \/ /\ sessions' = [sessions EXCEPT ![handler[n].id].status = "stale"]
            /\ sessions[handler[n].id].status # "ended"
  PROVE  IInv'
<1> DEFINE id == handler[n].id
<1>1. /\ handler' \in [ConnIds -> Handlers] /\ handler'[n] = h
      /\ \A m \in ConnIds : m # n => handler'[m] = handler[m]
  BY HandlerSteps
<1>2. /\ sessions' \in [Ids -> Sessions]
      /\ \A i \in Ids :
           /\ sessions'[i].epoch = sessions[i].epoch
           /\ sessions'[i].strays = sessions[i].strays
           /\ sessions'[i].shown = sessions[i].shown
           /\ sessions'[i].out = sessions[i].out
           /\ sessions'[i].inOrder = sessions[i].inOrder
           /\ \/ sessions'[i] = sessions[i]
              \/ i = id /\ sessions'[i].status = "stale"
           /\ sessions[i].epoch \in Nat
  <2>1. sessions \in [Ids -> Sessions] /\ \A i \in Ids : sessions[i].epoch \in Nat
    BY Types DEF IInv, Sessions
  <2>2. CASE UNCHANGED sessions
    BY <2>1, <2>2
  <2>3. CASE sessions' = [sessions EXCEPT ![id].status = "stale"]
    <3> DEFINE s == [sessions[id] EXCEPT !.status = "stale"]
    <3>1. sessions' = [sessions EXCEPT ![id] = s]
      BY <2>1, <2>3
    <3>2. /\ s \in Sessions /\ s.epoch = sessions[id].epoch
          /\ s.strays = sessions[id].strays /\ s.shown = sessions[id].shown
          /\ s.out = sessions[id].out /\ s.inOrder = sessions[id].inOrder
          /\ s.status = "stale"
      <4>1. sessions[id] \in Sessions
        BY <2>1
      <4> QED BY <4>1 DEF Sessions
    <3> HIDE DEF s
    <3>3. \A i \in Ids : sessions'[i] = IF i = id THEN s ELSE sessions[i]
      BY <2>1, <3>1
    <3> QED BY <2>1, <3>1, <3>2, <3>3
  <2> QED BY <2>2, <2>3
<1>3. \A m \in ConnIds : /\ handler'[m].id = handler[m].id
                         /\ handler'[m].epoch = handler[m].epoch
                         /\ wire'[m] = wire[m] \/ wire'[m] = <<>>
                         /\ handler[m].id \in Ids => (Current(m)' <=> Current(m))
                         /\ handler[m].acked => handler'[m].acked
                         /\ wire[m] = <<>> => wire'[m] = <<>>
  <2> SUFFICES ASSUME NEW m \in ConnIds
               PROVE  /\ handler'[m].id = handler[m].id
                      /\ handler'[m].epoch = handler[m].epoch
                      /\ wire'[m] = wire[m] \/ wire'[m] = <<>>
                      /\ handler[m].id \in Ids => (Current(m)' <=> Current(m))
                      /\ handler[m].acked => handler'[m].acked
                      /\ wire[m] = <<>> => wire'[m] = <<>>
    OBVIOUS
  <2>1. /\ handler'[m].id = handler[m].id
        /\ handler'[m].epoch = handler[m].epoch
        /\ handler[m].acked => handler'[m].acked
    BY <1>1
  <2>2. /\ wire'[m] = wire[m] \/ wire'[m] = <<>>
        /\ wire[m] = <<>> => wire'[m] = <<>>
    BY <1>1
  <2>3. handler[m].id \in Ids => (Current(m)' <=> Current(m))
    BY <1>2, <2>1 DEF Current
  <2> QED BY <2>1, <2>2, <2>3
<1>4. TypeOK'
  BY <1>1, <1>2, Types, TypesAfter DEF IInv
<1>5. Dialled'
  <2>1. \A m \in ConnIds : Stands(m)'
    <3> SUFFICES ASSUME NEW m \in ConnIds, m # n PROVE Stands(m)'
      OBVIOUS
    <3> QED BY <1>1, StandStill
  <2> QED BY <1>3, <2>1, StillDialled
<1>6. Epochs'
  <2>1. \A i \in Ids : sessions'[i].status = "absent" => Unused(sessions'[i])
    BY <1>2 DEF IInv, Epochs
  <2>2. ASSUME NEW m \in ConnIds, handler'[m].id \in Ids
        PROVE  /\ handler'[m].epoch <= sessions'[handler'[m].id].epoch
               /\ sessions'[handler'[m].id].status # "absent"
    <3> DEFINE i == handler[m].id
    <3>1. i \in Ids /\ handler'[m].id = i /\ handler'[m].epoch = handler[m].epoch
      BY <1>3, <2>2
    <3>2. handler[m].epoch <= sessions[i].epoch /\ sessions[i].status # "absent"
      BY <3>1 DEF IInv, Epochs
    <3> HIDE DEF i
    <3> QED BY <1>2, <3>1, <3>2
  <2>3. ASSUME NEW l \in ConnIds, NEW m \in ConnIds,
               handler'[l].id \in Ids, handler'[l].id = handler'[m].id,
               handler'[l].epoch = handler'[m].epoch
        PROVE  l = m
    BY <1>3, <2>3 DEF IInv, Epochs
  <2> QED BY <2>1, <2>2, <2>3 DEF Epochs
<1>7. StraysAreSpent'
  <2> SUFFICES ASSUME NEW i \in Ids
               PROVE  sessions'[i].strays <= Cardinality(Spent(i)')
    BY DEF StraysAreSpent
  <2>1. Spent(i) \subseteq Spent(i)'
    <3> SUFFICES ASSUME NEW e \in Spent(i) PROVE e \in Spent(i)'
      OBVIOUS
    <3>1. /\ e \in 0..(sessions[i].epoch - 1) /\ e \in 0..(sessions'[i].epoch - 1)
          /\ e < sessions[i].epoch
      BY <1>2 DEF Spent
    <3>2. ASSUME NEW m \in ConnIds, handler'[m].id = i, handler'[m].epoch = e
          PROVE  handler'[m].phase \notin {"resize", "apply"}
      <4>1. handler[m].id = i /\ handler[m].epoch = e
        BY <1>3, <3>2
      <4>2. ~Current(m)
        BY <1>2, <3>1, <4>1 DEF Current
      <4>3. CASE m # n
        BY <1>1, <4>1, <4>3 DEF Spent
      <4>4. CASE m = n
        BY <1>1, <4>2, <4>4
      <4> QED BY <4>3, <4>4
    <3> QED BY <3>1, <3>2 DEF Spent
  <2> QED BY <1>2, <2>1, StraysCounted
<1>8. Ordered' /\ Exits' /\ Heard'
  BY <1>2, <1>3, SameOrder, FewerFrames
<1>9. Unconnected'
  BY <1>2, <1>3, SameTitles
<1>10. Newer'
  <2>1. \A m \in ConnIds : \A j \in DOMAIN wire'[m] :
          j \in DOMAIN wire[m] /\ wire'[m][j] = wire[m][j]
    BY <1>3, FewerFrames
  <2>2. \A i \in Ids : sessions[i].strays = 0 =>
          /\ sessions[i].inOrder
          /\ \A m \in ConnIds : \A j \in DOMAIN wire[m] :
               handler[m].id = i /\ Current(m) /\ wire[m][j].kind = "output"
                 => sessions[i].out < wire[m][j].n
    BY DEF IInv, Newer
  <2>3. ASSUME NEW i \in Ids, sessions'[i].strays = 0,
               NEW m \in ConnIds, NEW j \in DOMAIN wire'[m],
               handler'[m].id = i, Current(m)', wire'[m][j].kind = "output"
        PROVE  sessions'[i].out < wire'[m][j].n
    <3>1. /\ handler[m].id = i /\ Current(m) /\ sessions[i].strays = 0
          /\ sessions'[i].out = sessions[i].out
      BY <1>2, <1>3, <2>3
    <3>2. j \in DOMAIN wire[m] /\ wire'[m][j] = wire[m][j]
      BY <2>1
    <3> QED BY <2>2, <2>3, <3>1, <3>2
  <2> QED BY <1>2, <2>2, <2>3 DEF Newer
<1>11. Retold'
  <2>1. ASSUME NEW i \in Ids, sessions'[i].strays = 0, client.conn \in ConnIds, Holds(i)'
        PROVE  /\ sessions[i].strays = 0 /\ Holds(i) /\ wire'[client.conn] = wire[client.conn]
               /\ sessions'[i].shown = sessions[i].shown
    <3>1. /\ handler'[client.conn].phase \in {"ack", "pump", "apply"}
          /\ handler[client.conn].id = i /\ Current(client.conn)
      <4>1. /\ handler'[client.conn].phase \in {"ack", "pump", "apply"}
            /\ handler'[client.conn].id = i /\ Current(client.conn)'
        BY <2>1 DEF Holds
      <4> QED BY <1>3, <2>1, <4>1
    <3>2. /\ handler[client.conn].phase \in {"ack", "pump", "apply"}
          /\ wire'[client.conn] = wire[client.conn]
      <4>1. CASE client.conn = n
        BY <1>1, <3>1, <4>1
      <4>2. CASE client.conn # n
        BY <1>1, <2>1, <3>1, <4>2
      <4> QED BY <4>1, <4>2
    <3> QED BY <1>2, <2>1, <3>1, <3>2 DEF Holds
  <2> QED BY <2>1 DEF IInv, Retold
<1>12. EndedKnowsAll'
  <2> SUFFICES ASSUME NEW i \in Ids, sessions'[i].status = "ended"
               PROVE  /\ client.phase = "finished"
                      /\ sessions'[i].strays = 0 =>
                           /\ sessions'[i].shown.size = host.size
                           /\ ~renewed => /\ sessions'[i].shown.title = host.title
                                          /\ sessions'[i].shown.cwd = client.cwd
                           /\ \A m \in ConnIds : handler'[m].id = i /\ Current(m)' =>
                                handler'[m].phase \notin {"resize", "apply"} /\ wire'[m] = <<>>
    BY DEF EndedKnowsAll
  <2>1. sessions'[i] = sessions[i]
    BY <1>2
  <2>2. ASSUME sessions[i].strays = 0, NEW m \in ConnIds, handler'[m].id = i, Current(m)'
        PROVE  handler'[m].phase \notin {"resize", "apply"} /\ wire'[m] = <<>>
    <3>1. handler[m].id = i /\ Current(m)
      BY <1>3, <2>2
    <3>2. handler[m].phase \notin {"resize", "apply"} /\ wire[m] = <<>>
      BY <2>1, <2>2, <3>1 DEF IInv, EndedKnowsAll
    <3>3. CASE m = n
      BY <1>1, <1>3, <3>2, <3>3
    <3>4. CASE m # n
      BY <1>1, <1>3, <3>2, <3>4
    <3> QED BY <3>3, <3>4
  <2> QED BY <2>1, <2>2 DEF IInv, EndedKnowsAll
<1> QED BY <1>4, <1>5, <1>6, <1>7, <1>8, <1>9, <1>10, <1>11, <1>12 DEF IInv

LEMMA AckKeeps == \A n \in ConnIds : IInv /\ Ack(n) => IInv'
<1> SUFFICES ASSUME NEW n \in ConnIds, IInv, Ack(n) PROVE IInv'
  OBVIOUS
<1>1. /\ handler[n].phase = "ack"
      /\ UNCHANGED <<host, events, client, hello, sessions, restarts, renewed>>
      /\ \/ /\ handler' = [handler EXCEPT ![n].phase = "pump", ![n].acked = TRUE]
            /\ UNCHANGED wire
         \/ /\ handler' = [handler EXCEPT ![n].phase = "closed"]
            /\ wire' = [wire EXCEPT ![n] = <<>>]
  BY DEF Ack
<1>2. /\ handler[n].id \in Ids /\ ~handler[n].acked /\ wire[n] = <<>>
      /\ n > client.conn => handler[n].phase = "hello"
  BY <1>1 DEF IInv, Dialled, Stands
<1>3. /\ handler \in [ConnIds -> Handlers] /\ handler[n] \in Handlers
      /\ wire \in [ConnIds -> Seq(Frames)]
  BY Types DEF IInv
<1>4. CASE UNCHANGED wire /\ handler' = [handler EXCEPT ![n].phase = "pump", ![n].acked = TRUE]
  <2> DEFINE h == [handler[n] EXCEPT !.phase = "pump", !.acked = TRUE]
  <2>1. /\ h \in Handlers /\ h.id = handler[n].id /\ h.epoch = handler[n].epoch
        /\ h.phase = "pump" /\ h.acked
    BY <1>3 DEF Handlers
  <2>2. handler' = [handler EXCEPT ![n] = h]
    BY <1>3, <1>4
  <2> HIDE DEF h
  <2>3. handler'[n] = h
    BY <1>3, <2>2
  <2>4. Stands(n)'
    BY <1>1, <1>2, <1>4, <2>1, <2>3 DEF Stands
  <2> QED BY <1>1, <1>2, <1>3, <1>4, <2>1, <2>2, <2>4, HandlerMoves
<1>5. CASE /\ handler' = [handler EXCEPT ![n].phase = "closed"]
           /\ wire' = [wire EXCEPT ![n] = <<>>]
  <2> DEFINE h == [handler[n] EXCEPT !.phase = "closed"]
  <2>1. /\ h \in Handlers /\ h.id = handler[n].id /\ h.epoch = handler[n].epoch
        /\ h.phase = "closed" /\ h.acked = handler[n].acked
    BY <1>3 DEF Handlers
  <2>2. handler' = [handler EXCEPT ![n] = h]
    BY <1>3, <1>5
  <2> HIDE DEF h
  <2>3. handler'[n] = h
    BY <1>3, <2>2
  <2>4. /\ wire' \in [ConnIds -> Seq(Frames)] /\ wire'[n] = <<>>
        /\ \A m \in ConnIds : m # n => wire'[m] = wire[m]
    BY <1>3, <1>5
  <2>5. Stands(n)'
    BY <1>1, <1>2, <2>1, <2>3, <2>4 DEF Stands
  <2> QED BY <1>1, <1>2, <1>3, <2>1, <2>2, <2>4, <2>5, HandlerMoves
<1> QED BY <1>1, <1>4, <1>5

LEMMA TakeKeeps == \A n \in ConnIds : IInv /\ Take(n) => IInv'
<1> SUFFICES ASSUME NEW n \in ConnIds, IInv, Take(n) PROVE IInv'
  OBVIOUS
<1> DEFINE h == [handler[n] EXCEPT !.phase = "apply"]
<1>1. /\ handler[n].phase = "pump" /\ wire[n] # <<>> /\ Current(n)
      /\ handler' = [handler EXCEPT ![n].phase = "apply"]
      /\ UNCHANGED <<host, events, client, hello, wire, sessions, restarts, renewed>>
  BY DEF Take
<1>2. /\ handler[n].id \in Ids /\ handler[n].acked
      /\ n > client.conn => handler[n].phase = "hello"
  BY <1>1 DEF IInv, Dialled, Stands
<1>3. /\ handler \in [ConnIds -> Handlers] /\ handler[n] \in Handlers
      /\ wire \in [ConnIds -> Seq(Frames)]
  BY Types DEF IInv
<1>4. /\ h \in Handlers /\ h.id = handler[n].id /\ h.epoch = handler[n].epoch
      /\ h.phase = "apply" /\ h.acked
  BY <1>2, <1>3 DEF Handlers
<1>5. handler' = [handler EXCEPT ![n] = h]
  BY <1>1, <1>3
<1> HIDE DEF h
<1>6. handler'[n] = h
  BY <1>3, <1>5
<1>7. Stands(n)'
  BY <1>1, <1>2, <1>4, <1>6 DEF Stands
<1> QED BY <1>1, <1>2, <1>3, <1>4, <1>5, <1>7, HandlerMoves

LEMMA HandlerEndsKeeps == \A n \in ConnIds : IInv /\ HandlerEnds(n) => IInv'
<1> SUFFICES ASSUME NEW n \in ConnIds, IInv, HandlerEnds(n) PROVE IInv'
  OBVIOUS
<1> DEFINE h == [handler[n] EXCEPT !.phase = "closed"]
           id == handler[n].id
<1>1. /\ handler[n].phase = "pump"
      /\ handler' = [handler EXCEPT ![n].phase = "closed"]
      /\ wire' = [wire EXCEPT ![n] = <<>>]
      /\ sessions' = IF Current(n) /\ sessions[id].status = "live"
                     THEN [sessions EXCEPT ![id].status = "stale"] ELSE sessions
      /\ UNCHANGED <<host, events, client, hello, restarts, renewed>>
  BY DEF HandlerEnds
<1>2. /\ id \in Ids /\ handler[n].acked
      /\ n > client.conn => handler[n].phase = "hello"
  BY <1>1 DEF IInv, Dialled, Stands
<1>3. /\ handler \in [ConnIds -> Handlers] /\ handler[n] \in Handlers
      /\ wire \in [ConnIds -> Seq(Frames)]
  BY Types DEF IInv
<1>4. /\ h \in Handlers /\ h.id = id /\ h.epoch = handler[n].epoch
      /\ h.phase = "closed" /\ h.acked
  BY <1>2, <1>3 DEF Handlers
<1>5. handler' = [handler EXCEPT ![n] = h]
  BY <1>1, <1>3
<1> HIDE DEF h
<1>6. handler'[n] = h
  BY <1>3, <1>5
<1>7. /\ wire' \in [ConnIds -> Seq(Frames)] /\ wire'[n] = <<>>
      /\ \A m \in ConnIds : m # n => wire'[m] = wire[m]
  BY <1>1, <1>3
<1>8. Stands(n)'
  BY <1>1, <1>2, <1>4, <1>6, <1>7 DEF Stands
<1>9. \/ UNCHANGED sessions
      \/ /\ sessions' = [sessions EXCEPT ![id].status = "stale"]
         /\ sessions[id].status # "ended"
  BY <1>1
<1> QED BY <1>1, <1>2, <1>3, <1>4, <1>5, <1>7, <1>8, <1>9, HandlerMoves

LEMMA CreateKeeps == \A n \in ConnIds : IInv /\ Create(n) => IInv'
<1> SUFFICES ASSUME NEW n \in ConnIds, IInv, Create(n) PROVE IInv'
  OBVIOUS
<1>1. PICK id \in Ids :
        /\ sessions[id].status = "absent"
        /\ sessions' = [sessions EXCEPT
             ![id] = [NoSession EXCEPT !.listed = TRUE, !.status = "live",
                                       !.shown.size = hello[n].size]]
        /\ handler' = [handler EXCEPT ![n] = [@ EXCEPT !.phase = "ack", !.id = id]]
  BY DEF Create
<1> DEFINE s == [NoSession EXCEPT !.listed = TRUE, !.status = "live",
                                  !.shown.size = hello[n].size]
           h == [handler[n] EXCEPT !.phase = "ack", !.id = id]
<1>2. /\ n <= client.conn /\ handler[n].phase = "hello"
      /\ UNCHANGED <<host, events, client, hello, wire, restarts, renewed>>
  BY DEF Create
<1>3. /\ Unused(sessions[id]) /\ handler[n].id = NoId /\ NoId \notin Ids
      /\ handler[n].epoch = 0 /\ ~handler[n].acked /\ wire[n] = <<>>
      /\ \A m \in ConnIds : handler[m].id # id
  BY <1>1, <1>2 DEF IInv, Epochs, Dialled, Stands, NoId, Ids
<1>4. /\ sessions \in [Ids -> Sessions] /\ handler \in [ConnIds -> Handlers]
      /\ handler[n] \in Handlers /\ hello[n].size \in 0..MaxSize
  BY Types DEF IInv
<1>5. /\ h \in Handlers /\ h.phase = "ack" /\ h.id = id /\ h.epoch = 0 /\ ~h.acked
  BY <1>3, <1>4 DEF Handlers
<1>6. /\ s \in Sessions /\ s.epoch = 0 /\ s.strays = 0 /\ s.status = "live"
      /\ s.shown.title = 0 /\ s.shown.cwd = 0 /\ s.shown.size = hello[n].size
      /\ s.out = 0 /\ s.inOrder = TRUE
  <2> DEFINE shown == [NoSession.shown EXCEPT !.size = hello[n].size]
  <2>1. /\ NoSession \in Sessions /\ NoSession.shown \in Contents
        /\ NoSession.shown.title = 0 /\ NoSession.shown.cwd = 0
        /\ NoSession.epoch = 0 /\ NoSession.strays = 0 /\ NoSession.out = 0
        /\ NoSession.inOrder = TRUE
    BY DEF NoSession, Sessions, Contents
  <2>2. shown \in Contents /\ shown.title = 0 /\ shown.cwd = 0 /\ shown.size = hello[n].size
    BY <1>4, <2>1 DEF Contents
  <2>3. s = [NoSession EXCEPT !.listed = TRUE, !.status = "live", !.shown = shown]
    OBVIOUS
  <2> HIDE DEF shown, s
  <2> QED BY <2>1, <2>2, <2>3 DEF Sessions
<1>7. /\ handler' \in [ConnIds -> Handlers] /\ handler'[n] = h
      /\ \A m \in ConnIds : m # n => handler'[m] = handler[m]
  <2>1. handler' = [handler EXCEPT ![n] = h]
    BY <1>1
  <2> HIDE DEF h
  <2> QED BY <1>5, <2>1, HandlerSteps
<1>8. /\ sessions' \in [Ids -> Sessions] /\ sessions'[id] = s
      /\ \A i \in Ids : i # id => sessions'[i] = sessions[i]
  <2>1. sessions' = [sessions EXCEPT ![id] = s]
    BY <1>1
  <2> HIDE DEF s
  <2> QED BY <1>4, <1>6, <2>1
<1>9. /\ sessions[id].epoch = 0 /\ sessions[id].strays = 0 /\ sessions[id].out = 0
      /\ sessions[id].shown.title = 0 /\ sessions[id].shown.cwd = 0
  BY <1>3 DEF Unused
<1> HIDE DEF h, s
<1>10. TypeOK'
  BY <1>2, <1>7, <1>8, Types, TypesAfter DEF IInv
<1>11. Dialled'
  <2>1. \A m \in ConnIds : Stands(m)'
    <3> SUFFICES ASSUME NEW m \in ConnIds PROVE Stands(m)'
      OBVIOUS
    <3>1. CASE m = n
      <4>1. n \in Int /\ client.conn \in Int
        BY Types DEF IInv, ConnIds, Clients
      <4> QED BY <1>2, <1>3, <1>5, <1>7, <3>1, <4>1 DEF Stands
    <3>2. CASE m # n
      BY <1>2, <1>7, <3>2, StandStill
    <3> QED BY <3>1, <3>2
  <2>2. \A m \in ConnIds :
          handler[m].acked => handler'[m].acked /\ handler'[m].id = handler[m].id
    BY <1>3, <1>7
  <2> QED BY <1>2, <2>1, <2>2, StillDialled
<1>12. Epochs'
  <2>1. \A i \in Ids : sessions'[i].status = "absent" => Unused(sessions'[i])
    BY <1>6, <1>8 DEF IInv, Epochs
  <2>2. ASSUME NEW m \in ConnIds, handler'[m].id \in Ids
        PROVE  /\ handler'[m].epoch <= sessions'[handler'[m].id].epoch
               /\ sessions'[handler'[m].id].status # "absent"
    <3>1. CASE m = n
      BY <1>5, <1>6, <1>7, <1>8, <3>1
    <3>2. CASE m # n
      BY <1>3, <1>7, <1>8, <2>2, <3>2 DEF IInv, Epochs
    <3> QED BY <3>1, <3>2
  <2>3. ASSUME NEW l \in ConnIds, NEW m \in ConnIds,
               handler'[l].id \in Ids, handler'[l].id = handler'[m].id,
               handler'[l].epoch = handler'[m].epoch
        PROVE  l = m
    <3>1. CASE l # n /\ m # n
      BY <1>7, <2>3, <3>1 DEF IInv, Epochs
    <3>2. \A k \in ConnIds : k # n => handler'[k].id # handler'[n].id
      BY <1>3, <1>5, <1>7
    <3>3. CASE l = n \/ m = n
      BY <2>3, <3>2, <3>3
    <3> QED BY <3>1, <3>3
  <2> QED BY <2>1, <2>2, <2>3 DEF Epochs
<1>13. StraysAreSpent'
  <2> SUFFICES ASSUME NEW i \in Ids
               PROVE  sessions'[i].strays <= Cardinality(Spent(i)')
    BY DEF StraysAreSpent
  <2>1. /\ sessions'[i].epoch = sessions[i].epoch /\ sessions'[i].strays = sessions[i].strays
        /\ sessions'[i].epoch \in Nat
    <3>1. sessions[i].epoch \in Nat
      BY Types DEF IInv, Sessions
    <3>2. /\ sessions'[i].epoch = sessions[i].epoch
          /\ sessions'[i].strays = sessions[i].strays
      BY <1>6, <1>8, <1>9
    <3> QED BY <3>1, <3>2
  <2>2. Spent(i) \subseteq Spent(i)'
    <3> SUFFICES ASSUME NEW e \in Spent(i) PROVE e \in Spent(i)'
      OBVIOUS
    <3>1. \A m \in ConnIds : handler'[m].id = i /\ m # n =>
            handler'[m] = handler[m]
      BY <1>7
    <3>2. h.phase \notin {"resize", "apply"}
      BY <1>5
    <3> QED BY <1>7, <2>1, <3>1, <3>2 DEF Spent
  <2> QED BY <2>1, <2>2, StraysCounted
<1>14. Ordered' /\ Exits' /\ Heard'
  <2>1. \A i \in Ids : sessions'[i].out = sessions[i].out
    BY <1>6, <1>8, <1>9
  <2> QED BY <1>2, <2>1, SameOrder, FewerFrames
<1>15. Unconnected'
  <2>1. \A i \in Ids : /\ sessions'[i].shown.title = sessions[i].shown.title
                       /\ sessions'[i].shown.cwd = sessions[i].shown.cwd
    BY <1>6, <1>8, <1>9
  <2> QED BY <1>2, <2>1, SameTitles
<1>16. \A m \in ConnIds : \A i \in Ids : m # n /\ handler'[m].id = i /\ Current(m)' =>
         i # id /\ handler[m].id = i /\ Current(m) /\ sessions'[i] = sessions[i]
  BY <1>3, <1>7, <1>8 DEF Current
<1>17. Newer'
  <2>1. ASSUME NEW i \in Ids, sessions'[i].strays = 0, NEW m \in ConnIds,
               NEW j \in DOMAIN wire[m],
               handler'[m].id = i, Current(m)', wire[m][j].kind = "output"
        PROVE  sessions'[i].out < wire[m][j].n
    <3>1. m # n
      BY <1>3
    <3> QED BY <1>16, <2>1, <3>1 DEF IInv, Newer
  <2>2. \A i \in Ids : sessions'[i].strays = 0 => sessions'[i].inOrder
    BY <1>6, <1>8 DEF IInv, Newer
  <2> QED BY <1>2, <2>1, <2>2 DEF Newer
<1>18. Retold'
  <2>1. ASSUME NEW i \in Ids, sessions'[i].strays = 0, client.conn \in ConnIds, Holds(i)', client.conn # n
        PROVE  sessions[i].strays = 0 /\ Holds(i) /\ sessions'[i] = sessions[i]
    <3>1. /\ handler'[client.conn].phase \in {"ack", "pump", "apply"}
          /\ handler'[client.conn].id = i /\ Current(client.conn)'
      BY <1>2, <2>1 DEF Holds
    <3> QED BY <1>2, <1>7, <1>16, <2>1, <3>1 DEF Holds
  <2>2. CASE client.conn # n
    BY <1>2, <2>1, <2>2 DEF IInv, Retold
  <2>3. CASE client.conn = n
    <3>1. client.phase \notin {"title", "cwd", "pump", "finished"}
      BY <1>3, <2>3 DEF IInv, Dialled
    <3>2. client.phase = "connect" => hello[n].size = client.size
      BY <2>3 DEF IInv, Dialled
    <3>3. \A i \in Ids : Holds(i)' => i = id
      BY <1>2, <1>5, <1>7, <2>3 DEF Holds
    <3>4. client.phase = "connect" => Settles(<<>>, "resize", s.shown.size, client.size)
      BY <1>6, <3>2, SettlesNone
    <3> QED BY <1>2, <1>3, <1>8, <2>3, <3>1, <3>3, <3>4 DEF Retold
  <2> QED BY <2>2, <2>3
<1>19. EndedKnowsAll'
  <2> SUFFICES ASSUME NEW i \in Ids, sessions'[i].status = "ended"
               PROVE  /\ client.phase = "finished"
                      /\ sessions'[i].strays = 0 =>
                           /\ sessions'[i].shown.size = host.size
                           /\ ~renewed => /\ sessions'[i].shown.title = host.title
                                          /\ sessions'[i].shown.cwd = client.cwd
                           /\ \A m \in ConnIds : handler'[m].id = i /\ Current(m)' =>
                                handler'[m].phase \notin {"resize", "apply"} /\ wire[m] = <<>>
    BY <1>2 DEF EndedKnowsAll
  <2>1. i # id /\ sessions'[i] = sessions[i]
    BY <1>6, <1>8
  <2>2. \A m \in ConnIds : handler'[m].id = i /\ Current(m)' =>
          m # n /\ handler[m].id = i /\ Current(m) /\ handler'[m] = handler[m]
    BY <1>5, <1>7, <1>16, <2>1
  <2> QED BY <2>1, <2>2 DEF IInv, EndedKnowsAll
<1> QED BY <1>10, <1>11, <1>12, <1>13, <1>14, <1>15, <1>17, <1>18, <1>19 DEF IInv

LEMMA RestartKeeps == IInv /\ Restart => IInv'
<1> SUFFICES ASSUME IInv, Restart PROVE IInv'
  OBVIOUS
<1>1. /\ restarts < MaxRestarts /\ restarts' = restarts + 1
      /\ sessions' = [id \in Ids |-> [sessions[id] EXCEPT !.listed = FALSE]]
      /\ handler' = [n \in ConnIds |->
           IF n <= client.conn THEN [handler[n] EXCEPT !.phase = "closed"]
                               ELSE handler[n]]
      /\ wire' = [n \in ConnIds |-> <<>>]
      /\ UNCHANGED <<host, events, client, hello, renewed>>
  BY DEF Restart
<1>2. /\ \A id \in Ids : sessions[id] \in Sessions
      /\ \A n \in ConnIds : handler[n] \in Handlers /\ n \in Int
      /\ client.conn \in Int
  <2>1. /\ sessions \in [Ids -> Sessions] /\ handler \in [ConnIds -> Handlers]
        /\ client \in Clients
    BY Types DEF IInv
  <2>2. client.conn \in Int
    BY <2>1 DEF Clients
  <2>3. \A n \in ConnIds : n \in Int
    BY DEF ConnIds
  <2> QED BY <2>1, <2>2, <2>3
<1>3. ASSUME NEW id \in Ids
      PROVE  /\ sessions'[id] \in Sessions
             /\ sessions'[id].epoch = sessions[id].epoch
             /\ sessions'[id].strays = sessions[id].strays
             /\ sessions'[id].status = sessions[id].status
             /\ sessions'[id].shown = sessions[id].shown
             /\ sessions'[id].out = sessions[id].out
             /\ sessions'[id].inOrder = sessions[id].inOrder
             /\ Unused(sessions[id]) => Unused(sessions'[id])
             /\ sessions[id].epoch \in Nat
  <2>1. sessions'[id] = [sessions[id] EXCEPT !.listed = FALSE] /\ sessions[id] \in Sessions
    BY <1>1, <1>2
  <2> QED BY <2>1 DEF Sessions, Unused
<1>4. ASSUME NEW n \in ConnIds
      PROVE  /\ handler'[n] \in Handlers
             /\ handler'[n].id = handler[n].id /\ handler'[n].epoch = handler[n].epoch
             /\ handler'[n].acked = handler[n].acked /\ wire'[n] = <<>>
             /\ IF n <= client.conn THEN handler'[n].phase = "closed"
                                    ELSE handler'[n].phase = "hello"
             /\ handler[n].phase = "hello" \/ n <= client.conn
  <2>1. n > client.conn => handler[n].phase = "hello"
    BY DEF IInv, Dialled, Stands
  <2>2. n <= client.conn \/ n > client.conn
    BY <1>2
  <2> QED BY <1>1, <1>2, <2>1, <2>2 DEF Handlers
<1>5. TypeOK'
  <2>1. restarts' \in 0..MaxRestarts
    BY <1>1, Types DEF IInv
  <2>2. /\ sessions' \in [Ids -> Sessions] /\ handler' \in [ConnIds -> Handlers]
    BY <1>1, <1>3, <1>4
  <2>3. wire' \in [ConnIds -> Seq(Frames)]
    <3>1. <<>> \in Seq(Frames)
      OBVIOUS
    <3> QED BY <1>1, <3>1
  <2> QED BY <1>1, <2>1, <2>2, <2>3, Types, TypesAfter DEF IInv
<1>6. Dialled'
  <2>1. ASSUME NEW n \in ConnIds PROVE Stands(n)'
    <3>1. n > client.conn => ~(n <= client.conn)
      BY <1>2
    <3>2. Stands(n)
      BY DEF IInv, Dialled
    <3> QED BY <1>1, <1>4, <3>1, <3>2 DEF Stands
  <2>2. \A n \in ConnIds :
          handler[n].acked => handler'[n].acked /\ handler'[n].id = handler[n].id
    BY <1>4
  <2>3. \A n \in ConnIds : wire[n] = <<>> => wire'[n] = <<>>
    BY <1>4
  <2> QED BY <1>1, <2>1, <2>2, <2>3, StillDialled
<1>7. Epochs'
  <2>1. \A i \in Ids : sessions'[i].status = "absent" => Unused(sessions'[i])
    BY <1>3 DEF IInv, Epochs
  <2>2. ASSUME NEW m \in ConnIds, handler'[m].id \in Ids
        PROVE  /\ handler'[m].epoch <= sessions'[handler'[m].id].epoch
               /\ sessions'[handler'[m].id].status # "absent"
    <3> DEFINE i == handler[m].id
    <3>1. i \in Ids /\ handler'[m].id = i /\ handler'[m].epoch = handler[m].epoch
      BY <1>4, <2>2
    <3>2. handler[m].epoch <= sessions[i].epoch /\ sessions[i].status # "absent"
      BY <3>1 DEF IInv, Epochs
    <3> HIDE DEF i
    <3> QED BY <1>3, <3>1, <3>2
  <2>3. ASSUME NEW l \in ConnIds, NEW m \in ConnIds,
               handler'[l].id \in Ids, handler'[l].id = handler'[m].id,
               handler'[l].epoch = handler'[m].epoch
        PROVE  l = m
    BY <1>4, <2>3 DEF IInv, Epochs
  <2> QED BY <2>1, <2>2, <2>3 DEF Epochs
<1>8. StraysAreSpent'
  <2> SUFFICES ASSUME NEW i \in Ids
               PROVE  sessions'[i].strays <= Cardinality(Spent(i)')
    BY DEF StraysAreSpent
  <2>1. /\ sessions'[i].epoch = sessions[i].epoch /\ sessions'[i].strays = sessions[i].strays
        /\ sessions'[i].epoch \in Nat
    BY <1>3
  <2>2. Spent(i) \subseteq Spent(i)'
    <3>1. \A m \in ConnIds : handler'[m].phase \notin {"resize", "apply"}
      BY <1>4
    <3> QED BY <2>1, <3>1 DEF Spent
  <2> QED BY <2>1, <2>2, StraysCounted
<1>9. \A n \in ConnIds : wire'[n] = wire[n] \/ wire'[n] = <<>>
  BY <1>4
<1>10. Ordered' /\ Exits' /\ Heard' /\ Unconnected'
  BY <1>1, <1>3, <1>9, SameOrder, SameTitles, FewerFrames
<1>11. Newer'
  BY <1>3, <1>4 DEF IInv, Newer
<1>12. Retold'
  <2>1. client.conn \in ConnIds => handler'[client.conn].phase = "closed"
    BY <1>2, <1>4
  <2> QED BY <1>1, <2>1 DEF Retold, Holds
<1>13. EndedKnowsAll'
  <2>1. \A n \in ConnIds : handler'[n].phase \notin {"resize", "apply"} /\ wire'[n] = <<>>
    BY <1>4
  <2> QED BY <1>1, <1>3, <2>1 DEF IInv, EndedKnowsAll
<1> QED BY <1>5, <1>6, <1>7, <1>8, <1>10, <1>11, <1>12, <1>13 DEF IInv

\* A handler whose session has gone on leaves a stray.
LEMMA StraysIs ==
  ASSUME NEW n, NEW session \in Sessions
  PROVE  LET r == Strays(n, session) IN
         /\ r \in Sessions /\ r.epoch = session.epoch /\ r.status = session.status
         /\ r.strays = (IF Current(n) THEN session.strays ELSE session.strays + 1)
         /\ r.shown = session.shown /\ r.out = session.out
         /\ r.inOrder = session.inOrder /\ r.listed = session.listed
         /\ r.shown \in Contents
<1>1. session.strays \in Nat /\ session.shown \in Contents
  BY DEF Sessions
<1> DEFINE k == IF Current(n) THEN session.strays ELSE session.strays + 1
           r == [session EXCEPT !.strays = k]
<1>2. k \in Nat
  BY <1>1
<1>3. Strays(n, session) = r
  BY DEF Strays
<1> HIDE DEF k
<1>4. /\ r \in Sessions /\ r.epoch = session.epoch /\ r.status = session.status
      /\ r.strays = k
      /\ r.shown = session.shown /\ r.out = session.out
      /\ r.inOrder = session.inOrder /\ r.listed = session.listed
  BY <1>2 DEF Sessions
<1> HIDE DEF r
<1> QED BY <1>1, <1>3, <1>4 DEF k

LEMMA ResumeResizesKeeps == \A n \in ConnIds : IInv /\ ResumeResizes(n) => IInv'
<1> SUFFICES ASSUME NEW n \in ConnIds, IInv, ResumeResizes(n) PROVE IInv'
  OBVIOUS
<1>0. PICK id \in Ids : id = handler[n].id
  BY DEF IInv, Dialled, Stands, ResumeResizes
<1> DEFINE h == [handler[n] EXCEPT !.phase = "ack"]
           s == [Strays(n, sessions[id]) EXCEPT !.shown.size = hello[n].size]
<1>1. /\ handler[n].phase = "resize"
      /\ sessions' = [sessions EXCEPT
           ![id] = [Strays(n, @) EXCEPT !.shown.size = hello[n].size]]
      /\ handler' = [handler EXCEPT ![n].phase = "ack"]
      /\ UNCHANGED <<host, events, client, hello, wire, restarts, renewed>>
  BY <1>0 DEF ResumeResizes
<1>2. /\ id = handler[n].id /\ ~handler[n].acked /\ wire[n] = <<>>
      /\ n > client.conn => handler[n].phase = "hello"
  BY <1>0, <1>1 DEF IInv, Dialled, Stands
<1>3. /\ handler \in [ConnIds -> Handlers] /\ handler[n] \in Handlers
      /\ sessions \in [Ids -> Sessions] /\ sessions[id] \in Sessions
      /\ hello[n].size \in 0..MaxSize
      /\ \A i \in Ids : sessions[i].epoch \in Nat
  BY <1>2, Types DEF IInv, Sessions
<1>4. /\ h \in Handlers /\ h.id = id /\ h.epoch = handler[n].epoch
      /\ h.phase = "ack" /\ h.acked = handler[n].acked
  BY <1>2, <1>3 DEF Handlers
<1>5. /\ handler' \in [ConnIds -> Handlers] /\ handler'[n] = h
      /\ \A m \in ConnIds : m # n => handler'[m] = handler[m]
  <2>1. handler' = [handler EXCEPT ![n] = h]
    BY <1>1, <1>3
  <2> HIDE DEF h
  <2> QED BY <1>4, <2>1, HandlerSteps
<1>6. /\ s \in Sessions /\ s.epoch = sessions[id].epoch /\ s.status = sessions[id].status
      /\ s.strays = (IF Current(n) THEN sessions[id].strays ELSE sessions[id].strays + 1)
      /\ s.shown.title = sessions[id].shown.title /\ s.shown.cwd = sessions[id].shown.cwd
      /\ s.shown.size = hello[n].size
      /\ s.out = sessions[id].out /\ s.inOrder = sessions[id].inOrder
      /\ s.listed = sessions[id].listed
  <2> DEFINE r == Strays(n, sessions[id])
             shown == [r.shown EXCEPT !.size = hello[n].size]
  <2>1. /\ r \in Sessions /\ r.epoch = sessions[id].epoch /\ r.status = sessions[id].status
        /\ r.strays = (IF Current(n) THEN sessions[id].strays ELSE sessions[id].strays + 1)
        /\ r.shown = sessions[id].shown /\ r.out = sessions[id].out
        /\ r.inOrder = sessions[id].inOrder /\ r.listed = sessions[id].listed
        /\ r.shown \in Contents
    BY <1>3, StraysIs DEF Current
  <2>2. s = [r EXCEPT !.shown = shown]
    OBVIOUS
  <2> HIDE DEF r
  <2>3. /\ shown \in Contents /\ shown.title = r.shown.title /\ shown.cwd = r.shown.cwd
        /\ shown.size = hello[n].size
    BY <1>3, <2>1 DEF Contents
  <2> HIDE DEF s, shown
  <2> QED BY <2>1, <2>2, <2>3 DEF Sessions
<1>7. /\ sessions' \in [Ids -> Sessions] /\ sessions'[id] = s
      /\ \A i \in Ids : i # id => sessions'[i] = sessions[i]
  <2>1. sessions' = [sessions EXCEPT ![id] = s]
    BY <1>1, <1>3
  <2> HIDE DEF s
  <2> QED BY <1>2, <1>3, <1>6, <2>1
<1> HIDE DEF h, s
<1>8. \A m \in ConnIds : /\ handler'[m].id = handler[m].id
                         /\ handler'[m].epoch = handler[m].epoch
                         /\ handler[m].id \in Ids => (Current(m)' <=> Current(m))
                         /\ handler[m].acked => handler'[m].acked
  BY <1>2, <1>4, <1>5, <1>6, <1>7 DEF Current
<1>9. /\ \A i \in Ids :
           /\ sessions'[i].epoch = sessions[i].epoch
           /\ sessions'[i].status = sessions[i].status
           /\ sessions'[i].out = sessions[i].out
           /\ sessions'[i].inOrder = sessions[i].inOrder
           /\ sessions'[i].shown.title = sessions[i].shown.title
           /\ sessions'[i].shown.cwd = sessions[i].shown.cwd
      /\ \A i \in Ids : sessions'[i].strays = 0 => sessions[i].strays = 0
      /\ sessions'[id].strays = 0 => Current(n)
  <2>1. sessions[id].strays \in Nat
    BY <1>3 DEF Sessions
  <2> QED BY <1>2, <1>6, <1>7, <2>1
<1>10. TypeOK'
  BY <1>1, <1>5, <1>7, Types, TypesAfter DEF IInv
<1>11. Dialled'
  <2>1. ASSUME NEW m \in ConnIds PROVE Stands(m)'
    <3>1. CASE m = n
      BY <1>1, <1>2, <1>4, <1>5, <3>1 DEF Stands
    <3>2. CASE m # n
      BY <1>1, <1>5, <3>2, StandStill
    <3> QED BY <3>1, <3>2
  <2> QED BY <1>1, <1>8, <2>1, StillDialled
<1>12. Epochs'
  <2>1. ASSUME NEW i \in Ids, sessions'[i].status = "absent" PROVE Unused(sessions'[i])
    <3>1. i # id
      BY <1>2, <1>9, <2>1 DEF IInv, Epochs
    <3> QED BY <1>7, <2>1, <3>1 DEF IInv, Epochs
  <2>2. ASSUME NEW m \in ConnIds, handler'[m].id \in Ids
        PROVE  /\ handler'[m].epoch <= sessions'[handler'[m].id].epoch
               /\ sessions'[handler'[m].id].status # "absent"
    <3> DEFINE i == handler[m].id
    <3>1. i \in Ids /\ handler'[m].id = i /\ handler'[m].epoch = handler[m].epoch
      BY <1>8, <2>2
    <3>2. handler[m].epoch <= sessions[i].epoch /\ sessions[i].status # "absent"
      BY <3>1 DEF IInv, Epochs
    <3> HIDE DEF i
    <3> QED BY <1>9, <3>1, <3>2
  <2>3. ASSUME NEW l \in ConnIds, NEW m \in ConnIds,
               handler'[l].id \in Ids, handler'[l].id = handler'[m].id,
               handler'[l].epoch = handler'[m].epoch
        PROVE  l = m
    BY <1>8, <2>3 DEF IInv, Epochs
  <2> QED BY <2>1, <2>2, <2>3 DEF Epochs
<1>13. StraysAreSpent'
  <2> SUFFICES ASSUME NEW i \in Ids
               PROVE  sessions'[i].strays <= Cardinality(Spent(i)')
    BY DEF StraysAreSpent
  <2>1. Spent(i) \subseteq Spent(i)'
    <3> SUFFICES ASSUME NEW e \in Spent(i) PROVE e \in Spent(i)'
      OBVIOUS
    <3>1. ASSUME NEW m \in ConnIds, handler'[m].id = i, handler'[m].epoch = e
          PROVE  handler'[m].phase \notin {"resize", "apply"}
      <4>1. CASE m = n
        BY <1>4, <1>5, <4>1
      <4>2. CASE m # n
        BY <1>5, <3>1, <4>2 DEF Spent
      <4> QED BY <4>1, <4>2
    <3> QED BY <1>9, <3>1 DEF Spent
  <2>2. CASE i = id /\ ~Current(n)
    <3>1. handler[n].epoch \in 0..(sessions'[id].epoch - 1)
      <4>1. handler[n].epoch \in Nat /\ handler[n].epoch <= sessions[id].epoch
        BY <1>2, <1>3 DEF IInv, Epochs, Handlers
      <4>2. handler[n].epoch # sessions[id].epoch
        BY <1>2, <2>2 DEF Current
      <4> QED BY <1>2, <1>3, <1>9, <4>1, <4>2
    <3>2. handler[n].epoch \notin Spent(id)
      BY <1>1, <1>2 DEF Spent
    <3>3. handler[n].epoch \in Spent(id)'
      <4>1. ASSUME NEW m \in ConnIds, handler'[m].id = id, handler'[m].epoch = handler[n].epoch
            PROVE  handler'[m].phase \notin {"resize", "apply"}
        <5>1. handler[m].id = id /\ handler[m].epoch = handler[n].epoch
          BY <1>4, <1>5, <1>8, <4>1
        <5>2. m = n
          BY <1>2, <5>1 DEF IInv, Epochs
        <5> QED BY <1>4, <1>5, <5>2
      <4> QED BY <1>4, <1>5, <3>1, <4>1 DEF Spent
    <3>4. sessions'[i].strays = sessions[i].strays + 1
      BY <1>6, <1>7, <2>2
    <3> QED BY <1>3, <1>9, <2>1, <2>2, <3>2, <3>3, <3>4, StraysCounted
  <2>3. CASE ~(i = id /\ ~Current(n))
    <3>1. sessions'[i].strays = sessions[i].strays
      BY <1>6, <1>7, <2>3
    <3> QED BY <1>3, <1>9, <2>1, <3>1, StraysCounted
  <2> QED BY <2>2, <2>3
<1>14. Ordered' /\ Exits' /\ Heard' /\ Unconnected'
  BY <1>1, <1>9, SameOrder, SameTitles, FewerFrames
<1>15. Newer'
  <2>1. ASSUME NEW i \in Ids, sessions'[i].strays = 0, NEW m \in ConnIds,
               NEW j \in DOMAIN wire[m],
               handler'[m].id = i, Current(m)', wire[m][j].kind = "output"
        PROVE  sessions'[i].out < wire[m][j].n
    <3>1. handler[m].id = i /\ Current(m) /\ sessions[i].strays = 0
      BY <1>8, <1>9, <2>1
    <3> QED BY <1>9, <2>1, <3>1 DEF IInv, Newer
  <2>2. \A i \in Ids : sessions'[i].strays = 0 => sessions'[i].inOrder
    BY <1>9 DEF IInv, Newer
  <2> QED BY <1>1, <2>1, <2>2 DEF Newer
<1>16. \A m \in ConnIds : m # n /\ handler[m].id = id /\ Current(m) => ~Current(n)
  BY <1>2 DEF IInv, Epochs, Current
<1>17. Retold'
  <2>1. ASSUME NEW i \in Ids, sessions'[i].strays = 0, client.conn \in ConnIds, Holds(i)',
               client.conn # n
        PROVE  sessions[i].strays = 0 /\ Holds(i) /\ sessions'[i] = sessions[i]
    <3>1. /\ handler'[client.conn].phase \in {"ack", "pump", "apply"}
          /\ handler'[client.conn].id = i /\ Current(client.conn)'
      BY <1>1, <2>1 DEF Holds
    <3>2. /\ handler[client.conn].phase \in {"ack", "pump", "apply"}
          /\ handler[client.conn].id = i /\ Current(client.conn)
      BY <1>1, <1>5, <1>8, <2>1, <3>1
    <3>3. i # id
      BY <1>9, <1>16, <2>1, <3>2
    <3> QED BY <1>7, <2>1, <3>2, <3>3 DEF Holds
  <2>2. CASE client.conn # n
    BY <1>1, <2>1, <2>2 DEF IInv, Retold
  <2>3. CASE client.conn = n
    <3>1. client.phase \notin {"title", "cwd", "pump", "finished"}
      BY <1>2, <2>3 DEF IInv, Dialled
    <3>2. client.phase = "connect" => hello[n].size = client.size
      BY <2>3 DEF IInv, Dialled
    <3>3. \A i \in Ids : Holds(i)' => i = id
      BY <1>1, <1>4, <1>5, <2>3 DEF Holds
    <3>4. client.phase = "connect" => Settles(<<>>, "resize", s.shown.size, client.size)
      BY <1>6, <3>2, SettlesNone
    <3> QED BY <1>1, <1>2, <1>7, <2>3, <3>1, <3>3, <3>4 DEF Retold
  <2> QED BY <2>2, <2>3
<1>18. EndedKnowsAll'
  <2> SUFFICES ASSUME NEW i \in Ids, sessions'[i].status = "ended"
               PROVE  /\ client.phase = "finished"
                      /\ sessions'[i].strays = 0 =>
                           /\ sessions'[i].shown.size = host.size
                           /\ ~renewed => /\ sessions'[i].shown.title = host.title
                                          /\ sessions'[i].shown.cwd = client.cwd
                           /\ \A m \in ConnIds : handler'[m].id = i /\ Current(m)' =>
                                handler'[m].phase \notin {"resize", "apply"} /\ wire[m] = <<>>
    BY <1>1 DEF EndedKnowsAll
  <2>1. sessions[i].status = "ended" /\ client.phase = "finished"
    BY <1>9 DEF IInv, EndedKnowsAll
  <2>2. ASSUME sessions'[i].strays = 0 PROVE i # id /\ sessions[i].strays = 0
    BY <1>1, <1>2, <1>9, <2>1, <2>2 DEF IInv, EndedKnowsAll
  <2>3. ASSUME sessions'[i].strays = 0, NEW m \in ConnIds, handler'[m].id = i, Current(m)'
        PROVE  handler'[m].phase \notin {"resize", "apply"} /\ wire[m] = <<>>
    <3>1. handler[m].id = i /\ Current(m) /\ m # n
      BY <1>2, <1>8, <2>2, <2>3
    <3> QED BY <1>5, <2>1, <2>2, <2>3, <3>1 DEF IInv, EndedKnowsAll
  <2> QED BY <1>7, <2>1, <2>2, <2>3 DEF IInv, EndedKnowsAll
<1> QED BY <1>10, <1>11, <1>12, <1>13, <1>14, <1>15, <1>17, <1>18 DEF IInv

\* What a frame does to a session.
Applied(frame, session) ==
  CASE frame.kind = "output" ->
         [session EXCEPT !.out = frame.n, !.inOrder = @ /\ frame.n > session.out]
    [] frame.kind = "resize" -> [session EXCEPT !.shown.size = frame.size]
    [] frame.kind = "title" -> [session EXCEPT !.shown.title = frame.title]
    [] frame.kind = "cwd" -> [session EXCEPT !.shown.cwd = frame.cwd]
    [] frame.kind = "exit" -> [session EXCEPT !.status = "ended"]

LEMMA AppliedIs ==
  ASSUME NEW frame \in Frames, NEW r \in Sessions
  PROVE  LET s == Applied(frame, r) IN
         /\ s \in Sessions /\ s.epoch = r.epoch /\ s.strays = r.strays
         /\ s.listed = r.listed
         /\ s.status = (IF frame.kind = "exit" THEN "ended" ELSE r.status)
         /\ s.shown.size = (IF Says(frame, "resize") THEN Value(frame, "resize")
                            ELSE r.shown.size)
         /\ s.shown.title = (IF Says(frame, "title") THEN Value(frame, "title")
                             ELSE r.shown.title)
         /\ s.shown.cwd = (IF Says(frame, "cwd") THEN Value(frame, "cwd") ELSE r.shown.cwd)
         /\ s.out = (IF frame.kind = "output" THEN frame.n ELSE r.out)
         /\ frame.kind # "output" => s.inOrder = r.inOrder
         /\ frame.kind = "output" => (s.inOrder <=> r.inOrder /\ frame.n > r.out)
<1> DEFINE s == Applied(frame, r)
<1>1. r.shown \in Contents /\ r.inOrder \in BOOLEAN
  BY DEF Sessions
<1>2. CASE frame.kind = "output"
  <2> DEFINE b == r.inOrder /\ frame.n > r.out
  <2>1. frame.n \in Nat /\ b \in BOOLEAN
    BY <1>2 DEF Frames
  <2>2. s = [r EXCEPT !.out = frame.n, !.inOrder = b]
    BY <1>2 DEF Applied
  <2> HIDE DEF s, b
  <2>3. /\ s \in Sessions /\ s.epoch = r.epoch /\ s.strays = r.strays
        /\ s.listed = r.listed /\ s.status = r.status /\ s.shown = r.shown
        /\ s.out = frame.n /\ s.inOrder = b
    BY <2>1, <2>2 DEF Sessions
  <2>4. s.inOrder <=> r.inOrder /\ frame.n > r.out
    BY <2>3 DEF b
  <2>5. ~Says(frame, "resize") /\ ~Says(frame, "title") /\ ~Says(frame, "cwd")
    BY <1>2 DEF Says
  <2> QED BY <1>2, <2>3, <2>4, <2>5 DEF s
<1>3. CASE frame.kind = "resize"
  <2> DEFINE shown == [r.shown EXCEPT !.size = frame.size]
  <2>1. frame.size \in 0..MaxSize
    BY <1>3 DEF Frames
  <2>2. shown \in Contents /\ shown.size = frame.size /\ shown.title = r.shown.title
        /\ shown.cwd = r.shown.cwd
    BY <1>1, <2>1 DEF Contents
  <2>3. s = [r EXCEPT !.shown = shown]
    BY <1>3 DEF Applied
  <2> HIDE DEF s, shown
  <2>4. /\ s \in Sessions /\ s.epoch = r.epoch /\ s.strays = r.strays
        /\ s.listed = r.listed /\ s.status = r.status /\ s.shown = shown
        /\ s.out = r.out /\ s.inOrder = r.inOrder
    BY <2>2, <2>3 DEF Sessions
  <2>5. /\ Says(frame, "resize") /\ ~Says(frame, "title") /\ ~Says(frame, "cwd")
        /\ Value(frame, "resize") = frame.size
    BY <1>3 DEF Says, Value
  <2> QED BY <1>3, <2>2, <2>4, <2>5 DEF s
<1>4. CASE frame.kind = "title"
  <2> DEFINE shown == [r.shown EXCEPT !.title = frame.title]
  <2>1. frame.title \in 0..MaxTitle
    BY <1>4 DEF Frames
  <2>2. shown \in Contents /\ shown.size = r.shown.size /\ shown.title = frame.title
        /\ shown.cwd = r.shown.cwd
    BY <1>1, <2>1 DEF Contents
  <2>3. s = [r EXCEPT !.shown = shown]
    BY <1>4 DEF Applied
  <2> HIDE DEF s, shown
  <2>4. /\ s \in Sessions /\ s.epoch = r.epoch /\ s.strays = r.strays
        /\ s.listed = r.listed /\ s.status = r.status /\ s.shown = shown
        /\ s.out = r.out /\ s.inOrder = r.inOrder
    BY <2>2, <2>3 DEF Sessions
  <2>5. /\ ~Says(frame, "resize") /\ Says(frame, "title") /\ ~Says(frame, "cwd")
        /\ Value(frame, "title") = frame.title
    BY <1>4 DEF Says, Value
  <2> QED BY <1>4, <2>2, <2>4, <2>5 DEF s
<1>5. CASE frame.kind = "cwd"
  <2> DEFINE shown == [r.shown EXCEPT !.cwd = frame.cwd]
  <2>1. frame.cwd \in 0..MaxCwd
    BY <1>5 DEF Frames
  <2>2. shown \in Contents /\ shown.size = r.shown.size /\ shown.title = r.shown.title
        /\ shown.cwd = frame.cwd
    BY <1>1, <2>1 DEF Contents
  <2>3. s = [r EXCEPT !.shown = shown]
    BY <1>5 DEF Applied
  <2> HIDE DEF s, shown
  <2>4. /\ s \in Sessions /\ s.epoch = r.epoch /\ s.strays = r.strays
        /\ s.listed = r.listed /\ s.status = r.status /\ s.shown = shown
        /\ s.out = r.out /\ s.inOrder = r.inOrder
    BY <2>2, <2>3 DEF Sessions
  <2>5. /\ ~Says(frame, "resize") /\ ~Says(frame, "title") /\ Says(frame, "cwd")
        /\ Value(frame, "cwd") = frame.cwd
    BY <1>5 DEF Says, Value
  <2> QED BY <1>5, <2>2, <2>4, <2>5 DEF s
<1>6. CASE frame.kind = "exit"
  <2>1. s = [r EXCEPT !.status = "ended"]
    BY <1>6 DEF Applied
  <2> HIDE DEF s
  <2>2. /\ s \in Sessions /\ s.epoch = r.epoch /\ s.strays = r.strays
        /\ s.listed = r.listed /\ s.status = "ended" /\ s.shown = r.shown
        /\ s.out = r.out /\ s.inOrder = r.inOrder
    BY <2>1 DEF Sessions
  <2>3. ~Says(frame, "resize") /\ ~Says(frame, "title") /\ ~Says(frame, "cwd")
    BY <1>6 DEF Says
  <2> QED BY <1>6, <2>2, <2>3 DEF s
<1>7. frame.kind \in {"output", "resize", "title", "cwd", "exit"}
  BY DEF Frames
<1> QED BY <1>2, <1>3, <1>4, <1>5, <1>6, <1>7

LEMMA ApplyKeeps == \A n \in ConnIds : IInv /\ Apply(n) => IInv'
<1> SUFFICES ASSUME NEW n \in ConnIds, IInv, Apply(n) PROVE IInv'
  OBVIOUS
<1>0. PICK id \in Ids : id = handler[n].id
  BY DEF IInv, Dialled, Stands, Apply
<1> DEFINE h == [handler[n] EXCEPT !.phase = "pump"]
           frame == Head(wire[n])
           rest == Tail(wire[n])
           r == Strays(n, sessions[id])
           s == Applied(frame, r)
<1>1. /\ handler[n].phase = "apply"
      /\ sessions' = [sessions EXCEPT ![id] = s]
      /\ wire' = [wire EXCEPT ![n] = rest]
      /\ handler' = [handler EXCEPT ![n].phase = "pump"]
      /\ UNCHANGED <<host, events, client, hello, restarts, renewed>>
  BY <1>0 DEF Apply, Applied
<1>2. /\ id = handler[n].id /\ handler[n].acked /\ wire[n] # <<>>
      /\ n > client.conn => handler[n].phase = "hello"
  BY <1>0, <1>1 DEF IInv, Dialled, Stands
<1>3. /\ handler \in [ConnIds -> Handlers] /\ handler[n] \in Handlers
      /\ sessions \in [Ids -> Sessions] /\ sessions[id] \in Sessions
      /\ wire \in [ConnIds -> Seq(Frames)] /\ wire[n] \in Seq(Frames)
      /\ \A i \in Ids : sessions[i].epoch \in Nat
  BY Types DEF IInv, Sessions
<1>4. /\ h \in Handlers /\ h.id = id /\ h.epoch = handler[n].epoch
      /\ h.phase = "pump" /\ h.acked
  BY <1>2, <1>3 DEF Handlers
<1>5. /\ handler' \in [ConnIds -> Handlers] /\ handler'[n] = h
      /\ \A m \in ConnIds : m # n => handler'[m] = handler[m]
  <2>1. handler' = [handler EXCEPT ![n] = h]
    BY <1>1, <1>3
  <2> HIDE DEF h
  <2> QED BY <1>4, <2>1, HandlerSteps
<1>6. /\ frame \in Frames /\ rest \in Seq(Frames)
      /\ 1 \in DOMAIN wire[n] /\ wire[n][1] = frame
      /\ DOMAIN rest = 1..(Len(wire[n]) - 1) /\ Len(rest) = Len(wire[n]) - 1
      /\ Len(wire[n]) \in Nat
      /\ \A j \in DOMAIN rest : j + 1 \in DOMAIN wire[n] /\ rest[j] = wire[n][j + 1]
  BY <1>2, <1>3, TailHas, Emptied
<1>7. /\ wire' \in [ConnIds -> Seq(Frames)] /\ wire'[n] = rest
      /\ \A m \in ConnIds : m # n => wire'[m] = wire[m]
  <2> HIDE DEF rest
  <2> QED BY <1>1, <1>3, <1>6
<1>8. /\ r \in Sessions /\ r.epoch = sessions[id].epoch /\ r.status = sessions[id].status
      /\ r.strays = (IF Current(n) THEN sessions[id].strays ELSE sessions[id].strays + 1)
      /\ r.shown = sessions[id].shown /\ r.out = sessions[id].out
      /\ r.inOrder = sessions[id].inOrder
  BY <1>3, StraysIs
<1> HIDE DEF r, frame, rest, h
<1>9. /\ s \in Sessions /\ s.epoch = sessions[id].epoch
      /\ s.strays = (IF Current(n) THEN sessions[id].strays ELSE sessions[id].strays + 1)
      /\ s.status = (IF frame.kind = "exit" THEN "ended" ELSE sessions[id].status)
      /\ s.shown.size = (IF Says(frame, "resize") THEN Value(frame, "resize")
                         ELSE sessions[id].shown.size)
      /\ s.shown.title = (IF Says(frame, "title") THEN Value(frame, "title")
                          ELSE sessions[id].shown.title)
      /\ s.shown.cwd = (IF Says(frame, "cwd") THEN Value(frame, "cwd")
                        ELSE sessions[id].shown.cwd)
      /\ s.out = (IF frame.kind = "output" THEN frame.n ELSE sessions[id].out)
      /\ frame.kind # "output" => s.inOrder = sessions[id].inOrder
      /\ frame.kind = "output" =>
           (s.inOrder <=> sessions[id].inOrder /\ frame.n > sessions[id].out)
  BY <1>6, <1>8, AppliedIs
<1> HIDE DEF s
<1>10. /\ sessions' \in [Ids -> Sessions] /\ sessions'[id] = s
       /\ \A i \in Ids : i # id => sessions'[i] = sessions[i]
  BY <1>1, <1>3, <1>9
<1>11. \A m \in ConnIds : /\ handler'[m].id = handler[m].id
                          /\ handler'[m].epoch = handler[m].epoch
                          /\ handler[m].id \in Ids => (Current(m)' <=> Current(m))
                          /\ handler[m].acked => handler'[m].acked
  BY <1>2, <1>4, <1>5, <1>9, <1>10 DEF Current
<1>12. /\ \A i \in Ids :
            /\ sessions'[i].epoch = sessions[i].epoch
            /\ sessions'[i].strays = 0 => sessions[i].strays = 0
       /\ sessions'[id].strays = 0 => Current(n)
       /\ frame.kind = "output" => frame.n \in Nat
       /\ sessions[id].out \in Nat
  <2>1. sessions[id].strays \in Nat /\ sessions[id].out \in Nat
    BY <1>3 DEF Sessions
  <2>2. frame.kind = "output" => frame.n \in Nat
    BY <1>6 DEF Frames
  <2> QED BY <1>9, <1>10, <2>1, <2>2
<1>13. TypeOK'
  BY <1>1, <1>5, <1>7, <1>10, Types, TypesAfter DEF IInv
<1>14. Dialled'
  <2>1. ASSUME NEW m \in ConnIds PROVE Stands(m)'
    <3>1. CASE m = n
      BY <1>0, <1>1, <1>2, <1>4, <1>5, <3>1 DEF Stands
    <3>2. CASE m # n
      BY <1>1, <1>5, <1>7, <3>2, StandStill
    <3> QED BY <3>1, <3>2
  <2>2. \A m \in ConnIds : wire[m] = <<>> => wire'[m] = <<>>
    BY <1>2, <1>7
  <2> QED BY <1>1, <1>11, <2>1, <2>2, StillDialled
<1>15. Epochs'
  <2>1. ASSUME NEW i \in Ids, sessions'[i].status = "absent" PROVE Unused(sessions'[i])
    <3>1. i # id
      BY <1>2, <1>9, <1>10, <2>1 DEF IInv, Epochs
    <3> QED BY <1>10, <2>1, <3>1 DEF IInv, Epochs
  <2>2. ASSUME NEW m \in ConnIds, handler'[m].id \in Ids
        PROVE  /\ handler'[m].epoch <= sessions'[handler'[m].id].epoch
               /\ sessions'[handler'[m].id].status # "absent"
    <3> DEFINE i == handler[m].id
    <3>1. i \in Ids /\ handler'[m].id = i /\ handler'[m].epoch = handler[m].epoch
      BY <1>11, <2>2
    <3>2. handler[m].epoch <= sessions[i].epoch /\ sessions[i].status # "absent"
      BY <3>1 DEF IInv, Epochs
    <3>3. sessions'[i].status # "absent"
      BY <1>9, <1>10, <3>1, <3>2
    <3> HIDE DEF i
    <3> QED BY <1>12, <3>1, <3>2, <3>3
  <2>3. ASSUME NEW l \in ConnIds, NEW m \in ConnIds,
               handler'[l].id \in Ids, handler'[l].id = handler'[m].id,
               handler'[l].epoch = handler'[m].epoch
        PROVE  l = m
    BY <1>11, <2>3 DEF IInv, Epochs
  <2> QED BY <2>1, <2>2, <2>3 DEF Epochs
<1>16. StraysAreSpent'
  <2> SUFFICES ASSUME NEW i \in Ids
               PROVE  sessions'[i].strays <= Cardinality(Spent(i)')
    BY DEF StraysAreSpent
  <2>1. Spent(i) \subseteq Spent(i)'
    <3> SUFFICES ASSUME NEW e \in Spent(i) PROVE e \in Spent(i)'
      OBVIOUS
    <3>1. ASSUME NEW m \in ConnIds, handler'[m].id = i, handler'[m].epoch = e
          PROVE  handler'[m].phase \notin {"resize", "apply"}
      <4>1. CASE m = n
        BY <1>4, <1>5, <4>1
      <4>2. CASE m # n
        BY <1>5, <3>1, <4>2 DEF Spent
      <4> QED BY <4>1, <4>2
    <3> QED BY <1>12, <3>1 DEF Spent
  <2>2. CASE i = id /\ ~Current(n)
    <3>1. handler[n].epoch \in 0..(sessions'[id].epoch - 1)
      <4>1. handler[n].epoch \in Nat /\ handler[n].epoch <= sessions[id].epoch
        BY <1>2, <1>3 DEF IInv, Epochs, Handlers
      <4>2. handler[n].epoch # sessions[id].epoch
        BY <1>2, <2>2 DEF Current
      <4> QED BY <1>2, <1>3, <1>12, <4>1, <4>2
    <3>2. handler[n].epoch \notin Spent(id)
      BY <1>1, <1>2 DEF Spent
    <3>3. handler[n].epoch \in Spent(id)'
      <4>1. ASSUME NEW m \in ConnIds, handler'[m].id = id, handler'[m].epoch = handler[n].epoch
            PROVE  handler'[m].phase \notin {"resize", "apply"}
        <5>1. handler[m].id = id /\ handler[m].epoch = handler[n].epoch
          BY <1>4, <1>5, <1>11, <4>1
        <5>2. m = n
          BY <1>2, <5>1 DEF IInv, Epochs
        <5> QED BY <1>4, <1>5, <5>2
      <4> QED BY <1>4, <1>5, <3>1, <4>1 DEF Spent
    <3>4. sessions'[i].strays = sessions[i].strays + 1
      BY <1>9, <1>10, <2>2
    <3> QED BY <1>3, <1>12, <2>1, <2>2, <3>2, <3>3, <3>4, StraysCounted
  <2>3. CASE ~(i = id /\ ~Current(n))
    <3>1. sessions'[i].strays = sessions[i].strays
      BY <1>9, <1>10, <2>3
    <3> QED BY <1>3, <1>12, <2>1, <3>1, StraysCounted
  <2> QED BY <2>2, <2>3
<1>17. ASSUME NEW m \in ConnIds, NEW j \in DOMAIN wire'[m]
       PROVE  \E k \in DOMAIN wire[m] : wire'[m][j] = wire[m][k]
  <2>1. CASE m = n
    BY <1>6, <1>7, <1>17, <2>1
  <2>2. CASE m # n
    BY <1>7, <1>17, <2>2
  <2> QED BY <2>1, <2>2
<1>18. frame.kind = "output" =>
         /\ frame.n <= host.out
         /\ \A i \in DOMAIN events : events[i].kind = "output" => frame.n < events[i].n
  BY <1>6 DEF IInv, Ordered
<1>19. Ordered'
  <2>1. ASSUME NEW m \in ConnIds PROVE Rising(wire'[m])
    <3>1. CASE m = n
      <4>1. Rising(wire[n])
        BY DEF IInv, Ordered
      <4>2. Rising(rest)
        BY <1>2, <1>3, <4>1, RisingTail DEF rest
      <4> QED BY <1>7, <3>1, <4>2
    <3>2. CASE m # n
      BY <1>7, <3>2 DEF IInv, Ordered
    <3> QED BY <3>1, <3>2
  <2>2. ASSUME NEW m \in ConnIds, NEW j \in DOMAIN wire'[m], wire'[m][j].kind = "output"
        PROVE  /\ wire'[m][j].n <= host.out
               /\ \A i \in DOMAIN events : events[i].kind = "output"
                    => wire'[m][j].n < events[i].n
    <3>1. PICK k \in DOMAIN wire[m] : wire'[m][j] = wire[m][k]
      BY <1>17
    <3> QED BY <2>2, <3>1 DEF IInv, Ordered
  <2>3. ASSUME NEW i \in Ids
        PROVE  /\ sessions'[i].out <= host.out
               /\ \A l \in DOMAIN events : events[l].kind = "output"
                    => sessions'[i].out < events[l].n
    <3>1. CASE i = id /\ frame.kind = "output"
      BY <1>9, <1>10, <1>18, <3>1
    <3>2. CASE ~(i = id /\ frame.kind = "output")
      <4>1. sessions'[i].out = sessions[i].out
        BY <1>9, <1>10, <3>2
      <4> QED BY <4>1 DEF IInv, Ordered
    <3> QED BY <3>1, <3>2
  <2>4. Rising(events)
    BY DEF IInv, Ordered
  <2>5. \A i \in DOMAIN events : events[i].kind = "output" => events[i].n <= host.out
    BY DEF IInv, Ordered
  <2> QED BY <1>1, <2>1, <2>2, <2>3, <2>4, <2>5 DEF Ordered
<1>20. Exits'
  <2>1. ASSUME NEW m \in ConnIds, NEW j \in DOMAIN wire'[m], wire'[m][j].kind = "exit"
        PROVE  j = Len(wire'[m]) /\ m = client.conn /\ client.phase = "finished"
    <3>1. CASE m = n
      <4>1. /\ j \in 1..(Len(wire[n]) - 1) /\ j + 1 \in DOMAIN wire[n]
            /\ wire[n][j + 1].kind = "exit"
        BY <1>6, <1>7, <2>1, <3>1
      <4>2. j + 1 = Len(wire[n]) /\ n = client.conn /\ client.phase = "finished"
        BY <4>1 DEF IInv, Exits
      <4>3. j = Len(rest)
        BY <1>6, <4>1, <4>2
      <4> QED BY <1>7, <3>1, <4>2, <4>3
    <3>2. CASE m # n
      BY <1>7, <2>1, <3>2 DEF IInv, Exits
    <3> QED BY <3>1, <3>2
  <2>2. /\ \A i \in DOMAIN events : events[i].kind = "exit" => i = Len(events) /\ host.exit
        /\ client.phase = "finished" => events = <<>> /\ host.exit
    BY DEF IInv, Exits
  <2> QED BY <1>1, <2>1, <2>2 DEF Exits
<1>21. Unconnected'
  <2>1. client.id # NoId
    BY <1>2 DEF IInv, Unconnected
  <2>2. ASSUME client.title = 0
        PROVE  /\ \A m \in ConnIds : \A j \in DOMAIN wire'[m] : wire'[m][j].kind # "title"
               /\ \A i \in Ids : sessions'[i].shown.title = 0
               /\ client.phase # "title"
    <3>1. /\ \A m \in ConnIds : \A j \in DOMAIN wire[m] : wire[m][j].kind # "title"
          /\ \A i \in Ids : sessions[i].shown.title = 0
          /\ client.phase # "title"
      BY <2>2 DEF IInv, Unconnected
    <3>2. ~Says(frame, "title")
      BY <1>6, <3>1 DEF Says, Frames
    <3>3. \A m \in ConnIds : \A j \in DOMAIN wire'[m] : wire'[m][j].kind # "title"
      BY <1>17, <3>1
    <3> QED BY <1>9, <1>10, <3>1, <3>2, <3>3
  <2>3. \A i \in DOMAIN events : Says(events[i], "title") => Value(events[i], "title") # 0
    BY DEF IInv, Unconnected
  <2> QED BY <1>1, <2>1, <2>2, <2>3 DEF Unconnected
<1>22. Heard'
  BY <1>1 DEF IInv, Heard
<1>23. \A m \in ConnIds : m # n /\ handler[m].id = id /\ Current(m) => ~Current(n)
  BY <1>2 DEF IInv, Epochs, Current
<1>24. ASSUME NEW m \in ConnIds, NEW i \in Ids, sessions'[i].strays = 0,
              handler'[m].id = i, Current(m)'
       PROVE  /\ handler[m].id = i /\ Current(m) /\ sessions[i].strays = 0
              /\ m = n \/ (m # n /\ i # id /\ sessions'[i] = sessions[i]
                           /\ wire'[m] = wire[m] /\ handler'[m] = handler[m])
              /\ m = n => i = id
  <2>1. handler[m].id = i /\ Current(m) /\ sessions[i].strays = 0
    BY <1>11, <1>12, <1>24
  <2>2. m # n => i # id
    BY <1>12, <1>23, <1>24, <2>1
  <2> QED BY <1>2, <1>5, <1>7, <1>10, <2>1, <2>2
<1>25. Newer'
  <2>1. ASSUME NEW i \in Ids, sessions'[i].strays = 0, NEW m \in ConnIds,
               NEW j \in DOMAIN wire'[m],
               handler'[m].id = i, Current(m)', wire'[m][j].kind = "output"
        PROVE  sessions'[i].out < wire'[m][j].n
    <3>1. handler[m].id = i /\ Current(m) /\ sessions[i].strays = 0
      BY <1>24, <2>1
    <3>2. CASE m # n
      BY <1>24, <2>1, <3>1, <3>2 DEF IInv, Newer
    <3>3. CASE m = n /\ frame.kind = "output"
      <4>1. Rising(wire[n])
        BY DEF IInv, Ordered
      <4>2. \A k \in DOMAIN rest : rest[k].kind = "output" => frame.n < rest[k].n
        BY <1>2, <1>3, <3>3, <4>1, RisingTail DEF frame, rest
      <4> QED BY <1>2, <1>7, <1>9, <1>10, <2>1, <3>1, <3>3, <4>2
    <3>4. CASE m = n /\ frame.kind # "output"
      <4>1. j + 1 \in DOMAIN wire[n] /\ wire'[m][j] = wire[n][j + 1]
        BY <1>6, <1>7, <2>1, <3>4
      <4>2. sessions[id].out < wire[n][j + 1].n
        BY <1>2, <2>1, <3>1, <3>4, <4>1 DEF IInv, Newer
      <4> QED BY <1>2, <1>9, <1>10, <3>1, <3>4, <4>1, <4>2
    <3> QED BY <3>2, <3>3, <3>4
  <2>2. ASSUME NEW i \in Ids, sessions'[i].strays = 0 PROVE sessions'[i].inOrder
    <3>1. sessions[i].strays = 0 /\ sessions[i].inOrder
      BY <1>12, <2>2 DEF IInv, Newer
    <3>2. CASE i = id /\ frame.kind = "output"
      <4>1. sessions[id].out < frame.n
        BY <1>2, <1>6, <1>12, <2>2, <3>1, <3>2 DEF IInv, Newer
      <4> QED BY <1>9, <1>10, <1>12, <3>1, <3>2, <4>1
    <3>3. CASE ~(i = id /\ frame.kind = "output")
      BY <1>9, <1>10, <3>1, <3>3
    <3> QED BY <3>2, <3>3
  <2> QED BY <2>1, <2>2 DEF Newer
<1>26. Retold'
  <2> SUFFICES ASSUME NEW i \in Ids, sessions'[i].strays = 0, client.conn \in ConnIds,
                      Holds(i)'
               PROVE
      /\ client.phase \in {"connect", "title", "cwd", "pump", "finished"} =>
           Settles(wire'[client.conn], "resize", sessions'[i].shown.size, client.size)
      /\ ~renewed /\ client.phase \in {"cwd", "pump", "finished"} =>
           Settles(wire'[client.conn], "title", sessions'[i].shown.title, client.title)
      /\ ~renewed /\ client.phase \in {"pump", "finished"} =>
           Settles(wire'[client.conn], "cwd", sessions'[i].shown.cwd, client.cwd)
    BY <1>1 DEF Retold
  <2>1. handler'[client.conn].id = i /\ Current(client.conn)'
    BY <1>1 DEF Holds
  <2>2. /\ handler[client.conn].id = i /\ Current(client.conn) /\ sessions[i].strays = 0
        /\ client.conn # n =>
             /\ sessions'[i] = sessions[i] /\ wire'[client.conn] = wire[client.conn]
             /\ handler'[client.conn] = handler[client.conn]
        /\ client.conn = n => i = id
    BY <1>1, <1>24, <2>1
  <2>3. Holds(i)
    <3>1. CASE client.conn = n
      BY <1>1, <2>2, <3>1 DEF Holds
    <3>2. CASE client.conn # n
      <4>1. handler'[client.conn].phase \in {"ack", "pump", "apply"}
        BY <1>1 DEF Holds
      <4> QED BY <2>2, <3>2, <4>1 DEF Holds
    <3> QED BY <3>1, <3>2
  <2>4. /\ client.phase \in {"connect", "title", "cwd", "pump", "finished"} =>
             Settles(wire[client.conn], "resize", sessions[i].shown.size, client.size)
        /\ ~renewed /\ client.phase \in {"cwd", "pump", "finished"} =>
             Settles(wire[client.conn], "title", sessions[i].shown.title, client.title)
        /\ ~renewed /\ client.phase \in {"pump", "finished"} =>
             Settles(wire[client.conn], "cwd", sessions[i].shown.cwd, client.cwd)
    BY <2>2, <2>3 DEF IInv, Retold
  <2>5. CASE client.conn # n
    BY <2>2, <2>4, <2>5
  <2>6. CASE client.conn = n
    <3>1. ASSUME NEW kind, NEW old, NEW new, Settles(wire[n], kind, old, new)
          PROVE  Settles(rest, kind, IF Says(frame, kind) THEN Value(frame, kind) ELSE old,
                         new)
      BY <1>2, <1>3, <3>1, SettlesTail DEF frame, rest
    <3>2. i = id /\ wire'[client.conn] = rest /\ sessions'[i] = s
      BY <1>7, <1>10, <2>2, <2>6
    <3>3. ASSUME client.phase \in {"connect", "title", "cwd", "pump", "finished"}
          PROVE  Settles(rest, "resize", s.shown.size, client.size)
      BY <1>9, <2>4, <2>6, <3>1, <3>2, <3>3
    <3>4. ASSUME ~renewed, client.phase \in {"cwd", "pump", "finished"}
          PROVE  Settles(rest, "title", s.shown.title, client.title)
      BY <1>9, <2>4, <2>6, <3>1, <3>2, <3>4
    <3>5. ASSUME ~renewed, client.phase \in {"pump", "finished"}
          PROVE  Settles(rest, "cwd", s.shown.cwd, client.cwd)
      BY <1>9, <2>4, <2>6, <3>1, <3>2, <3>5
    <3> QED BY <3>2, <3>3, <3>4, <3>5
  <2> QED BY <2>5, <2>6
<1>27. EndedKnowsAll'
  <2> SUFFICES ASSUME NEW i \in Ids, sessions'[i].status = "ended"
               PROVE  /\ client.phase = "finished"
                      /\ sessions'[i].strays = 0 =>
                           /\ sessions'[i].shown.size = host.size
                           /\ ~renewed => /\ sessions'[i].shown.title = host.title
                                          /\ sessions'[i].shown.cwd = client.cwd
                           /\ \A m \in ConnIds : handler'[m].id = i /\ Current(m)' =>
                                handler'[m].phase \notin {"resize", "apply"} /\ wire'[m] = <<>>
    BY <1>1 DEF EndedKnowsAll
  <2>1. CASE sessions[i].status = "ended"
    <3>1. client.phase = "finished"
      BY <2>1 DEF IInv, EndedKnowsAll
    <3>2. ASSUME sessions'[i].strays = 0
          PROVE  /\ i # id /\ sessions'[i] = sessions[i]
                 /\ \A m \in ConnIds : handler'[m].id = i /\ Current(m)' =>
                      handler'[m].phase \notin {"resize", "apply"} /\ wire'[m] = <<>>
      <4>1. i # id
        BY <1>1, <1>2, <1>12, <2>1, <3>2 DEF IInv, EndedKnowsAll
      <4>2. ASSUME NEW m \in ConnIds, handler'[m].id = i, Current(m)'
            PROVE  handler'[m].phase \notin {"resize", "apply"} /\ wire'[m] = <<>>
        <5>1. /\ handler[m].id = i /\ Current(m) /\ sessions[i].strays = 0
              /\ wire'[m] = wire[m] /\ handler'[m] = handler[m]
          BY <1>24, <3>2, <4>1, <4>2
        <5> QED BY <2>1, <5>1 DEF IInv, EndedKnowsAll
      <4> QED BY <1>10, <4>1, <4>2
    <3>3. sessions[i].strays = 0 =>
                           /\ sessions[i].shown.size = host.size
                           /\ ~renewed => /\ sessions[i].shown.title = host.title
                                          /\ sessions[i].shown.cwd = client.cwd
      BY <2>1 DEF IInv, EndedKnowsAll
    <3> QED BY <1>12, <3>1, <3>2, <3>3
  <2>2. CASE sessions[i].status # "ended"
    <3>1. i = id /\ frame.kind = "exit" /\ sessions'[i] = s
      BY <1>9, <1>10, <2>2
    <3>2. Len(wire[n]) = 1 /\ n = client.conn /\ client.phase = "finished"
      BY <1>6, <3>1 DEF IInv, Exits
    <3>3. events = <<>> /\ client.phase # "refused"
      BY <3>2 DEF IInv, Exits
    <3>4. client.size = host.size /\ client.title = host.title
      BY <3>3, SettlesNone DEF IInv, Heard
    <3>5. rest = <<>>
      BY <1>6, <3>2, Emptied
    <3>6. /\ ~Says(frame, "resize") /\ ~Says(frame, "title") /\ ~Says(frame, "cwd")
      BY <3>1 DEF Says
    <3>7. ASSUME NEW kind \in {"resize", "title", "cwd"}, NEW old, NEW new,
                 Settles(wire[n], kind, old, new)
          PROVE  old = new
      <4>1. \A j \in DOMAIN wire[n] : ~Says(wire[n][j], kind)
        <5>1. Len(wire[n]) = 1 /\ DOMAIN wire[n] = 1..Len(wire[n])
          BY <1>3, <3>2, Emptied
        <5>2. \A j \in 1..1 : j = 1
          OBVIOUS
        <5>3. \A j \in DOMAIN wire[n] : j = 1
          BY <5>1, <5>2, Zenon
        <5> QED BY <1>6, <3>6, <5>3
      <4> QED BY <3>7, <4>1 DEF Settles
    <3>8. ASSUME sessions'[i].strays = 0
          PROVE  /\ sessions[id].shown.size = client.size
                 /\ ~renewed => /\ sessions[id].shown.title = client.title
                                /\ sessions[id].shown.cwd = client.cwd
      <4>1. Holds(id) /\ sessions[id].strays = 0
        BY <1>1, <1>2, <1>12, <3>1, <3>2, <3>8 DEF Holds
      <4>2. /\ Settles(wire[n], "resize", sessions[id].shown.size, client.size)
            /\ ~renewed => Settles(wire[n], "title", sessions[id].shown.title, client.title)
            /\ ~renewed => Settles(wire[n], "cwd", sessions[id].shown.cwd, client.cwd)
        BY <3>2, <4>1 DEF IInv, Retold
      <4> QED BY <3>7, <4>2
    <3>9. ASSUME sessions'[i].strays = 0, NEW m \in ConnIds, handler'[m].id = i, Current(m)'
          PROVE  handler'[m].phase \notin {"resize", "apply"} /\ wire'[m] = <<>>
      <4>1. m = n
        BY <1>24, <3>1, <3>9
      <4> QED BY <1>4, <1>5, <1>7, <3>5, <4>1
    <3> QED BY <1>9, <3>1, <3>2, <3>4, <3>6, <3>8, <3>9
  <2> QED BY <2>1, <2>2
<1> QED BY <1>13, <1>14, <1>15, <1>16, <1>19, <1>20, <1>21, <1>22, <1>25, <1>26, <1>27
        DEF IInv

-----------------------------------------------------------------------------
(* The theorems. *)

LEMMA StepKeeps == IInv /\ [Next]_vars => IInv'
<1> SUFFICES ASSUME IInv, [Next]_vars PROVE IInv'
  OBVIOUS
<1>1. CASE Terminal
  BY <1>1, OutputKeeps, MetadataKeeps, WinchKeeps, ExitKeeps DEF Terminal
<1>2. CASE Client
  BY <1>2, DialKeeps, DialFailsKeeps, RefusedKeeps, DrainKeeps, ConnectedKeeps,
     RepeatTitleKeeps, RepeatCwdKeeps, PumpOutputKeeps, PumpResizeKeeps,
     PumpMetadataKeeps, PumpExitKeeps, DisconnectKeeps DEF Client
<1>3. CASE Relay
  BY <1>3, ResumeKeeps, CreateKeeps, ResumeResizesKeeps, AckKeeps, TakeKeeps,
     ApplyKeeps, HandlerEndsKeeps, RestartKeeps DEF Relay
<1>4. CASE UNCHANGED vars
  <2>1. UNCHANGED <<host, events, client, hello, wire, handler, sessions, restarts, renewed>>
    BY <1>4 DEF vars
  <2>2. TypeOK' /\ Dialled' /\ Epochs'
    BY <2>1 DEF IInv, TypeOK, Dialled, Stands, Epochs, Unused
  <2>3. StraysAreSpent' /\ Newer'
    BY <2>1, RelayUntouched
  <2>4. Ordered' /\ Exits' /\ Unconnected' /\ Heard'
    BY <2>1 DEF IInv, Ordered, Exits, Unconnected, Heard
  <2>5. Retold' /\ EndedKnowsAll'
    BY <2>1 DEF IInv, Retold, Holds, Current, EndedKnowsAll
  <2> QED BY <2>2, <2>3, <2>4, <2>5 DEF IInv
<1> QED BY <1>1, <1>2, <1>3, <1>4 DEF Next

\* The invariant holds in every reachable state, for any number of connections,
\* sessions, restarts and events.
THEOREM Invariance == Spec => []IInv
<1>1. Init => IInv
  BY InitHolds
<1>2. IInv /\ [Next]_vars => IInv'
  BY StepKeeps
<1> QED BY <1>1, <1>2, PTL DEF Spec

\* The terminal, the client and the relay keep to their types.
THEOREM TypeCorrect == Spec => []TypeOK
<1>1. IInv => TypeOK
  BY DEF IInv
<1> QED BY <1>1, Invariance, PTL

\* A connection that was replaced has at most one effect left on its session.
THEOREM AtMostOneStray == Spec => []OneStrayEach
<1>1. IInv => OneStrayEach
  <2> SUFFICES ASSUME IInv, NEW id \in Ids PROVE sessions[id].strays <= sessions[id].epoch
    BY DEF OneStrayEach
  <2>1. sessions[id].epoch \in Nat /\ sessions[id].strays \in Nat
    BY Types DEF IInv, Sessions
  <2>2. sessions[id].strays <= Cardinality(Spent(id))
    BY DEF IInv, StraysAreSpent
  <2>3. Spent(id) \subseteq 0..(sessions[id].epoch - 1)
    BY DEF Spent
  <2>4. Cardinality(Spent(id)) \in Nat /\ Cardinality(Spent(id)) <= sessions[id].epoch
    BY <2>1, <2>3, Counted
  <2> QED BY <2>1, <2>2, <2>4
<1> QED BY <1>1, Invariance, PTL

\* Output reaches a session in the order the terminal wrote it and not twice,
\* unless an effect strayed.
THEOREM OrderKept == Spec => []OutputInOrder
<1>1. IInv => OutputInOrder
  BY DEF IInv, Newer, OutputInOrder
<1> QED BY <1>1, Invariance, PTL

\* What is told over the connection that holds a session.
LEMMA ToldIs ==
  ASSUME IInv, NEW id \in Ids, Told(id), sessions[id].strays = 0
  PROVE  /\ sessions[id].shown.size = host.size
         /\ ~renewed => /\ sessions[id].shown.title = host.title
                        /\ sessions[id].shown.cwd = client.cwd
<1>1. CASE sessions[id].status = "ended"
  BY <1>1 DEF IInv, EndedKnowsAll
<1>2. CASE /\ client.phase = "pump" /\ client.id = id /\ events = <<>>
           /\ handler[client.conn].phase = "pump" /\ wire[client.conn] = <<>>
           /\ Current(client.conn)
  <2>1. client.conn \in ConnIds /\ handler[client.conn].id = id
    BY <1>2 DEF IInv, Dialled
  <2>2. Holds(id)
    BY <1>2, <2>1 DEF Holds
  <2>3. /\ Settles(<<>>, "resize", client.size, host.size)
        /\ Settles(<<>>, "title", client.title, host.title)
    BY <1>2 DEF IInv, Heard
  <2>4. /\ Settles(<<>>, "resize", sessions[id].shown.size, client.size)
        /\ ~renewed => Settles(<<>>, "title", sessions[id].shown.title, client.title)
        /\ ~renewed => Settles(<<>>, "cwd", sessions[id].shown.cwd, client.cwd)
    BY <1>2, <2>1, <2>2 DEF IInv, Retold
  <2> QED BY <2>3, <2>4, SettlesNone
<1> QED BY <1>1, <1>2 DEF Told

\* Once all has been told the relay shows the terminal's last size.
THEOREM SizeTold == Spec => []SizeFollows
<1>1. IInv => SizeFollows
  BY ToldIs DEF SizeFollows
<1> QED BY <1>1, Invariance, PTL

\* It shows the last title, and the last directory the client recorded, unless
\* the session replaces a lost one.
THEOREM TitleTold == Spec => []TitleFollows
<1>1. IInv => TitleFollows
  BY ToldIs DEF TitleFollows
<1> QED BY <1>1, Invariance, PTL

=============================================================================
