---------------------------- MODULE InputProofs ----------------------------
(***************************************************************************)
(* What InputPath promises, for any number of sockets, connections,        *)
(* keystrokes and repetitions.                                             *)
(*                                                                         *)
(* That nothing runs twice needs nothing of the page, the relay or the     *)
(* network, which may bring the host what they will: on one connection the *)
(* receiver keeps the newest number of each writer, on the next one the    *)
(* epoch is another.  That a page never locks itself needs the relay: what *)
(* it keeps and what is under way to it continue what it has sent.  That   *)
(* what runs is a beginning of what was sealed needs both, and that a      *)
(* connection which was replaced never comes back.  From all of this, and  *)
(* from the page sealing in the order typed, follows that the path         *)
(* implements InputContract.                                               *)
(***************************************************************************)
EXTENDS InputPath, SequenceTheorems, TLAPS

-----------------------------------------------------------------------------
(* The host alone. *)

\* What the steps below need of the types of host and ran.
Shape ==
  /\ host \in [phase : {"down", "dialing", "up"}, conn : Nat, sequence : Nat,
               receiver : {host.receiver}]
  /\ host.receiver \in [epoch : Nat, writers : {host.receiver.writers}]
  /\ host.receiver.writers \in [DOMAIN host.receiver.writers -> Nat]
  /\ ran \in Seq({ran[i] : i \in DOMAIN ran})
  /\ \A i \in DOMAIN ran :
       ran[i].conn \in Nat /\ ran[i].frame.header.sequence \in Nat

\* A frame was taken by the connection it was sealed for, and by none to come.
Epochs ==
  /\ \A i \in DOMAIN ran :
       /\ ran[i].frame.body.plain.epoch = ran[i].conn
       /\ ran[i].conn <= host.conn
       /\ host.phase = "dialing" => ran[i].conn < host.conn
  /\ host.phase = "up" => host.receiver.epoch = host.conn

\* The receiver knows the newest number of each writer it has taken from.
Newest ==
  host.phase = "up" =>
    \A i \in DOMAIN ran :
      ran[i].conn = host.conn =>
        /\ ran[i].frame.header.writer \in DOMAIN host.receiver.writers
        /\ ran[i].frame.header.sequence
             <= host.receiver.writers[ran[i].frame.header.writer]

IInv == Shape /\ Epochs /\ Newest /\ RunsOnce

-----------------------------------------------------------------------------
\* Nothing has been taken.
LEMMA InitHolds == Init => IInv
<1> SUFFICES ASSUME Init PROVE IInv
  OBVIOUS
<1>1. ran = <<>> /\ DOMAIN ran = {}
  BY DEF Init
<1>2. /\ host.phase = "dialing" /\ host.conn = 1 /\ host.sequence = 0
      /\ host.receiver = [epoch |-> 1, writers |-> [w \in {} |-> 0]]
  BY DEF Init, NewReceiver
<1>3. Shape
  <2>1. host \in [phase : {"down", "dialing", "up"}, conn : Nat, sequence : Nat,
                  receiver : {host.receiver}]
    BY DEF Init
  <2>2. host.receiver.writers \in [DOMAIN host.receiver.writers -> Nat]
    BY <1>2
  <2>3. host.receiver \in [epoch : Nat, writers : {host.receiver.writers}]
    BY <1>2
  <2> QED BY <1>1, <2>1, <2>2, <2>3 DEF Shape
<1> QED BY <1>1, <1>2, <1>3 DEF IInv, Epochs, Newest, RunsOnce

\* Most steps are not the host's.
LEMMA OthersKeep ==
  ASSUME IInv, UNCHANGED <<host, ran>>
  PROVE  IInv'
BY DEF IInv, Shape, Epochs, Newest, RunsOnce

\* The host's steps that take nothing: Emit keeps the connection and what was taken.
LEMMA DialKeeps == IInv /\ Dial => IInv'
<1> SUFFICES ASSUME IInv, Dial PROVE IInv'
  OBVIOUS
<1> USE DEF IInv
<1>1. ran' = ran
  BY DEF Dial
<1>2. /\ host'.phase = "dialing" /\ host'.conn = host.conn + 1
      /\ host'.receiver = host.receiver
  BY DEF Dial, Shape
<1>3. host' \in [phase : {"down", "dialing", "up"}, conn : Nat, sequence : Nat,
                 receiver : {host'.receiver}]
  <2>1. host.conn + 1 \in Nat
    BY DEF Shape
  <2> QED BY <1>2, <2>1 DEF Dial, Shape
<1>4. Shape'
  BY <1>1, <1>2, <1>3 DEF Shape
<1>5. Epochs' /\ Newest' /\ RunsOnce'
  BY <1>1, <1>2 DEF Shape, Epochs, Newest, RunsOnce
<1> QED BY <1>4, <1>5

\* The connection goes, what was taken stays.
LEMMA DisconnectKeeps == IInv /\ Disconnect => IInv'
<1> SUFFICES ASSUME IInv, Disconnect PROVE IInv'
  OBVIOUS
<1> USE DEF IInv
<1>1. ran' = ran
  BY DEF Disconnect
<1>2. /\ host'.phase = "down" /\ host'.conn = host.conn
      /\ host'.receiver = host.receiver
  BY DEF Disconnect, Shape
<1>3. host' \in [phase : {"down", "dialing", "up"}, conn : Nat, sequence : Nat,
                 receiver : {host'.receiver}]
  BY <1>2 DEF Disconnect, Shape
<1>4. Shape'
  BY <1>1, <1>2, <1>3 DEF Shape
<1>5. Epochs' /\ Newest' /\ RunsOnce'
  BY <1>1, <1>2 DEF Shape, Epochs, Newest, RunsOnce
<1> QED BY <1>4, <1>5

\* A frame that is sent leaves the receiver alone.
LEMMA PumpKeeps == IInv /\ Pump => IInv'
<1> SUFFICES ASSUME IInv, Pump PROVE IInv'
  OBVIOUS
<1> USE DEF IInv
<1>1. ran' = ran /\ host.phase = "up"
  BY DEF Pump, Emit
<1>2. host' = [host EXCEPT !.phase = "up", !.sequence = @ + 1,
                           !.receiver = host.receiver]
  BY DEF Pump, Emit
<1>3. /\ host'.phase = "up" /\ host'.conn = host.conn
      /\ host'.receiver = host.receiver
  BY <1>2 DEF Shape
<1>4. host' \in [phase : {"down", "dialing", "up"}, conn : Nat, sequence : Nat,
                 receiver : {host'.receiver}]
  <2>1. host.sequence + 1 \in Nat
    BY DEF Shape
  <2> QED BY <1>2, <1>3, <2>1 DEF Shape
<1>5. Shape'
  BY <1>1, <1>3, <1>4 DEF Shape
<1>6. Epochs' /\ Newest' /\ RunsOnce'
  BY <1>1, <1>3 DEF Shape, Epochs, Newest, RunsOnce
<1> QED BY <1>5, <1>6

\* A new receiver has no writers yet, and nothing was taken on this connection.
LEMMA ConnectedKeeps == IInv /\ Connected => IInv'
<1> SUFFICES ASSUME IInv, Connected PROVE IInv'
  OBVIOUS
<1> USE DEF IInv
<1> DEFINE fresh == NewReceiver(host.conn)
<1>1. ran' = ran /\ host.phase = "dialing"
  BY DEF Connected, Emit
<1>2. host' = [host EXCEPT !.phase = "up", !.sequence = @ + 1, !.receiver = fresh]
  BY DEF Connected, Emit
<1>3. host'.phase = "up" /\ host'.conn = host.conn /\ host'.receiver = fresh
  BY <1>2 DEF Shape
<1>4. fresh = [epoch |-> host.conn, writers |-> [w \in {} |-> 0]]
  BY DEF NewReceiver
<1>5. Shape'
  <2>1. host' \in [phase : {"down", "dialing", "up"}, conn : Nat, sequence : Nat,
                   receiver : {host'.receiver}]
    <3>1. host.sequence + 1 \in Nat
      BY DEF Shape
    <3> HIDE DEF fresh
    <3> QED BY <1>2, <1>3, <3>1 DEF Shape
  <2>2. fresh \in [epoch : Nat, writers : {fresh.writers}]
    BY <1>4 DEF Shape
  <2>3. fresh.writers \in [DOMAIN fresh.writers -> Nat]
    BY <1>4
  <2> HIDE DEF fresh
  <2> QED BY <1>1, <1>3, <2>1, <2>2, <2>3 DEF Shape
<1>6. Epochs'
  BY <1>1, <1>3, <1>4 DEF Shape, Epochs
<1>7. Newest'
  BY <1>1, <1>3 DEF Shape, Epochs, Newest
<1>8. RunsOnce'
  BY <1>1 DEF RunsOnce
<1> QED BY <1>5, <1>6, <1>7, <1>8

\* What the receiver takes is of this connection's epoch and newer than all it took on
\* this connection from the same writer.
LEMMA ReceiveKeeps == IInv /\ Receive => IInv'
<1> SUFFICES ASSUME IInv, Receive PROVE IInv'
  OBVIOUS
<1> USE DEF IInv
<1> DEFINE frame == Head(channel).frame
           header == frame.header
           writers == host.receiver.writers
           taken == [frame |-> frame, conn |-> host.conn]
<1>1. CASE ~Receives(host.receiver, Master, SessionId, frame)
  BY <1>1, OthersKeep DEF Receive
<1>2. CASE Receives(host.receiver, Master, SessionId, frame)
  <2>1. host.phase = "up" /\ ran' = Append(ran, taken)
    BY <1>2 DEF Receive
  <2>2. host' = [host EXCEPT !.receiver = Received(@, frame)]
    BY <1>2 DEF Receive
  <2>3. /\ header.sequence \in Nat
        /\ frame.body.plain.epoch = host.receiver.epoch
        /\ header.writer \in DOMAIN writers
             => header.sequence > writers[header.writer]
    BY <1>2 DEF Receives, OpensInput, Parses, Expects, Fresh
  <2>4. /\ host.conn \in Nat /\ host.receiver.epoch = host.conn
        /\ writers \in [DOMAIN writers -> Nat]
    BY <2>1 DEF Shape, Epochs
  <2> HIDE DEF frame, header, writers
  <2> DEFINE next == [w \in DOMAIN writers \cup {header.writer} |->
                        IF w = header.writer THEN header.sequence ELSE writers[w]]
  <2>5. /\ host'.phase = "up" /\ host'.conn = host.conn
        /\ host'.receiver.epoch = host.receiver.epoch
        /\ host'.receiver.writers = next
        /\ host'.receiver \in [epoch : Nat, writers : {next}]
        /\ host' \in [phase : {"down", "dialing", "up"}, conn : Nat,
                      sequence : Nat, receiver : {host'.receiver}]
    <3>1. Received(host.receiver, frame) = [host.receiver EXCEPT !.writers = next]
      BY DEF Received, header, writers
    <3>2. host.receiver \in [epoch : Nat, writers : {writers}]
      BY DEF Shape, writers
    <3>3. /\ [host.receiver EXCEPT !.writers = next].epoch = host.receiver.epoch
          /\ [host.receiver EXCEPT !.writers = next].writers = next
          /\ [host.receiver EXCEPT !.writers = next]
               \in [epoch : Nat, writers : {next}]
      <4> HIDE DEF next
      <4> QED BY <3>2
    <3>4. host' = [host EXCEPT !.receiver = [host.receiver EXCEPT !.writers = next]]
      BY <2>2, <3>1
    <3> HIDE DEF next
    <3> QED BY <2>1, <3>3, <3>4 DEF Shape
  <2>6. next \in [DOMAIN next -> Nat]
    BY <2>3, <2>4
  <2>7. /\ ran \in Seq({ran[i] : i \in DOMAIN ran})
        /\ \A i \in DOMAIN ran :
             ran[i].conn \in Nat /\ ran[i].frame.header.sequence \in Nat
    BY DEF Shape
  <2>8. /\ DOMAIN ran' = 1..Len(ran) + 1 /\ DOMAIN ran = 1..Len(ran)
        /\ Len(ran) \in Nat
        /\ \A i \in DOMAIN ran : ran'[i] = ran[i]
        /\ ran'[Len(ran) + 1] = taken
        /\ ran' \in Seq({ran'[i] : i \in DOMAIN ran'})
    <3> DEFINE S == {ran[i] : i \in DOMAIN ran} \cup {taken}
    <3>1. ran \in Seq(S)
      BY <2>7
    <3>2. taken \in S
      OBVIOUS
    <3> HIDE DEF S, taken
    <3>3. /\ Append(ran, taken) \in Seq(S)
          /\ Len(Append(ran, taken)) = Len(ran) + 1
          /\ \A i \in 1..Len(ran) : Append(ran, taken)[i] = ran[i]
          /\ Append(ran, taken)[Len(ran) + 1] = taken
      BY <3>1, <3>2, AppendProperties
    <3>4. DOMAIN ran = 1..Len(ran) /\ Len(ran) \in Nat
      BY <3>1
    <3>5. DOMAIN ran' = 1..Len(ran')
      BY <2>1, <3>3
    <3>6. ran' \in Seq({ran'[i] : i \in DOMAIN ran'})
      BY <2>1, <3>3
    <3> QED BY <2>1, <3>3, <3>4, <3>5, <3>6
  <2>9. taken.frame = frame /\ taken.conn = host.conn
    OBVIOUS
  <2>10. taken.frame.header = header
    BY <2>9 DEF header
  <2> HIDE DEF taken
  <2>11. Shape'
    <3> HIDE DEF next
    <3>1. \A i \in DOMAIN ran' :
            ran'[i].conn \in Nat /\ ran'[i].frame.header.sequence \in Nat
      <4> SUFFICES ASSUME NEW i \in DOMAIN ran'
                   PROVE  /\ ran'[i].conn \in Nat
                          /\ ran'[i].frame.header.sequence \in Nat
        OBVIOUS
      <4>1. CASE i = Len(ran) + 1
        BY <4>1, <2>3, <2>4, <2>8, <2>9, <2>10
      <4>2. CASE i \in DOMAIN ran
        BY <4>2, <2>7, <2>8
      <4> QED BY <2>8, <4>1, <4>2
    <3> QED BY <2>5, <2>6, <2>8, <3>1 DEF Shape
  <2>12. Epochs'
    BY SMTT(30), <2>1, <2>3, <2>4, <2>5, <2>7, <2>8, <2>9 DEF Epochs
  <2>13. Newest'
    <3> SUFFICES ASSUME NEW i \in DOMAIN ran', ran'[i].conn = host.conn
                 PROVE  /\ ran'[i].frame.header.writer \in DOMAIN next
                        /\ ran'[i].frame.header.sequence
                             <= next[ran'[i].frame.header.writer]
      BY <2>5 DEF Newest
    <3>1. CASE i = Len(ran) + 1
      BY <3>1, <2>3, <2>8, <2>10
    <3>2. CASE i \in DOMAIN ran
      <4>1. /\ ran[i].frame.header.writer \in DOMAIN writers
            /\ ran[i].frame.header.sequence
                 <= writers[ran[i].frame.header.writer]
        BY <2>1, <2>8, <3>2 DEF Newest, writers
      <4>2. ran'[i] = ran[i] /\ ran[i].frame.header.sequence \in Nat
        BY <2>7, <2>8, <3>2
      <4>3. CASE ran[i].frame.header.writer = header.writer
        <5>1. header.sequence > writers[header.writer]
          BY <4>1, <4>3, <2>3 DEF header, writers
        <5>2. next[header.writer] = header.sequence
          OBVIOUS
        <5>3. writers[header.writer] \in Nat
          BY <4>1, <4>3, <2>4
        <5>4. ran[i].frame.header.sequence <= writers[header.writer]
          BY <4>1, <4>3
        <5> HIDE DEF next
        <5>5. ran[i].frame.header.sequence <= next[header.writer]
          BY <5>1, <5>2, <5>3, <5>4, <4>2, <2>3
        <5>6. header.writer \in DOMAIN next
          BY DEF next
        <5> QED BY <4>2, <4>3, <5>5, <5>6
      <4>4. CASE ran[i].frame.header.writer # header.writer
        BY <4>1, <4>2, <4>4
      <4> QED BY <4>3, <4>4
    <3> QED BY <2>8, <3>1, <3>2
  <2>14. RunsOnce'
    <3> SUFFICES ASSUME NEW i \in DOMAIN ran', NEW j \in DOMAIN ran', i < j
                 PROVE  /\ ran'[i].frame # ran'[j].frame
                        /\ (/\ ran'[i].conn = ran'[j].conn
                            /\ ran'[i].frame.header.writer
                                 = ran'[j].frame.header.writer)
                           => ran'[i].frame.header.sequence
                                < ran'[j].frame.header.sequence
      BY DEF RunsOnce
    <3>1. CASE j \in DOMAIN ran
      BY SMTT(30), <3>1, <2>8 DEF RunsOnce
    <3>2. CASE j = Len(ran) + 1
      <4>1. i \in DOMAIN ran /\ ran'[i] = ran[i] /\ ran'[j] = taken
        BY <3>2, <2>8
      <4>2. ran[i].frame.body.plain.epoch = ran[i].conn
        BY <4>1 DEF Epochs
      <4>3. ASSUME ran[i].conn = host.conn, ran[i].frame.header.writer = header.writer
            PROVE  ran[i].frame.header.sequence < header.sequence
        <5>1. /\ header.writer \in DOMAIN writers
              /\ ran[i].frame.header.sequence <= writers[header.writer]
          BY <4>1, <4>3, <2>1 DEF Newest, writers
        <5>2. header.sequence > writers[header.writer]
          BY <5>1, <2>3
        <5>3. writers[header.writer] \in Nat /\ ran[i].frame.header.sequence \in Nat
          BY <4>1, <5>1, <2>4, <2>7
        <5>4. header.sequence \in Nat
          BY <2>3
        <5> QED BY <5>1, <5>2, <5>3, <5>4
      <4>4. ASSUME ran[i].frame = frame PROVE FALSE
        <5>1. ran[i].conn = host.conn
          BY <4>2, <4>4, <2>3, <2>4
        <5>2. ran[i].frame.header = header
          BY <4>4 DEF header
        <5> QED BY <4>3, <5>1, <5>2, <2>3
      <4> QED BY <4>1, <4>3, <4>4, <2>9, <2>10
    <3> QED BY <2>8, <3>1, <3>2
  <2> QED BY <2>11, <2>12, <2>13, <2>14
<1> QED BY <1>1, <1>2

-----------------------------------------------------------------------------
\* Every step keeps the invariant.
LEMMA StepKeeps == IInv /\ [Next]_vars => IInv'
<1> SUFFICES ASSUME IInv, [Next]_vars PROVE IInv'
  OBVIOUS
<1> USE DEF pageVars, relayVars, hostVars, Unchanged
<1>1. CASE SocketCloses \/ Reconnect \/ Reload \/ Join
  BY <1>1, OthersKeep DEF SocketCloses, Reconnect, Reload, Join
<1>2. CASE Receiving
  BY SMTT(30), <1>2, OthersKeep DEF Receiving, ReceiveInit, Created, ReceiveStatus,
     ReceiveUnavailable, ReceiveFrame, Decrypted
<1>3. CASE Type \/ Sending
  BY <1>3, OthersKeep DEF Type, Sending, InputBegins, InputEnds
<1>4. CASE \E n \in ConnIds : Resume(n) \/ Feed(n) \/ HandlerEnds(n)
  BY <1>4, OthersKeep DEF Resume, Feed, HandlerEnds
<1>5. CASE \E s \in Sockets : SendInput(s) \/ LoseOutbox(s)
  BY <1>5, OthersKeep DEF SendInput, LoseOutbox
<1>6. CASE Repeat
  BY <1>6, OthersKeep DEF Repeat
<1>7. CASE Dial \/ Connected \/ Pump \/ Disconnect \/ Receive
  BY <1>7, DialKeeps, ConnectedKeeps, PumpKeeps, DisconnectKeeps, ReceiveKeeps
<1>8. CASE UNCHANGED vars
  BY <1>8, OthersKeep DEF vars
<1> QED BY <1>1, <1>2, <1>3, <1>4, <1>5, <1>6, <1>7, <1>8 DEF Next

\* No input frame is ever run twice, and on each connection the numbers of each writer
\* rise: InputReceiver::receive, for any number of sockets and connections.
THEOREM NoInputRunsTwice == Spec => []RunsOnce
<1>1. IInv => RunsOnce
  BY DEF IInv
<1> QED BY InitHolds, StepKeeps, <1>1, PTL DEF Spec

-----------------------------------------------------------------------------
(* What frames, messages and ciphers are. *)

Number(f) == f.header.sequence
Epoch(f) == f.body.plain.epoch
IsSnapshot(f) == f.header.kind = SNAPSHOT

Plains == {[t |-> "output"]} \cup [t : {"snapshot"}, epoch : ConnIds]

HostFrames == {OutputFrame(Master, SessionId, HostWriter, q, plain) :
                 q \in Nat, plain \in Plains}

KeyFrame(s, q, n, k) ==
  Seal(Derive(Master, SessionId, Writer(s), TRUE), SessionId,
       Header(INPUT, Writer(s), q), [t |-> "input", epoch |-> n, key |-> k])

KeyFrames == {KeyFrame(s, q, n, k) : s \in Sockets, q \in Nat, n \in ConnIds, k \in Nat}

Inits == [t : {"init"}, live : BOOLEAN]

Messages == Inits \cup [t : {"status"}, live : BOOLEAN] \cup [t : {"unavailable"}]
              \cup [t : {"frame"}, frame : HostFrames]

Ciphers == [master : {Master}, session : {SessionId},
            writer : {Writer(s) : s \in Sockets}, sent : 0..SeqLimit,
            outputWriter : {NoWriter, HostWriter}, last : Nat \cup {None},
            epoch : ConnIds \cup {None}]

Errors == {"none", "protocol", "epoch", "counter", "size"}

Pages == [socket : Sockets, link : {"connecting", "open", "closed"},
          initialized : Sockets \cup {0}, allow : BOOLEAN, authenticated : BOOLEAN,
          live : BOOLEAN, failed : BOOLEAN, error : Errors]

Creating == [step : {"create"}, socket : Sockets, message : Inits]
Opening == [step : {"open"}, socket : Sockets, frame : HostFrames]

Jobs == {[socket |-> s, writer |-> Writer(s), key |-> k] : s \in Sockets, k \in Nat}

Relays == [holder : ConnIds, live : BOOLEAN, input : ConnIds \cup {0},
           ready : BOOLEAN, history : Seq(HostFrames)]

-----------------------------------------------------------------------------
(* The invariant of the page and the output it gets. *)

\* The page.
PageTypes ==
  /\ page \in Pages
  /\ cipher \in Ciphers \cup {NoCipher}
  /\ receiving \in {Idle} \cup Creating \cup Opening
  /\ inbox \in Seq(Messages)
  /\ inputs \in Seq(Jobs)
  /\ typed \in Nat

\* The output's way to it.
RelayTypes ==
  /\ relay \in Relays
  /\ handler \in [ConnIds -> {"none", "pumping", "gone"}]
  /\ wire \in [ConnIds -> Seq(HostFrames)]
  /\ host.conn \in ConnIds

Inited == page.initialized = page.socket

\* The receive that awaits is for the socket the page has.
Mine == receiving.step # "none" /\ receiving.socket = page.socket

Pending == receiving.step = "create" /\ Mine

\* A cipher is made once for each socket, and before anything is done with it.
Script ==
  /\ page.initialized <= page.socket
  /\ page.link = "connecting" => inbox = <<>> /\ ~Inited /\ ~Mine
  /\ receiving.step # "none" => receiving.socket <= page.socket
  /\ receiving.step = "create" => ~Inited
  /\ receiving.step = "open" => cipher # NoCipher /\ (Mine => Inited)
  /\ Inited => cipher # NoCipher /\ cipher.writer = Writer(page.socket)
  /\ Inited /\ (page.allow \/ page.authenticated) => cipher.epoch # None
  /\ \A i \in DOMAIN inputs :
       /\ inputs[i].socket <= page.socket
       /\ inputs[i].socket = page.socket => Inited

\* A page is locked by what it was to send only.
Locked ==
  page.failed => /\ cipher # NoCipher /\ receiving.step # "create"
                 /\ \/ page.error = "size"
                    \/ page.error = "counter" /\ cipher.sent = SeqLimit

\* A socket brings one init frame, and that first.
Greeted ==
  /\ \A i \in DOMAIN inbox : inbox[i].t = "init" => i = 1 /\ ~Inited /\ ~Pending
  /\ ~Inited /\ ~Pending /\ page.link = "open" => inbox # <<>>
  /\ ~Inited /\ ~Pending /\ inbox # <<>> => inbox[1].t = "init"

\* Who has not said hello has sent nothing; who has dialled later has not yet.
Links ==
  /\ \A n \in ConnIds : handler[n] = "none" => wire[n] = <<>>
  /\ \A n \in ConnIds : n > host.conn => handler[n] = "none"
  /\ handler[relay.holder] # "none"
  /\ host.phase = "up" => handler[host.conn] # "none"

Consecutive(seq) ==
  \A i \in 1..(Len(seq) - 1) :
    IsSnapshot(seq[i + 1]) \/ Number(seq[i + 1]) = Number(seq[i]) + 1

\* What the holder's connection brings continues what the relay keeps, and the host
\* will continue that.
Chain ==
  /\ relay.history # <<>> => IsSnapshot(relay.history[1])
  /\ Consecutive(relay.history) /\ Consecutive(wire[relay.holder])
  /\ wire[relay.holder] # <<>> =>
       \/ IsSnapshot(wire[relay.holder][1])
       \/ /\ relay.history # <<>>
          /\ Number(wire[relay.holder][1]) = Number(Last(relay.history)) + 1
  /\ host.phase = "up" /\ relay.holder = host.conn /\ handler[host.conn] = "pumping" =>
       IF wire[host.conn] # <<>>
       THEN Number(Last(wire[host.conn])) = host.sequence - 1
       ELSE /\ relay.history # <<>>
            /\ Number(Last(relay.history)) = host.sequence - 1

\* The page knows number q, or will when it has come to the i-th message.
Reaches(q, i) ==
  \/ Inited /\ cipher.last # None /\ q <= cipher.last
  \/ receiving.step = "open" /\ Mine /\ q <= Number(receiving.frame)
  \/ \E j \in 1..(i - 1) : inbox[j].t = "frame" /\ q <= Number(inbox[j].frame)

\* Every output on its way to the page continues what the page will know by then, and
\* so will what the relay is to send it.
InboxFlows ==
  \A i \in DOMAIN inbox : \A q \in Int :
    /\ inbox[i].t = "frame" /\ ~IsSnapshot(inbox[i].frame)
    /\ q = Number(inbox[i].frame) - 1
    => Reaches(q, i)

OpeningFlows ==
  receiving.step = "open" /\ Mine /\ ~IsSnapshot(receiving.frame) =>
    cipher.last # None /\ Number(receiving.frame) - 1 <= cipher.last

HistoryFlows ==
  page.link = "open" /\ relay.history # <<>> =>
    \A q \in Int, i \in Nat :
      q = Number(Last(relay.history)) /\ i = Len(inbox) + 1 => Reaches(q, i)

Flow == InboxFlows /\ OpeningFlows /\ HistoryFlows

PathInv ==
  /\ PageTypes /\ RelayTypes /\ Script /\ Locked /\ Greeted /\ Links /\ Chain /\ Flow

-----------------------------------------------------------------------------
(* What the operators of frames and sequences do. *)

\* Frames of the host.
LEMMA HostFrameIs ==
  ASSUME NEW f \in HostFrames
  PROVE  /\ Number(f) \in Nat /\ f.header.writer = HostWriter
         /\ f.header.kind \in {SNAPSHOT, OUTPUT}
         /\ IsSnapshot(f) => f.body.plain.t = "snapshot" /\ Epoch(f) \in ConnIds
         /\ ~IsSnapshot(f) => f.body.plain.t = "output"
         /\ f.body.key = Derive(Master, SessionId, HostWriter, FALSE)
         /\ f.body.nonce = Nonce(f.header)
         /\ f.body.aad = AdditionalData(SessionId, f.header)
<1>1. PICK q \in Nat, plain \in Plains :
        f = OutputFrame(Master, SessionId, HostWriter, q, plain)
  BY DEF HostFrames
<1> DEFINE kind == IF plain.t = "snapshot" THEN SNAPSHOT ELSE OUTPUT
           header == [kind |-> kind, writer |-> HostWriter, sequence |-> q]
<1>2. /\ f.header = header /\ f.body.plain = plain
      /\ f.body.key = Derive(Master, SessionId, HostWriter, FALSE)
      /\ f.body.nonce = Nonce(header)
      /\ f.body.aad = AdditionalData(SessionId, header)
  BY <1>1 DEF OutputFrame, Seal, Header
<1>3. header.kind = kind /\ header.writer = HostWriter /\ header.sequence = q
  OBVIOUS
<1>4. /\ kind \in {SNAPSHOT, OUTPUT}
      /\ kind = SNAPSHOT => plain.t = "snapshot" /\ plain.epoch \in ConnIds
      /\ kind # SNAPSHOT => plain.t = "output"
  BY DEF Plains, SNAPSHOT, OUTPUT
<1> HIDE DEF kind, header
<1> QED BY <1>2, <1>3, <1>4 DEF Number, Epoch, IsSnapshot

\* A frame that the host seals is one.
LEMMA HostSeals ==
  ASSUME NEW q \in Nat, NEW plain \in Plains
  PROVE  /\ OutputFrame(Master, SessionId, HostWriter, q, plain) \in HostFrames
         /\ Number(OutputFrame(Master, SessionId, HostWriter, q, plain)) = q
         /\ plain.t = "snapshot"
              => IsSnapshot(OutputFrame(Master, SessionId, HostWriter, q, plain))
<1> DEFINE f == OutputFrame(Master, SessionId, HostWriter, q, plain)
           kind == IF plain.t = "snapshot" THEN SNAPSHOT ELSE OUTPUT
<1>1. f \in HostFrames
  BY DEF HostFrames
<1>2. f.header = [kind |-> kind, writer |-> HostWriter, sequence |-> q]
  BY DEF OutputFrame, Seal, Header
<1>3. f.header.sequence = q /\ f.header.kind = kind
  BY <1>2
<1> HIDE DEF f
<1> QED BY <1>1, <1>3 DEF Number, IsSnapshot, f

\* A browser that has a cipher of the session opens them.
LEMMA HostFramesOpen ==
  ASSUME NEW f \in HostFrames, NEW c \in Ciphers
  PROVE  Admits(c, f) /\ Opens(c, f)
<1>1. /\ c.master = Master /\ c.session = SessionId
      /\ c.outputWriter \in {NoWriter, HostWriter}
  BY DEF Ciphers
<1> QED BY <1>1, HostFrameIs DEF Admits, Opens, OutputKey, Decrypts

\* What Append, Head and Tail make of a sequence.
LEMMA Appended ==
  ASSUME NEW S, NEW s \in Seq(S), NEW x \in S
  PROVE  /\ Append(s, x) \in Seq(S) /\ Append(s, x) # <<>>
         /\ Len(Append(s, x)) = Len(s) + 1 /\ Len(s) \in Nat
         /\ DOMAIN Append(s, x) = 1..(Len(s) + 1) /\ DOMAIN s = 1..Len(s)
         /\ \A i \in 1..Len(s) : Append(s, x)[i] = s[i]
         /\ Append(s, x)[Len(s) + 1] = x /\ Last(Append(s, x)) = x
<1>1. /\ Append(s, x) \in Seq(S) /\ Append(s, x) # <<>>
      /\ Len(Append(s, x)) = Len(s) + 1
      /\ \A i \in 1..Len(s) : Append(s, x)[i] = s[i]
      /\ Append(s, x)[Len(s) + 1] = x
  BY AppendProperties
<1>2. Len(s) \in Nat /\ DOMAIN s = 1..Len(s)
  BY LenProperties
<1>3. DOMAIN Append(s, x) = 1..Len(Append(s, x))
  BY <1>1, LenProperties
<1> QED BY <1>1, <1>2, <1>3 DEF Last

LEMMA Tailed ==
  ASSUME NEW S, NEW s \in Seq(S), s # <<>>
  PROVE  /\ Tail(s) \in Seq(S) /\ Len(Tail(s)) = Len(s) - 1
         /\ Len(s) \in Nat /\ Len(s) >= 1 /\ DOMAIN s = 1..Len(s)
         /\ Head(s) = s[1] /\ s[1] \in S
         /\ DOMAIN Tail(s) = 1..(Len(s) - 1)
         /\ \A i \in 1..(Len(s) - 1) : Tail(s)[i] = s[i + 1]
         /\ Tail(s) = <<>> <=> Len(s) = 1
         /\ Tail(s) # <<>> => Last(Tail(s)) = Last(s)
<1>1. /\ Tail(s) \in Seq(S) /\ Len(Tail(s)) = Len(s) - 1
      /\ \A i \in 1..Len(Tail(s)) : Tail(s)[i] = s[i + 1]
  BY HeadTailProperties
<1>2. Len(s) \in Nat /\ DOMAIN s = 1..Len(s) /\ Len(s) >= 1
  BY EmptySeq, LenProperties
<1>3. DOMAIN Tail(s) = 1..Len(Tail(s))
  BY <1>1, LenProperties
<1>4. Head(s) = s[1] /\ s[1] \in S
  BY <1>2, ElementOfSeq
<1>5. Tail(s) = <<>> <=> Len(s) = 1
  <2>1. Tail(s) = <<>> <=> Len(Tail(s)) = 0
    BY <1>1, EmptySeq
  <2> QED BY <1>1, <1>2, <2>1
<1>6. Tail(s) # <<>> => Last(Tail(s)) = Last(s)
  <2>1. Tail(s) # <<>> => Len(s) - 1 \in 1..(Len(s) - 1)
    BY <1>2, <1>5
  <2>2. Tail(s) # <<>> => Tail(s)[Len(s) - 1] = s[Len(s) - 1 + 1]
    BY <1>1, <2>1
  <2>3. Len(s) - 1 + 1 = Len(s)
    BY <1>2
  <2> QED BY <1>1, <2>2, <2>3 DEF Last
<1> QED BY <1>1, <1>2, <1>3, <1>4, <1>5, <1>6

\* What follows what was taken off a sequence.
LEMMA ConsecutiveTail ==
  ASSUME NEW s \in Seq(HostFrames), s # <<>>, Consecutive(s)
  PROVE  /\ Consecutive(Tail(s))
         /\ Tail(s) # <<>> =>
              IsSnapshot(Tail(s)[1]) \/ Number(Tail(s)[1]) = Number(Head(s)) + 1
<1>1. /\ Len(s) \in Nat /\ Len(Tail(s)) = Len(s) - 1 /\ Head(s) = s[1]
      /\ \A i \in 1..(Len(s) - 1) : Tail(s)[i] = s[i + 1]
      /\ Tail(s) = <<>> <=> Len(s) = 1
      /\ Len(s) >= 1
  BY Tailed
<1>2. Consecutive(Tail(s))
  <2> SUFFICES ASSUME NEW i \in 1..(Len(s) - 1 - 1)
               PROVE  \/ IsSnapshot(Tail(s)[i + 1])
                      \/ Number(Tail(s)[i + 1]) = Number(Tail(s)[i]) + 1
    BY <1>1 DEF Consecutive
  <2>1. /\ i \in 1..(Len(s) - 1) /\ i + 1 \in 1..(Len(s) - 1)
        /\ Tail(s)[i] = s[i + 1] /\ Tail(s)[i + 1] = s[(i + 1) + 1]
    BY <1>1
  <2> QED BY <2>1 DEF Consecutive
<1>3. Tail(s) # <<>> =>
        IsSnapshot(Tail(s)[1]) \/ Number(Tail(s)[1]) = Number(Head(s)) + 1
  <2> SUFFICES ASSUME Tail(s) # <<>>
               PROVE  IsSnapshot(Tail(s)[1]) \/ Number(Tail(s)[1]) = Number(Head(s)) + 1
    OBVIOUS
  <2>1. 1 \in 1..(Len(s) - 1) /\ Tail(s)[1] = s[1 + 1]
    BY <1>1
  <2> QED BY <1>1, <2>1 DEF Consecutive
<1> QED BY <1>2, <1>3

LEMMA ConsecutiveAppend ==
  ASSUME NEW s \in Seq(HostFrames), NEW f \in HostFrames, Consecutive(s),
         s # <<>> => IsSnapshot(f) \/ Number(f) = Number(Last(s)) + 1
  PROVE  Consecutive(Append(s, f))
<1>1. /\ Len(s) \in Nat /\ Len(Append(s, f)) = Len(s) + 1
      /\ \A i \in 1..Len(s) : Append(s, f)[i] = s[i]
      /\ Append(s, f)[Len(s) + 1] = f
  BY Appended
<1> SUFFICES ASSUME NEW i \in 1..Len(s)
             PROVE  \/ IsSnapshot(Append(s, f)[i + 1])
                    \/ Number(Append(s, f)[i + 1]) = Number(Append(s, f)[i]) + 1
  BY <1>1 DEF Consecutive
<1>2. CASE i = Len(s)
  <2>1. s # <<>>
    BY <1>1, <1>2
  <2> QED BY <1>1, <1>2, <2>1 DEF Last
<1>3. CASE i # Len(s)
  <2>1. i \in 1..(Len(s) - 1) /\ i + 1 \in 1..Len(s)
    BY <1>1, <1>3
  <2> QED BY <1>1, <2>1 DEF Consecutive
<1> QED BY <1>2, <1>3

-----------------------------------------------------------------------------
(* The steps of the page. *)

\* The page has just been opened, and the host waits for its ack.
LEMMA PathInit == Init => PathInv
<1> SUFFICES ASSUME Init PROVE PathInv
  OBVIOUS
<1>1. 1 \in Sockets /\ 1 \in ConnIds
  BY PathAssumption DEF Sockets, ConnIds
<1>2. PageTypes
  BY <1>1 DEF Init, PageTypes, Page, Pages, Errors
<1>3. RelayTypes
  BY <1>1 DEF Init, RelayTypes, Relays
<1>4. Script /\ Locked /\ Greeted
  BY DEF Init, Script, Locked, Greeted, Inited, Mine, Pending, Page, Idle
<1>5. /\ \A n \in ConnIds : wire[n] = <<>> /\ (n > 1 => handler[n] = "none")
      /\ handler[1] = "pumping" /\ relay.holder = 1 /\ relay.history = <<>>
      /\ host.conn = 1 /\ host.phase = "dialing"
  BY <1>1 DEF Init
<1>6. Links /\ Chain
  <2>1. Links
    BY <1>1, <1>5 DEF Links
  <2>2. Consecutive(<<>>)
    BY DEF Consecutive
  <2> QED BY <1>1, <1>5, <2>1, <2>2 DEF Chain
<1>7. Flow
  BY <1>5 DEF Init, Flow, InboxFlows, OpeningFlows, HistoryFlows, Idle, Page
<1> QED BY <1>2, <1>3, <1>4, <1>6, <1>7 DEF PathInv

\* The relay is where it was.
LEMMA RelayStill ==
  ASSUME PathInv, UNCHANGED <<relay, handler, wire, host>>
  PROVE  RelayTypes' /\ Links' /\ Chain'
BY DEF PathInv, RelayTypes, Links, Chain

\* The socket closes.
LEMMA SocketClosesKeeps == PathInv /\ SocketCloses => PathInv'
<1> SUFFICES ASSUME PathInv, SocketCloses PROVE PathInv'
  OBVIOUS
<1>1. /\ page' = [page EXCEPT !.link = "closed", !.allow = FALSE]
      /\ UNCHANGED <<cipher, receiving, inbox, inputs, typed, relay, handler, wire, host>>
  BY DEF SocketCloses, Unchanged, relayVars, hostVars
<1>2. page \in Pages
  BY DEF PathInv, PageTypes
<1>3. /\ page' \in Pages /\ page'.link = "closed" /\ ~page'.allow
      /\ page'.socket = page.socket /\ page'.initialized = page.initialized
      /\ page'.authenticated = page.authenticated
      /\ page'.failed = page.failed /\ page'.error = page.error
  BY <1>1, <1>2 DEF Pages
<1>4. PageTypes'
  BY <1>1, <1>3 DEF PathInv, PageTypes
<1>5. Script' /\ Locked' /\ Greeted'
  BY <1>1, <1>3 DEF PathInv, Script, Locked, Greeted, Inited, Mine, Pending
<1>6. Flow'
  BY <1>1, <1>3 DEF PathInv, Flow, InboxFlows, OpeningFlows, HistoryFlows, Reaches,
                    Inited, Mine
<1> QED BY <1>1, <1>4, <1>5, <1>6, RelayStill DEF PathInv

\* A new socket has brought nothing yet, and nothing was made for it.
LEMMA ReconnectKeeps == PathInv /\ Reconnect => PathInv'
<1> SUFFICES ASSUME PathInv, Reconnect PROVE PathInv'
  OBVIOUS
<1>1. /\ page' = [page EXCEPT !.socket = @ + 1, !.link = "connecting"]
      /\ inbox' = <<>> /\ page.socket < MaxSockets /\ ~page.failed
      /\ UNCHANGED <<cipher, receiving, inputs, typed, relay, handler, wire, host>>
  BY DEF Reconnect, Unchanged, relayVars, hostVars
<1>2. page \in Pages /\ inputs \in Seq(Jobs)
  BY DEF PathInv, PageTypes
<1>3. page.socket \in 1..MaxSockets /\ page.socket + 1 \in Sockets
  BY <1>1, <1>2, PathAssumption DEF Pages, Sockets
<1>4. /\ page' \in Pages /\ page'.link = "connecting" /\ page'.socket = page.socket + 1
      /\ page'.initialized = page.initialized
      /\ page'.failed = page.failed /\ page'.error = page.error
  BY <1>1, <1>2, <1>3 DEF Pages
<1>5. page.initialized \in Nat
  BY <1>2 DEF Pages, Sockets
<1>6. PageTypes'
  BY <1>1, <1>4 DEF PathInv, PageTypes
<1>7. ~Inited'
  BY <1>3, <1>4, <1>5 DEF PathInv, Script, Inited
<1>8. ~Mine'
  <2>1. receiving.step # "none" => receiving.socket <= page.socket
    BY DEF PathInv, Script
  <2>2. receiving.step # "none" => receiving.socket \in Nat
    BY DEF PathInv, PageTypes, Idle, Creating, Opening, Sockets
  <2> QED BY <1>1, <1>3, <1>4, <2>1, <2>2 DEF Mine
<1>9. Script'
  <2>1. \A i \in DOMAIN inputs' : /\ inputs'[i].socket <= page'.socket
                                  /\ inputs'[i].socket # page'.socket
    <3> SUFFICES ASSUME NEW i \in DOMAIN inputs
                 PROVE  /\ inputs[i].socket <= page.socket + 1
                        /\ inputs[i].socket # page.socket + 1
      BY <1>1, <1>4
    <3>1. inputs[i] \in Jobs /\ inputs[i].socket <= page.socket
      BY <1>2 DEF PathInv, Script
    <3>2. inputs[i].socket \in Nat
      BY <3>1 DEF Jobs, Sockets
    <3> QED BY <1>3, <3>1, <3>2
  <2>2. page'.initialized <= page'.socket
    BY <1>3, <1>4, <1>5 DEF PathInv, Script
  <2>3. receiving'.step # "none" => receiving'.socket <= page'.socket
    <3>1. receiving.step # "none" => receiving.socket <= page.socket
      BY DEF PathInv, Script
    <3>2. receiving.step # "none" => receiving.socket \in Nat
      BY DEF PathInv, PageTypes, Idle, Creating, Opening, Sockets
    <3> QED BY <1>1, <1>3, <1>4, <3>1, <3>2
  <2> QED BY <1>1, <1>7, <1>8, <2>1, <2>2, <2>3 DEF PathInv, Script
<1>10. Locked'
  BY <1>1, <1>4 DEF PathInv, Locked
<1>11. Greeted'
  BY <1>1, <1>4 DEF Greeted
<1>12. Flow'
  BY <1>1, <1>4, <1>8 DEF Flow, InboxFlows, OpeningFlows, HistoryFlows
<1> QED BY <1>1, <1>6, <1>9, <1>10, <1>11, <1>12, RelayStill DEF PathInv

\* The page starts anew.
LEMMA ReloadKeeps == PathInv /\ Reload => PathInv'
<1> SUFFICES ASSUME PathInv, Reload PROVE PathInv'
  OBVIOUS
<1>1. /\ page' = Page(page.socket + 1) /\ page.socket < MaxSockets
      /\ cipher' = NoCipher /\ receiving' = Idle /\ inbox' = <<>> /\ inputs' = <<>>
      /\ UNCHANGED <<typed, relay, handler, wire, host>>
  BY DEF Reload, Unchanged, relayVars, hostVars
<1>2. page.socket \in 1..MaxSockets /\ page.socket + 1 \in Sockets
  BY <1>1, PathAssumption DEF PathInv, PageTypes, Pages, Sockets
<1>3. /\ page' \in Pages /\ page'.link = "connecting" /\ page'.socket = page.socket + 1
      /\ page'.initialized = 0 /\ ~page'.failed /\ ~page'.allow /\ ~page'.authenticated
  BY <1>1, <1>2 DEF Page, Pages, Errors
<1>4. PageTypes'
  BY <1>1, <1>3 DEF PathInv, PageTypes
<1>5. receiving'.step = "none" /\ ~Inited' /\ ~Mine'
  BY <1>1, <1>2, <1>3 DEF Idle, Inited, Mine
<1>6. Script' /\ Locked' /\ Greeted' /\ Flow'
  BY <1>1, <1>2, <1>3, <1>5
     DEF Script, Locked, Greeted, Flow, InboxFlows, OpeningFlows, HistoryFlows
<1> QED BY <1>1, <1>4, <1>6, RelayStill DEF PathInv

\* What is left in the inbox when its first message is taken.
LEMMA Taken ==
  ASSUME PathInv, inbox # <<>>, inbox' = Tail(inbox)
  PROVE  /\ inbox' \in Seq(Messages) /\ Head(inbox) = inbox[1] /\ inbox[1] \in Messages
         /\ Len(inbox) \in Nat /\ Len(inbox') = Len(inbox) - 1
         /\ \A i \in DOMAIN inbox' : i \in Nat /\ i >= 1 /\ i + 1 \in DOMAIN inbox
                                     /\ inbox'[i] = inbox[i + 1]
         /\ \A i \in 2..Len(inbox) : inbox'[i - 1] = inbox[i]
         /\ 1 \in DOMAIN inbox
<1>1. inbox \in Seq(Messages)
  BY DEF PathInv, PageTypes
<1>2. /\ Tail(inbox) \in Seq(Messages) /\ Len(Tail(inbox)) = Len(inbox) - 1
      /\ Len(inbox) \in Nat /\ Len(inbox) >= 1 /\ DOMAIN inbox = 1..Len(inbox)
      /\ Head(inbox) = inbox[1] /\ inbox[1] \in Messages
      /\ DOMAIN Tail(inbox) = 1..(Len(inbox) - 1)
      /\ \A i \in 1..(Len(inbox) - 1) : Tail(inbox)[i] = inbox[i + 1]
  BY <1>1, Tailed
<1>3. \A i \in 1..(Len(inbox) - 1) :
        i \in Nat /\ i >= 1 /\ i + 1 \in 1..Len(inbox)
  BY <1>2
<1>4. \A i \in 2..Len(inbox) : i - 1 \in 1..(Len(inbox) - 1) /\ (i - 1) + 1 = i
  BY <1>2
<1>5. 1 \in 1..Len(inbox)
  BY <1>2
<1> QED BY <1>2, <1>3, <1>4, <1>5

\* What the page would know it still will when the first message was taken, if what
\* that told is known elsewhere.
LEMMA FlowTaken ==
  ASSUME PathInv, inbox # <<>>, inbox' = Tail(inbox), receiving = Idle,
         Inited => Inited' /\ UNCHANGED cipher,
         page'.link = page.link, UNCHANGED relay,
         inbox[1].t = "frame" => /\ receiving'.step = "open" /\ Mine'
                                 /\ receiving'.frame = inbox[1].frame
  PROVE  InboxFlows' /\ HistoryFlows'
<1>1. ASSUME NEW q \in Int, NEW i \in 1..(Len(inbox') + 1), Reaches(q, i + 1)
      PROVE  Reaches(q, i)'
  <2>1. CASE Inited /\ cipher.last # None /\ q <= cipher.last
    BY <2>1 DEF Reaches
  <2>2. CASE receiving.step = "open"
    BY <2>2 DEF Idle
  <2>3. ASSUME NEW j \in 1..((i + 1) - 1), inbox[j].t = "frame",
               q <= Number(inbox[j].frame)
        PROVE  Reaches(q, i)'
    <3>1. CASE j = 1
      BY <2>3, <3>1 DEF Reaches
    <3>2. CASE j # 1
      <4>1. j - 1 \in 1..(i - 1) /\ j \in 2..Len(inbox)
        BY <2>3, <3>2, Taken
      <4>2. inbox'[j - 1] = inbox[j]
        BY <4>1, Taken
      <4> QED BY <2>3, <4>1, <4>2 DEF Reaches
    <3> QED BY <3>1, <3>2
  <2> QED BY <1>1, <2>1, <2>2, <2>3 DEF Reaches
<1>2. InboxFlows'
  <2> SUFFICES ASSUME NEW i \in DOMAIN inbox', NEW q \in Int,
                      inbox'[i].t = "frame", ~IsSnapshot(inbox'[i].frame),
                      q = Number(inbox'[i].frame) - 1
               PROVE  Reaches(q, i)'
    BY DEF InboxFlows
  <2>1. /\ i \in 1..(Len(inbox') + 1) /\ i + 1 \in DOMAIN inbox
        /\ inbox'[i] = inbox[i + 1]
    BY Taken
  <2>2. Reaches(q, i + 1)
    BY <2>1 DEF PathInv, Flow, InboxFlows
  <2> QED BY <1>1, <2>1, <2>2
<1>3. HistoryFlows'
  <2> SUFFICES ASSUME page'.link = "open", relay'.history # <<>>,
                      NEW q \in Int, NEW i \in Nat,
                      q = Number(Last(relay'.history)), i = Len(inbox') + 1
               PROVE  Reaches(q, i)'
    BY DEF HistoryFlows
  <2>1. i + 1 \in Nat /\ i + 1 = Len(inbox) + 1 /\ i \in 1..(Len(inbox') + 1)
    BY Taken
  <2>2. Reaches(q, i + 1)
    BY <2>1 DEF PathInv, Flow, HistoryFlows
  <2> QED BY <1>1, <2>1, <2>2
<1> QED BY <1>2, <1>3

\* What a page has been told it still knows when its receive awaits no more.
LEMMA FlowKept ==
  ASSUME PathInv, UNCHANGED <<inbox, relay>>,
         page'.link = "open" => page.link = "open",
         \A q \in Int : Inited /\ cipher.last # None /\ q <= cipher.last
                         => Inited' /\ cipher'.last # None /\ q <= cipher'.last,
         \A q \in Int : receiving.step = "open" /\ Mine /\ q <= Number(receiving.frame)
                         => \/ Inited' /\ cipher'.last # None /\ q <= cipher'.last
                            \/ /\ receiving'.step = "open" /\ Mine'
                               /\ receiving' = receiving
  PROVE  InboxFlows' /\ HistoryFlows'
<1>1. \A q \in Int, i \in Nat : Reaches(q, i) => Reaches(q, i)'
  BY DEF Reaches
<1>2. inbox \in Seq(Messages)
  BY DEF PathInv, PageTypes
<1>3. \A i \in DOMAIN inbox : i \in Nat
  BY <1>2
<1> QED BY <1>1, <1>3 DEF PathInv, Flow, InboxFlows, HistoryFlows

\* An init frame is the first of its socket.
LEMMA ReceiveInitKeeps == PathInv /\ ReceiveInit => PathInv'
<1> SUFFICES ASSUME PathInv, ReceiveInit PROVE PathInv'
  OBVIOUS
<1>1. /\ receiving = Idle /\ ~page.failed /\ inbox # <<>> /\ Head(inbox).t = "init"
      /\ inbox' = Tail(inbox)
      /\ UNCHANGED <<cipher, inputs, typed, relay, handler, wire, host>>
  BY DEF ReceiveInit, Message, Unchanged, relayVars, hostVars
<1>2. /\ inbox' \in Seq(Messages) /\ Head(inbox) = inbox[1] /\ inbox[1] \in Messages
      /\ \A i \in DOMAIN inbox' : /\ i \in Nat /\ i >= 1 /\ i + 1 \in DOMAIN inbox
                                  /\ inbox'[i] = inbox[i + 1]
      /\ 1 \in DOMAIN inbox /\ Len(inbox) \in Nat /\ Len(inbox') = Len(inbox) - 1
  BY <1>1, Taken
<1>3. ~Inited
  BY <1>1, <1>2 DEF PathInv, Greeted
<1>4. /\ receiving' = [step |-> "create", socket |-> page.socket, message |-> inbox[1]]
      /\ UNCHANGED page
  BY <1>2, <1>3 DEF ReceiveInit, Inited
<1>5. page \in Pages /\ page.socket \in Sockets /\ page.socket \in Nat
  BY DEF PathInv, PageTypes, Pages, Sockets
<1>6. inbox[1] \in Inits
  BY <1>1, <1>2 DEF Messages
<1>7. receiving' \in Creating /\ receiving'.step = "create" /\ receiving'.socket = page.socket
  BY <1>4, <1>5, <1>6 DEF Creating
<1>8. Pending' /\ Mine' /\ ~Inited'
  BY <1>3, <1>4, <1>7 DEF Pending, Mine, Inited
<1>9. PageTypes'
  BY <1>1, <1>2, <1>4, <1>7 DEF PathInv, PageTypes
<1>10. page.link # "connecting"
  BY <1>1 DEF PathInv, Script
<1>11. Script'
  BY <1>1, <1>3, <1>4, <1>5, <1>7, <1>10 DEF PathInv, Script, Inited
<1>12. Locked'
  BY <1>1, <1>4 DEF Locked
<1>13. Greeted'
  <2> SUFFICES ASSUME NEW i \in DOMAIN inbox' PROVE inbox'[i].t # "init"
    BY <1>8 DEF Greeted
  <2>1. i + 1 \in DOMAIN inbox /\ inbox'[i] = inbox[i + 1] /\ i + 1 # 1
    BY <1>2
  <2> QED BY <2>1 DEF PathInv, Greeted
<1>14. Flow'
  <2>1. inbox[1].t # "frame"
    BY <1>1, <1>2
  <2>2. InboxFlows' /\ HistoryFlows'
    BY <1>1, <1>3, <1>4, <2>1, FlowTaken
  <2> QED BY <1>7, <2>2 DEF Flow, OpeningFlows
<1> QED BY <1>1, <1>9, <1>11, <1>12, <1>13, <1>14, RelayStill DEF PathInv

\* The cipher is there: that of this socket, or of one the page has left.
LEMMA CreatedKeeps == PathInv /\ Created => PathInv'
<1> SUFFICES ASSUME PathInv, Created PROVE PathInv'
  OBVIOUS
<1> DEFINE s == receiving.socket
           made == NewCipher(Master, SessionId, Writer(s))
<1>1. /\ receiving.step = "create" /\ cipher' = made /\ receiving' = Idle
      /\ page' = IF page.socket = s /\ ~page.failed
                 THEN Initialised(receiving.message) ELSE page
      /\ UNCHANGED <<inbox, inputs, typed, relay, handler, wire, host>>
  BY DEF Created, Unchanged, relayVars, hostVars
<1>2. receiving \in Creating /\ s \in Sockets /\ receiving.message \in Inits
  BY <1>1 DEF PathInv, PageTypes, Idle, Opening, Creating
<1>3. ~Inited /\ ~page.failed
  BY <1>1 DEF PathInv, Script, Locked
<1>4. page \in Pages /\ page.socket \in Sockets /\ page.socket \in Nat
  BY DEF PathInv, PageTypes, Pages, Sockets
<1>5. /\ made \in Ciphers /\ made.writer = Writer(s) /\ made # NoCipher
      /\ made.last = None /\ made.epoch = None
  <2>1. Writer(s) \in {Writer(t) : t \in Sockets}
    BY <1>2
  <2>2. 0 \in 0..SeqLimit
    BY CipherAssumption
  <2>3. made = [master |-> Master, session |-> SessionId, writer |-> Writer(s),
                sent |-> 0, outputWriter |-> NoWriter, last |-> None, epoch |-> None]
    BY DEF NewCipher
  <2>4. made \in Ciphers
    BY <2>1, <2>2, <2>3 DEF Ciphers
  <2>5. made.sent = 0
    BY <2>3
  <2> QED BY <2>3, <2>4, <2>5 DEF NoCipher
<1> HIDE DEF made
<1>6. receiving'.step = "none" /\ ~Mine' /\ ~Pending'
  BY <1>1 DEF Idle, Mine, Pending
<1>7. CASE page.socket = s
  <2>1. page' = [page EXCEPT !.authenticated = FALSE, !.allow = FALSE,
                             !.live = receiving.message.live,
                             !.initialized = page.socket]
    BY <1>1, <1>3, <1>7 DEF Initialised
  <2>2. receiving.message.live \in BOOLEAN
    BY <1>2 DEF Inits
  <2>3. /\ page' \in Pages /\ page'.initialized = page.socket
        /\ page'.socket = page.socket /\ page'.link = page.link
        /\ ~page'.allow /\ ~page'.authenticated
        /\ page'.failed = page.failed /\ page'.error = page.error
    BY <1>4, <2>1, <2>2 DEF Pages
  <2>4. PageTypes'
    BY <1>1, <1>5, <2>3 DEF PathInv, PageTypes
  <2>5. Inited'
    BY <2>3 DEF Inited
  <2>6. Mine /\ Pending /\ page.link # "connecting"
    BY <1>1, <1>7 DEF Mine, Pending, PathInv, Script
  <2>7. Script'
    BY <1>1, <1>4, <1>5, <1>6, <1>7, <2>3, <2>5, <2>6 DEF PathInv, Script
  <2>8. Locked' /\ Greeted'
    BY <1>1, <1>3, <1>6, <2>3, <2>5, <2>6 DEF PathInv, Locked, Greeted
  <2>9. InboxFlows' /\ HistoryFlows'
    BY <1>1, <1>3, <2>3, FlowKept
  <2>10. Flow'
    BY <1>6, <2>9 DEF Flow, OpeningFlows
  <2> QED BY <1>1, <2>4, <2>7, <2>8, <2>10, RelayStill DEF PathInv
<1>8. CASE page.socket # s
  <2>1. page' = page
    BY <1>1, <1>8
  <2>2. PageTypes'
    BY <1>1, <1>5, <2>1 DEF PathInv, PageTypes
  <2>3. ~Pending /\ ~Inited'
    BY <1>3, <1>8, <2>1 DEF Pending, Mine, Inited
  <2>4. Script'
    BY <1>1, <1>3, <1>6, <2>1, <2>3 DEF PathInv, Script
  <2>5. Locked' /\ Greeted'
    BY <1>1, <1>3, <1>6, <2>1, <2>3 DEF PathInv, Locked, Greeted
  <2>6. InboxFlows' /\ HistoryFlows'
    BY <1>1, <1>3, <2>1, FlowKept
  <2>7. Flow'
    BY <1>6, <2>6 DEF Flow, OpeningFlows
  <2> QED BY <1>1, <2>2, <2>4, <2>5, <2>7, RelayStill DEF PathInv
<1> QED BY <1>7, <1>8

\* Whatever comes but an init frame comes to a page that has a cipher for its socket.
LEMMA MessageFinds ==
  ASSUME PathInv, receiving = Idle, inbox # <<>>, Head(inbox).t # "init"
  PROVE  Inited /\ cipher \in Ciphers /\ cipher # NoCipher
<1>1. Head(inbox) = inbox[1]
  BY Tailed DEF PathInv, PageTypes
<1>2. ~Pending
  BY DEF Pending, Idle
<1>3. Inited
  BY <1>1, <1>2 DEF PathInv, Greeted
<1>4. cipher # NoCipher
  BY <1>3 DEF PathInv, Script
<1> QED BY <1>3, <1>4 DEF PathInv, PageTypes

\* A message that is not a frame, and what it may do to the page.
LEMMA ControlKeeps ==
  ASSUME PathInv, receiving = Idle, inbox # <<>>, Head(inbox).t \in {"status", "unavailable"},
         ~page.failed, inbox' = Tail(inbox),
         UNCHANGED <<cipher, receiving, inputs, typed, relay, handler, wire, host>>,
         page' \in Pages, page'.socket = page.socket, page'.link = page.link,
         page'.initialized = page.initialized,
         page'.failed = page.failed, page'.error = page.error,
         page'.authenticated = page.authenticated,
         page'.allow => page.allow \/ page.authenticated
  PROVE  PathInv'
<1>1. Inited /\ cipher # NoCipher
  BY MessageFinds
<1>2. /\ inbox' \in Seq(Messages) /\ Head(inbox) = inbox[1]
      /\ \A i \in DOMAIN inbox' : /\ i \in Nat /\ i >= 1 /\ i + 1 \in DOMAIN inbox
                                  /\ inbox'[i] = inbox[i + 1]
  BY Taken
<1>3. Inited' /\ ~Mine' /\ receiving'.step = "none"
  BY <1>1 DEF Inited, Mine, Idle
<1>4. PageTypes'
  BY <1>2 DEF PathInv, PageTypes
<1>5. page.link # "connecting"
  BY <1>1 DEF PathInv, Script
<1>6. Script'
  BY <1>1, <1>3, <1>5 DEF PathInv, Script
<1>7. Locked'
  BY DEF Locked
<1>8. Greeted'
  <2>1. ASSUME NEW i \in DOMAIN inbox' PROVE inbox'[i].t # "init"
    <3>1. i + 1 \in DOMAIN inbox /\ inbox'[i] = inbox[i + 1] /\ i + 1 # 1
      BY <1>2
    <3> QED BY <3>1 DEF PathInv, Greeted
  <2> QED BY <1>3, <2>1 DEF Greeted
<1>9. inbox[1].t # "frame"
  BY <1>2
<1>10. InboxFlows' /\ HistoryFlows'
  BY <1>3, <1>9, FlowTaken
<1>11. Flow'
  BY <1>3, <1>10 DEF Flow, OpeningFlows
<1> QED BY <1>4, <1>6, <1>7, <1>8, <1>11, RelayStill DEF PathInv

LEMMA ReceiveStatusKeeps == PathInv /\ ReceiveStatus => PathInv'
<1> SUFFICES ASSUME PathInv, ReceiveStatus PROVE PathInv'
  OBVIOUS
<1>1. /\ receiving = Idle /\ ~page.failed /\ inbox # <<>> /\ Head(inbox).t = "status"
      /\ inbox' = Tail(inbox)
      /\ UNCHANGED <<cipher, receiving, inputs, typed, relay, handler, wire, host>>
  BY DEF ReceiveStatus, Message, Unchanged, relayVars, hostVars
<1>2. Inited
  BY <1>1, MessageFinds
<1>3. page' = [page EXCEPT !.allow = page.authenticated, !.live = Head(inbox).live]
  BY <1>2 DEF ReceiveStatus, Inited, Status
<1>4. Head(inbox) \in Messages
  BY <1>1, Taken
<1>5. Head(inbox).live \in BOOLEAN
  BY <1>1, <1>4 DEF Messages, Inits
<1>6. page \in Pages /\ page.authenticated \in BOOLEAN
  BY DEF PathInv, PageTypes, Pages
<1>7. /\ page' \in Pages /\ page'.socket = page.socket /\ page'.link = page.link
      /\ page'.initialized = page.initialized
      /\ page'.failed = page.failed /\ page'.error = page.error
      /\ page'.authenticated = page.authenticated
      /\ page'.allow = page.authenticated
  BY <1>3, <1>5, <1>6 DEF Pages
<1> QED BY <1>1, <1>7, ControlKeeps

LEMMA ReceiveUnavailableKeeps == PathInv /\ ReceiveUnavailable => PathInv'
<1> SUFFICES ASSUME PathInv, ReceiveUnavailable PROVE PathInv'
  OBVIOUS
<1>1. /\ receiving = Idle /\ ~page.failed /\ inbox # <<>>
      /\ Head(inbox).t = "unavailable" /\ inbox' = Tail(inbox)
      /\ UNCHANGED <<cipher, receiving, inputs, typed, relay, handler, wire, host>>
  BY DEF ReceiveUnavailable, Message, Unchanged, relayVars, hostVars
<1>2. Inited
  BY <1>1, MessageFinds
<1>3. page' = [page EXCEPT !.allow = FALSE]
  BY <1>2 DEF ReceiveUnavailable, Inited
<1>4. /\ page' \in Pages /\ page'.socket = page.socket /\ page'.link = page.link
      /\ page'.initialized = page.initialized
      /\ page'.failed = page.failed /\ page'.error = page.error
      /\ page'.authenticated = page.authenticated /\ ~page'.allow
  BY <1>3 DEF PathInv, PageTypes, Pages
<1> QED BY <1>1, <1>4, ControlKeeps

\* A frame is one of the host's, and the page waits for WebCrypto.
LEMMA ReceiveFrameKeeps == PathInv /\ ReceiveFrame => PathInv'
<1> SUFFICES ASSUME PathInv, ReceiveFrame PROVE PathInv'
  OBVIOUS
<1>1. /\ receiving = Idle /\ ~page.failed /\ inbox # <<>> /\ Head(inbox).t = "frame"
      /\ inbox' = Tail(inbox)
      /\ UNCHANGED <<cipher, inputs, typed, relay, handler, wire, host>>
  BY DEF ReceiveFrame, Message, Unchanged, relayVars, hostVars
<1>2. Inited /\ cipher \in Ciphers /\ cipher # NoCipher
  BY <1>1, MessageFinds
<1>3. /\ inbox' \in Seq(Messages) /\ Head(inbox) = inbox[1] /\ inbox[1] \in Messages
      /\ \A i \in DOMAIN inbox' : /\ i \in Nat /\ i >= 1 /\ i + 1 \in DOMAIN inbox
                                  /\ inbox'[i] = inbox[i + 1]
      /\ 1 \in DOMAIN inbox
  BY <1>1, Taken
<1>4. inbox[1].frame \in HostFrames
  BY <1>1, <1>3 DEF Messages, Inits
<1>5. Admits(cipher, inbox[1].frame)
  BY <1>2, <1>4, HostFramesOpen
<1>6. /\ receiving' = [step |-> "open", socket |-> page.socket, frame |-> inbox[1].frame]
      /\ UNCHANGED page
  BY <1>2, <1>3, <1>5 DEF ReceiveFrame, Inited
<1>7. page \in Pages /\ page.socket \in Sockets /\ page.socket \in Nat
  BY DEF PathInv, PageTypes, Pages, Sockets
<1>8. /\ receiving' \in Opening /\ receiving'.step = "open"
      /\ receiving'.socket = page.socket /\ receiving'.frame = inbox[1].frame
  BY <1>4, <1>6, <1>7 DEF Opening
<1>9. Mine' /\ ~Pending' /\ Inited' /\ ~Pending
  BY <1>1, <1>2, <1>6, <1>8 DEF Mine, Pending, Inited, Idle
<1>10. PageTypes'
  BY <1>1, <1>3, <1>6, <1>8 DEF PathInv, PageTypes
<1>11. page.link # "connecting"
  BY <1>2 DEF PathInv, Script
<1>12. Script'
  BY <1>1, <1>2, <1>6, <1>7, <1>8, <1>9, <1>11 DEF PathInv, Script
<1>13. Locked'
  BY <1>1, <1>6 DEF Locked
<1>14. Greeted'
  <2>1. ASSUME NEW i \in DOMAIN inbox' PROVE inbox'[i].t # "init"
    <3>1. i + 1 \in DOMAIN inbox /\ inbox'[i] = inbox[i + 1] /\ i + 1 # 1
      BY <1>3
    <3> QED BY <3>1 DEF PathInv, Greeted
  <2> QED BY <1>9, <2>1 DEF Greeted
<1>15. InboxFlows' /\ HistoryFlows'
  BY <1>1, <1>6, <1>8, <1>9, FlowTaken
<1>16. OpeningFlows'
  <2> SUFFICES ASSUME ~IsSnapshot(inbox[1].frame)
               PROVE  cipher.last # None /\ Number(inbox[1].frame) - 1 <= cipher.last
    BY <1>1, <1>8 DEF OpeningFlows
  <2>1. Number(inbox[1].frame) \in Nat
    BY <1>4, HostFrameIs
  <2>2. PICK q \in Int : q = Number(inbox[1].frame) - 1
    BY <2>1
  <2>3. Reaches(q, 1)
    BY <1>1, <1>3, <2>2 DEF PathInv, Flow, InboxFlows
  <2>4. receiving.step # "open"
    BY <1>1 DEF Idle
  <2> QED BY <2>2, <2>3, <2>4 DEF Reaches
<1>17. Flow'
  BY <1>15, <1>16 DEF Flow
<1> QED BY <1>1, <1>10, <1>12, <1>13, <1>14, <1>17, RelayStill DEF PathInv

\* A frame is opened: one that was seen before, or the next the page could expect.  It
\* may be of a socket the page has left.
LEMMA DecryptedKeeps == PathInv /\ Decrypted => PathInv'
<1> SUFFICES ASSUME PathInv, Decrypted PROVE PathInv'
  OBVIOUS
<1> DEFINE frame == receiving.frame
           current == page.socket = receiving.socket /\ ~page.failed
           grants == current /\ frame.header.kind = SNAPSHOT
<1>1. /\ receiving.step = "open" /\ receiving' = Idle
      /\ UNCHANGED <<inbox, inputs, typed, relay, handler, wire, host>>
  BY DEF Decrypted, Unchanged, relayVars, hostVars
<1>2. receiving \in Opening /\ frame \in HostFrames
  BY <1>1 DEF PathInv, PageTypes, Idle, Creating, Opening
<1>3. cipher \in Ciphers /\ cipher # NoCipher
  BY <1>1 DEF PathInv, Script, PageTypes
<1>4. /\ Number(frame) \in Nat /\ frame.header.writer = HostWriter
      /\ IsSnapshot(frame) => frame.body.plain.t = "snapshot" /\ Epoch(frame) \in ConnIds
      /\ ~IsSnapshot(frame) => frame.body.plain.t = "output"
      /\ Opens(cipher, frame)
  BY <1>2, <1>3, HostFrameIs, HostFramesOpen
<1>5. /\ IF Repeated(cipher, frame) THEN UNCHANGED <<page, cipher>>
         ELSE IF ~Valid(cipher, frame)
         THEN /\ page' = IF current THEN Failed("protocol") ELSE page
              /\ UNCHANGED cipher
         ELSE /\ cipher' = Opened(cipher, frame)
              /\ page' = IF grants
                         THEN [page EXCEPT !.authenticated = TRUE, !.allow = TRUE]
                         ELSE page
  BY <1>4 DEF Decrypted
<1>6. /\ cipher.last \in Nat \cup {None} /\ None \notin Nat
      /\ cipher.epoch \in ConnIds \cup {None} /\ None \notin ConnIds
  BY <1>3 DEF Ciphers, None, ConnIds
<1>7. Mine <=> page.socket = receiving.socket
  BY <1>1 DEF Mine
<1>8. Mine => Inited
  BY <1>1 DEF PathInv, Script
<1>9. ~Mine' /\ ~Pending' /\ receiving'.step = "none" /\ ~Pending
  BY <1>1 DEF Mine, Pending, Idle
<1>10. ~Repeated(cipher, frame) /\ Mine => Valid(cipher, frame)
  <2> SUFFICES ASSUME ~Repeated(cipher, frame), Mine PROVE Valid(cipher, frame)
    OBVIOUS
  <2>1. CASE IsSnapshot(frame)
    <3>1. frame.body.plain.epoch \in Nat
      BY <1>4, <2>1 DEF Epoch, ConnIds
    <3> QED BY <1>4, <2>1, <3>1 DEF Valid, ValidSnapshot, IsSnapshot
  <2>2. CASE ~IsSnapshot(frame)
    <3>1. cipher.last # None /\ Number(frame) - 1 <= cipher.last
      BY <1>1, <2>2 DEF PathInv, Flow, OpeningFlows
    <3>2. ~(Number(frame) <= cipher.last)
      BY <3>1 DEF Repeated, Number
    <3>3. cipher.last \in Nat
      BY <1>6, <3>1
    <3>4. Number(frame) = cipher.last + 1
      BY <1>4, <3>1, <3>2, <3>3
    <3> QED BY <1>4, <2>2, <3>1, <3>4
            DEF Valid, ValidOutput, Follows, IsSnapshot, Number
  <2> QED BY <2>1, <2>2
<1> HIDE DEF frame
<1>11. CASE Repeated(cipher, frame)
  <2>1. UNCHANGED <<page, cipher>>
    BY <1>5, <1>11
  <2>2. PageTypes'
    BY <1>1, <2>1 DEF PathInv, PageTypes
  <2>3. Script' /\ Locked' /\ Greeted'
    BY <1>1, <1>9, <2>1 DEF PathInv, Script, Locked, Greeted, Inited
  <2>4. cipher.last # None /\ Number(frame) <= cipher.last
    BY <1>11 DEF Repeated, Number
  <2>5. ASSUME NEW q \in Int, Mine, q <= Number(frame)
        PROVE  Inited' /\ cipher'.last # None /\ q <= cipher'.last
    BY <1>4, <1>6, <1>8, <2>1, <2>4, <2>5 DEF Inited
  <2>6. InboxFlows' /\ HistoryFlows'
    BY <1>1, <2>1, <2>5, FlowKept DEF Inited, frame
  <2>7. Flow'
    BY <1>9, <2>6 DEF Flow, OpeningFlows
  <2> QED BY <1>1, <2>2, <2>3, <2>7, RelayStill DEF PathInv
<1>12. CASE ~Repeated(cipher, frame) /\ ~Valid(cipher, frame)
  <2>1. UNCHANGED <<page, cipher>> /\ ~Mine
    BY <1>5, <1>7, <1>10, <1>12
  <2>2. PageTypes'
    BY <1>1, <2>1 DEF PathInv, PageTypes
  <2>3. Script' /\ Locked' /\ Greeted'
    BY <1>1, <1>9, <2>1 DEF PathInv, Script, Locked, Greeted, Inited
  <2>4. InboxFlows' /\ HistoryFlows'
    BY <1>1, <2>1, FlowKept DEF Inited
  <2>5. Flow'
    BY <1>9, <2>4 DEF Flow, OpeningFlows
  <2> QED BY <1>1, <2>2, <2>3, <2>5, RelayStill DEF PathInv
<1>13. CASE ~Repeated(cipher, frame) /\ Valid(cipher, frame)
  <2>1. /\ cipher' = Opened(cipher, frame)
        /\ page' = IF grants THEN [page EXCEPT !.authenticated = TRUE, !.allow = TRUE]
                             ELSE page
    BY <1>5, <1>13
  <2> DEFINE epoch == IF IsSnapshot(frame) THEN Epoch(frame) ELSE cipher.epoch
  <2>2. cipher' = [cipher EXCEPT !.outputWriter = HostWriter, !.last = Number(frame),
                                 !.epoch = epoch]
    BY <1>4, <2>1 DEF Opened, IsSnapshot, Epoch, Number
  <2>3. epoch \in ConnIds \cup {None} /\ (IsSnapshot(frame) => epoch # None)
        /\ (cipher.epoch # None => epoch # None)
    BY <1>4, <1>6
  <2> HIDE DEF epoch
  <2>4. /\ cipher' \in Ciphers /\ cipher'.last = Number(frame) /\ cipher'.epoch = epoch
        /\ cipher'.sent = cipher.sent /\ cipher'.writer = cipher.writer
    BY <1>3, <1>4, <2>2, <2>3 DEF Ciphers
  <2>5. cipher' # NoCipher
    BY <2>4 DEF Ciphers, NoCipher
  <2>6. /\ page' \in Pages /\ page'.socket = page.socket /\ page'.link = page.link
        /\ page'.initialized = page.initialized
        /\ page'.failed = page.failed /\ page'.error = page.error
        /\ (page'.allow \/ page'.authenticated) =>
             IsSnapshot(frame) \/ page.allow \/ page.authenticated
    BY <2>1 DEF PathInv, PageTypes, Pages, IsSnapshot
  <2>7. PageTypes'
    BY <1>1, <2>4, <2>6 DEF PathInv, PageTypes
  <2>8. Inited' <=> Inited
    BY <2>6 DEF Inited
  <2>9. Script'
    <3>1. Inited' /\ (page'.allow \/ page'.authenticated) => cipher'.epoch # None
      BY <2>3, <2>4, <2>6, <2>8 DEF PathInv, Script
    <3> QED BY <1>1, <1>3, <1>9, <2>4, <2>5, <2>6, <2>8, <3>1 DEF PathInv, Script
  <2>10. Locked'
    BY <1>9, <2>4, <2>5, <2>6 DEF PathInv, Locked
  <2>11. Greeted'
    BY <1>1, <1>9, <2>6, <2>8 DEF PathInv, Greeted
  <2>12. ASSUME NEW q \in Int, Inited, cipher.last # None, q <= cipher.last
         PROVE  Inited' /\ cipher'.last # None /\ q <= cipher'.last
    <3>1. ~(Number(frame) <= cipher.last)
      BY <1>13, <2>12 DEF Repeated, Number
    <3> QED BY <1>4, <1>6, <2>4, <2>8, <2>12, <3>1
  <2>13. ASSUME NEW q \in Int, Mine, q <= Number(frame)
         PROVE  Inited' /\ cipher'.last # None /\ q <= cipher'.last
    BY <1>4, <1>6, <1>8, <2>4, <2>8, <2>13
  <2>14. InboxFlows' /\ HistoryFlows'
    BY <1>1, <2>6, <2>12, <2>13, FlowKept DEF frame
  <2>15. Flow'
    BY <1>9, <2>14 DEF Flow, OpeningFlows
  <2> QED BY <1>1, <2>7, <2>9, <2>10, <2>11, <2>15, RelayStill DEF PathInv
<1> QED BY <1>11, <1>12, <1>13

\* A keystroke waits with the socket and the cipher of its page.
LEMMA TypeKeeps == PathInv /\ Type => PathInv'
<1> SUFFICES ASSUME PathInv, Type PROVE PathInv'
  OBVIOUS
<1> DEFINE job == [socket |-> page.socket, writer |-> cipher.writer, key |-> typed + 1]
<1>1. /\ Inited /\ typed' = typed + 1 /\ inputs' = Append(inputs, job)
      /\ UNCHANGED <<page, cipher, receiving, inbox, relay, handler, wire, host>>
  BY DEF Type, Inited, Unchanged, relayVars, hostVars
<1>2. typed \in Nat /\ inputs \in Seq(Jobs) /\ page.socket \in Sockets
  BY DEF PathInv, PageTypes, Pages
<1>3. cipher.writer = Writer(page.socket)
  BY <1>1 DEF PathInv, Script
<1>4. job \in Jobs /\ job.socket = page.socket
  BY <1>2, <1>3 DEF Jobs
<1> HIDE DEF job
<1>5. /\ inputs' \in Seq(Jobs) /\ DOMAIN inputs' = 1..(Len(inputs) + 1)
      /\ DOMAIN inputs = 1..Len(inputs) /\ Len(inputs) \in Nat
      /\ \A i \in 1..Len(inputs) : inputs'[i] = inputs[i]
      /\ inputs'[Len(inputs) + 1] = job
  BY <1>1, <1>2, <1>4, Appended
<1>6. PageTypes'
  BY <1>1, <1>2, <1>5 DEF PathInv, PageTypes
<1>7. \A i \in DOMAIN inputs' : /\ inputs'[i].socket <= page'.socket
                                /\ inputs'[i].socket = page'.socket => Inited'
  <2> SUFFICES ASSUME NEW i \in DOMAIN inputs' PROVE inputs'[i].socket <= page.socket
    BY <1>1 DEF Inited
  <2>1. CASE i \in 1..Len(inputs)
    BY <1>5, <2>1 DEF PathInv, Script
  <2>2. CASE i = Len(inputs) + 1
    BY <1>2, <1>4, <1>5, <2>2 DEF Sockets
  <2> QED BY <1>5, <2>1, <2>2
<1>8. Script' /\ Locked' /\ Greeted'
  BY <1>1, <1>7 DEF PathInv, Script, Locked, Greeted, Inited, Mine, Pending
<1>9. Flow'
  BY <1>1 DEF PathInv, Flow, InboxFlows, OpeningFlows, HistoryFlows, Reaches, Inited, Mine
<1> QED BY <1>1, <1>6, <1>8, <1>9, RelayStill DEF PathInv

\* What stays in a queue when its oldest is taken.
LEMMA OldestRemoved ==
  ASSUME NEW S, NEW s \in Seq(S), s # <<>>
  PROVE  RemoveAt(s, 1) = Tail(s)
<1>1. /\ Len(s) \in Nat /\ Len(s) >= 1
      /\ Tail(s) \in Seq(S) /\ Tail(s) = SubSeq(s, 2, Len(s))
  BY Tailed, TailIsSubSeq
<1>2. SubSeq(s, 1, 0) = <<>>
  BY SubSeqEmpty
<1>3. RemoveAt(s, 1) = SubSeq(s, 1, 1 - 1) \o SubSeq(s, 1 + 1, Len(s))
  BY DEF RemoveAt
<1>4. RemoveAt(s, 1) = <<>> \o Tail(s)
  BY <1>1, <1>2, <1>3
<1> QED BY <1>1, <1>4, ConcatEmptySeq

\* What encryptionError makes of the page.
LEMMA LockedIs ==
  ASSUME PathInv, NEW why \in Errors
  PROVE  /\ Failed(why) \in Pages
         /\ Failed(why).link = "closed" /\ ~Failed(why).allow /\ Failed(why).failed
         /\ Failed(why).socket = page.socket
         /\ Failed(why).initialized = page.initialized
         /\ Failed(why).authenticated = page.authenticated
         /\ Failed(why).error = why
BY DEF PathInv, PageTypes, Pages, Failed

\* A keystroke of the page's socket finds a cipher that may seal, or one that has sealed
\* all it can.
LEMMA InputBeginsKeeps == PathInv /\ InputBegins => PathInv'
<1> SUFFICES ASSUME PathInv, InputBegins PROVE PathInv'
  OBVIOUS
<1> DEFINE job == inputs[1]
<1>1. /\ inputs # <<>> /\ inputs' = RemoveAt(inputs, 1)
      /\ \/ ~Still(job) /\ UNCHANGED <<page, cipher>>
         \/ /\ Still(job) /\ ~MayInput(cipher) /\ UNCHANGED cipher
            /\ page' = Failed(IF cipher.epoch = None THEN "epoch" ELSE "counter")
         \/ /\ Still(job) /\ MayInput(cipher) /\ cipher' = InputTaken(cipher)
            /\ page' = page \/ page' = Failed("size")
      /\ UNCHANGED <<receiving, inbox, typed, relay, handler, wire, host>>
  BY DEF InputBegins, NextInput, Unchanged, relayVars, hostVars
<1>2. inputs \in Seq(Jobs)
  BY DEF PathInv, PageTypes
<1>3. /\ inputs' \in Seq(Jobs) /\ DOMAIN inputs' = 1..(Len(inputs) - 1)
      /\ DOMAIN inputs = 1..Len(inputs) /\ Len(inputs) \in Nat
      /\ \A i \in 1..(Len(inputs) - 1) : inputs'[i] = inputs[i + 1]
      /\ 1 \in DOMAIN inputs
  <2>1. /\ inputs' = Tail(inputs) /\ Len(inputs) \in Nat /\ Len(inputs) >= 1
        /\ DOMAIN inputs = 1..Len(inputs)
    BY <1>1, <1>2, OldestRemoved, Tailed
  <2>2. inputs # <<>>
    BY <1>1
  <2>3. /\ Tail(inputs) \in Seq(Jobs) /\ DOMAIN Tail(inputs) = 1..(Len(inputs) - 1)
        /\ \A i \in 1..(Len(inputs) - 1) : Tail(inputs)[i] = inputs[i + 1]
    BY <1>2, <2>2, Tailed
  <2> QED BY <2>1, <2>3
<1>4. \A i \in DOMAIN inputs' : /\ inputs'[i].socket <= page.socket
                                /\ inputs'[i].socket = page.socket => Inited
  <2> SUFFICES ASSUME NEW i \in DOMAIN inputs'
               PROVE  /\ inputs'[i].socket <= page.socket
                      /\ inputs'[i].socket = page.socket => Inited
    OBVIOUS
  <2>1. i + 1 \in DOMAIN inputs /\ inputs'[i] = inputs[i + 1]
    BY <1>3
  <2> QED BY <2>1 DEF PathInv, Script
<1>5. Still(job) => /\ Inited /\ cipher \in Ciphers /\ cipher # NoCipher /\ page.allow
                    /\ ~page.failed /\ page.link = "open"
  BY <1>3 DEF PathInv, Script, PageTypes, Still, Typing
<1> HIDE DEF job
<1>6. CASE ~Still(job) /\ UNCHANGED <<page, cipher>>
  <2>1. PageTypes'
    BY <1>1, <1>3, <1>6 DEF PathInv, PageTypes
  <2>2. Script' /\ Locked' /\ Greeted'
    BY <1>1, <1>4, <1>6 DEF PathInv, Script, Locked, Greeted, Inited, Mine, Pending
  <2>3. Flow'
    BY <1>1, <1>6 DEF PathInv, Flow, InboxFlows, OpeningFlows, HistoryFlows, Reaches,
                      Inited, Mine
  <2> QED BY <1>1, <2>1, <2>2, <2>3, RelayStill DEF PathInv
<1>7. CASE /\ Still(job) /\ ~MayInput(cipher) /\ UNCHANGED cipher
           /\ page' = Failed(IF cipher.epoch = None THEN "epoch" ELSE "counter")
  <2>1. cipher.epoch # None
    BY <1>5, <1>7 DEF PathInv, Script
  <2>2. page' = Failed("counter")
    BY <1>7, <2>1
  <2>3. /\ page' \in Pages /\ page'.link = "closed" /\ ~page'.allow /\ page'.failed
        /\ page'.socket = page.socket /\ page'.initialized = page.initialized
        /\ page'.authenticated = page.authenticated /\ page'.error = "counter"
    BY <2>2, LockedIs DEF Errors
  <2>4. cipher.sent = SeqLimit
    <3>1. ~(cipher.sent < SeqLimit) /\ cipher.sent \in 0..SeqLimit /\ SeqLimit \in Nat
      BY <1>5, <1>7, <2>1, CipherAssumption DEF MayInput, Ciphers
    <3> QED BY <3>1
  <2>5. receiving.step # "create"
    BY <1>5, <1>7 DEF PathInv, Script
  <2>6. PageTypes'
    BY <1>1, <1>3, <1>7, <2>3 DEF PathInv, PageTypes
  <2>7. Script' /\ Greeted'
    BY <1>1, <1>4, <1>7, <2>3 DEF PathInv, Script, Greeted, Inited, Mine, Pending
  <2>8. Locked'
    BY <1>1, <1>5, <1>7, <2>3, <2>4, <2>5 DEF Locked
  <2>9. Flow'
    BY <1>1, <1>7, <2>3 DEF PathInv, Flow, InboxFlows, OpeningFlows, HistoryFlows,
                           Reaches, Inited, Mine
  <2> QED BY <1>1, <2>6, <2>7, <2>8, <2>9, RelayStill DEF PathInv
<1>8. CASE /\ Still(job) /\ MayInput(cipher) /\ cipher' = InputTaken(cipher)
           /\ page' = page \/ page' = Failed("size")
  <2>1. cipher.sent + 1 \in 0..SeqLimit
    BY <1>5, <1>8, CipherAssumption DEF Ciphers, MayInput
  <2>2. cipher' = [cipher EXCEPT !.sent = cipher.sent + 1]
    BY <1>8 DEF InputTaken
  <2>3. /\ cipher' \in Ciphers /\ cipher'.last = cipher.last
        /\ cipher'.epoch = cipher.epoch /\ cipher'.writer = cipher.writer
        /\ cipher'.sent = cipher.sent + 1
    BY <1>5, <1>8, <2>1, <2>2 DEF Ciphers
  <2>4. cipher' # NoCipher
    BY <2>3 DEF Ciphers, NoCipher
  <2>5. /\ page' \in Pages /\ page'.link \in {page.link, "closed"}
        /\ page'.allow => page.allow
        /\ page'.socket = page.socket /\ page'.initialized = page.initialized
        /\ page'.authenticated = page.authenticated
        /\ page'.failed => page'.error = "size"
    <3>1. CASE page' = page
      BY <1>5, <1>8, <3>1 DEF PathInv, PageTypes
    <3>2. CASE page' = Failed("size")
      BY <3>2, LockedIs DEF Errors
    <3> QED BY <1>8, <3>1, <3>2
  <2>6. receiving.step # "create" /\ ~Pending /\ page.link = "open"
    BY <1>5, <1>8 DEF PathInv, Script, Pending
  <2>7. PageTypes'
    BY <1>1, <1>3, <2>3, <2>5 DEF PathInv, PageTypes
  <2>8. Script'
    BY <1>1, <1>4, <1>5, <1>8, <2>3, <2>4, <2>5, <2>6
       DEF PathInv, Script, Inited, Mine, Pending
  <2>9. Locked'
    BY <1>1, <2>4, <2>5, <2>6 DEF Locked
  <2>10. Greeted'
    BY <1>1, <1>5, <1>8, <2>5, <2>6 DEF PathInv, Greeted, Inited, Mine, Pending
  <2>11. InboxFlows' /\ HistoryFlows'
    BY <1>1, <2>3, <2>5, FlowKept DEF Inited, Mine
  <2>12. Flow'
    BY <1>1, <2>3, <2>5, <2>11 DEF PathInv, Flow, OpeningFlows, Mine
  <2> QED BY <1>1, <2>7, <2>8, <2>9, <2>10, <2>12, RelayStill DEF PathInv
<1> QED BY <1>1, <1>6, <1>7, <1>8

\* A socket that is joined brings the init frame and what the relay keeps.
LEMMA JoinKeeps == PathInv /\ Join => PathInv'
<1> SUFFICES ASSUME PathInv, Join PROVE PathInv'
  OBVIOUS
<1> DEFINE init == [t |-> "init", live |-> relay.live]
           told == IF relay.ready THEN <<>> ELSE <<[t |-> "unavailable"]>>
           kept == [i \in DOMAIN relay.history |-> FrameMessage(relay.history[i])]
           n == 1 + Len(told)
           h == Len(relay.history)
<1>1. /\ page.link = "connecting" /\ page' = [page EXCEPT !.link = "open"]
      /\ inbox' = <<init>> \o told \o kept
      /\ UNCHANGED <<cipher, receiving, inputs, typed, relay, handler, wire, host>>
  BY DEF Join, Unchanged, relayVars, hostVars
<1>2. /\ relay \in Relays /\ page \in Pages /\ relay.live \in BOOLEAN
      /\ relay.history \in Seq(HostFrames)
  BY DEF PathInv, PageTypes, RelayTypes, Relays
<1>3. h \in Nat /\ DOMAIN relay.history = 1..h
      /\ \A k \in 1..h : relay.history[k] \in HostFrames
  BY <1>2, LenProperties, ElementOfSeq
<1>4. /\ kept \in Seq(Messages) /\ Len(kept) = h
      /\ \A k \in 1..h : kept[k] = [t |-> "frame", frame |-> relay.history[k]]
  <2>1. \A k \in 1..h : kept[k] = [t |-> "frame", frame |-> relay.history[k]]
    BY <1>3 DEF FrameMessage
  <2>2. \A k \in 1..h : kept[k] \in Messages
    <3> SUFFICES ASSUME NEW k \in 1..h PROVE kept[k] \in Messages
      OBVIOUS
    <3>1. relay.history[k] \in HostFrames
      BY <1>3
    <3>2. [t |-> "frame", frame |-> relay.history[k]] \in Messages
      BY <3>1 DEF Messages
    <3>3. kept[k] = [t |-> "frame", frame |-> relay.history[k]]
      BY <2>1
    <3> HIDE DEF kept
    <3> QED BY <3>2, <3>3
  <2>3. kept = [k \in 1..h |-> FrameMessage(relay.history[k])]
    BY <1>3
  <2> HIDE DEF kept
  <2>4. kept \in [1..h -> Messages]
    BY <2>2, <2>3
  <2>5. kept \in Seq(Messages) /\ Len(kept) = h
    BY <1>3, <2>4
  <2> QED BY <2>1, <2>5
<1>5. /\ told \in Seq(Messages) /\ Len(told) \in {0, 1}
      /\ \A k \in 1..Len(told) : told[k] = [t |-> "unavailable"]
  <2>1. [t |-> "unavailable"] \in Messages
    BY DEF Messages
  <2> QED BY <2>1
<1>6. init \in Messages /\ <<init>> \in Seq(Messages) /\ Len(<<init>>) = 1
      /\ <<init>>[1] = init /\ init.t = "init"
  <2>1. init \in Messages
    BY <1>2 DEF Messages, Inits
  <2> HIDE DEF init
  <2>2. init.t = "init"
    BY DEF init
  <2> QED BY <2>1, <2>2
<1> HIDE DEF init, told, kept
<1>7. /\ <<init>> \o told \in Seq(Messages) /\ Len(<<init>> \o told) = n /\ n \in Nat
      /\ n >= 1
      /\ (<<init>> \o told)[1] = init
      /\ \A i \in 2..n : (<<init>> \o told)[i] = [t |-> "unavailable"]
  <2>1. /\ <<init>> \o told \in Seq(Messages)
        /\ Len(<<init>> \o told) = 1 + Len(told)
        /\ \A i \in 1..(1 + Len(told)) : (<<init>> \o told)[i] =
             IF i <= 1 THEN <<init>>[i] ELSE told[i - 1]
    BY <1>5, <1>6, ConcatProperties
  <2>2. Len(told) \in Nat
    BY <1>5
  <2>3. \A i \in 2..n : i - 1 \in 1..Len(told) /\ ~(i <= 1) /\ i \in 1..n
    BY <2>2
  <2> QED BY <1>5, <1>6, <2>1, <2>2, <2>3
<1> HIDE DEF n, h
<1>8. /\ inbox' \in Seq(Messages) /\ Len(inbox') = n + h
      /\ DOMAIN inbox' = 1..(n + h)
      /\ inbox'[1] = init
      /\ \A i \in 2..n : inbox'[i] = [t |-> "unavailable"]
      /\ \A k \in 1..h : /\ n + k \in 1..(n + h)
                         /\ inbox'[n + k] = [t |-> "frame", frame |-> relay.history[k]]
  <2>1. /\ inbox' \in Seq(Messages) /\ Len(inbox') = n + h
        /\ \A i \in 1..(n + h) : inbox'[i] =
             IF i <= n THEN (<<init>> \o told)[i] ELSE kept[i - n]
    BY <1>1, <1>4, <1>7, ConcatProperties
  <2>2. DOMAIN inbox' = 1..(n + h)
    BY <2>1, LenProperties
  <2>3. \A k \in 1..h : n + k \in 1..(n + h) /\ ~(n + k <= n) /\ (n + k) - n = k
    BY <1>3, <1>7
  <2>4. 1 \in 1..(n + h) /\ 1 <= n /\ \A i \in 2..n : i \in 1..(n + h) /\ i <= n
    BY <1>3, <1>7
  <2>5. inbox'[1] = init /\ \A i \in 2..n : inbox'[i] = [t |-> "unavailable"]
    BY <1>7, <2>1, <2>4
  <2>6. \A k \in 1..h : inbox'[n + k] = kept[k]
    BY <2>1, <2>3
  <2> QED BY <1>4, <2>1, <2>2, <2>3, <2>5, <2>6
<1>9. \A i \in DOMAIN inbox' :
        \/ i = 1 /\ inbox'[i].t = "init"
        \/ inbox'[i].t = "unavailable"
        \/ \E k \in 1..h : i = n + k /\ inbox'[i] = [t |-> "frame", frame |-> relay.history[k]]
  <2> SUFFICES ASSUME NEW i \in 1..(n + h)
               PROVE  \/ i = 1 /\ inbox'[i].t = "init"
                      \/ inbox'[i].t = "unavailable"
                      \/ \E k \in 1..h : /\ i = n + k
                                         /\ inbox'[i] = [t |-> "frame",
                                                         frame |-> relay.history[k]]
    BY <1>8
  <2>1. CASE i = 1
    BY <1>6, <1>8, <2>1
  <2>2. CASE i \in 2..n
    BY <1>8, <2>2
  <2>3. CASE i > n
    <3>1. i - n \in 1..h /\ i = n + (i - n)
      BY <1>3, <1>7, <2>3
    <3> QED BY <1>8, <3>1
  <2>4. i = 1 \/ i \in 2..n \/ i > n
    BY <1>3, <1>7
  <2> QED BY <2>1, <2>2, <2>3, <2>4
<1>10. ~Inited /\ ~Mine
  BY <1>1 DEF PathInv, Script
<1>11. /\ page' \in Pages /\ page'.link = "open" /\ page'.socket = page.socket
       /\ page'.initialized = page.initialized
       /\ page'.failed = page.failed /\ page'.error = page.error
       /\ page'.allow = page.allow /\ page'.authenticated = page.authenticated
  BY <1>1, <1>2 DEF Pages
<1>12. ~Inited' /\ ~Mine' /\ ~Pending'
  BY <1>1, <1>10, <1>11 DEF Inited, Mine, Pending
<1>13. PageTypes'
  BY <1>1, <1>8, <1>11 DEF PathInv, PageTypes
<1>14. Script' /\ Locked'
  BY <1>1, <1>10, <1>11, <1>12 DEF PathInv, Script, Locked
<1>15. Greeted'
  <2>1. inbox' # <<>> /\ inbox'[1].t = "init"
    BY <1>3, <1>6, <1>7, <1>8
  <2>2. \A i \in DOMAIN inbox' : inbox'[i].t = "init" => i = 1
    BY <1>9
  <2> QED BY <1>12, <2>1, <2>2 DEF Greeted
<1>16. Flow'
  <2>1. InboxFlows'
    <3> SUFFICES ASSUME NEW i \in DOMAIN inbox', NEW q \in Int,
                        inbox'[i].t = "frame", ~IsSnapshot(inbox'[i].frame),
                        q = Number(inbox'[i].frame) - 1
                 PROVE  Reaches(q, i)'
      BY DEF InboxFlows
    <3>1. PICK k \in 1..h : /\ i = n + k
                            /\ inbox'[i] = [t |-> "frame", frame |-> relay.history[k]]
      BY <1>9
    <3>2. ~IsSnapshot(relay.history[k]) /\ q = Number(relay.history[k]) - 1
      BY <3>1
    <3>3. k # 1
      <4>1. h >= 1 /\ relay.history # <<>>
        BY <1>3 DEF h
      <4> QED BY <3>2, <4>1 DEF PathInv, Chain
    <3>4. k - 1 \in 1..(h - 1) /\ k - 1 \in 1..h /\ (k - 1) + 1 = k
      BY <1>3, <3>3
    <3>5. Number(relay.history[k]) = Number(relay.history[k - 1]) + 1
      BY <3>2, <3>4 DEF PathInv, Chain, Consecutive, h
    <3>6. Number(relay.history[k - 1]) \in Nat
      BY <1>3, <3>4, HostFrameIs
    <3>7. q <= Number(relay.history[k - 1])
      BY <3>2, <3>5, <3>6
    <3>8. inbox'[n + (k - 1)] = [t |-> "frame", frame |-> relay.history[k - 1]]
      BY <1>8, <3>4
    <3>9. n + (k - 1) \in 1..(i - 1)
      BY <1>7, <3>1, <3>4
    <3> QED BY <3>7, <3>8, <3>9 DEF Reaches
  <2>2. HistoryFlows'
    <3> SUFFICES ASSUME relay.history # <<>>, NEW q \in Int, NEW i \in Nat,
                        q = Number(Last(relay.history)), i = Len(inbox') + 1
                 PROVE  Reaches(q, i)'
      BY <1>1 DEF HistoryFlows
    <3>1. h \in 1..h
      BY <1>2, <1>3, EmptySeq DEF h
    <3>2. inbox'[n + h] = [t |-> "frame", frame |-> relay.history[h]]
      BY <1>8, <3>1
    <3>3. n + h \in 1..(i - 1)
      BY <1>3, <1>7, <1>8
    <3>4. Number(relay.history[h]) \in Nat /\ q = Number(relay.history[h])
      BY <1>3, <3>1, HostFrameIs DEF Last, h
    <3> QED BY <3>2, <3>3, <3>4 DEF Reaches
  <2> QED BY <1>12, <2>1, <2>2 DEF Flow, OpeningFlows
<1> QED BY <1>1, <1>13, <1>14, <1>15, <1>16, RelayStill DEF PathInv

-----------------------------------------------------------------------------
(* The steps of the relay and the host. *)

\* What is broadcast comes after all the rest.
LEMMA BroadcastKeeps ==
  ASSUME PathInv, NEW m \in Messages, m.t # "init", Broadcast(<<m>>),
         UNCHANGED <<page, cipher, receiving, inputs, typed>>
  PROVE  /\ PageTypes' /\ Script' /\ Locked' /\ Greeted'
         /\ \A q \in Int, i \in 1..(Len(inbox) + 1) : Reaches(q, i) => Reaches(q, i)'
         /\ page.link # "open" => UNCHANGED inbox
         /\ page.link = "open" =>
              /\ Len(inbox) \in Nat /\ Len(inbox') = Len(inbox) + 1
              /\ DOMAIN inbox = 1..Len(inbox) /\ DOMAIN inbox' = 1..(Len(inbox) + 1)
              /\ \A i \in 1..Len(inbox) : inbox'[i] = inbox[i]
              /\ inbox'[Len(inbox) + 1] = m
<1>1. inbox \in Seq(Messages)
  BY DEF PathInv, PageTypes
<1>2. inbox' = IF page.link = "open" THEN Append(inbox, m) ELSE inbox
  BY <1>1, AppendIsConcat DEF Broadcast
<1>3. page.link = "open" =>
        /\ Len(inbox) \in Nat /\ Len(inbox') = Len(inbox) + 1 /\ inbox' \in Seq(Messages)
        /\ DOMAIN inbox = 1..Len(inbox) /\ DOMAIN inbox' = 1..(Len(inbox) + 1)
        /\ \A i \in 1..Len(inbox) : inbox'[i] = inbox[i]
        /\ inbox'[Len(inbox) + 1] = m /\ inbox' # <<>>
  BY <1>1, <1>2, Appended
<1>4. Inited' = Inited /\ Mine' = Mine /\ Pending' = Pending
  BY DEF Inited, Mine, Pending
<1>5. PageTypes'
  BY <1>1, <1>2, <1>3 DEF PathInv, PageTypes
<1>6. Script' /\ Locked'
  BY <1>2, <1>4 DEF PathInv, Script, Locked
<1>7. Greeted'
  <2>1. CASE page.link # "open"
    BY <1>2, <1>4, <2>1 DEF PathInv, Greeted
  <2>2. CASE page.link = "open"
    <3>1. \A i \in DOMAIN inbox' : inbox'[i].t = "init" => i = 1 /\ ~Inited /\ ~Pending
      BY <1>3, <2>2 DEF PathInv, Greeted
    <3>2. ~Inited /\ ~Pending => inbox'[1].t = "init"
      <4> SUFFICES ASSUME ~Inited, ~Pending PROVE inbox'[1].t = "init"
        OBVIOUS
      <4>1. inbox # <<>> /\ inbox[1].t = "init"
        BY <2>2 DEF PathInv, Greeted
      <4>2. 1 \in 1..Len(inbox)
        BY <1>1, <4>1, EmptySeq
      <4> QED BY <1>3, <2>2, <4>1, <4>2
    <3> QED BY <1>3, <1>4, <2>2, <3>1, <3>2 DEF Greeted
  <2> QED BY <2>1, <2>2
<1>8. ASSUME NEW q \in Int, NEW i \in 1..(Len(inbox) + 1), Reaches(q, i)
      PROVE  Reaches(q, i)'
  <2>1. ASSUME NEW j \in 1..(i - 1), inbox[j].t = "frame", q <= Number(inbox[j].frame)
        PROVE  Reaches(q, i)'
    <3>1. j \in 1..Len(inbox)
      <4>1. Len(inbox) \in Nat
        BY <1>1
      <4> QED BY <4>1
    <3>2. inbox'[j] = inbox[j]
      BY <1>2, <1>3, <3>1
    <3> QED BY <2>1, <3>2 DEF Reaches
  <2> QED BY <1>8, <2>1 DEF Reaches, Inited, Mine
<1> QED BY <1>2, <1>3, <1>5, <1>6, <1>7, <1>8

\* Only Feed makes the relay keep another last frame.
LEMMA ControlFlows ==
  ASSUME PathInv, NEW m \in Messages, m.t \notin {"init", "frame"}, Broadcast(<<m>>),
         UNCHANGED <<page, cipher, receiving, inputs, typed>>,
         relay'.history = relay.history
  PROVE  PageTypes' /\ Script' /\ Locked' /\ Greeted' /\ Flow'
<1>1. /\ PageTypes' /\ Script' /\ Locked' /\ Greeted'
      /\ \A q \in Int, i \in 1..(Len(inbox) + 1) : Reaches(q, i) => Reaches(q, i)'
      /\ page.link # "open" => UNCHANGED inbox
      /\ page.link = "open" =>
           /\ Len(inbox) \in Nat /\ Len(inbox') = Len(inbox) + 1
           /\ DOMAIN inbox = 1..Len(inbox) /\ DOMAIN inbox' = 1..(Len(inbox) + 1)
           /\ \A i \in 1..Len(inbox) : inbox'[i] = inbox[i]
           /\ inbox'[Len(inbox) + 1] = m
  BY BroadcastKeeps
<1>2. inbox \in Seq(Messages)
  BY DEF PathInv, PageTypes
<1>3. /\ Len(inbox) \in Nat /\ DOMAIN inbox = 1..Len(inbox)
      /\ \A i \in DOMAIN inbox : i \in 1..(Len(inbox) + 1)
  <2>1. Len(inbox) \in Nat /\ DOMAIN inbox = 1..Len(inbox)
    BY <1>2, LenProperties
  <2> QED BY <2>1
<1>4. InboxFlows'
  <2> SUFFICES ASSUME NEW i \in DOMAIN inbox', NEW q \in Int,
                      inbox'[i].t = "frame", ~IsSnapshot(inbox'[i].frame),
                      q = Number(inbox'[i].frame) - 1
               PROVE  Reaches(q, i)'
    BY DEF InboxFlows
  <2>1. i \in DOMAIN inbox /\ inbox'[i] = inbox[i]
    BY <1>1, <1>3
  <2>2. Reaches(q, i)
    BY <2>1 DEF PathInv, Flow, InboxFlows
  <2> QED BY <1>1, <1>3, <2>1, <2>2
<1>5. HistoryFlows'
  <2> SUFFICES ASSUME page.link = "open", relay.history # <<>>, NEW q \in Int, NEW i \in Nat,
                      q = Number(Last(relay.history)), i = Len(inbox') + 1
               PROVE  Reaches(q, i)'
    BY DEF HistoryFlows
  <2>1. PICK k \in Nat : k = Len(inbox) + 1
    BY <1>3
  <2>2. Reaches(q, k)
    BY <2>1 DEF PathInv, Flow, HistoryFlows
  <2>3. Reaches(q, k)'
    BY <1>1, <1>3, <2>1, <2>2
  <2>4. k <= i
    BY <1>1, <1>3, <2>1
  <2> QED BY <2>3, <2>4 DEF Reaches
<1>6. OpeningFlows'
  BY DEF PathInv, Flow, OpeningFlows, Mine
<1> QED BY <1>1, <1>4, <1>5, <1>6 DEF Flow

\* A connection that takes the session has sent nothing yet.
LEMMA ResumeKeeps == \A n \in ConnIds : PathInv /\ Resume(n) => PathInv'
<1> SUFFICES ASSUME NEW n \in ConnIds, PathInv, Resume(n) PROVE PathInv'
  OBVIOUS
<1>1. /\ handler[n] = "none" /\ n <= host.conn
      /\ handler' = [handler EXCEPT ![n] = "pumping"]
      /\ relay' = [relay EXCEPT !.holder = n, !.live = TRUE, !.input = n]
      /\ Broadcast(<<StatusOf(TRUE)>>)
      /\ UNCHANGED <<page, cipher, receiving, inputs, typed, wire, host>>
  BY DEF Resume, pageVars, hostVars
<1>2. /\ relay \in Relays /\ handler \in [ConnIds -> {"none", "pumping", "gone"}]
      /\ host.conn \in ConnIds
  BY DEF PathInv, RelayTypes
<1>3. /\ relay' \in Relays /\ relay'.holder = n /\ relay'.history = relay.history
  BY <1>1, <1>2 DEF Relays
<1>4. StatusOf(TRUE) \in Messages /\ StatusOf(TRUE).t = "status"
  BY DEF StatusOf, Messages
<1>5. PageTypes' /\ Script' /\ Locked' /\ Greeted' /\ Flow'
  BY <1>1, <1>3, <1>4, ControlFlows
<1>6. RelayTypes'
  BY <1>1, <1>2, <1>3 DEF PathInv, RelayTypes
<1>7. Links'
  <2>1. \A k \in ConnIds : k \in Nat
    BY DEF ConnIds
  <2> QED BY <1>1, <1>2, <1>3, <2>1 DEF PathInv, Links
<1>8. Chain'
  <2>1. wire[n] = <<>> /\ Consecutive(<<>>)
    BY <1>1 DEF PathInv, Links, Consecutive
  <2>2. host.phase = "up" => n # host.conn
    BY <1>1 DEF PathInv, Links
  <2> QED BY <1>1, <1>3, <2>1, <2>2 DEF PathInv, Chain
<1> QED BY <1>5, <1>6, <1>7, <1>8 DEF PathInv

\* What a connection that goes has not brought yet is lost.
LEMMA HandlerEndsKeeps == \A n \in ConnIds : PathInv /\ HandlerEnds(n) => PathInv'
<1> SUFFICES ASSUME NEW n \in ConnIds, PathInv, HandlerEnds(n) PROVE PathInv'
  OBVIOUS
<1>1. /\ handler[n] = "pumping"
      /\ handler' = [handler EXCEPT ![n] = "gone"]
      /\ wire' = [wire EXCEPT ![n] = <<>>]
      /\ \/ /\ relay' = [relay EXCEPT !.live = FALSE, !.input = 0]
            /\ Broadcast(<<StatusOf(FALSE)>>)
         \/ UNCHANGED <<relay, inbox>>
      /\ UNCHANGED <<page, cipher, receiving, inputs, typed, host>>
  BY DEF HandlerEnds, pageVars, hostVars
<1>2. /\ relay \in Relays /\ handler \in [ConnIds -> {"none", "pumping", "gone"}]
      /\ wire \in [ConnIds -> Seq(HostFrames)] /\ host.conn \in ConnIds
      /\ relay.holder \in ConnIds
  BY DEF PathInv, RelayTypes, Relays
<1>3. /\ relay' \in Relays /\ relay'.holder = relay.holder
      /\ relay'.history = relay.history
  BY <1>1, <1>2 DEF Relays
<1>4. PageTypes' /\ Script' /\ Locked' /\ Greeted' /\ Flow'
  <2>1. CASE Broadcast(<<StatusOf(FALSE)>>)
    <3>1. StatusOf(FALSE) \in Messages /\ StatusOf(FALSE).t = "status"
      BY DEF StatusOf, Messages
    <3> QED BY <1>1, <1>3, <2>1, <3>1, ControlFlows
  <2>2. CASE UNCHANGED <<relay, inbox>>
    BY <1>1, <2>2 DEF PathInv, PageTypes, Script, Locked, Greeted, Flow, InboxFlows,
       OpeningFlows, HistoryFlows, Reaches, Inited, Mine, Pending
  <2> QED BY <1>1, <2>1, <2>2
<1>5. RelayTypes'
  BY <1>1, <1>2, <1>3 DEF PathInv, RelayTypes
<1>6. Links'
  <2>1. \A k \in ConnIds : k # n => handler'[k] = handler[k] /\ wire'[k] = wire[k]
    BY <1>1, <1>2
  <2>2. handler'[n] = "gone" /\ wire'[n] = <<>>
    BY <1>1, <1>2
  <2> QED BY <1>1, <1>2, <1>3, <2>1, <2>2 DEF PathInv, Links
<1>7. Chain'
  <2>1. Consecutive(<<>>)
    BY DEF Consecutive
  <2>2. CASE relay.holder = n
    <3>1. wire'[relay'.holder] = <<>> /\ handler'[relay'.holder] = "gone"
      BY <1>1, <1>2, <1>3, <2>2
    <3> QED BY <1>1, <1>3, <2>1, <3>1 DEF PathInv, Chain
  <2>3. CASE relay.holder # n
    <3>1. /\ wire'[relay.holder] = wire[relay.holder]
          /\ handler'[relay.holder] = handler[relay.holder]
      BY <1>1, <1>2, <2>3
    <3> QED BY <1>1, <1>3, <3>1 DEF PathInv, Chain
  <2> QED BY <2>2, <2>3
<1> QED BY <1>4, <1>5, <1>6, <1>7 DEF PathInv

\* A frame goes from the wire to the history and to the page.
LEMMA FeedKeeps == \A n \in ConnIds : PathInv /\ Feed(n) => PathInv'
<1> SUFFICES ASSUME NEW n \in ConnIds, PathInv, Feed(n) PROVE PathInv'
  OBVIOUS
<1> DEFINE frame == Head(wire[n])
           snapshot == frame.header.kind = SNAPSHOT
           old == IF snapshot THEN <<>> ELSE relay.history
           m == FrameMessage(frame)
<1>1. /\ handler[n] = "pumping" /\ relay.holder = n /\ wire[n] # <<>>
      /\ wire' = [wire EXCEPT ![n] = Tail(@)]
      /\ relay' = [relay EXCEPT !.ready = @ \/ snapshot, !.history = Append(old, frame)]
      /\ Broadcast(<<m>>)
      /\ UNCHANGED <<page, cipher, receiving, inputs, typed, handler, host>>
  BY DEF Feed, pageVars, hostVars
<1>2. /\ relay \in Relays /\ relay.history \in Seq(HostFrames)
      /\ handler \in [ConnIds -> {"none", "pumping", "gone"}]
      /\ wire \in [ConnIds -> Seq(HostFrames)] /\ host.conn \in ConnIds
  BY DEF PathInv, RelayTypes, Relays
<1>3. /\ frame \in HostFrames /\ frame = wire[n][1] /\ Tail(wire[n]) \in Seq(HostFrames)
      /\ Tail(wire[n]) # <<>> => Last(Tail(wire[n])) = Last(wire[n])
      /\ Tail(wire[n]) = <<>> => Last(wire[n]) = frame
      /\ snapshot <=> IsSnapshot(frame)
  <2>1. wire[n] \in Seq(HostFrames) /\ wire[n] # <<>>
    BY <1>1, <1>2
  <2>2. /\ Head(wire[n]) = wire[n][1] /\ wire[n][1] \in HostFrames
        /\ Tail(wire[n]) \in Seq(HostFrames)
        /\ Tail(wire[n]) # <<>> => Last(Tail(wire[n])) = Last(wire[n])
        /\ Tail(wire[n]) = <<>> <=> Len(wire[n]) = 1
    BY <2>1, Tailed
  <2>3. Tail(wire[n]) = <<>> => Last(wire[n]) = wire[n][1]
    BY <2>2 DEF Last
  <2>4. snapshot <=> IsSnapshot(frame)
    BY DEF IsSnapshot
  <2> QED BY <2>2, <2>3, <2>4
<1>4. /\ Consecutive(wire[n]) /\ Consecutive(relay.history)
      /\ ~snapshot => /\ relay.history # <<>>
                      /\ Number(frame) = Number(Last(relay.history)) + 1
      /\ relay.history # <<>> => IsSnapshot(relay.history[1])
  BY <1>1, <1>3 DEF PathInv, Chain
<1>5. /\ Consecutive(Tail(wire[n]))
      /\ Tail(wire[n]) # <<>> =>
           IsSnapshot(Tail(wire[n])[1]) \/ Number(Tail(wire[n])[1]) = Number(frame) + 1
  BY <1>1, <1>2, <1>4, ConsecutiveTail
<1>6. old \in Seq(HostFrames)
  BY <1>2
<1>7. /\ m \in Messages /\ m.t = "frame" /\ m.frame = frame
  <2> HIDE DEF frame
  <2> QED BY <1>3 DEF FrameMessage, Messages
<1> HIDE DEF frame, snapshot, m
<1>8. /\ Append(old, frame) \in Seq(HostFrames) /\ Append(old, frame) # <<>>
      /\ Last(Append(old, frame)) = frame
      /\ old # <<>> => Append(old, frame)[1] = old[1]
      /\ old = <<>> => Append(old, frame)[1] = frame
  <2> HIDE DEF old
  <2>1. /\ Append(old, frame) \in Seq(HostFrames) /\ Append(old, frame) # <<>>
        /\ Last(Append(old, frame)) = frame
        /\ \A i \in 1..Len(old) : Append(old, frame)[i] = old[i]
        /\ Append(old, frame)[Len(old) + 1] = frame
    BY <1>3, <1>6, Appended
  <2>2. old # <<>> => 1 \in 1..Len(old)
    BY <1>6, EmptySeq
  <2>3. old = <<>> => Len(old) + 1 = 1
    BY <1>6, EmptySeq
  <2> QED BY <2>1, <2>2, <2>3
<1>9. Consecutive(Append(old, frame)) /\ IsSnapshot(Append(old, frame)[1])
  <2>1. Consecutive(<<>>)
    BY DEF Consecutive
  <2>2. Consecutive(old) /\ (old # <<>> => IsSnapshot(old[1]) /\ ~snapshot)
        /\ (~snapshot => old = relay.history)
    BY <1>4, <2>1
  <2>3. old = <<>> => snapshot
    BY <1>4
  <2>4. Consecutive(Append(old, frame))
    BY <1>3, <1>4, <1>6, <2>2, ConsecutiveAppend
  <2> QED BY <1>3, <1>8, <2>2, <2>3, <2>4
<1> HIDE DEF old
<1>10. /\ relay' \in Relays /\ relay'.holder = n
       /\ relay'.history = Append(old, frame)
  <2>1. (relay.ready \/ snapshot) \in BOOLEAN
    OBVIOUS
  <2> QED BY <1>1, <1>2, <1>8, <2>1 DEF Relays
<1>11. /\ wire' \in [ConnIds -> Seq(HostFrames)] /\ wire'[n] = Tail(wire[n])
       /\ \A k \in ConnIds : k # n => wire'[k] = wire[k]
  BY <1>1, <1>2, <1>3
<1>12. RelayTypes'
  BY <1>1, <1>2, <1>10, <1>11 DEF PathInv, RelayTypes
<1>13. Links'
  BY <1>1, <1>10, <1>11 DEF PathInv, Links
<1>14. Chain'
  <2>1. /\ Number(Last(wire[n])) = host.sequence - 1
        \/ ~(host.phase = "up" /\ relay.holder = host.conn /\ handler[host.conn] = "pumping")
    BY <1>1 DEF PathInv, Chain
  <2>2. host.phase = "up" /\ relay'.holder = host.conn /\ handler'[host.conn] = "pumping" =>
          IF wire'[host.conn] # <<>>
          THEN Number(Last(wire'[host.conn])) = host.sequence - 1
          ELSE /\ relay'.history # <<>>
               /\ Number(Last(relay'.history)) = host.sequence - 1
    BY <1>1, <1>3, <1>8, <1>10, <1>11, <2>1
  <2>3. wire'[n] # <<>> =>
          IsSnapshot(wire'[n][1]) \/ Number(wire'[n][1]) = Number(Last(relay'.history)) + 1
    BY <1>5, <1>8, <1>10, <1>11
  <2> QED BY <1>1, <1>5, <1>8, <1>9, <1>10, <1>11, <2>2, <2>3 DEF Chain
<1>15. /\ PageTypes' /\ Script' /\ Locked' /\ Greeted'
       /\ \A q \in Int, i \in 1..(Len(inbox) + 1) : Reaches(q, i) => Reaches(q, i)'
       /\ page.link # "open" => UNCHANGED inbox
       /\ page.link = "open" =>
            /\ Len(inbox) \in Nat /\ Len(inbox') = Len(inbox) + 1
            /\ DOMAIN inbox = 1..Len(inbox) /\ DOMAIN inbox' = 1..(Len(inbox) + 1)
            /\ \A i \in 1..Len(inbox) : inbox'[i] = inbox[i]
            /\ inbox'[Len(inbox) + 1] = m
  BY <1>1, <1>7, BroadcastKeeps
<1>16. inbox \in Seq(Messages) /\ Len(inbox) \in Nat /\ DOMAIN inbox = 1..Len(inbox)
       /\ \A i \in DOMAIN inbox : i \in 1..(Len(inbox) + 1)
  <2>1. inbox \in Seq(Messages)
    BY DEF PathInv, PageTypes
  <2>2. Len(inbox) \in Nat /\ DOMAIN inbox = 1..Len(inbox)
    BY <2>1, LenProperties
  <2> QED BY <2>1, <2>2
<1>17. InboxFlows'
  <2> SUFFICES ASSUME NEW i \in DOMAIN inbox', NEW q \in Int,
                      inbox'[i].t = "frame", ~IsSnapshot(inbox'[i].frame),
                      q = Number(inbox'[i].frame) - 1
               PROVE  Reaches(q, i)'
    BY DEF InboxFlows
  <2>1. CASE i \in DOMAIN inbox /\ inbox'[i] = inbox[i]
    <3>1. Reaches(q, i)
      BY <2>1 DEF PathInv, Flow, InboxFlows
    <3> QED BY <1>15, <1>16, <2>1, <3>1
  <2>2. CASE i = Len(inbox) + 1 /\ page.link = "open" /\ inbox'[i] = m
    <3>1. ~snapshot /\ q = Number(frame) - 1
      BY <1>3, <1>7, <2>2
    <3>2. /\ relay.history # <<>> /\ Number(Last(relay.history)) \in Nat
      <4>1. relay.history # <<>>
        BY <1>4, <3>1
      <4>2. Len(relay.history) \in 1..Len(relay.history)
        BY <1>2, <4>1, EmptySeq
      <4>3. Last(relay.history) \in HostFrames
        BY <1>2, <4>2, ElementOfSeq DEF Last
      <4> QED BY <4>1, <4>3, HostFrameIs
    <3>3. q = Number(Last(relay.history))
      BY <1>3, <1>4, <3>1, <3>2, HostFrameIs
    <3>4. i \in Nat
      BY <1>16, <2>2
    <3>5. Reaches(q, i)
      BY <2>2, <3>2, <3>3, <3>4 DEF PathInv, Flow, HistoryFlows
    <3>6. i \in 1..(Len(inbox) + 1)
      BY <1>16, <2>2
    <3> QED BY <1>15, <3>5, <3>6
  <2> QED BY <1>15, <1>16, <2>1, <2>2
<1>18. HistoryFlows'
  <2> SUFFICES ASSUME page.link = "open", NEW q \in Int, NEW i \in Nat,
                      q = Number(Last(relay'.history)), i = Len(inbox') + 1
               PROVE  Reaches(q, i)'
    BY <1>1 DEF HistoryFlows
  <2>1. q = Number(frame) /\ q \in Nat
    BY <1>3, <1>8, <1>10, HostFrameIs
  <2>2. Len(inbox) + 1 \in 1..(i - 1)
    BY <1>15, <1>16
  <2> QED BY <1>7, <1>15, <2>1, <2>2 DEF Reaches
<1>19. OpeningFlows'
  BY <1>1 DEF PathInv, Flow, OpeningFlows, Mine
<1> QED BY <1>12, <1>13, <1>14, <1>15, <1>17, <1>18, <1>19 DEF PathInv, Flow

\* The page and its socket are where they were, and the relay keeps what it kept.
LEMMA PageStill ==
  ASSUME PathInv, UNCHANGED <<page, cipher, receiving, inbox, inputs, typed, relay>>
  PROVE  PageTypes' /\ Script' /\ Locked' /\ Greeted' /\ Flow'
BY DEF PathInv, PageTypes, Script, Locked, Greeted, Flow, InboxFlows, OpeningFlows,
       HistoryFlows, Reaches, Inited, Mine, Pending

LEMMA DialKeepsPath == IInv /\ PathInv /\ Dial => PathInv'
<1> SUFFICES ASSUME IInv, PathInv, Dial PROVE PathInv'
  OBVIOUS
<1>1. /\ host.conn < MaxConns
      /\ host' = [host EXCEPT !.phase = "dialing", !.conn = @ + 1]
      /\ UNCHANGED <<page, cipher, receiving, inbox, inputs, typed, relay, handler, wire>>
  BY DEF Dial, pageVars, relayVars
<1>2. host.conn \in ConnIds
  BY DEF PathInv, RelayTypes
<1>3. /\ host'.phase = "dialing" /\ host'.conn = host.conn + 1
      /\ host.conn + 1 \in ConnIds
  BY <1>1, <1>2, PathAssumption DEF IInv, Shape, ConnIds
<1>4. RelayTypes'
  BY <1>1, <1>3 DEF PathInv, RelayTypes
<1>5. Links'
  <2>1. \A n \in ConnIds : n > host.conn + 1 => n > host.conn
    BY <1>2 DEF ConnIds
  <2> QED BY <1>1, <1>3, <2>1 DEF PathInv, Links
<1>6. Chain'
  BY <1>1, <1>3 DEF PathInv, Chain
<1> QED BY <1>1, <1>4, <1>5, <1>6, PageStill DEF PathInv

LEMMA DisconnectKeepsPath == IInv /\ PathInv /\ Disconnect => PathInv'
<1> SUFFICES ASSUME IInv, PathInv, Disconnect PROVE PathInv'
  OBVIOUS
<1>1. /\ host' = [host EXCEPT !.phase = "down"]
      /\ UNCHANGED <<page, cipher, receiving, inbox, inputs, typed, relay, handler, wire>>
  BY DEF Disconnect, pageVars, relayVars
<1>2. host'.phase = "down" /\ host'.conn = host.conn
  BY <1>1 DEF IInv, Shape
<1>3. RelayTypes' /\ Links' /\ Chain'
  BY <1>1, <1>2 DEF PathInv, RelayTypes, Links, Chain
<1> QED BY <1>1, <1>3, PageStill DEF PathInv

LEMMA ReceiveKeepsPath == IInv /\ PathInv /\ Receive => PathInv'
<1> SUFFICES ASSUME IInv, PathInv, Receive PROVE PathInv'
  OBVIOUS
<1>1. /\ \/ host' = [host EXCEPT !.receiver = Received(@, Head(channel).frame)]
         \/ UNCHANGED host
      /\ UNCHANGED <<page, cipher, receiving, inbox, inputs, typed, relay, handler, wire>>
  BY DEF Receive, pageVars, relayVars
<1>2. /\ host'.phase = host.phase /\ host'.conn = host.conn
      /\ host'.sequence = host.sequence
  BY <1>1 DEF IInv, Shape
<1>3. RelayTypes' /\ Links' /\ Chain'
  BY <1>1, <1>2 DEF PathInv, RelayTypes, Links, Chain
<1> QED BY <1>1, <1>3, PageStill DEF PathInv

\* A frame that is sent continues what the connection has sent before it; the first
\* is a snapshot.
LEMMA EmitKeepsPath ==
  ASSUME IInv, PathInv, NEW plain \in Plains, NEW receiver,
         Emit(plain, "up", receiver), handler[host.conn] # "none",
         host.phase = "dialing" => plain.t = "snapshot",
         host.phase \in {"dialing", "up"}
  PROVE  PathInv'
<1> DEFINE frame == OutputFrame(Master, SessionId, HostWriter, host.sequence, plain)
           c == host.conn
<1>1. /\ wire' = [wire EXCEPT ![c] = IF handler[c] = "gone" THEN @ ELSE Append(@, frame)]
      /\ host' = [host EXCEPT !.phase = "up", !.sequence = @ + 1, !.receiver = receiver]
      /\ UNCHANGED <<page, cipher, receiving, inbox, inputs, typed, relay, handler>>
  BY DEF Emit, pageVars, relayVars
<1>2. /\ c \in ConnIds /\ wire \in [ConnIds -> Seq(HostFrames)] /\ host.sequence \in Nat
      /\ handler[c] \in {"pumping", "gone"} /\ wire[c] \in Seq(HostFrames)
  BY DEF PathInv, RelayTypes, IInv, Shape
<1>3. /\ frame \in HostFrames /\ Number(frame) = host.sequence
      /\ plain.t = "snapshot" => IsSnapshot(frame)
  BY <1>2, HostSeals
<1>4. /\ host'.phase = "up" /\ host'.conn = c /\ host'.sequence = host.sequence + 1
  BY <1>1 DEF IInv, Shape
<1> HIDE DEF frame
<1>5. /\ wire' \in [ConnIds -> Seq(HostFrames)]
      /\ wire'[c] = IF handler[c] = "gone" THEN wire[c] ELSE Append(wire[c], frame)
      /\ \A n \in ConnIds : n # c => wire'[n] = wire[n]
  <2>1. Append(wire[c], frame) \in Seq(HostFrames)
    BY <1>2, <1>3, Appended
  <2> QED BY <1>1, <1>2, <2>1
<1>6. RelayTypes'
  BY <1>1, <1>2, <1>4, <1>5 DEF PathInv, RelayTypes
<1>7. Links'
  BY <1>1, <1>2, <1>4, <1>5 DEF PathInv, Links
<1>8. Chain'
  <2>1. relay.holder \in ConnIds
    BY DEF PathInv, RelayTypes, Relays
  <2>2. CASE relay.holder # c
    <3>1. wire'[relay.holder] = wire[relay.holder]
      BY <1>5, <2>1, <2>2
    <3> QED BY <1>1, <1>4, <2>2, <3>1 DEF PathInv, Chain
  <2>3. CASE handler[c] = "gone"
    <3>1. wire'[relay.holder] = wire[relay.holder]
      BY <1>5, <2>1, <2>3
    <3> QED BY <1>1, <1>4, <2>3, <3>1 DEF PathInv, Chain
  <2>4. CASE relay.holder = c /\ handler[c] = "pumping"
    <3>1. /\ wire'[c] = Append(wire[c], frame) /\ wire'[c] # <<>>
          /\ Last(wire'[c]) = frame
          /\ \A i \in 1..Len(wire[c]) : wire'[c][i] = wire[c][i]
          /\ wire'[c][Len(wire[c]) + 1] = frame
      BY <1>2, <1>3, <1>5, <2>4, Appended
    <3>2. /\ Consecutive(wire[c])
          /\ wire[c] # <<>> =>
               \/ IsSnapshot(wire[c][1])
               \/ /\ relay.history # <<>>
                  /\ Number(wire[c][1]) = Number(Last(relay.history)) + 1
      BY <2>4 DEF PathInv, Chain
    <3>3. ~IsSnapshot(frame) =>
            IF wire[c] # <<>> THEN Number(frame) = Number(Last(wire[c])) + 1
            ELSE relay.history # <<>> /\ Number(frame) = Number(Last(relay.history)) + 1
      <4> SUFFICES ASSUME ~IsSnapshot(frame)
                   PROVE  IF wire[c] # <<>> THEN Number(frame) = Number(Last(wire[c])) + 1
                          ELSE /\ relay.history # <<>>
                               /\ Number(frame) = Number(Last(relay.history)) + 1
        OBVIOUS
      <4>1. host.phase = "up"
        BY <1>3
      <4> QED BY <1>2, <1>3, <2>4, <4>1 DEF PathInv, Chain
    <3>4. Consecutive(wire'[c])
      BY <1>2, <1>3, <3>1, <3>2, <3>3, ConsecutiveAppend
    <3>5. \/ IsSnapshot(wire'[c][1])
          \/ /\ relay.history # <<>>
             /\ Number(wire'[c][1]) = Number(Last(relay.history)) + 1
      <4>1. CASE wire[c] = <<>>
        <5>1. Len(wire[c]) + 1 = 1
          BY <4>1
        <5>2. wire'[c][1] = frame
          BY <3>1, <5>1
        <5> QED BY <3>3, <4>1, <5>2
      <4>2. CASE wire[c] # <<>>
        <5>1. 1 \in 1..Len(wire[c])
          BY <1>2, <4>2, EmptySeq
        <5> QED BY <3>1, <3>2, <4>2, <5>1
      <4> QED BY <4>1, <4>2
    <3>6. Number(Last(wire'[c])) = host'.sequence - 1
      BY <1>2, <1>3, <1>4, <3>1
    <3> QED BY <1>1, <1>4, <2>4, <3>1, <3>4, <3>5, <3>6 DEF PathInv, Chain
  <2> QED BY <1>2, <2>2, <2>3, <2>4
<1> QED BY <1>1, <1>6, <1>7, <1>8, PageStill DEF PathInv

LEMMA ConnectedKeepsPath == IInv /\ PathInv /\ Connected => PathInv'
<1> SUFFICES ASSUME IInv, PathInv, Connected PROVE PathInv'
  OBVIOUS
<1> DEFINE receiver == NewReceiver(host.conn)
           plain == SnapshotOf(receiver)
<1>1. /\ host.phase = "dialing" /\ handler[host.conn] # "none"
      /\ Emit(plain, "up", receiver)
  BY DEF Connected
<1>2. receiver.epoch = host.conn
  BY DEF NewReceiver
<1>3. plain \in Plains /\ plain.t = "snapshot"
  <2> HIDE DEF receiver
  <2>1. host.conn \in ConnIds
    BY DEF PathInv, RelayTypes
  <2> QED BY <1>2, <2>1 DEF SnapshotOf, Plains
<1> HIDE DEF receiver, plain
<1> QED BY <1>1, <1>3, EmitKeepsPath

LEMMA PumpKeepsPath == IInv /\ PathInv /\ Pump => PathInv'
<1> SUFFICES ASSUME IInv, PathInv, Pump PROVE PathInv'
  OBVIOUS
<1>1. PICK plain \in {SnapshotOf(host.receiver), [t |-> "output"]} :
        Emit(plain, "up", host.receiver)
  BY DEF Pump
<1>2. host.phase = "up"
  BY DEF Pump
<1>3. host.receiver.epoch \in ConnIds
  <2>1. host.receiver.epoch = host.conn
    BY <1>2 DEF IInv, Epochs
  <2> QED BY <2>1 DEF PathInv, RelayTypes
<1>4. plain \in Plains
  BY <1>3 DEF SnapshotOf, Plains
<1>5. handler[host.conn] # "none"
  BY <1>2 DEF PathInv, Links
<1> QED BY <1>1, <1>2, <1>4, <1>5, EmitKeepsPath

\* Every step keeps the invariant of the page.
LEMMA PathStep == IInv /\ PathInv /\ [Next]_vars => PathInv'
<1> SUFFICES ASSUME IInv, PathInv, [Next]_vars PROVE PathInv'
  OBVIOUS
<1>1. CASE SocketCloses \/ Reconnect \/ Reload \/ Join
  BY <1>1, SocketClosesKeeps, ReconnectKeeps, ReloadKeeps, JoinKeeps
<1>2. CASE Receiving
  BY <1>2, ReceiveInitKeeps, CreatedKeeps, ReceiveStatusKeeps, ReceiveUnavailableKeeps,
     ReceiveFrameKeeps, DecryptedKeeps DEF Receiving
<1>3. CASE Type
  BY <1>3, TypeKeeps
<1>4. CASE Sending
  <2>1. CASE InputBegins
    BY <2>1, InputBeginsKeeps
  <2>2. CASE InputEnds
    BY <2>2, PageStill, RelayStill
       DEF InputEnds, PathInv, relayVars, hostVars
  <2> QED BY <1>4, <2>1, <2>2 DEF Sending
<1>5. CASE \E n \in ConnIds : Resume(n) \/ Feed(n) \/ HandlerEnds(n)
  BY <1>5, ResumeKeeps, FeedKeeps, HandlerEndsKeeps
<1>6. CASE \E s \in Sockets : SendInput(s) \/ LoseOutbox(s)
  BY <1>6, PageStill, RelayStill
     DEF SendInput, LoseOutbox, PathInv, pageVars, relayVars, hostVars
<1>7. CASE Repeat
  BY <1>7, PageStill, RelayStill DEF Repeat, PathInv, pageVars, relayVars
<1>8. CASE Dial \/ Connected \/ Pump \/ Disconnect \/ Receive
  BY <1>8, DialKeepsPath, ConnectedKeepsPath, PumpKeepsPath, DisconnectKeepsPath,
     ReceiveKeepsPath
<1>9. CASE UNCHANGED vars
  BY <1>9, PageStill, RelayStill DEF vars, PathInv, pageVars, relayVars, hostVars
<1> QED BY <1>1, <1>2, <1>3, <1>4, <1>5, <1>6, <1>7, <1>8, <1>9 DEF Next

LEMMA Invariance == Spec => [](IInv /\ PathInv)
<1>1. Init => IInv /\ PathInv
  BY InitHolds, PathInit
<1>2. (IInv /\ PathInv) /\ [Next]_vars => (IInv /\ PathInv)'
  BY StepKeeps, PathStep
<1> QED BY <1>1, <1>2, PTL DEF Spec

\* With a host and a relay that keep to the protocol nothing that a page receives locks
\* it, whatever breaks while it awaits: it locks itself only when its counter is
\* exhausted or it is given more to type than a frame holds.
THEOREM PageNeverLocks == Spec => []NeverLocked
<1>1. IInv /\ PathInv => NeverLocked
  BY DEF PathInv, Locked, NeverLocked
<1> QED BY <1>1, Invariance, PTL


-----------------------------------------------------------------------------
(* The invariant of the keystrokes. *)

Entries == [frame : KeyFrames, again : BOOLEAN]

KeyTypes ==
  /\ sealing \in Seq([job : Jobs, frame : KeyFrames])
  /\ outbox \in [Sockets -> Seq(KeyFrames)]
  /\ sent \in [Sockets -> Seq(KeyFrames)]
  /\ channel \in Seq(Entries)
  /\ ran \in Seq([frame : KeyFrames, conn : ConnIds])

By(f, s) == f.header.writer = Writer(s)

\* The host has answered an ack on connection n.
Known(n) == n <= host.conn /\ (n = host.conn => host.phase # "dialing")

Tells(f) == IsSnapshot(f) => Known(Epoch(f))

\* An epoch is told by the connection it names, and nothing is sealed for another.
ToldByHost ==
  /\ \A n \in ConnIds : \A i \in DOMAIN wire[n] : Tells(wire[n][i])
  /\ \A i \in DOMAIN relay.history : Tells(relay.history[i])

ToldToPage ==
  /\ \A i \in DOMAIN inbox : inbox[i].t = "frame" => Tells(inbox[i].frame)
  /\ receiving.step = "open" => Tells(receiving.frame)
  /\ cipher # NoCipher /\ cipher.epoch # None => Known(cipher.epoch)

ToldByKeys ==
  /\ sealing # <<>> => Known(Epoch(sealing[1].frame))
  /\ \A s \in Sockets : \A i \in DOMAIN sent[s] : Known(Epoch(sent[s][i]))

Told == ToldByHost /\ ToldToPage /\ ToldByKeys

\* The socket is to come, or its cipher is still to be made.
Unsealed(s) ==
  \/ s > page.socket
  \/ s = page.socket /\ ~Inited
  \/ receiving.step = "create" /\ receiving.socket = s

\* The numbers of each socket rise, and the cipher is ahead of them.
Counted ==
  /\ \A s \in Sockets : \A i \in DOMAIN sent[s] : By(sent[s][i], s)
  /\ \A s \in Sockets : \A i, j \in DOMAIN sent[s] :
       i < j => Number(sent[s][i]) < Number(sent[s][j])
  /\ \A s \in Sockets : Unsealed(s) => sent[s] = <<>>
  /\ \A s \in Sockets : cipher.writer = Writer(s) =>
       \A i \in DOMAIN sent[s] : Number(sent[s][i]) < cipher.sent

\* What is sealed comes next, and its number is not given to another.
SealedNext(job, frame) ==
  /\ By(frame, job.socket) /\ ~Unsealed(job.socket)
  /\ cipher.writer = Writer(job.socket) => Number(frame) < cipher.sent
  /\ \A i \in DOMAIN sent[job.socket] : Number(sent[job.socket][i]) < Number(frame)

SealedWaits == sealing # <<>> => SealedNext(sealing[1].job, sealing[1].frame)

IsSent(f) == \E s \in Sockets : \E k \in DOMAIN sent[s] : f = sent[s][k]

\* Nothing is on its way, and nothing has run, that was not sent.
OnlySent ==
  /\ \A s \in Sockets : \A i \in DOMAIN outbox[s] :
       IsSent(outbox[s][i]) /\ By(outbox[s][i], s)
  /\ \A i \in DOMAIN channel : IsSent(channel[i].frame)
  /\ \A i \in DOMAIN ran : IsSent(ran[i].frame)

\* The i-th frame on the host's connection is the first of its kind, and of socket s.
Arrives(i, s) == ~channel[i].again /\ By(channel[i].frame, s)

\* What has run, what is about to arrive and what the socket still has are in order.
OutboxRises ==
  \A s \in Sockets : \A i, j \in DOMAIN outbox[s] :
    i < j => Number(outbox[s][i]) < Number(outbox[s][j])

ChannelRises ==
  \A s \in Sockets : \A i, j \in DOMAIN channel :
    i < j /\ Arrives(i, s) /\ Arrives(j, s)
      => Number(channel[i].frame) < Number(channel[j].frame)

ChannelFirst ==
  \A s \in Sockets : \A i \in DOMAIN channel, j \in DOMAIN outbox[s] :
    Arrives(i, s) => Number(channel[i].frame) < Number(outbox[s][j])

RanFirst ==
  \A s \in Sockets : \A h \in DOMAIN ran : By(ran[h].frame, s) =>
    /\ \A j \in DOMAIN outbox[s] : Number(ran[h].frame) < Number(outbox[s][j])
    /\ \A i \in DOMAIN channel :
         Arrives(i, s) => Number(ran[h].frame) < Number(channel[i].frame)

Queue == OutboxRises /\ ChannelRises /\ ChannelFirst /\ RanFirst

\* What the relay repeats has run.
Repeats ==
  \A i \in DOMAIN channel :
    channel[i].again => \E h \in DOMAIN ran : ran[h].frame = channel[i].frame

\* The newest number of a writer is that of a frame taken on this connection.
Attained ==
  host.phase = "up" =>
    \A w \in DOMAIN host.receiver.writers : \E h \in DOMAIN ran :
      /\ ran[h].conn = host.conn /\ ran[h].frame.header.writer = w
      /\ Number(ran[h].frame) = host.receiver.writers[w]

\* The host has no room for the writer; the relay has no way to the host; the socket
\* sends nothing any more: none of them ends while the connection lasts.
Shut(s) ==
  /\ Writer(s) \notin DOMAIN host.receiver.writers
  /\ ~(Cardinality(DOMAIN host.receiver.writers) < MaxWriters)

Cut == ~(relay.live /\ relay.input = host.conn)

Dead(s) == s < page.socket \/ (s = page.socket /\ page.link = "closed")

\* Frame x is lost, and with it all that follows it on this connection.
Lost(s, x) ==
  /\ \A i \in DOMAIN channel : Arrives(i, s) => Number(channel[i].frame) < Number(x)
  /\ Cut \/ (outbox[s] = <<>> /\ Dead(s))

\* Where a frame of socket s is that was sealed for the host's connection.
Place(s, x) ==
  \/ \E h \in DOMAIN ran : ran[h] = [frame |-> x, conn |-> host.conn]
  \/ \E i \in DOMAIN channel : channel[i] = [frame |-> x, again |-> FALSE]
  \/ \E i \in DOMAIN outbox[s] : outbox[s][i] = x
  \/ Shut(s)
  \/ Lost(s, x)

Placed ==
  host.phase = "up" =>
    \A s \in Sockets : \A k \in DOMAIN sent[s] :
      Epoch(sent[s][k]) = host.conn => Place(s, sent[s][k])

KeyInv ==
  /\ KeyTypes /\ Told /\ Counted /\ SealedWaits /\ OnlySent /\ Queue
  /\ Repeats /\ Attained /\ Placed /\ RunsAPrefix

-----------------------------------------------------------------------------
(* Frames of keystrokes. *)

LEMMA KeyFrameIs ==
  ASSUME NEW f \in KeyFrames
  PROVE  /\ Number(f) \in Nat /\ Number(f) = f.header.sequence
         /\ Epoch(f) \in ConnIds /\ Epoch(f) = f.body.plain.epoch
         /\ \E s \in Sockets : By(f, s)
         /\ OpensInput(Master, SessionId, f) /\ f.body.plain.t = "input"
<1>1. PICK s \in Sockets, q \in Nat, n \in ConnIds, k \in Nat : f = KeyFrame(s, q, n, k)
  BY DEF KeyFrames
<1> DEFINE header == [kind |-> INPUT, writer |-> Writer(s), sequence |-> q]
           plain == [t |-> "input", epoch |-> n, key |-> k]
<1>2. /\ f.header = header /\ f.body.plain = plain
      /\ f.body.key = Derive(Master, SessionId, Writer(s), TRUE)
      /\ f.body.nonce = Nonce(header)
      /\ f.body.aad = AdditionalData(SessionId, header)
  BY <1>1 DEF KeyFrame, Seal, Header
<1>3. /\ header.kind = INPUT /\ header.writer = Writer(s) /\ header.sequence = q
      /\ plain.t = "input" /\ plain.epoch = n
  OBVIOUS
<1> HIDE DEF header, plain
<1>4. OpensInput(Master, SessionId, f)
  BY <1>2, <1>3 DEF OpensInput, Parses, Decrypts
<1> QED BY <1>2, <1>3, <1>4 DEF Number, Epoch, By

\* A writer belongs to one socket.
LEMMA OneWriter ==
  ASSUME NEW f, NEW s \in Sockets, NEW r \in Sockets, By(f, s), By(f, r)
  PROVE  s = r
BY DEF By, Writer

\* What a cipher of the page seals.
LEMMA KeySeals ==
  ASSUME NEW c \in Ciphers, NEW s \in Sockets, c.writer = Writer(s), c.epoch # None,
         NEW k \in Nat
  PROVE  /\ InputFrame(c, k) \in KeyFrames /\ By(InputFrame(c, k), s)
         /\ Number(InputFrame(c, k)) = c.sent /\ Epoch(InputFrame(c, k)) = c.epoch
<1>1. /\ c.master = Master /\ c.session = SessionId /\ c.sent \in Nat /\ c.epoch \in ConnIds
  BY CipherAssumption DEF Ciphers
<1>2. InputFrame(c, k) = KeyFrame(s, c.sent, c.epoch, k)
  BY <1>1 DEF InputFrame, KeyFrame
<1>3. InputFrame(c, k) \in KeyFrames
  BY <1>1, <1>2 DEF KeyFrames
<1>4. /\ InputFrame(c, k).header = [kind |-> INPUT, writer |-> Writer(s), sequence |-> c.sent]
      /\ InputFrame(c, k).body.plain = [t |-> "input", epoch |-> c.epoch, key |-> k]
  BY <1>2 DEF KeyFrame, Seal, Header
<1>5. /\ InputFrame(c, k).header.sequence = c.sent /\ InputFrame(c, k).header.writer = Writer(s)
      /\ InputFrame(c, k).body.plain.epoch = c.epoch
  BY <1>4
<1> QED BY <1>3, <1>5 DEF Number, Epoch, By

\* The frames of the sequences are frames of keystrokes.
LEMMA KeyPlaces ==
  ASSUME KeyTypes
  PROVE  /\ \A s \in Sockets : /\ sent[s] \in Seq(KeyFrames) /\ outbox[s] \in Seq(KeyFrames)
                               /\ \A i \in DOMAIN sent[s] : sent[s][i] \in KeyFrames
                               /\ \A i \in DOMAIN outbox[s] : outbox[s][i] \in KeyFrames
         /\ \A i \in DOMAIN channel : channel[i] \in Entries /\ channel[i].frame \in KeyFrames
         /\ \A i \in DOMAIN ran : ran[i].frame \in KeyFrames /\ ran[i].conn \in ConnIds
<1>1. /\ outbox \in [Sockets -> Seq(KeyFrames)] /\ sent \in [Sockets -> Seq(KeyFrames)]
      /\ channel \in Seq(Entries) /\ ran \in Seq([frame : KeyFrames, conn : ConnIds])
  BY DEF KeyTypes
<1>2. \A s \in Sockets : sent[s] \in Seq(KeyFrames) /\ outbox[s] \in Seq(KeyFrames)
  BY <1>1
<1>3. ASSUME NEW s \in Sockets
      PROVE  /\ \A i \in DOMAIN sent[s] : sent[s][i] \in KeyFrames
             /\ \A i \in DOMAIN outbox[s] : outbox[s][i] \in KeyFrames
  BY <1>2, ElementOfSeq, LenProperties
<1>4. \A i \in DOMAIN channel : channel[i] \in Entries
  BY <1>1, ElementOfSeq, LenProperties
<1>5. \A i \in DOMAIN ran : ran[i] \in [frame : KeyFrames, conn : ConnIds]
  BY <1>1, ElementOfSeq, LenProperties
<1> QED BY <1>2, <1>3, <1>4, <1>5 DEF Entries

LEMMA KeyInit == Init => KeyInv
<1> SUFFICES ASSUME Init PROVE KeyInv
  OBVIOUS
<1>1. /\ sealing = <<>> /\ channel = <<>> /\ ran = <<>>
      /\ outbox = [s \in Sockets |-> <<>>] /\ sent = [s \in Sockets |-> <<>>]
      /\ \A s \in Sockets : sent[s] = <<>> /\ outbox[s] = <<>>
      /\ cipher = NoCipher /\ inbox = <<>> /\ receiving.step = "none"
      /\ relay.history = <<>> /\ \A n \in ConnIds : wire[n] = <<>>
      /\ host.phase = "dialing"
  BY DEF Init, Idle
<1>2. KeyTypes
  BY <1>1 DEF KeyTypes
<1>3. Told
  BY <1>1 DEF Told, ToldByHost, ToldToPage, ToldByKeys
<1>4. Counted /\ SealedWaits /\ OnlySent /\ Queue
  BY <1>1 DEF Counted, SealedWaits, OnlySent, Queue, OutboxRises, ChannelRises,
              ChannelFirst, RanFirst
<1>5. Repeats /\ Attained /\ Placed /\ RunsAPrefix
  BY <1>1 DEF Repeats, Attained, Placed, RunsAPrefix
<1> QED BY <1>2, <1>3, <1>4, <1>5 DEF KeyInv

-----------------------------------------------------------------------------
(* Epochs. *)

\* Connections do not come back.
LEMMA KnownStays ==
  ASSUME IInv, PathInv, [Next]_vars, NEW n \in ConnIds, Known(n)
  PROVE  Known(n)'
<1>1. host.conn \in Nat /\ n \in Nat /\ host.conn + 1 \in Nat
  BY DEF IInv, Shape, ConnIds
<1>2. \/ UNCHANGED host
      \/ host' = [host EXCEPT !.phase = "dialing", !.conn = @ + 1]
      \/ host' = [host EXCEPT !.phase = "down"]
      \/ \E r, q : host' = [host EXCEPT !.phase = "up", !.sequence = q, !.receiver = r]
      \/ \E r : host' = [host EXCEPT !.receiver = r]
  <2> USE DEF pageVars, relayVars, hostVars, Unchanged
  <2>1. CASE SocketCloses \/ Reconnect \/ Reload \/ Join
    BY <2>1 DEF SocketCloses, Reconnect, Reload, Join
  <2>2. CASE Receiving
    <3>1. UNCHANGED host
      BY <2>2 DEF Receiving, ReceiveInit, Created, ReceiveStatus,
         ReceiveUnavailable, ReceiveFrame, Decrypted
    <3> QED BY <3>1
  <2>3. CASE Type \/ Sending
    BY <2>3 DEF Type, Sending, InputBegins, InputEnds
  <2>4. CASE \E c \in ConnIds : Resume(c) \/ Feed(c) \/ HandlerEnds(c)
    BY <2>4 DEF Resume, Feed, HandlerEnds
  <2>5. CASE \E s \in Sockets : SendInput(s) \/ LoseOutbox(s)
    BY <2>5 DEF SendInput, LoseOutbox
  <2>6. CASE Repeat \/ Dial \/ Disconnect
    BY <2>6 DEF Repeat, Dial, Disconnect
  <2>7. CASE Connected \/ Pump
    BY <2>7 DEF Connected, Pump, Emit
  <2>8. CASE Receive
    BY <2>8 DEF Receive
  <2>9. CASE UNCHANGED vars
    BY <2>9 DEF vars
  <2> QED BY <2>1, <2>2, <2>3, <2>4, <2>5, <2>6, <2>7, <2>8, <2>9 DEF Next
<1>3. CASE UNCHANGED host
  BY <1>3 DEF Known
<1>4. CASE host' = [host EXCEPT !.phase = "dialing", !.conn = @ + 1]
  <2>1. host'.conn = host.conn + 1
    BY <1>4 DEF IInv, Shape
  <2> QED BY <1>1, <2>1 DEF Known
<1>5. CASE host' = [host EXCEPT !.phase = "down"]
  <2>1. host'.conn = host.conn /\ host'.phase = "down"
    BY <1>5 DEF IInv, Shape
  <2> QED BY <2>1 DEF Known
<1>6. CASE \E r, q : host' = [host EXCEPT !.phase = "up", !.sequence = q, !.receiver = r]
  <2>1. host'.conn = host.conn /\ host'.phase = "up"
    BY <1>6 DEF IInv, Shape
  <2> QED BY <2>1 DEF Known
<1>7. CASE \E r : host' = [host EXCEPT !.receiver = r]
  <2>1. host'.conn = host.conn /\ host'.phase = host.phase
    BY <1>7 DEF IInv, Shape
  <2> QED BY <2>1 DEF Known
<1> QED BY <1>2, <1>3, <1>4, <1>5, <1>6, <1>7

\* A frame that told an epoch the host knows still does.
LEMMA TellsStays ==
  ASSUME IInv, PathInv, [Next]_vars, NEW f \in HostFrames, Tells(f)
  PROVE  Tells(f)'
<1>1. IsSnapshot(f) => Epoch(f) \in ConnIds
  BY HostFrameIs
<1> QED BY <1>1, KnownStays DEF Tells, IsSnapshot, Epoch

\* The frames of the sequences are frames of the host.
LEMMA HostPlaces ==
  ASSUME PathInv
  PROVE  /\ \A n \in ConnIds : /\ wire[n] \in Seq(HostFrames)
                               /\ \A i \in DOMAIN wire[n] : wire[n][i] \in HostFrames
         /\ relay.history \in Seq(HostFrames)
         /\ \A i \in DOMAIN relay.history : relay.history[i] \in HostFrames
         /\ inbox \in Seq(Messages)
         /\ \A i \in DOMAIN inbox : /\ inbox[i] \in Messages
                                    /\ inbox[i].t = "frame" => inbox[i].frame \in HostFrames
<1>1. /\ wire \in [ConnIds -> Seq(HostFrames)] /\ relay \in Relays /\ inbox \in Seq(Messages)
  BY DEF PathInv, PageTypes, RelayTypes
<1>2. \A n \in ConnIds : wire[n] \in Seq(HostFrames)
  BY <1>1
<1>3. ASSUME NEW n \in ConnIds
      PROVE  \A i \in DOMAIN wire[n] : wire[n][i] \in HostFrames
  BY <1>2, ElementOfSeq, LenProperties
<1>4. relay.history \in Seq(HostFrames)
  BY <1>1 DEF Relays
<1>5. \A i \in DOMAIN relay.history : relay.history[i] \in HostFrames
  BY <1>4, ElementOfSeq, LenProperties
<1>6. \A i \in DOMAIN inbox : inbox[i] \in Messages
  BY <1>1, ElementOfSeq, LenProperties
<1>7. \A m \in Messages : m.t = "frame" => m.frame \in HostFrames
  BY DEF Messages, Inits
<1> QED BY <1>1, <1>2, <1>3, <1>4, <1>5, <1>6, <1>7

\* What is on the wire and in the history when both are as they were.
LEMMA ToldByHostStill ==
  ASSUME IInv, PathInv, ToldByHost, [Next]_vars, UNCHANGED wire,
         relay'.history = relay.history
  PROVE  ToldByHost'
<1>1. ASSUME NEW n \in ConnIds, NEW i \in DOMAIN wire[n] PROVE Tells(wire[n][i])'
  <2>1. wire[n][i] \in HostFrames /\ Tells(wire[n][i])
    BY HostPlaces DEF ToldByHost
  <2>2. ASSUME NEW f \in HostFrames, Tells(f) PROVE Tells(f)'
    BY <2>2, TellsStays
  <2> QED BY <2>1, <2>2 DEF Tells
<1>2. ASSUME NEW i \in DOMAIN relay.history PROVE Tells(relay.history[i])'
  <2>1. relay.history[i] \in HostFrames /\ Tells(relay.history[i])
    BY HostPlaces DEF ToldByHost
  <2> QED BY <2>1, TellsStays
<1> QED BY <1>1, <1>2 DEF ToldByHost

\* The host tells the epoch of the connection it has, once it is up.
LEMMA EmitTells ==
  ASSUME IInv, PathInv, ToldByHost, [Next]_vars, NEW plain \in Plains, NEW receiver,
         Emit(plain, "up", receiver),
         plain.t = "snapshot" => plain.epoch = host.conn
  PROVE  ToldByHost'
<1> DEFINE frame == OutputFrame(Master, SessionId, HostWriter, host.sequence, plain)
           c == host.conn
<1>1. /\ wire' = [wire EXCEPT ![c] = IF handler[c] = "gone" THEN @ ELSE Append(@, frame)]
      /\ host' = [host EXCEPT !.phase = "up", !.sequence = @ + 1, !.receiver = receiver]
      /\ relay' = relay
  BY DEF Emit, relayVars
<1>2. /\ c \in ConnIds /\ wire \in [ConnIds -> Seq(HostFrames)] /\ host.sequence \in Nat
      /\ wire[c] \in Seq(HostFrames)
  BY DEF PathInv, RelayTypes, IInv, Shape
<1>3. /\ frame \in HostFrames /\ (IsSnapshot(frame) => Epoch(frame) = c)
  <2>1. frame.body.plain = plain
    BY DEF OutputFrame, Seal
  <2>2. frame \in HostFrames
    BY <1>2, HostSeals
  <2>3. IsSnapshot(frame) => plain.t = "snapshot"
    BY <2>1, <2>2, HostFrameIs
  <2> HIDE DEF frame
  <2> QED BY <2>1, <2>2, <2>3 DEF Epoch
<1> HIDE DEF frame
<1>4. host'.phase = "up" /\ host'.conn = c
  BY <1>1 DEF IInv, Shape
<1>5. ASSUME NEW f \in HostFrames, f = frame PROVE Tells(f)'
  BY <1>2, <1>3, <1>4, <1>5 DEF Tells, Known, IsSnapshot, Epoch, ConnIds
<1>6. ASSUME NEW f \in HostFrames, Tells(f) PROVE Tells(f)'
  BY <1>6, TellsStays
<1>7. ASSUME NEW n \in ConnIds, NEW i \in DOMAIN wire'[n],
             NEW f \in HostFrames, f = wire'[n][i]
      PROVE  Tells(f)'
  <2>1. CASE wire'[n] = wire[n]
    <3>1. Tells(f)
      BY <1>7, <2>1 DEF ToldByHost
    <3> QED BY <3>1, <1>6
  <2>2. CASE n = c /\ wire'[n] = Append(wire[c], frame)
    <3>1. i \in 1..(Len(wire[c]) + 1) /\ Len(wire[c]) \in Nat
      BY <1>2, <1>3, <2>2, Appended
    <3>2. CASE i \in 1..Len(wire[c])
      <4>1. f = wire[c][i] /\ i \in DOMAIN wire[c]
        BY <1>2, <1>3, <1>7, <2>2, <3>2, Appended
      <4>2. Tells(f)
        BY <1>2, <4>1 DEF ToldByHost
      <4> QED BY <4>2, <1>6
    <3>3. CASE i = Len(wire[c]) + 1
      <4>1. f = frame
        BY <1>2, <1>3, <1>7, <2>2, <3>3, Appended
      <4> QED BY <4>1, <1>5
    <3> QED BY <3>1, <3>2, <3>3
  <2> QED BY <1>1, <1>2, <2>1, <2>2
<1>8. \A n \in ConnIds : \A i \in DOMAIN wire'[n] : wire'[n][i] \in HostFrames
  <2>1. wire' \in [ConnIds -> Seq(HostFrames)]
    <3>1. Append(wire[c], frame) \in Seq(HostFrames)
      BY <1>2, <1>3, Appended
    <3> QED BY <1>1, <1>2, <3>1
  <2>2. \A n \in ConnIds : wire'[n] \in Seq(HostFrames)
    BY <2>1
  <2> QED BY <2>2, ElementOfSeq, LenProperties
<1>9. \A i \in DOMAIN relay.history : relay.history[i] \in HostFrames /\ Tells(relay.history[i])
  BY HostPlaces DEF ToldByHost
<1>10. ASSUME NEW n \in ConnIds, NEW i \in DOMAIN wire'[n] PROVE Tells(wire[n][i])'
  BY <1>7, <1>8 DEF Tells
<1> QED BY <1>1, <1>6, <1>9, <1>10 DEF ToldByHost, Tells

LEMMA ToldByHostStep ==
  ASSUME IInv, PathInv, ToldByHost, [Next]_vars
  PROVE  ToldByHost'
<1> USE DEF pageVars, relayVars, hostVars, Unchanged
<1>1. CASE SocketCloses \/ Reconnect \/ Reload \/ Join
  BY <1>1, ToldByHostStill DEF SocketCloses, Reconnect, Reload, Join
<1>2. CASE Receiving
  <2>1. UNCHANGED <<wire, relay>>
    BY <1>2 DEF Receiving, ReceiveInit, Created, ReceiveStatus,
       ReceiveUnavailable, ReceiveFrame, Decrypted
  <2> QED BY <2>1, ToldByHostStill
<1>3. CASE Type \/ Sending
  BY <1>3, ToldByHostStill DEF Type, Sending, InputBegins, InputEnds
<1>4. ASSUME NEW n \in ConnIds, Resume(n) PROVE ToldByHost'
  <2>1. UNCHANGED wire /\ relay' = [relay EXCEPT !.holder = n, !.live = TRUE, !.input = n]
    BY <1>4 DEF Resume
  <2>2. relay'.history = relay.history
    BY <2>1 DEF PathInv, RelayTypes, Relays
  <2> QED BY <2>1, <2>2, ToldByHostStill
<1>5. ASSUME NEW n \in ConnIds, HandlerEnds(n) PROVE ToldByHost'
  <2>1. /\ wire' = [wire EXCEPT ![n] = <<>>]
        /\ relay' = [relay EXCEPT !.live = FALSE, !.input = 0] \/ relay' = relay
    BY <1>5 DEF HandlerEnds
  <2>2. relay'.history = relay.history
    BY <2>1 DEF PathInv, RelayTypes, Relays
  <2>3. \A c \in ConnIds : wire'[c] = IF c = n THEN <<>> ELSE wire[c]
    BY <2>1 DEF PathInv, RelayTypes
  <2>4. ASSUME NEW f \in HostFrames, Tells(f) PROVE Tells(f)'
    BY <2>4, TellsStays
  <2>5. ASSUME NEW c \in ConnIds, NEW i \in DOMAIN wire'[c] PROVE Tells(wire[c][i])'
    <3>1. wire'[c] = wire[c]
      BY <2>3, <2>5
    <3>2. wire[c][i] \in HostFrames /\ Tells(wire[c][i])
      BY <2>5, <3>1, HostPlaces DEF ToldByHost
    <3> QED BY <2>4, <3>1, <3>2 DEF Tells
  <2>6. ASSUME NEW i \in DOMAIN relay.history PROVE Tells(relay.history[i])'
    <3>1. relay.history[i] \in HostFrames /\ Tells(relay.history[i])
      BY HostPlaces DEF ToldByHost
    <3> QED BY <2>2, <2>4, <3>1 DEF Tells
  <2> QED BY <2>2, <2>5, <2>6 DEF ToldByHost
<1>6. ASSUME NEW n \in ConnIds, Feed(n) PROVE ToldByHost'
  <2> DEFINE frame == Head(wire[n])
             snapshot == frame.header.kind = SNAPSHOT
             old == IF snapshot THEN <<>> ELSE relay.history
  <2>1. /\ wire' = [wire EXCEPT ![n] = Tail(@)] /\ wire[n] # <<>>
        /\ relay' = [relay EXCEPT !.ready = @ \/ snapshot, !.history = Append(old, frame)]
    BY <1>6 DEF Feed
  <2>2. /\ wire[n] \in Seq(HostFrames) /\ relay.history \in Seq(HostFrames)
        /\ relay'.history = Append(old, frame)
        /\ \A c \in ConnIds : wire'[c] = IF c = n THEN Tail(wire[n]) ELSE wire[c]
    BY <2>1 DEF PathInv, RelayTypes, Relays
  <2>3. /\ frame = wire[n][1] /\ 1 \in DOMAIN wire[n] /\ frame \in HostFrames
        /\ \A i \in DOMAIN Tail(wire[n]) : /\ i + 1 \in DOMAIN wire[n]
                                           /\ Tail(wire[n])[i] = wire[n][i + 1]
    <3>1. /\ Head(wire[n]) = wire[n][1] /\ wire[n][1] \in HostFrames
          /\ Len(wire[n]) \in Nat /\ Len(wire[n]) >= 1 /\ DOMAIN wire[n] = 1..Len(wire[n])
          /\ DOMAIN Tail(wire[n]) = 1..(Len(wire[n]) - 1)
          /\ \A i \in 1..(Len(wire[n]) - 1) : Tail(wire[n])[i] = wire[n][i + 1]
      BY <2>1, <2>2, Tailed
    <3> QED BY <3>1
  <2>4. Tells(frame)
    BY <2>3 DEF ToldByHost
  <2>5. old \in Seq(HostFrames)
    BY <2>2
  <2>6. \A i \in DOMAIN old : old[i] \in HostFrames /\ Tells(old[i])
    BY HostPlaces DEF ToldByHost
  <2> HIDE DEF frame, snapshot, old
  <2>7. ASSUME NEW f \in HostFrames, Tells(f) PROVE Tells(f)'
    BY <2>7, TellsStays
  <2>8. ASSUME NEW c \in ConnIds, NEW i \in DOMAIN wire'[c] PROVE Tells(wire[c][i])'
    <3>1. wire'[c][i] \in HostFrames /\ Tells(wire'[c][i])
      BY <2>2, <2>3, <2>8, HostPlaces DEF ToldByHost
    <3> QED BY <2>7, <3>1 DEF Tells
  <2>9. ASSUME NEW i \in DOMAIN relay'.history PROVE Tells(relay.history[i])'
    <3>1. /\ i \in 1..(Len(old) + 1) /\ Len(old) \in Nat /\ DOMAIN old = 1..Len(old)
          /\ \A j \in 1..Len(old) : relay'.history[j] = old[j]
          /\ relay'.history[Len(old) + 1] = frame
      BY <2>2, <2>3, <2>5, <2>9, Appended
    <3>2. relay'.history[i] \in HostFrames /\ Tells(relay'.history[i])
      BY <2>3, <2>4, <2>6, <3>1
    <3> QED BY <2>7, <3>2 DEF Tells
  <2> QED BY <2>8, <2>9 DEF ToldByHost
<1>7. CASE \E s \in Sockets : SendInput(s) \/ LoseOutbox(s)
  BY <1>7, ToldByHostStill DEF SendInput, LoseOutbox
<1>8. CASE Repeat \/ Dial \/ Disconnect \/ Receive
  BY <1>8, ToldByHostStill DEF Repeat, Dial, Disconnect, Receive
<1>9. CASE Connected
  <2> DEFINE receiver == NewReceiver(host.conn)
             plain == SnapshotOf(receiver)
  <2>1. Emit(plain, "up", receiver) /\ receiver.epoch = host.conn
    BY <1>9 DEF Connected, NewReceiver
  <2>2. plain \in Plains /\ (plain.t = "snapshot" => plain.epoch = host.conn)
    <3> HIDE DEF receiver
    <3>1. host.conn \in ConnIds
      BY DEF PathInv, RelayTypes
    <3> QED BY <2>1, <3>1 DEF SnapshotOf, Plains
  <2> HIDE DEF receiver, plain
  <2> QED BY <2>1, <2>2, EmitTells
<1>10. CASE Pump
  <2>1. PICK plain \in {SnapshotOf(host.receiver), [t |-> "output"]} :
          Emit(plain, "up", host.receiver)
    BY <1>10 DEF Pump
  <2>2. host.receiver.epoch = host.conn /\ host.conn \in ConnIds
    BY <1>10 DEF Pump, IInv, Epochs, PathInv, RelayTypes
  <2>3. plain \in Plains /\ (plain.t = "snapshot" => plain.epoch = host.conn)
    BY <2>2 DEF SnapshotOf, Plains
  <2> QED BY <2>1, <2>3, EmitTells
<1>11. CASE UNCHANGED vars
  BY <1>11, ToldByHostStill DEF vars
<1> QED BY <1>1, <1>2, <1>3, <1>4, <1>5, <1>6, <1>7, <1>8, <1>9, <1>10, <1>11 DEF Next

\* The inbox and the cipher have nothing new.
LEMMA ToldToPageStill ==
  ASSUME IInv, PathInv, ToldToPage, [Next]_vars,
         \A i \in DOMAIN inbox' : inbox'[i].t = "frame" =>
           \/ \E j \in DOMAIN inbox : inbox'[i] = inbox[j]
           \/ \E f \in HostFrames : Tells(f) /\ inbox'[i].frame = f,
         receiving'.step = "open" =>
           \/ receiving' = receiving
           \/ \E f \in HostFrames : Tells(f) /\ receiving'.frame = f,
         cipher' # NoCipher /\ cipher'.epoch # None =>
           \/ cipher # NoCipher /\ cipher'.epoch = cipher.epoch
           \/ \E n \in ConnIds : Known(n) /\ cipher'.epoch = n
  PROVE  ToldToPage'
<1>1. ASSUME NEW f \in HostFrames, Tells(f) PROVE Tells(f)'
  BY <1>1, TellsStays
<1>2. ASSUME NEW n \in ConnIds, Known(n) PROVE Known(n)'
  BY <1>2, KnownStays
<1>3. ASSUME NEW i \in DOMAIN inbox', inbox'[i].t = "frame"
      PROVE  Tells(inbox[i].frame)'
  <2>1. CASE \E j \in DOMAIN inbox : inbox'[i] = inbox[j]
    <3>1. PICK j \in DOMAIN inbox : inbox'[i] = inbox[j]
      BY <2>1
    <3>2. inbox[j].frame \in HostFrames /\ Tells(inbox[j].frame)
      BY <1>3, <3>1, HostPlaces DEF ToldToPage
    <3> QED BY <1>1, <3>1, <3>2 DEF Tells
  <2>2. CASE \E f \in HostFrames : Tells(f) /\ inbox'[i].frame = f
    BY <1>1, <2>2 DEF Tells
  <2> QED BY <1>3, <2>1, <2>2
<1>4. ASSUME receiving'.step = "open" PROVE Tells(receiving.frame)'
  <2>1. CASE receiving' = receiving
    <3>1. receiving.frame \in HostFrames /\ Tells(receiving.frame)
      BY <1>4, <2>1 DEF ToldToPage, PathInv, PageTypes, Idle, Creating, Opening
    <3> QED BY <1>1, <2>1, <3>1 DEF Tells
  <2>2. CASE \E f \in HostFrames : Tells(f) /\ receiving'.frame = f
    BY <1>1, <2>2 DEF Tells
  <2> QED BY <1>4, <2>1, <2>2
<1>5. ASSUME cipher' # NoCipher, cipher'.epoch # None PROVE Known(cipher.epoch)'
  <2>1. CASE cipher # NoCipher /\ cipher'.epoch = cipher.epoch
    <3>1. cipher.epoch \in ConnIds /\ Known(cipher.epoch)
      BY <1>5, <2>1 DEF ToldToPage, PathInv, PageTypes, Ciphers
    <3> QED BY <1>2, <2>1, <3>1 DEF Known
  <2>2. CASE \E n \in ConnIds : Known(n) /\ cipher'.epoch = n
    BY <1>2, <2>2 DEF Known
  <2> QED BY <1>5, <2>1, <2>2
<1> QED BY <1>3, <1>4, <1>5 DEF ToldToPage

\* The inbox loses its first message.
LEMMA InboxTaken ==
  ASSUME PathInv, inbox # <<>>, inbox' = Tail(inbox)
  PROVE  /\ \A i \in DOMAIN inbox' : \E j \in DOMAIN inbox : inbox'[i] = inbox[j]
         /\ Head(inbox) = inbox[1] /\ 1 \in DOMAIN inbox
BY Taken

\* A message for the page is broadcast.
LEMMA InboxBroadcast ==
  ASSUME PathInv, NEW m \in Messages, Broadcast(<<m>>)
  PROVE  \A i \in DOMAIN inbox' : \/ \E j \in DOMAIN inbox : inbox'[i] = inbox[j]
                                  \/ inbox'[i] = m
<1>1. inbox \in Seq(Messages)
  BY DEF PathInv, PageTypes
<1>2. inbox' = IF page.link = "open" THEN Append(inbox, m) ELSE inbox
  BY <1>1, AppendIsConcat DEF Broadcast
<1>3. CASE page.link = "open"
  BY <1>1, <1>2, <1>3, Appended
<1> QED BY <1>2, <1>3

\* What a joining page gets of the history.
LEMMA InboxJoined ==
  ASSUME PathInv, ToldByHost, Join
  PROVE  \A i \in DOMAIN inbox' : inbox'[i].t = "frame" =>
           \E f \in HostFrames : Tells(f) /\ inbox'[i].frame = f
<1> DEFINE S == {m \in Messages : m.t = "frame" => Tells(m.frame)}
           init == [t |-> "init", live |-> relay.live]
           told == IF relay.ready THEN <<>> ELSE <<[t |-> "unavailable"]>>
           kept == [i \in DOMAIN relay.history |-> FrameMessage(relay.history[i])]
<1>1. inbox' = <<init>> \o told \o kept
  BY DEF Join
<1>2. relay \in Relays /\ relay.live \in BOOLEAN
  BY DEF PathInv, RelayTypes, Relays
<1>3. init \in S
  <2>1. init.t = "init" /\ init \in Messages
    BY <1>2 DEF Messages, Inits
  <2> QED BY <2>1
<1>4. told \in Seq(S)
  <2>1. [t |-> "unavailable"] \in S
    BY DEF Messages
  <2> HIDE DEF S
  <2> QED BY <2>1
<1>5. kept \in Seq(S)
  <2>1. /\ Len(relay.history) \in Nat /\ DOMAIN relay.history = 1..Len(relay.history)
        /\ \A i \in DOMAIN relay.history :
             relay.history[i] \in HostFrames /\ Tells(relay.history[i])
    BY HostPlaces, LenProperties DEF ToldByHost
  <2>2. ASSUME NEW i \in DOMAIN relay.history PROVE FrameMessage(relay.history[i]) \in S
    <3>1. /\ FrameMessage(relay.history[i]) \in Messages
          /\ FrameMessage(relay.history[i]).t = "frame"
          /\ FrameMessage(relay.history[i]).frame = relay.history[i]
      BY <2>1 DEF FrameMessage, Messages
    <3> QED BY <2>1, <3>1
  <2> HIDE DEF S
  <2>3. kept \in [1..Len(relay.history) -> S]
    BY <2>1, <2>2
  <2> QED BY <2>1, <2>3
<1> HIDE DEF S, init, told, kept
<1>6. inbox' \in Seq(S)
  BY <1>1, <1>3, <1>4, <1>5
<1>7. \A i \in DOMAIN inbox' : inbox'[i] \in S
  BY <1>6, ElementOfSeq, LenProperties
<1> QED BY <1>7 DEF S, Messages, Inits

LEMMA ToldToPageStep ==
  ASSUME IInv, PathInv, ToldByHost, ToldToPage, [Next]_vars
  PROVE  ToldToPage'
<1> USE DEF pageVars, relayVars, hostVars, Unchanged
<1>1. CASE SocketCloses
  BY <1>1, ToldToPageStill DEF SocketCloses
<1>2. CASE Reconnect
  <2>1. inbox' = <<>> /\ UNCHANGED <<receiving, cipher>>
    BY <1>2 DEF Reconnect
  <2> QED BY <2>1, ToldToPageStill
<1>3. CASE Reload
  <2>1. inbox' = <<>> /\ receiving'.step = "none" /\ cipher' = NoCipher
    BY <1>3 DEF Reload, Idle
  <2> QED BY <2>1, ToldToPageStill
<1>4. CASE Join
  <2>1. UNCHANGED <<receiving, cipher>>
    BY <1>4 DEF Join
  <2>2. \A i \in DOMAIN inbox' : inbox'[i].t = "frame" =>
          \E f \in HostFrames : Tells(f) /\ inbox'[i].frame = f
    BY <1>4, InboxJoined
  <2> QED BY <2>1, <2>2, ToldToPageStill
<1>5. CASE ReceiveInit
  <2>1. /\ inbox # <<>> /\ inbox' = Tail(inbox) /\ UNCHANGED cipher
        /\ receiving' = receiving \/ receiving'.step = "create"
    BY <1>5 DEF ReceiveInit, Message
  <2> QED BY <2>1, InboxTaken, ToldToPageStill
<1>6. CASE Created
  <2>1. /\ UNCHANGED inbox /\ receiving'.step = "none" /\ cipher'.epoch = None
    BY <1>6 DEF Created, Idle, NewCipher
  <2> QED BY <2>1, ToldToPageStill
<1>7. CASE ReceiveStatus \/ ReceiveUnavailable
  <2>1. inbox # <<>> /\ inbox' = Tail(inbox) /\ UNCHANGED <<cipher, receiving>>
    BY <1>7 DEF ReceiveStatus, ReceiveUnavailable, Message
  <2> QED BY <2>1, InboxTaken, ToldToPageStill
<1>8. CASE ReceiveFrame
  <2>1. /\ inbox # <<>> /\ inbox' = Tail(inbox) /\ UNCHANGED cipher
        /\ Head(inbox).t = "frame"
        /\ receiving' = receiving \/ receiving'.frame = Head(inbox).frame
    BY <1>8 DEF ReceiveFrame, Message
  <2>2. /\ Head(inbox) = inbox[1] /\ 1 \in DOMAIN inbox
        /\ \A i \in DOMAIN inbox' : \E j \in DOMAIN inbox : inbox'[i] = inbox[j]
    BY <2>1, InboxTaken
  <2>3. Head(inbox).frame \in HostFrames /\ Tells(Head(inbox).frame)
    BY <2>1, <2>2, HostPlaces DEF ToldToPage
  <2> QED BY <2>1, <2>2, <2>3, ToldToPageStill
<1>9. CASE Decrypted
  <2>1. /\ UNCHANGED inbox /\ receiving' = Idle /\ receiving.step = "open"
        /\ cipher' = cipher \/ cipher' = Opened(cipher, receiving.frame)
    BY <1>9 DEF Decrypted
  <2>2. /\ cipher \in Ciphers /\ cipher # NoCipher /\ receiving.frame \in HostFrames
        /\ Tells(receiving.frame)
    BY <2>1 DEF PathInv, PageTypes, Script, ToldToPage, Idle, Creating, Opening
  <2>3. ASSUME cipher' = Opened(cipher, receiving.frame), cipher'.epoch # cipher.epoch
        PROVE  \E n \in ConnIds : Known(n) /\ cipher'.epoch = n
    <3>1. IsSnapshot(receiving.frame) /\ cipher'.epoch = Epoch(receiving.frame)
      BY <2>2, <2>3 DEF Opened, Ciphers, IsSnapshot, Epoch
    <3>2. Epoch(receiving.frame) \in ConnIds /\ Known(Epoch(receiving.frame))
      BY <2>2, <3>1, HostFrameIs DEF Tells
    <3> QED BY <3>1, <3>2
  <2>4. receiving'.step = "none"
    BY <2>1 DEF Idle
  <2> QED BY <2>1, <2>2, <2>3, <2>4, ToldToPageStill
<1>10. CASE Type \/ InputEnds
  BY <1>10, ToldToPageStill DEF Type, InputEnds
<1>11. CASE InputBegins
  <2>1. /\ UNCHANGED <<inbox, receiving>>
        /\ cipher' = cipher \/ (MayInput(cipher) /\ cipher' = InputTaken(cipher))
    BY <1>11 DEF InputBegins
  <2>2. cipher' # NoCipher /\ cipher'.epoch # None =>
          cipher # NoCipher /\ cipher'.epoch = cipher.epoch
    <3>1. CASE cipher' = cipher
      BY <3>1
    <3>2. CASE MayInput(cipher) /\ cipher' = InputTaken(cipher)
      <4>1. CASE cipher \in Ciphers
        <5>1. cipher'.epoch = cipher.epoch
          BY <3>2, <4>1 DEF InputTaken, Ciphers
        <5>2. cipher # NoCipher
          BY <4>1 DEF Ciphers, NoCipher, NoWriter, Writer
        <5> QED BY <5>1, <5>2
      <4>2. CASE cipher = NoCipher
        BY <3>2, <4>2 DEF InputTaken, NoCipher
      <4> QED BY <4>1, <4>2 DEF PathInv, PageTypes
    <3> QED BY <2>1, <3>1, <3>2
  <2> QED BY <2>1, <2>2, ToldToPageStill
<1>12. ASSUME NEW n \in ConnIds, Resume(n) \/ HandlerEnds(n) PROVE ToldToPage'
  <2>1. /\ UNCHANGED <<receiving, cipher>>
        /\ Broadcast(<<StatusOf(TRUE)>>) \/ Broadcast(<<StatusOf(FALSE)>>) \/ UNCHANGED inbox
    BY <1>12 DEF Resume, HandlerEnds
  <2>2. \A b \in BOOLEAN : StatusOf(b) \in Messages /\ StatusOf(b).t = "status"
    BY DEF StatusOf, Messages
  <2>3. \A i \in DOMAIN inbox' : inbox'[i].t = "frame" =>
          \E j \in DOMAIN inbox : inbox'[i] = inbox[j]
    BY <2>1, <2>2, InboxBroadcast
  <2> QED BY <2>1, <2>3, ToldToPageStill
<1>13. ASSUME NEW n \in ConnIds, Feed(n) PROVE ToldToPage'
  <2> DEFINE frame == Head(wire[n])
             m == FrameMessage(frame)
  <2>1. UNCHANGED <<receiving, cipher>> /\ Broadcast(<<m>>) /\ wire[n] # <<>>
    BY <1>13 DEF Feed
  <2>2. wire[n] \in Seq(HostFrames)
    BY HostPlaces
  <2>3. frame = wire[n][1] /\ frame \in HostFrames /\ 1 \in DOMAIN wire[n]
    <3>1. /\ Head(wire[n]) = wire[n][1] /\ wire[n][1] \in HostFrames
          /\ Len(wire[n]) \in Nat /\ Len(wire[n]) >= 1 /\ DOMAIN wire[n] = 1..Len(wire[n])
      BY <2>1, <2>2, Tailed
    <3> QED BY <3>1
  <2>4. Tells(frame)
    BY <2>3 DEF ToldByHost
  <2> HIDE DEF frame
  <2>5. m \in Messages /\ m.frame = frame
    BY <2>3 DEF FrameMessage, Messages
  <2> HIDE DEF m
  <2>6. \A i \in DOMAIN inbox' : \/ \E j \in DOMAIN inbox : inbox'[i] = inbox[j]
                                 \/ inbox'[i] = m
    BY <2>1, <2>5, InboxBroadcast
  <2> QED BY <2>1, <2>3, <2>4, <2>5, <2>6, ToldToPageStill
<1>14. CASE \E s \in Sockets : SendInput(s) \/ LoseOutbox(s)
  BY <1>14, ToldToPageStill DEF SendInput, LoseOutbox
<1>15. CASE Repeat \/ Dial \/ Connected \/ Pump \/ Disconnect \/ Receive
  <2>1. UNCHANGED <<inbox, receiving, cipher>>
    BY <1>15 DEF Repeat, Dial, Connected, Pump, Emit, Disconnect, Receive
  <2> QED BY <2>1, ToldToPageStill
<1>16. CASE UNCHANGED vars
  BY <1>16, ToldToPageStill DEF vars
<1> QED BY <1>1, <1>2, <1>3, <1>4, <1>5, <1>6, <1>7, <1>8, <1>9, <1>10, <1>11, <1>12,
           <1>13, <1>14, <1>15, <1>16 DEF Next, Receiving, Sending

-----------------------------------------------------------------------------
(* What the page seals and sends. *)

\* A keystroke is sealed by the cipher of the page's socket, or by none.  A number that
\* was taken for more than a frame holds is never used.
LEMMA InputBeginsIs ==
  ASSUME PathInv, InputBegins
  PROVE  \/ UNCHANGED <<cipher, sealing>>
         \/ /\ UNCHANGED sealing
            /\ cipher \in Ciphers
            /\ cipher'.writer = cipher.writer /\ cipher'.sent = cipher.sent + 1
         \/ /\ cipher \in Ciphers /\ cipher.writer = Writer(page.socket)
            /\ cipher.epoch # None /\ Inited /\ UNCHANGED page
            /\ cipher'.writer = cipher.writer /\ cipher'.sent = cipher.sent + 1
            /\ \E job \in Jobs, frame \in KeyFrames :
                 /\ sealing' = <<[job |-> job, frame |-> frame]>>
                 /\ job.socket = page.socket /\ By(frame, page.socket)
                 /\ Number(frame) = cipher.sent /\ Epoch(frame) = cipher.epoch
<1> DEFINE job == inputs[1]
           frame == InputFrame(cipher, job.key)
<1>1. \/ UNCHANGED <<cipher, sealing>>
      \/ /\ inputs # <<>> /\ Still(job) /\ MayInput(cipher) /\ cipher' = InputTaken(cipher)
         /\ \/ UNCHANGED sealing
            \/ UNCHANGED page /\ sealing' = <<[job |-> job, frame |-> frame]>>
  BY DEF InputBegins, NextInput
<1>2. SUFFICES ASSUME inputs # <<>>, Still(job), MayInput(cipher), cipher' = InputTaken(cipher),
                      \/ UNCHANGED sealing
                      \/ UNCHANGED page /\ sealing' = <<[job |-> job, frame |-> frame]>>
               PROVE  \/ /\ UNCHANGED sealing
                         /\ cipher \in Ciphers
                         /\ cipher'.writer = cipher.writer /\ cipher'.sent = cipher.sent + 1
                      \/ /\ cipher \in Ciphers /\ cipher.writer = Writer(page.socket)
                         /\ cipher.epoch # None /\ Inited /\ UNCHANGED page
                         /\ cipher'.writer = cipher.writer /\ cipher'.sent = cipher.sent + 1
                         /\ \E j \in Jobs, f \in KeyFrames :
                              /\ sealing' = <<[job |-> j, frame |-> f]>>
                              /\ j.socket = page.socket /\ By(f, page.socket)
                              /\ Number(f) = cipher.sent /\ Epoch(f) = cipher.epoch
  BY <1>1
<1>3. inputs \in Seq(Jobs)
  BY DEF PathInv, PageTypes
<1>4. job \in Jobs /\ 1 \in DOMAIN inputs
  BY <1>2, <1>3, Tailed
<1>5. job.key \in Nat /\ job.socket \in Sockets
  BY <1>4 DEF Jobs
<1>6. job.socket = page.socket /\ page.allow
  BY <1>2 DEF Still, Typing
<1>7. Inited
  BY <1>4, <1>6 DEF PathInv, Script
<1>8. cipher # NoCipher /\ cipher.writer = Writer(page.socket) /\ cipher.epoch # None
  BY <1>6, <1>7 DEF PathInv, Script
<1>9. cipher \in Ciphers
  BY <1>8 DEF PathInv, PageTypes
<1>10. /\ frame \in KeyFrames /\ By(frame, page.socket)
       /\ Number(frame) = cipher.sent /\ Epoch(frame) = cipher.epoch
  BY <1>5, <1>6, <1>8, <1>9, KeySeals
<1>11. cipher'.writer = cipher.writer /\ cipher'.sent = cipher.sent + 1
  BY <1>2, <1>9 DEF InputTaken, Ciphers
<1> HIDE DEF job, frame
<1> QED BY <1>2, <1>4, <1>6, <1>7, <1>8, <1>9, <1>10, <1>11

\* A frame that leaves is one that was sealed for the page's socket, which is open.
LEMMA InputEndsIs ==
  ASSUME PathInv, KeyTypes, InputEnds
  PROVE  /\ sealing # <<>> /\ sealing' = <<>>
         /\ sealing[1].job \in Jobs /\ sealing[1].frame \in KeyFrames
         /\ \/ UNCHANGED <<outbox, sent>>
            \/ /\ sealing[1].job.socket = page.socket /\ page.link = "open"
               /\ page.socket \in Sockets
               /\ \A s \in Sockets :
                    /\ sent'[s] = IF s = page.socket
                                  THEN Append(sent[s], sealing[1].frame) ELSE sent[s]
                    /\ outbox'[s] = IF s = page.socket
                                    THEN Append(outbox[s], sealing[1].frame) ELSE outbox[s]
               /\ sent' \in [Sockets -> Seq(KeyFrames)]
               /\ outbox' \in [Sockets -> Seq(KeyFrames)]
<1>1. /\ sealing # <<>> /\ sealing' = <<>>
      /\ \/ UNCHANGED <<outbox, sent>>
         \/ /\ Still(sealing[1].job)
            /\ outbox' = [outbox EXCEPT ![sealing[1].job.socket]
                            = Append(@, sealing[1].frame)]
            /\ sent' = [sent EXCEPT ![sealing[1].job.socket]
                          = Append(@, sealing[1].frame)]
  BY DEF InputEnds
<1>2. /\ sealing \in Seq([job : Jobs, frame : KeyFrames])
      /\ outbox \in [Sockets -> Seq(KeyFrames)] /\ sent \in [Sockets -> Seq(KeyFrames)]
  BY DEF KeyTypes
<1>3. sealing[1] \in [job : Jobs, frame : KeyFrames]
  BY <1>1, <1>2, Tailed
<1>4. sealing[1].job \in Jobs /\ sealing[1].frame \in KeyFrames
  BY <1>3
<1>5. CASE /\ Still(sealing[1].job)
           /\ outbox' = [outbox EXCEPT ![sealing[1].job.socket]
                           = Append(@, sealing[1].frame)]
           /\ sent' = [sent EXCEPT ![sealing[1].job.socket]
                         = Append(@, sealing[1].frame)]
  <2>1. sealing[1].job.socket = page.socket /\ page.link = "open"
    BY <1>5 DEF Still, Typing
  <2>2. page.socket \in Sockets
    BY DEF PathInv, PageTypes, Pages
  <2>3. /\ Append(sent[page.socket], sealing[1].frame) \in Seq(KeyFrames)
        /\ Append(outbox[page.socket], sealing[1].frame) \in Seq(KeyFrames)
    BY <1>2, <1>4, <2>2, Appended
  <2> QED BY <1>1, <1>2, <1>4, <1>5, <2>1, <2>2, <2>3
<1> QED BY <1>1, <1>4, <1>5

\* Epochs of what is sealed and sent.
LEMMA ToldByKeysStep ==
  ASSUME IInv, PathInv, KeyTypes, ToldToPage, ToldByKeys, [Next]_vars
  PROVE  ToldByKeys'
<1>1. ASSUME NEW n \in ConnIds, Known(n) PROVE Known(n)'
  BY <1>1, KnownStays
<1>2. ASSUME NEW s \in Sockets, NEW i \in DOMAIN sent[s], NEW n \in ConnIds,
             n = Epoch(sent[s][i])
      PROVE  Known(n)'
  BY <1>1, <1>2 DEF ToldByKeys
<1>3. ASSUME sealing # <<>>, NEW n, n = Epoch(sealing[1].frame) PROVE Known(n)'
  <2>0. sealing \in Seq([job : Jobs, frame : KeyFrames])
    BY DEF KeyTypes
  <2>1. sealing[1].frame \in KeyFrames
    <3>1. sealing[1] \in [job : Jobs, frame : KeyFrames]
      BY <1>3, <2>0, Tailed
    <3> QED BY <3>1
  <2>2. n \in ConnIds
    BY <1>3, <2>1, KeyFrameIs
  <2> QED BY <1>1, <1>3, <2>2 DEF ToldByKeys
<1>4. \A s \in Sockets : \A i \in DOMAIN sent[s] : Epoch(sent[s][i]) \in ConnIds
  BY KeyPlaces, KeyFrameIs
<1>5. ASSUME UNCHANGED sent, sealing' = sealing \/ sealing' = <<>> PROVE ToldByKeys'
  BY <1>2, <1>3, <1>4, <1>5 DEF ToldByKeys, Known, Epoch
<1> USE DEF pageVars, relayVars, hostVars, Unchanged
<1>6. CASE SocketCloses \/ Reconnect \/ Reload \/ Join \/ Type
  BY <1>5, <1>6 DEF SocketCloses, Reconnect, Reload, Join, Type
<1>7. CASE Receiving
  <2>1. UNCHANGED <<sent, sealing>>
    BY <1>7 DEF Receiving, ReceiveInit, Created, ReceiveStatus,
       ReceiveUnavailable, ReceiveFrame, Decrypted
  <2> QED BY <1>5, <2>1
<1>8. CASE InputBegins
  <2>1. UNCHANGED sent
    BY <1>8 DEF InputBegins
  <2>2. CASE sealing' = sealing
    BY <1>5, <2>1, <2>2
  <2>3. ASSUME NEW job \in Jobs, NEW frame \in KeyFrames, cipher \in Ciphers,
               cipher.writer = Writer(page.socket), cipher.epoch # None,
               sealing' = <<[job |-> job, frame |-> frame]>>, Epoch(frame) = cipher.epoch
        PROVE  ToldByKeys'
    <3>1. cipher # NoCipher
      BY <2>3 DEF NoCipher, NoWriter, Writer
    <3>2. cipher.epoch \in ConnIds /\ Known(cipher.epoch)
      BY <2>3, <3>1 DEF ToldToPage, Ciphers
    <3>3. sealing'[1].frame = frame
      BY <2>3
    <3>4. ASSUME NEW n, n = Epoch(frame) PROVE Known(n)'
      BY <1>1, <2>3, <3>2, <3>4
    <3> QED BY <1>2, <1>4, <2>1, <3>3, <3>4 DEF ToldByKeys, Known, Epoch
  <2> QED BY <1>8, <2>2, <2>3, InputBeginsIs
<1>9. CASE InputEnds
  <2>1. sealing # <<>> /\ sealing' = <<>> /\ sealing[1].frame \in KeyFrames
    BY <1>9, InputEndsIs
  <2>2. CASE UNCHANGED sent
    BY <1>5, <2>1, <2>2
  <2>3. CASE \A s \in Sockets :
               sent'[s] = IF s = page.socket THEN Append(sent[s], sealing[1].frame)
                          ELSE sent[s]
    <3>1. ASSUME NEW s \in Sockets, NEW i \in DOMAIN sent'[s],
                 NEW n, n = Epoch(sent'[s][i])
          PROVE  Known(n)'
      <4>1. CASE sent'[s] = sent[s]
        BY <1>2, <1>4, <3>1, <4>1
      <4>2. CASE sent'[s] = Append(sent[s], sealing[1].frame)
        <5>1. sent[s] \in Seq(KeyFrames)
          BY DEF KeyTypes
        <5>2. /\ i \in 1..(Len(sent[s]) + 1) /\ Len(sent[s]) \in Nat
              /\ DOMAIN sent[s] = 1..Len(sent[s])
              /\ \A j \in 1..Len(sent[s]) : sent'[s][j] = sent[s][j]
              /\ sent'[s][Len(sent[s]) + 1] = sealing[1].frame
          BY <2>1, <3>1, <4>2, <5>1, Appended
        <5>3. CASE i = Len(sent[s]) + 1
          BY <1>3, <2>1, <3>1, <5>2, <5>3
        <5>4. CASE i \in 1..Len(sent[s])
          BY <1>2, <1>4, <3>1, <5>2, <5>4
        <5> QED BY <5>2, <5>3, <5>4
      <4> QED BY <2>3, <4>1, <4>2
    <3> QED BY <2>1, <3>1 DEF ToldByKeys, Known, Epoch
  <2> QED BY <1>9, <2>2, <2>3, InputEndsIs
<1>10. CASE \E n \in ConnIds : Resume(n) \/ Feed(n) \/ HandlerEnds(n)
  BY <1>5, <1>10 DEF Resume, Feed, HandlerEnds
<1>11. CASE \E s \in Sockets : SendInput(s) \/ LoseOutbox(s)
  BY <1>5, <1>11 DEF SendInput, LoseOutbox
<1>12. CASE Repeat \/ Dial \/ Connected \/ Pump \/ Disconnect \/ Receive
  <2>1. UNCHANGED <<sealing, sent>>
    BY <1>12 DEF Repeat, Dial, Connected, Pump, Emit, Disconnect, Receive
  <2> QED BY <1>5, <2>1
<1>13. CASE UNCHANGED vars
  BY <1>5, <1>13 DEF vars
<1> QED BY <1>6, <1>7, <1>8, <1>9, <1>10, <1>11, <1>12, <1>13 DEF Next, Sending

\* Nothing is sent, and no cipher is made but for a socket that has not sealed yet.
LEMMA CountedStill ==
  ASSUME Counted, SealedWaits, UNCHANGED sent, sealing' = sealing \/ sealing' = <<>>,
         \A s \in Sockets : Unsealed(s)' => Unsealed(s),
         \A s \in Sockets : cipher'.writer = Writer(s) =>
           Unsealed(s) \/ (cipher.writer = Writer(s) /\ cipher'.sent = cipher.sent),
         sealing # <<>> => sealing[1].job.socket \in Sockets
  PROVE  Counted' /\ SealedWaits'
<1>1. Counted'
  <2>1. ASSUME NEW s \in Sockets, cipher'.writer = Writer(s), NEW i \in DOMAIN sent[s]
        PROVE  Number(sent[s][i]) < cipher'.sent
    <3>1. ~Unsealed(s)
      BY <2>1 DEF Counted
    <3> QED BY <2>1, <3>1 DEF Counted
  <2>2. \A s \in Sockets : Unsealed(s)' => sent[s] = <<>>
    BY DEF Counted
  <2> QED BY <2>1, <2>2 DEF Counted, Number, By, Writer
<1>2. SealedWaits'
  <2> SUFFICES ASSUME sealing # <<>>, sealing' = sealing
               PROVE  SealedNext(sealing[1].job, sealing[1].frame)'
    BY DEF SealedWaits
  <2>1. SealedNext(sealing[1].job, sealing[1].frame)
    BY DEF SealedWaits
  <2> QED BY <2>1 DEF SealedNext, Unsealed, Number, By, Writer
<1> QED BY <1>1, <1>2

\* The socket of what is sealed.
LEMMA SealedTypes ==
  ASSUME KeyTypes, sealing # <<>>
  PROVE  /\ sealing[1].job \in Jobs /\ sealing[1].job.socket \in Sockets
         /\ sealing[1].frame \in KeyFrames
<1>1. sealing \in Seq([job : Jobs, frame : KeyFrames])
  BY DEF KeyTypes
<1>2. sealing[1] \in [job : Jobs, frame : KeyFrames]
  BY <1>1, Tailed
<1>3. \A j \in Jobs : j.socket \in Sockets
  BY DEF Jobs
<1> QED BY <1>2, <1>3

\* The page's own steps, but for sealing and sending.
LEMMA PageCounts ==
  ASSUME PathInv, KeyTypes, Counted, SealedWaits,
         SocketCloses \/ Reconnect \/ Reload \/ Join \/ Receiving \/ Type
  PROVE  Counted' /\ SealedWaits'
<1> USE DEF pageVars, relayVars, hostVars, Unchanged
<1>1. page \in Pages /\ page.socket \in Nat /\ page.initialized \in Nat
  BY DEF PathInv, PageTypes, Pages, Sockets
<1>2. sealing # <<>> => sealing[1].job.socket \in Sockets
  BY SealedTypes
<1>3. ASSUME UNCHANGED <<sent, sealing, cipher>>,
             \A s \in Sockets : Unsealed(s)' => Unsealed(s)
      PROVE  Counted' /\ SealedWaits'
  BY <1>2, <1>3, CountedStill
<1>4. CASE SocketCloses
  <2>1. /\ page' = [page EXCEPT !.link = "closed", !.allow = FALSE]
        /\ UNCHANGED <<sent, sealing, cipher, receiving>>
    BY <1>4 DEF SocketCloses
  <2>2. page'.socket = page.socket /\ page'.initialized = page.initialized
    BY <1>1, <2>1 DEF Pages
  <2> QED BY <1>3, <2>1, <2>2 DEF Unsealed, Inited
<1>5. CASE Reconnect
  <2>1. /\ page' = [page EXCEPT !.socket = @ + 1, !.link = "connecting"]
        /\ UNCHANGED <<sent, sealing, cipher, receiving>>
    BY <1>5 DEF Reconnect
  <2>2. page'.socket = page.socket + 1
    BY <1>1, <2>1 DEF Pages
  <2>3. ASSUME NEW s \in Sockets, Unsealed(s)' PROVE Unsealed(s)
    <3>1. s \in Nat
      BY DEF Sockets
    <3> QED BY <1>1, <2>1, <2>2, <2>3, <3>1 DEF Unsealed
  <2> QED BY <1>3, <2>1, <2>3
<1>6. CASE Reload
  <2>1. /\ page' = Page(page.socket + 1) /\ cipher'.writer = NoWriter
        /\ receiving'.step = "none" /\ sealing' = <<>> /\ UNCHANGED sent
    BY <1>6 DEF Reload, NoCipher, Idle
  <2>2. page'.socket = page.socket + 1
    BY <2>1 DEF Page
  <2>3. ASSUME NEW s \in Sockets, Unsealed(s)' PROVE Unsealed(s)
    <3>1. s \in Nat
      BY DEF Sockets
    <3> QED BY <1>1, <2>1, <2>2, <2>3, <3>1 DEF Unsealed
  <2>4. \A s \in Sockets : cipher'.writer # Writer(s)
    BY <2>1 DEF NoWriter, Writer
  <2> QED BY <1>2, <2>1, <2>3, <2>4, CountedStill
<1>7. CASE Join
  <2>1. /\ page' = [page EXCEPT !.link = "open"]
        /\ UNCHANGED <<sent, sealing, cipher, receiving>>
    BY <1>7 DEF Join
  <2>2. page'.socket = page.socket /\ page'.initialized = page.initialized
    BY <1>1, <2>1 DEF Pages
  <2> QED BY <1>3, <2>1, <2>2 DEF Unsealed, Inited
<1>8. CASE Type
  <2>1. UNCHANGED <<sent, sealing, cipher, receiving, page>>
    BY <1>8 DEF Type
  <2> QED BY <1>3, <2>1 DEF Unsealed, Inited
<1>9. CASE ReceiveInit
  <2>1. /\ UNCHANGED <<sent, sealing, cipher>>
        /\ \/ page' = Failed("protocol") /\ receiving' = receiving
           \/ /\ ~Inited /\ page' = page /\ receiving'.step = "create"
              /\ receiving'.socket = page.socket
    BY <1>9 DEF ReceiveInit, Inited
  <2>2. page'.socket = page.socket /\ page'.initialized = page.initialized
    BY <1>1, <2>1 DEF Pages, Failed
  <2>3. \A s \in Sockets : Unsealed(s)' => Unsealed(s)
    BY <2>1, <2>2 DEF Unsealed, Inited
  <2> QED BY <1>3, <2>1, <2>3
<1>10. CASE Created
  <2>1. /\ UNCHANGED <<sent, sealing>> /\ receiving'.step = "none"
        /\ receiving.step = "create" /\ cipher'.writer = Writer(receiving.socket)
        /\ page' = page \/ page' = Initialised(receiving.message)
    BY <1>10 DEF Created, NewCipher, Idle
  <2>2. page'.socket = page.socket
    BY <1>1, <2>1 DEF Pages, Initialised
  <2>3. page'.initialized \in {page.initialized, page.socket}
    BY <1>1, <2>1 DEF Pages, Initialised
  <2>4. \A s \in Sockets : Unsealed(s)' => Unsealed(s)
    BY <2>1, <2>2, <2>3 DEF Unsealed, Inited
  <2>5. \A s \in Sockets : cipher'.writer = Writer(s) => Unsealed(s)
    BY <2>1 DEF Unsealed, Writer
  <2> QED BY <1>2, <2>1, <2>4, <2>5, CountedStill
<1>11. CASE ReceiveStatus \/ ReceiveUnavailable
  <2>1. /\ UNCHANGED <<sent, sealing, cipher, receiving>>
        /\ \/ page' = Failed("protocol")
           \/ \E live : page' = [page EXCEPT !.allow = page.authenticated, !.live = live]
           \/ page' = [page EXCEPT !.allow = FALSE]
    BY <1>11 DEF ReceiveStatus, ReceiveUnavailable, Status
  <2>2. page'.socket = page.socket /\ page'.initialized = page.initialized
    BY <1>1, <2>1 DEF Pages, Failed
  <2> QED BY <1>3, <2>1, <2>2 DEF Unsealed, Inited
<1>12. CASE ReceiveFrame
  <2>1. /\ UNCHANGED <<sent, sealing, cipher>> /\ page' \in {page, Failed("protocol")}
        /\ receiving' = receiving \/ receiving'.step = "open"
    BY <1>12 DEF ReceiveFrame
  <2>2. page'.socket = page.socket /\ page'.initialized = page.initialized
    BY <1>1, <2>1 DEF Pages, Failed
  <2> QED BY <1>3, <2>1, <2>2 DEF Unsealed, Inited
<1>13. CASE Decrypted
  <2>1. /\ UNCHANGED <<sent, sealing>> /\ receiving'.step = "none"
        /\ receiving.step = "open"
        /\ cipher' = cipher \/ cipher' = Opened(cipher, receiving.frame)
        /\ page' \in {page, Failed("protocol"),
                     [page EXCEPT !.authenticated = TRUE, !.allow = TRUE]}
    BY <1>13 DEF Decrypted, Idle
  <2>2. page'.socket = page.socket /\ page'.initialized = page.initialized
    BY <1>1, <2>1 DEF Pages, Failed
  <2>3. cipher \in Ciphers
    BY <2>1 DEF PathInv, PageTypes, Script
  <2>4. cipher'.writer = cipher.writer /\ cipher'.sent = cipher.sent
    BY <2>1, <2>3 DEF Opened, Ciphers
  <2>5. \A s \in Sockets : Unsealed(s)' => Unsealed(s)
    BY <2>1, <2>2 DEF Unsealed, Inited
  <2> QED BY <1>2, <2>1, <2>4, <2>5, CountedStill
<1> QED BY <1>4, <1>5, <1>6, <1>7, <1>8, <1>9, <1>10, <1>11, <1>12, <1>13 DEF Receiving

LEMMA InputBeginsCounts ==
  ASSUME PathInv, KeyTypes, Counted, SealedWaits, InputBegins
  PROVE  Counted' /\ SealedWaits'
<1> USE DEF pageVars, relayVars, hostVars, Unchanged
<1>1. UNCHANGED <<sent, receiving>> /\ (page' = page \/ \E why \in Errors : page' = Failed(why))
  BY DEF InputBegins, Errors
<1>2. page'.socket = page.socket /\ page'.initialized = page.initialized
  BY <1>1 DEF PathInv, PageTypes, Pages, Failed
<1>3. \A s \in Sockets : Unsealed(s)' <=> Unsealed(s)
  BY <1>1, <1>2 DEF Unsealed, Inited
<1>4. CASE UNCHANGED <<cipher, sealing>>
  <2>1. sealing # <<>> => sealing[1].job.socket \in Sockets
    BY SealedTypes
  <2> QED BY <1>1, <1>3, <1>4, <2>1, CountedStill
<1>5. ASSUME NEW job \in Jobs, NEW frame \in KeyFrames, cipher \in Ciphers, Inited,
             cipher.writer = Writer(page.socket), cipher'.writer = cipher.writer,
             cipher'.sent = cipher.sent + 1,
             sealing' = <<[job |-> job, frame |-> frame]>>, job.socket = page.socket,
             By(frame, page.socket), Number(frame) = cipher.sent
      PROVE  Counted' /\ SealedWaits'
  <2>1. /\ page.socket \in Sockets /\ page.socket \in Nat /\ cipher.sent \in Nat
    BY <1>5, CipherAssumption DEF PathInv, PageTypes, Pages, Ciphers, Sockets
  <2>2. ~Unsealed(page.socket)
    BY <1>5, <2>1 DEF PathInv, Script, Unsealed
  <2>3. \A i \in DOMAIN sent[page.socket] :
          /\ sent[page.socket][i] \in KeyFrames /\ Number(sent[page.socket][i]) \in Nat
          /\ Number(sent[page.socket][i]) < cipher.sent
    BY <1>5, <2>1, KeyPlaces, KeyFrameIs DEF Counted
  <2>4. Counted'
    <3>1. ASSUME NEW s \in Sockets, cipher'.writer = Writer(s), NEW i \in DOMAIN sent[s]
          PROVE  Number(sent[s][i]) < cipher'.sent
      <4>1. s = page.socket
        BY <1>5, <3>1 DEF Writer
      <4> QED BY <1>5, <2>1, <2>3, <3>1, <4>1
    <3> QED BY <1>1, <1>3, <3>1 DEF Counted, Number, By, Writer
  <2>5. SealedWaits'
    <3>1. sealing'[1].job = job /\ sealing'[1].frame = frame
      BY <1>5
    <3>2. ~Unsealed(page.socket)'
      BY <1>1, <1>2, <2>2 DEF Unsealed, Inited
    <3>3. cipher'.sent > Number(frame)
      BY <1>5, <2>1
    <3>4. page'.socket = page.socket /\ sent' = sent
      BY <1>1, <1>2
    <3>5. \A i \in DOMAIN sent[page.socket] : Number(sent[page.socket][i]) < Number(frame)
      BY <1>5, <2>3
    <3>6. ~Unsealed(job.socket)'
      BY <1>5, <3>2, <3>4 DEF Unsealed, Inited
    <3> QED BY <1>5, <2>1, <3>1, <3>3, <3>4, <3>5, <3>6 DEF SealedWaits, SealedNext, Number, By, Writer
  <2> QED BY <2>4, <2>5
<1>6. CASE /\ UNCHANGED sealing /\ cipher \in Ciphers
           /\ cipher'.writer = cipher.writer /\ cipher'.sent = cipher.sent + 1
  <2>1. sealing = <<>>
    BY DEF InputBegins
  <2>2. cipher.sent \in Nat
    BY <1>6, CipherAssumption DEF Ciphers
  <2>3. ASSUME NEW s \in Sockets, cipher'.writer = Writer(s), NEW i \in DOMAIN sent[s]
        PROVE  Number(sent[s][i]) < cipher'.sent
    <3>1. Number(sent[s][i]) \in Nat /\ Number(sent[s][i]) < cipher.sent
      BY <1>6, <2>3, KeyPlaces, KeyFrameIs DEF Counted
    <3> QED BY <1>6, <2>2, <3>1
  <2>4. Counted'
    BY <1>1, <1>3, <2>3 DEF Counted, Number, By, Writer
  <2> QED BY <1>6, <2>1, <2>4 DEF SealedWaits
<1> QED BY <1>4, <1>5, <1>6, InputBeginsIs

LEMMA InputEndsCounts ==
  ASSUME PathInv, KeyTypes, Counted, SealedWaits, InputEnds
  PROVE  Counted' /\ SealedWaits'
<1> USE DEF pageVars, relayVars, hostVars, Unchanged
<1> DEFINE p == page.socket
           frame == sealing[1].frame
<1>1. UNCHANGED <<page, cipher, receiving>>
  BY DEF InputEnds
<1>2. /\ sealing # <<>> /\ sealing' = <<>> /\ sealing[1].job \in Jobs
      /\ frame \in KeyFrames
  BY InputEndsIs
<1>3. SealedWaits'
  BY <1>2 DEF SealedWaits
<1>4. CASE UNCHANGED sent
  <2>1. sealing[1].job.socket \in Sockets
    BY <1>2 DEF Jobs
  <2> QED BY <1>1, <1>2, <1>4, <2>1, CountedStill DEF Unsealed, Inited
<1>5. CASE /\ sealing[1].job.socket = p /\ p \in Sockets
           /\ \A s \in Sockets : sent'[s] = IF s = p THEN Append(sent[s], frame) ELSE sent[s]
  <2>1. /\ By(frame, p) /\ ~Unsealed(p)
        /\ cipher.writer = Writer(p) => Number(frame) < cipher.sent
        /\ \A i \in DOMAIN sent[p] : Number(sent[p][i]) < Number(frame)
    BY <1>2, <1>5 DEF SealedWaits, SealedNext
  <2>2. /\ \A s \in Sockets : s # p => sent'[s] = sent[s]
        /\ DOMAIN sent'[p] = 1..(Len(sent[p]) + 1) /\ DOMAIN sent[p] = 1..Len(sent[p])
        /\ Len(sent[p]) \in Nat
        /\ \A i \in 1..Len(sent[p]) : sent'[p][i] = sent[p][i]
        /\ sent'[p][Len(sent[p]) + 1] = frame
    <3>1. sent[p] \in Seq(KeyFrames) /\ sent'[p] = Append(sent[p], frame)
      BY <1>5 DEF KeyTypes
    <3> QED BY <1>2, <1>5, <3>1, Appended
  <2> HIDE DEF frame, p
  <2>3. ASSUME NEW s \in Sockets, NEW i \in DOMAIN sent'[s]
        PROVE  By(sent'[s][i], s)
    BY <2>1, <2>2 DEF Counted
  <2>4. ASSUME NEW s \in Sockets, NEW i \in DOMAIN sent'[s], NEW j \in DOMAIN sent'[s], i < j
        PROVE  Number(sent'[s][i]) < Number(sent'[s][j])
    <3>1. CASE s # p
      BY <2>2, <2>4, <3>1 DEF Counted
    <3>2. CASE s = p
      <4>1. i \in 1..Len(sent[p])
        BY <2>2, <2>4, <3>2
      <4>2. CASE j = Len(sent[p]) + 1
        BY <2>1, <2>2, <3>2, <4>1, <4>2
      <4>3. CASE j \in 1..Len(sent[p])
        BY <1>5, <2>2, <2>4, <3>2, <4>1, <4>3 DEF Counted
      <4> QED BY <2>2, <2>4, <3>2, <4>2, <4>3
    <3> QED BY <3>1, <3>2
  <2>5. ASSUME NEW s \in Sockets, Unsealed(s) PROVE sent'[s] = <<>>
    BY <2>1, <2>2, <2>5 DEF Counted
  <2>6. ASSUME NEW s \in Sockets, cipher.writer = Writer(s), NEW i \in DOMAIN sent'[s]
        PROVE  Number(sent'[s][i]) < cipher.sent
    <3>1. CASE s # p
      BY <2>2, <2>6, <3>1 DEF Counted
    <3>2. CASE s = p /\ i \in 1..Len(sent[p])
      BY <1>5, <2>2, <2>6, <3>2 DEF Counted
    <3>3. CASE s = p /\ i = Len(sent[p]) + 1
      BY <2>1, <2>2, <2>6, <3>3
    <3> QED BY <2>2, <2>6, <3>1, <3>2, <3>3
  <2>7. \A s \in Sockets : Unsealed(s)' => Unsealed(s)
    BY <1>1 DEF Unsealed, Inited
  <2> QED BY <1>1, <1>3, <2>3, <2>4, <2>5, <2>6, <2>7 DEF Counted, Number, By, Writer
<1> QED BY <1>4, <1>5, InputEndsIs

\* What the relay passes on.
LEMMA SendInputIs ==
  ASSUME KeyTypes, NEW s \in Sockets, SendInput(s)
  PROVE  /\ outbox[s] # <<>> /\ Head(outbox[s]) = outbox[s][1] /\ outbox[s][1] \in KeyFrames
         /\ Len(outbox[s]) \in Nat /\ 1 \in DOMAIN outbox[s]
         /\ DOMAIN outbox[s] = 1..Len(outbox[s])
         /\ outbox' \in [Sockets -> Seq(KeyFrames)]
         /\ \A r \in Sockets : r # s => outbox'[r] = outbox[r]
         /\ DOMAIN outbox'[s] = 1..(Len(outbox[s]) - 1)
         /\ \A i \in 1..(Len(outbox[s]) - 1) : outbox'[s][i] = outbox[s][i + 1]
         /\ UNCHANGED <<page, sealing, sent, relay, host, ran>>
         /\ IF relay.live /\ relay.input = host.conn /\ host.phase # "down"
            THEN channel' = Append(channel, [frame |-> outbox[s][1], again |-> FALSE])
            ELSE channel' = channel
<1>1. outbox[s] # <<>> /\ outbox' = [outbox EXCEPT ![s] = Tail(@)]
  BY DEF SendInput
<1>2. outbox \in [Sockets -> Seq(KeyFrames)] /\ outbox[s] \in Seq(KeyFrames)
  BY DEF KeyTypes
<1>3. /\ Head(outbox[s]) = outbox[s][1] /\ outbox[s][1] \in KeyFrames
      /\ Len(outbox[s]) \in Nat /\ Len(outbox[s]) >= 1
      /\ DOMAIN outbox[s] = 1..Len(outbox[s]) /\ Tail(outbox[s]) \in Seq(KeyFrames)
      /\ DOMAIN Tail(outbox[s]) = 1..(Len(outbox[s]) - 1)
      /\ \A i \in 1..(Len(outbox[s]) - 1) : Tail(outbox[s])[i] = outbox[s][i + 1]
  BY <1>1, <1>2, Tailed
<1>4. /\ outbox' \in [Sockets -> Seq(KeyFrames)] /\ outbox'[s] = Tail(outbox[s])
      /\ \A r \in Sockets : r # s => outbox'[r] = outbox[r]
  BY <1>1, <1>2, <1>3
<1>5. /\ UNCHANGED <<page, sealing, sent, relay, host, ran>>
      /\ IF relay.live /\ relay.input = host.conn /\ host.phase # "down"
         THEN channel' = Append(channel, [frame |-> outbox[s][1], again |-> FALSE])
         ELSE channel' = channel
  BY <1>3 DEF SendInput, pageVars, relayVars, hostVars
<1>6. 1 \in DOMAIN outbox[s]
  BY <1>3
<1> QED BY <1>1, <1>3, <1>4, <1>5, <1>6

\* The channel gets an entry.
LEMMA ChannelAppended ==
  ASSUME KeyTypes, NEW entry \in Entries, channel' = Append(channel, entry)
  PROVE  /\ channel' \in Seq(Entries) /\ DOMAIN channel = 1..Len(channel)
         /\ DOMAIN channel' = 1..(Len(channel) + 1) /\ Len(channel) \in Nat
         /\ \A i \in 1..Len(channel) : channel'[i] = channel[i]
         /\ channel'[Len(channel) + 1] = entry
<1>1. channel \in Seq(Entries)
  BY DEF KeyTypes
<1> QED BY <1>1, Appended

\* What the host finds at the head of the channel.
LEMMA ReceiveIs ==
  ASSUME KeyTypes, Receive
  PROVE  /\ host.phase = "up" /\ channel # <<>> /\ channel[1] \in Entries
         /\ 1 \in DOMAIN channel /\ Head(channel) = channel[1]
         /\ channel[1].frame \in KeyFrames /\ channel[1].again \in BOOLEAN
         /\ Len(channel) \in Nat /\ DOMAIN channel = 1..Len(channel)
         /\ channel' \in Seq(Entries) /\ DOMAIN channel' = 1..(Len(channel) - 1)
         /\ \A i \in 1..(Len(channel) - 1) : channel'[i] = channel[i + 1]
         /\ UNCHANGED <<page, sealing, sent, relay, outbox>>
         /\ IF Receives(host.receiver, Master, SessionId, channel[1].frame)
            THEN /\ host' = [host EXCEPT !.receiver = Received(@, channel[1].frame)]
                 /\ ran' = Append(ran, [frame |-> channel[1].frame, conn |-> host.conn])
            ELSE UNCHANGED <<host, ran>>
<1>1. /\ channel # <<>> /\ channel' = Tail(channel) /\ host.phase = "up"
  BY DEF Receive
<1>2. channel \in Seq(Entries)
  BY DEF KeyTypes
<1>3. /\ Head(channel) = channel[1] /\ channel[1] \in Entries
      /\ Len(channel) \in Nat /\ Len(channel) >= 1 /\ DOMAIN channel = 1..Len(channel)
      /\ Tail(channel) \in Seq(Entries) /\ DOMAIN Tail(channel) = 1..(Len(channel) - 1)
      /\ \A i \in 1..(Len(channel) - 1) : Tail(channel)[i] = channel[i + 1]
  BY <1>1, <1>2, Tailed
<1>4. /\ UNCHANGED <<page, sealing, sent, relay, outbox>>
      /\ IF Receives(host.receiver, Master, SessionId, channel[1].frame)
         THEN /\ host' = [host EXCEPT !.receiver = Received(@, channel[1].frame)]
              /\ ran' = Append(ran, [frame |-> channel[1].frame, conn |-> host.conn])
         ELSE UNCHANGED <<host, ran>>
  BY <1>3 DEF Receive, pageVars, relayVars
<1>5. 1 \in DOMAIN channel /\ channel[1].frame \in KeyFrames /\ channel[1].again \in BOOLEAN
  BY <1>3 DEF Entries
<1> QED BY <1>1, <1>3, <1>4, <1>5

\* What the host runs comes after all it has run.
LEMMA RanAppended ==
  ASSUME PathInv, KeyTypes, NEW f \in KeyFrames,
         ran' = Append(ran, [frame |-> f, conn |-> host.conn])
  PROVE  /\ ran' \in Seq([frame : KeyFrames, conn : ConnIds])
         /\ Len(ran) \in Nat /\ DOMAIN ran = 1..Len(ran) /\ DOMAIN ran' = 1..(Len(ran) + 1)
         /\ \A i \in 1..Len(ran) : ran'[i] = ran[i]
         /\ ran'[Len(ran) + 1] = [frame |-> f, conn |-> host.conn]
<1>1. ran \in Seq([frame : KeyFrames, conn : ConnIds])
  BY DEF KeyTypes
<1>2. [frame |-> f, conn |-> host.conn] \in [frame : KeyFrames, conn : ConnIds]
  BY DEF PathInv, RelayTypes
<1> QED BY <1>1, <1>2, Appended

LEMMA KeyTypesStep ==
  ASSUME PathInv, KeyTypes, [Next]_vars
  PROVE  KeyTypes'
<1> USE DEF pageVars, relayVars, hostVars, Unchanged
<1>1. ASSUME sealing' = sealing \/ sealing' = <<>>, UNCHANGED <<outbox, sent, ran>>,
             channel' = channel \/ channel' = <<>>
      PROVE  KeyTypes'
  <2>1. sealing' \in Seq([job : Jobs, frame : KeyFrames])
    <3>1. sealing \in Seq([job : Jobs, frame : KeyFrames])
      BY DEF KeyTypes
    <3>2. <<>> \in Seq([job : Jobs, frame : KeyFrames])
      OBVIOUS
    <3> QED BY <1>1, <3>1, <3>2
  <2>2. channel' \in Seq(Entries)
    <3>1. channel \in Seq(Entries)
      BY DEF KeyTypes
    <3>2. <<>> \in Seq(Entries)
      OBVIOUS
    <3> QED BY <1>1, <3>1, <3>2
  <2> QED BY <1>1, <2>1, <2>2 DEF KeyTypes
<1>2. CASE SocketCloses \/ Reconnect \/ Reload \/ Join \/ Type
  BY <1>1, <1>2 DEF SocketCloses, Reconnect, Reload, Join, Type
<1>3. CASE Receiving
  <2>1. UNCHANGED <<sealing, outbox, sent, ran, channel>>
    BY <1>3 DEF Receiving, ReceiveInit, Created, ReceiveStatus,
       ReceiveUnavailable, ReceiveFrame, Decrypted
  <2> QED BY <1>1, <2>1
<1>4. CASE InputBegins
  <2>1. UNCHANGED <<outbox, sent, ran, channel>>
    BY <1>4 DEF InputBegins
  <2>2. sealing' \in Seq([job : Jobs, frame : KeyFrames])
    <3>1. CASE UNCHANGED sealing
      BY <3>1 DEF KeyTypes
    <3>2. ASSUME NEW job \in Jobs, NEW frame \in KeyFrames,
                 sealing' = <<[job |-> job, frame |-> frame]>>
          PROVE  sealing' \in Seq([job : Jobs, frame : KeyFrames])
      <4>1. [job |-> job, frame |-> frame] \in [job : Jobs, frame : KeyFrames]
        OBVIOUS
      <4> QED BY <3>2, <4>1
    <3> QED BY <1>4, <3>1, <3>2, InputBeginsIs
  <2> QED BY <2>1, <2>2 DEF KeyTypes
<1>5. CASE InputEnds
  <2>1. UNCHANGED <<ran, channel>>
    BY <1>5 DEF InputEnds
  <2>2. sealing' = <<>>
    BY <1>5, InputEndsIs
  <2>3. CASE UNCHANGED <<outbox, sent>>
    BY <1>1, <2>1, <2>2, <2>3
  <2>4. CASE /\ sent' \in [Sockets -> Seq(KeyFrames)]
             /\ outbox' \in [Sockets -> Seq(KeyFrames)]
    <3>1. sealing' \in Seq([job : Jobs, frame : KeyFrames])
      BY <2>2
    <3> QED BY <2>1, <2>4, <3>1 DEF KeyTypes
  <2> QED BY <1>5, <2>3, <2>4, InputEndsIs
<1>6. CASE \E n \in ConnIds : Resume(n) \/ Feed(n) \/ HandlerEnds(n)
  BY <1>1, <1>6 DEF Resume, Feed, HandlerEnds
<1>7. ASSUME NEW s \in Sockets, SendInput(s) PROVE KeyTypes'
  <2>1. [frame |-> outbox[s][1], again |-> FALSE] \in Entries
    BY <1>7, SendInputIs DEF Entries
  <2>2. channel' \in Seq(Entries)
    BY <1>7, <2>1, SendInputIs, ChannelAppended DEF KeyTypes
  <2> QED BY <1>7, <2>2, SendInputIs DEF KeyTypes
<1>8. ASSUME NEW s \in Sockets, LoseOutbox(s) PROVE KeyTypes'
  BY <1>8 DEF LoseOutbox, KeyTypes
<1>9. CASE Repeat
  <2>1. PICK i \in DOMAIN ran : channel' = Append(channel, [frame |-> ran[i].frame, again |-> TRUE])
    BY <1>9 DEF Repeat
  <2>2. [frame |-> ran[i].frame, again |-> TRUE] \in Entries
    BY KeyPlaces DEF Entries
  <2>3. channel' \in Seq(Entries)
    BY <2>1, <2>2, ChannelAppended
  <2> QED BY <1>9, <2>3 DEF Repeat, KeyTypes
<1>10. CASE Dial \/ Disconnect \/ Connected \/ Pump
  BY <1>1, <1>10 DEF Dial, Disconnect, Connected, Pump, Emit
<1>11. CASE Receive
  <2>1. ran' \in Seq([frame : KeyFrames, conn : ConnIds])
    BY <1>11, ReceiveIs, RanAppended DEF KeyTypes
  <2> QED BY <1>11, <2>1, ReceiveIs DEF KeyTypes
<1>12. CASE UNCHANGED vars
  BY <1>1, <1>12 DEF vars
<1> QED BY <1>2, <1>3, <1>4, <1>5, <1>6, <1>7, <1>8, <1>9, <1>10, <1>11, <1>12
        DEF Next, Sending

-----------------------------------------------------------------------------
(* What has run, and what is on its way. *)

\* The receiver after it took a frame, and before it took any.
LEMMA ReceiverTakes ==
  ASSUME IInv, NEW f \in KeyFrames,
         host' = [host EXCEPT !.receiver = Received(@, f)]
  PROVE  /\ host'.phase = host.phase /\ host'.conn = host.conn
         /\ DOMAIN host'.receiver.writers
              = DOMAIN host.receiver.writers \cup {f.header.writer}
         /\ host'.receiver.writers[f.header.writer] = Number(f)
         /\ \A w \in DOMAIN host.receiver.writers :
              w # f.header.writer
                => host'.receiver.writers[w] = host.receiver.writers[w]
<1> DEFINE writers == host.receiver.writers
           next == [w \in DOMAIN writers \cup {f.header.writer} |->
                      IF w = f.header.writer THEN f.header.sequence ELSE writers[w]]
           taken == [host.receiver EXCEPT !.writers = next]
<1>1. Received(host.receiver, f) = taken
  BY DEF Received
<1>2. host' = [host EXCEPT !.receiver = taken]
  BY <1>1
<1>3. host.receiver \in [epoch : Nat, writers : {writers}]
  BY DEF IInv, Shape
<1> HIDE DEF next
<1>4. taken.writers = next
  BY <1>3
<1> HIDE DEF taken
<1>5. host'.phase = host.phase /\ host'.conn = host.conn /\ host'.receiver = taken
  BY <1>2 DEF IInv, Shape
<1>6. host'.receiver.writers = next
  BY <1>4, <1>5
<1>7. /\ DOMAIN next = DOMAIN writers \cup {f.header.writer}
      /\ next[f.header.writer] = f.header.sequence
      /\ \A w \in DOMAIN writers : w # f.header.writer => next[w] = writers[w]
  BY DEF next
<1> QED BY <1>5, <1>6, <1>7 DEF Number

LEMMA AttainedStep ==
  ASSUME IInv, PathInv, KeyTypes, Attained, [Next]_vars
  PROVE  Attained'
<1> USE DEF pageVars, relayVars, hostVars, Unchanged
<1>1. ASSUME UNCHANGED <<host, ran>> PROVE Attained'
  BY <1>1 DEF Attained, Number
<1>2. CASE SocketCloses \/ Reconnect \/ Reload \/ Join \/ Type \/ Sending
  BY <1>1, <1>2 DEF SocketCloses, Reconnect, Reload, Join, Type, Sending, InputBegins,
     InputEnds
<1>3. CASE Receiving
  <2>1. UNCHANGED <<host, ran>>
    BY <1>3 DEF Receiving, ReceiveInit, Created, ReceiveStatus,
       ReceiveUnavailable, ReceiveFrame, Decrypted
  <2> QED BY <1>1, <2>1
<1>4. CASE \E n \in ConnIds : Resume(n) \/ Feed(n) \/ HandlerEnds(n)
  BY <1>1, <1>4 DEF Resume, Feed, HandlerEnds
<1>5. CASE \E s \in Sockets : SendInput(s) \/ LoseOutbox(s)
  BY <1>1, <1>5 DEF SendInput, LoseOutbox
<1>6. CASE Repeat
  BY <1>1, <1>6 DEF Repeat
<1>7. CASE Dial \/ Disconnect
  <2>1. host'.phase \in {"dialing", "down"}
    BY <1>7 DEF Dial, Disconnect, IInv, Shape
  <2> QED BY <2>1 DEF Attained
<1>8. CASE Connected
  <2> DEFINE fresh == NewReceiver(host.conn)
  <2>1. host' = [host EXCEPT !.phase = "up", !.sequence = @ + 1, !.receiver = fresh]
    BY <1>8 DEF Connected, Emit
  <2>2. fresh.writers = [w \in {} |-> 0]
    BY DEF NewReceiver
  <2> HIDE DEF fresh
  <2>3. host'.receiver = fresh
    BY <2>1 DEF IInv, Shape
  <2>4. DOMAIN host'.receiver.writers = {}
    BY <2>2, <2>3
  <2> QED BY <2>4 DEF Attained
<1>9. CASE Pump
  <2>1. /\ host' = [host EXCEPT !.phase = "up", !.sequence = @ + 1,
                                !.receiver = host.receiver]
        /\ host.phase = "up" /\ ran' = ran
    BY <1>9 DEF Pump, Emit
  <2>2. host'.phase = "up" /\ host'.conn = host.conn /\ host'.receiver = host.receiver
    BY <2>1 DEF IInv, Shape
  <2> QED BY <2>1, <2>2 DEF Attained, Number
<1>10. CASE Receive
  <2> DEFINE f == channel[1].frame
             writers == host.receiver.writers
             l == Len(ran) + 1
  <2>1. f \in KeyFrames /\ host.phase = "up"
    BY <1>10, ReceiveIs
  <2>2. CASE UNCHANGED <<host, ran>>
    BY <1>1, <2>2
  <2>3. CASE /\ host' = [host EXCEPT !.receiver = Received(@, f)]
             /\ ran' = Append(ran, [frame |-> f, conn |-> host.conn])
    <3> HIDE DEF f
    <3>1. /\ host'.conn = host.conn
          /\ DOMAIN host'.receiver.writers = DOMAIN writers \cup {f.header.writer}
          /\ host'.receiver.writers[f.header.writer] = Number(f)
          /\ \A w \in DOMAIN writers :
               w # f.header.writer => host'.receiver.writers[w] = writers[w]
      BY <2>1, <2>3, ReceiverTakes
    <3>2. /\ DOMAIN ran = 1..Len(ran) /\ DOMAIN ran' = 1..l /\ Len(ran) \in Nat
          /\ \A i \in DOMAIN ran : i \in DOMAIN ran' /\ ran'[i] = ran[i]
          /\ ran'[l] = [frame |-> f, conn |-> host.conn] /\ l \in DOMAIN ran'
      BY <2>1, <2>3, RanAppended
    <3> SUFFICES ASSUME NEW w \in DOMAIN host'.receiver.writers
                 PROVE  \E h \in DOMAIN ran' :
                          /\ ran'[h].conn = host'.conn
                          /\ ran'[h].frame.header.writer = w
                          /\ Number(ran'[h].frame) = host'.receiver.writers[w]
      BY DEF Attained, Number
    <3> HIDE DEF l
    <3>3. CASE w = f.header.writer
      <4>1. ran'[l].conn = host.conn /\ ran'[l].frame = f
        BY <3>2
      <4> QED BY <3>1, <3>2, <3>3, <4>1
    <3>4. CASE w # f.header.writer
      <4>1. w \in DOMAIN writers
        BY <3>1, <3>4
      <4>2. PICK h \in DOMAIN ran :
              /\ ran[h].conn = host.conn /\ ran[h].frame.header.writer = w
              /\ Number(ran[h].frame) = writers[w]
        BY <2>1, <4>1 DEF Attained
      <4> QED BY <3>1, <3>2, <3>4, <4>1, <4>2
    <3> QED BY <3>3, <3>4
  <2> QED BY <1>10, <2>2, <2>3, ReceiveIs
<1>11. CASE UNCHANGED vars
  BY <1>1, <1>11 DEF vars
<1> QED BY <1>2, <1>3, <1>4, <1>5, <1>6, <1>7, <1>8, <1>9, <1>10, <1>11 DEF Next

\* What was sent stays sent.
LEMMA SentStays ==
  ASSUME PathInv, KeyTypes, [Next]_vars
  PROVE  \A s \in Sockets : \A k \in DOMAIN sent[s] :
           k \in DOMAIN sent'[s] /\ sent'[s][k] = sent[s][k]
<1> USE DEF pageVars, relayVars, hostVars, Unchanged
<1>1. CASE UNCHANGED sent
  BY <1>1
<1>2. CASE InputEnds
  <2>1. CASE UNCHANGED sent
    BY <2>1
  <2>2. CASE \A s \in Sockets :
               sent'[s] = IF s = page.socket THEN Append(sent[s], sealing[1].frame)
                          ELSE sent[s]
    <3>1. ASSUME NEW s \in Sockets, s = page.socket
          PROVE  \A k \in DOMAIN sent[s] : k \in DOMAIN sent'[s] /\ sent'[s][k] = sent[s][k]
      <4>1. sent[s] \in Seq(KeyFrames) /\ sealing[1].frame \in KeyFrames
        BY <1>2, InputEndsIs DEF KeyTypes
      <4>2. sent'[s] = Append(sent[s], sealing[1].frame)
        BY <2>2, <3>1
      <4> QED BY <4>1, <4>2, Appended
    <3> QED BY <2>2, <3>1
  <2> QED BY <1>2, <2>1, <2>2, InputEndsIs
<1>3. CASE SocketCloses \/ Reconnect \/ Reload \/ Join \/ Type \/ InputBegins
  BY <1>1, <1>3 DEF SocketCloses, Reconnect, Reload, Join, Type, InputBegins
<1>4. CASE Receiving
  <2>1. UNCHANGED sent
    BY <1>4 DEF Receiving, ReceiveInit, Created, ReceiveStatus,
       ReceiveUnavailable, ReceiveFrame, Decrypted
  <2> QED BY <1>1, <2>1
<1>5. CASE \E n \in ConnIds : Resume(n) \/ Feed(n) \/ HandlerEnds(n)
  BY <1>1, <1>5 DEF Resume, Feed, HandlerEnds
<1>6. CASE \E s \in Sockets : SendInput(s) \/ LoseOutbox(s)
  BY <1>1, <1>6 DEF SendInput, LoseOutbox
<1>7. CASE Repeat \/ Dial \/ Connected \/ Pump \/ Disconnect \/ Receive
  <2>1. UNCHANGED sent
    BY <1>7 DEF Repeat, Dial, Connected, Pump, Emit, Disconnect, Receive
  <2> QED BY <1>1, <2>1
<1>8. CASE UNCHANGED vars
  BY <1>1, <1>8 DEF vars
<1> QED BY <1>2, <1>3, <1>4, <1>5, <1>6, <1>7, <1>8 DEF Next, Sending

\* Frame f will have been sent.
WillBeSent(f) == \E s \in Sockets : \E k \in DOMAIN sent'[s] : f = sent'[s][k]

LEMMA OnlySentThen ==
  ASSUME \A s \in Sockets : \A i \in DOMAIN outbox'[s] :
           WillBeSent(outbox'[s][i]) /\ By(outbox'[s][i], s),
         \A i \in DOMAIN channel' : WillBeSent(channel'[i].frame),
         \A i \in DOMAIN ran' : WillBeSent(ran'[i].frame)
  PROVE  OnlySent'
BY DEF OnlySent, IsSent, WillBeSent, By, Writer

LEMMA OnlySentStep ==
  ASSUME PathInv, KeyTypes, SealedWaits, OnlySent, [Next]_vars
  PROVE  OnlySent'
<1> USE DEF pageVars, relayVars, hostVars, Unchanged
<1>1. ASSUME NEW f, IsSent(f) PROVE WillBeSent(f)
  BY <1>1, SentStays DEF IsSent, WillBeSent
<1>2. ASSUME \A s \in Sockets : \A i \in DOMAIN outbox'[s] :
               \E j \in DOMAIN outbox[s] : outbox'[s][i] = outbox[s][j],
             \A i \in DOMAIN channel' : IsSent(channel'[i].frame),
             \A i \in DOMAIN ran' : IsSent(ran'[i].frame)
      PROVE  OnlySent'
  <2>1. ASSUME NEW s \in Sockets, NEW i \in DOMAIN outbox'[s], NEW f, f = outbox'[s][i]
        PROVE  WillBeSent(f) /\ By(f, s)
    BY <1>1, <1>2, <2>1 DEF OnlySent
  <2>2. ASSUME NEW i \in DOMAIN channel', NEW f, f = channel'[i].frame PROVE WillBeSent(f)
    BY <1>1, <1>2, <2>2
  <2>3. ASSUME NEW i \in DOMAIN ran', NEW f, f = ran'[i].frame PROVE WillBeSent(f)
    BY <1>1, <1>2, <2>3
  <2> QED BY <2>1, <2>2, <2>3, OnlySentThen
<1>3. ASSUME UNCHANGED <<outbox, ran>>, channel' = channel \/ channel' = <<>>
      PROVE  OnlySent'
  BY <1>2, <1>3 DEF OnlySent
<1>4. CASE SocketCloses \/ Reconnect \/ Reload \/ Join \/ Type \/ InputBegins
  BY <1>3, <1>4 DEF SocketCloses, Reconnect, Reload, Join, Type, InputBegins
<1>5. CASE Receiving
  <2>1. UNCHANGED <<outbox, ran, channel>>
    BY <1>5 DEF Receiving, ReceiveInit, Created, ReceiveStatus,
       ReceiveUnavailable, ReceiveFrame, Decrypted
  <2> QED BY <1>3, <2>1
<1>6. CASE InputEnds
  <2> DEFINE p == page.socket
             frame == sealing[1].frame
  <2>1. UNCHANGED <<ran, channel>>
    BY <1>6 DEF InputEnds
  <2>2. CASE UNCHANGED outbox
    BY <1>3, <2>1, <2>2
  <2>3. CASE /\ sealing[1].job.socket = p /\ p \in Sockets
             /\ \A s \in Sockets :
                  /\ sent'[s] = IF s = p THEN Append(sent[s], frame) ELSE sent[s]
                  /\ outbox'[s] = IF s = p THEN Append(outbox[s], frame) ELSE outbox[s]
    <3>1. By(frame, p) /\ frame \in KeyFrames
      BY <1>6, <2>3, InputEndsIs DEF SealedWaits, SealedNext
    <3>2. sent[p] \in Seq(KeyFrames) /\ outbox[p] \in Seq(KeyFrames)
      BY <2>3 DEF KeyTypes
    <3> HIDE DEF frame, p
    <3>3. \E k \in DOMAIN sent'[p] : sent'[p][k] = frame
      <4>1. sent'[p] = Append(sent[p], frame)
        BY <2>3
      <4>2. /\ DOMAIN sent'[p] = 1..(Len(sent[p]) + 1) /\ Len(sent[p]) \in Nat
            /\ sent'[p][Len(sent[p]) + 1] = frame
        BY <3>1, <3>2, <4>1, Appended
      <4> QED BY <4>2
    <3>4. ASSUME NEW f, f = frame PROVE WillBeSent(f)
      BY <2>3, <3>3, <3>4 DEF WillBeSent
    <3>5. ASSUME NEW s \in Sockets, NEW i \in DOMAIN outbox'[s], NEW f, f = outbox'[s][i]
          PROVE  WillBeSent(f) /\ By(f, s)
      <4>1. CASE s # p
        BY <1>1, <2>3, <3>5, <4>1 DEF OnlySent
      <4>2. CASE s = p
        <5>0. outbox'[p] = Append(outbox[p], frame) /\ i \in DOMAIN outbox'[p]
          BY <2>3, <3>5, <4>2
        <5>1. /\ i \in 1..(Len(outbox[p]) + 1) /\ Len(outbox[p]) \in Nat
              /\ DOMAIN outbox[p] = 1..Len(outbox[p])
              /\ \A j \in 1..Len(outbox[p]) : outbox'[p][j] = outbox[p][j]
              /\ outbox'[p][Len(outbox[p]) + 1] = frame
          BY <3>1, <3>2, <5>0, Appended
        <5>2. CASE i = Len(outbox[p]) + 1
          BY <3>1, <3>4, <3>5, <4>2, <5>1, <5>2
        <5>3. CASE i \in 1..Len(outbox[p])
          BY <1>1, <2>3, <3>5, <4>2, <5>1, <5>3 DEF OnlySent
        <5> QED BY <5>1, <5>2, <5>3
      <4> QED BY <4>1, <4>2
    <3>6. ASSUME NEW i \in DOMAIN channel, NEW f, f = channel[i].frame PROVE WillBeSent(f)
      BY <1>1, <3>6 DEF OnlySent
    <3>7. ASSUME NEW i \in DOMAIN ran, NEW f, f = ran[i].frame PROVE WillBeSent(f)
      BY <1>1, <3>7 DEF OnlySent
    <3> QED BY <2>1, <3>5, <3>6, <3>7, OnlySentThen
  <2> QED BY <1>6, <2>2, <2>3, InputEndsIs
<1>7. CASE \E n \in ConnIds : Resume(n) \/ Feed(n) \/ HandlerEnds(n)
  BY <1>3, <1>7 DEF Resume, Feed, HandlerEnds
<1>8. ASSUME NEW s \in Sockets, SendInput(s) PROVE OnlySent'
  <2>1. \A r \in Sockets : \A i \in DOMAIN outbox'[r] :
          \E j \in DOMAIN outbox[r] : outbox'[r][i] = outbox[r][j]
    <3>1. /\ DOMAIN outbox'[s] = 1..(Len(outbox[s]) - 1) /\ Len(outbox[s]) \in Nat
          /\ DOMAIN outbox[s] = 1..Len(outbox[s])
          /\ \A i \in 1..(Len(outbox[s]) - 1) : outbox'[s][i] = outbox[s][i + 1]
      BY <1>8, SendInputIs
    <3>2. ASSUME NEW i \in DOMAIN outbox'[s]
          PROVE  \E j \in DOMAIN outbox[s] : outbox'[s][i] = outbox[s][j]
      <4>1. i + 1 \in DOMAIN outbox[s] /\ outbox'[s][i] = outbox[s][i + 1]
        BY <3>1
      <4> QED BY <4>1
    <3>3. \A r \in Sockets : r # s => outbox'[r] = outbox[r]
      BY <1>8, SendInputIs
    <3> QED BY <3>2, <3>3
  <2>2. IsSent(outbox[s][1]) /\ outbox[s][1] \in KeyFrames
    BY <1>8, SendInputIs DEF OnlySent
  <2>3. ASSUME NEW i \in DOMAIN channel' PROVE IsSent(channel'[i].frame)
    <3>1. CASE channel' = channel
      BY <2>3, <3>1 DEF OnlySent
    <3>2. CASE channel' = Append(channel, [frame |-> outbox[s][1], again |-> FALSE])
      <4>1. [frame |-> outbox[s][1], again |-> FALSE] \in Entries
        BY <2>2 DEF Entries
      <4>2. /\ i \in 1..(Len(channel) + 1) /\ Len(channel) \in Nat
            /\ DOMAIN channel = 1..Len(channel)
            /\ \A j \in 1..Len(channel) : channel'[j] = channel[j]
            /\ channel'[Len(channel) + 1].frame = outbox[s][1]
        BY <2>3, <3>2, <4>1, ChannelAppended
      <4>3. CASE i = Len(channel) + 1
        BY <2>2, <4>2, <4>3
      <4>4. CASE i \in 1..Len(channel)
        BY <4>2, <4>4 DEF OnlySent
      <4> QED BY <4>2, <4>3, <4>4
    <3> QED BY <1>8, <3>1, <3>2, SendInputIs
  <2>4. ran' = ran
    BY <1>8, SendInputIs
  <2> QED BY <1>2, <2>1, <2>3, <2>4 DEF OnlySent
<1>9. ASSUME NEW s \in Sockets, LoseOutbox(s) PROVE OnlySent'
  <2>1. /\ UNCHANGED <<channel, ran>>
        /\ \A r \in Sockets : outbox'[r] = IF r = s THEN <<>> ELSE outbox[r]
    BY <1>9 DEF LoseOutbox, KeyTypes
  <2> QED BY <1>2, <2>1 DEF OnlySent
<1>10. CASE Repeat
  <2>1. PICK h \in DOMAIN ran :
          channel' = Append(channel, [frame |-> ran[h].frame, again |-> TRUE])
    BY <1>10 DEF Repeat
  <2>2. [frame |-> ran[h].frame, again |-> TRUE] \in Entries
    BY KeyPlaces DEF Entries
  <2>3. ASSUME NEW i \in DOMAIN channel' PROVE IsSent(channel'[i].frame)
    <3>1. /\ i \in 1..(Len(channel) + 1) /\ Len(channel) \in Nat
          /\ DOMAIN channel = 1..Len(channel)
          /\ \A j \in 1..Len(channel) : channel'[j] = channel[j]
          /\ channel'[Len(channel) + 1].frame = ran[h].frame
      BY <2>1, <2>2, <2>3, ChannelAppended
    <3>2. CASE i = Len(channel) + 1
      BY <3>1, <3>2 DEF OnlySent
    <3>3. CASE i \in 1..Len(channel)
      BY <3>1, <3>3 DEF OnlySent
    <3> QED BY <3>1, <3>2, <3>3
  <2>4. UNCHANGED <<outbox, ran>>
    BY <1>10 DEF Repeat
  <2> QED BY <1>2, <2>3, <2>4 DEF OnlySent
<1>11. CASE Dial \/ Disconnect \/ Connected \/ Pump
  BY <1>3, <1>11 DEF Dial, Disconnect, Connected, Pump, Emit
<1>12. CASE Receive
  <2>1. \A i \in DOMAIN channel' : IsSent(channel'[i].frame)
    <3>1. \A i \in 1..(Len(channel) - 1) : i + 1 \in 1..Len(channel)
      BY <1>12, ReceiveIs
    <3> QED BY <1>12, <3>1, ReceiveIs DEF OnlySent
  <2>2. ASSUME NEW i \in DOMAIN ran' PROVE IsSent(ran'[i].frame)
    <3>1. CASE ran' = ran
      BY <2>2, <3>1 DEF OnlySent
    <3>2. CASE ran' = Append(ran, [frame |-> channel[1].frame, conn |-> host.conn])
      <4>1. channel[1].frame \in KeyFrames /\ IsSent(channel[1].frame)
        BY <1>12, ReceiveIs DEF OnlySent
      <4>2. /\ i \in 1..(Len(ran) + 1) /\ Len(ran) \in Nat /\ DOMAIN ran = 1..Len(ran)
            /\ \A j \in 1..Len(ran) : ran'[j] = ran[j]
            /\ ran'[Len(ran) + 1].frame = channel[1].frame
        BY <2>2, <3>2, <4>1, RanAppended
      <4>3. CASE i = Len(ran) + 1
        BY <4>1, <4>2, <4>3
      <4>4. CASE i \in 1..Len(ran)
        BY <4>2, <4>4 DEF OnlySent
      <4> QED BY <4>2, <4>3, <4>4
    <3> QED BY <1>12, <3>1, <3>2, ReceiveIs
  <2>3. outbox' = outbox
    BY <1>12, ReceiveIs
  <2> QED BY <1>2, <2>1, <2>2, <2>3
<1>13. CASE UNCHANGED vars
  BY <1>3, <1>13 DEF vars
<1> QED BY <1>4, <1>5, <1>6, <1>7, <1>8, <1>9, <1>10, <1>11, <1>12, <1>13
        DEF Next, Sending

-----------------------------------------------------------------------------
(* Order. *)

\* Something is dropped, or nothing happens.
LEMMA QueueStill ==
  ASSUME Queue, UNCHANGED ran, channel' = channel \/ channel' = <<>>,
         \A s \in Sockets : outbox'[s] = outbox[s] \/ outbox'[s] = <<>>
  PROVE  Queue'
<1>1. OutboxRises'
  BY DEF Queue, OutboxRises, Number
<1>2. ChannelRises'
  BY DEF Queue, ChannelRises, Arrives, By, Writer, Number
<1>3. ChannelFirst'
  BY DEF Queue, ChannelFirst, Arrives, By, Writer, Number
<1>4. RanFirst'
  <2> SUFFICES ASSUME NEW s \in Sockets, NEW h \in DOMAIN ran, By(ran[h].frame, s)
               PROVE  /\ \A j \in DOMAIN outbox'[s] : Number(ran[h].frame) < Number(outbox'[s][j])
                      /\ \A i \in DOMAIN channel' :
                           Arrives(i, s)' => Number(ran[h].frame) < Number(channel'[i].frame)
    BY DEF RanFirst, By, Writer, Number, Arrives
  <2>1. \A j \in DOMAIN outbox'[s] : Number(ran[h].frame) < Number(outbox'[s][j])
    BY DEF Queue, RanFirst
  <2>2. \A i \in DOMAIN channel' :
          Arrives(i, s)' => Number(ran[h].frame) < Number(channel'[i].frame)
    BY DEF Queue, RanFirst, Arrives, By, Writer
  <2> QED BY <2>1, <2>2
<1> QED BY <1>1, <1>2, <1>3, <1>4 DEF Queue

\* A frame of a socket that was sent is among those the socket sent.
LEMMA SentBySocket ==
  ASSUME Counted, NEW f, IsSent(f), NEW s \in Sockets, By(f, s)
  PROVE  \E k \in DOMAIN sent[s] : f = sent[s][k]
<1>1. PICK r \in Sockets : \E k \in DOMAIN sent[r] : f = sent[r][k]
  BY DEF IsSent
<1>2. By(f, r)
  BY <1>1 DEF Counted
<1>3. r = s
  BY <1>2, OneWriter
<1> QED BY <1>1, <1>3

\* What the page seals comes after all it has sealed.
LEMMA InputEndsQueue ==
  ASSUME PathInv, KeyTypes, Counted, SealedWaits, OnlySent, Queue, InputEnds
  PROVE  Queue'
<1> DEFINE p == page.socket
           frame == sealing[1].frame
<1>1. UNCHANGED <<ran, channel>>
  BY DEF InputEnds, hostVars
<1>2. CASE UNCHANGED outbox
  BY <1>1, <1>2, QueueStill
<1>3. CASE /\ sealing[1].job.socket = p /\ p \in Sockets
           /\ \A s \in Sockets :
                outbox'[s] = IF s = p THEN Append(outbox[s], frame) ELSE outbox[s]
  <2>1. /\ frame \in KeyFrames /\ By(frame, p)
        /\ \A k \in DOMAIN sent[p] : Number(sent[p][k]) < Number(frame)
    BY <1>3, InputEndsIs DEF SealedWaits, SealedNext
  <2>2. outbox[p] \in Seq(KeyFrames) /\ outbox'[p] = Append(outbox[p], frame)
    BY <1>3 DEF KeyTypes
  <2> HIDE DEF p, frame
  <2>3. /\ DOMAIN outbox'[p] = 1..(Len(outbox[p]) + 1) /\ Len(outbox[p]) \in Nat
        /\ DOMAIN outbox[p] = 1..Len(outbox[p])
        /\ \A i \in 1..Len(outbox[p]) : outbox'[p][i] = outbox[p][i]
        /\ outbox'[p][Len(outbox[p]) + 1] = frame
    BY <2>1, <2>2, Appended
  <2>4. ASSUME NEW f, IsSent(f), By(f, p) PROVE Number(f) < Number(frame)
    BY <1>3, <2>1, <2>4, SentBySocket
  <2>5. \A j \in DOMAIN outbox[p] : Number(outbox[p][j]) < Number(frame)
    BY <1>3, <2>4 DEF OnlySent
  <2>6. \A s \in Sockets : s # p => outbox'[s] = outbox[s]
    BY <1>3
  <2>7. OutboxRises'
    <3> SUFFICES ASSUME NEW s \in Sockets, NEW i \in DOMAIN outbox'[s],
                        NEW j \in DOMAIN outbox'[s], i < j
                 PROVE  Number(outbox'[s][i]) < Number(outbox'[s][j])
      BY DEF OutboxRises, Number
    <3>1. CASE s # p
      BY <2>6, <3>1 DEF Queue, OutboxRises
    <3>2. CASE s = p
      <4>1. i \in 1..Len(outbox[p])
        BY <2>3, <3>2
      <4>2. CASE j = Len(outbox[p]) + 1
        BY <2>3, <2>5, <3>2, <4>1, <4>2
      <4>3. CASE j \in 1..Len(outbox[p])
        BY <1>3, <2>3, <3>2, <4>1, <4>3 DEF Queue, OutboxRises
      <4> QED BY <2>3, <3>2, <4>2, <4>3
    <3> QED BY <3>1, <3>2
  <2>8. ChannelRises'
    BY <1>1 DEF Queue, ChannelRises, Arrives, By, Writer, Number
  <2>9. ChannelFirst'
    <3> SUFFICES ASSUME NEW s \in Sockets, NEW i \in DOMAIN channel,
                        NEW j \in DOMAIN outbox'[s], Arrives(i, s)
                 PROVE  Number(channel[i].frame) < Number(outbox'[s][j])
      BY <1>1 DEF ChannelFirst, Arrives, By, Writer, Number
    <3>1. CASE s # p
      BY <2>6, <3>1 DEF Queue, ChannelFirst
    <3>2. CASE s = p /\ j = Len(outbox[p]) + 1
      <4>1. IsSent(channel[i].frame) /\ By(channel[i].frame, p)
        BY <3>2 DEF OnlySent, Arrives
      <4> QED BY <2>3, <2>4, <3>2, <4>1
    <3>3. CASE s = p /\ j \in 1..Len(outbox[p])
      BY <1>3, <2>3, <3>3 DEF Queue, ChannelFirst
    <3> QED BY <2>3, <3>1, <3>2, <3>3
  <2>10. RanFirst'
    <3> SUFFICES ASSUME NEW s \in Sockets, NEW h \in DOMAIN ran, By(ran[h].frame, s),
                        NEW j \in DOMAIN outbox'[s]
                 PROVE  Number(ran[h].frame) < Number(outbox'[s][j])
      BY <1>1 DEF RanFirst, Queue, By, Writer, Number, Arrives
    <3>1. CASE s # p
      BY <2>6, <3>1 DEF Queue, RanFirst
    <3>2. CASE s = p /\ j = Len(outbox[p]) + 1
      <4>1. IsSent(ran[h].frame)
        BY DEF OnlySent
      <4> QED BY <2>3, <2>4, <3>2, <4>1
    <3>3. CASE s = p /\ j \in 1..Len(outbox[p])
      BY <1>3, <2>3, <3>3 DEF Queue, RanFirst
    <3> QED BY <2>3, <3>1, <3>2, <3>3
  <2> QED BY <2>7, <2>8, <2>9, <2>10 DEF Queue
<1> QED BY <1>2, <1>3, InputEndsIs

\* The relay passes on what is first in line.
LEMMA SendInputQueue ==
  ASSUME KeyTypes, OnlySent, Queue, NEW s \in Sockets, SendInput(s)
  PROVE  Queue'
<1> DEFINE x == outbox[s][1]
           n == Len(outbox[s])
           entry == [frame |-> x, again |-> FALSE]
<1>1. /\ x \in KeyFrames /\ n \in Nat /\ 1 \in DOMAIN outbox[s] /\ DOMAIN outbox[s] = 1..n
      /\ \A r \in Sockets : r # s => outbox'[r] = outbox[r]
      /\ DOMAIN outbox'[s] = 1..(n - 1)
      /\ \A i \in 1..(n - 1) : outbox'[s][i] = outbox[s][i + 1]
      /\ ran' = ran
  BY SendInputIs
<1>2. channel' = Append(channel, entry) \/ channel' = channel
  BY SendInputIs
<1>3. By(x, s)
  BY <1>1 DEF OnlySent
<1> HIDE DEF x, n
<1>4. \A j \in DOMAIN outbox'[s] : /\ j + 1 \in DOMAIN outbox[s] /\ 1 < j + 1
                                   /\ outbox'[s][j] = outbox[s][j + 1]
                                   /\ j \in Nat
  BY <1>1
<1>5. \A j \in DOMAIN outbox'[s] : Number(x) < Number(outbox'[s][j])
  <2> SUFFICES ASSUME NEW j \in DOMAIN outbox'[s] PROVE Number(x) < Number(outbox'[s][j])
    OBVIOUS
  <2>1. Number(outbox[s][1]) < Number(outbox[s][j + 1])
    BY <1>1, <1>4 DEF Queue, OutboxRises
  <2> QED BY <1>4, <2>1 DEF x
<1>6. entry \in Entries /\ entry.frame = x
  BY <1>1 DEF Entries
<1>7. \A i \in DOMAIN channel : Arrives(i, s) => Number(channel[i].frame) < Number(x)
  BY <1>1 DEF Queue, ChannelFirst, x
<1>8. \A h \in DOMAIN ran : By(ran[h].frame, s) => Number(ran[h].frame) < Number(x)
  BY <1>1 DEF Queue, RanFirst, x
<1>9. /\ DOMAIN channel = 1..Len(channel) /\ Len(channel) \in Nat
      /\ \A i \in DOMAIN channel' :
           \/ i \in DOMAIN channel /\ channel'[i] = channel[i]
           \/ i = Len(channel) + 1 /\ channel'[i] = entry
  <2>1. CASE channel' = channel
    <3>1. channel \in Seq(Entries)
      BY DEF KeyTypes
    <3> QED BY <2>1, <3>1
  <2>2. CASE channel' = Append(channel, entry)
    <3> HIDE DEF entry
    <3> QED BY <1>6, <2>2, ChannelAppended
  <2> QED BY <1>2, <2>1, <2>2
<1> HIDE DEF entry
<1>10. ASSUME NEW i \in DOMAIN channel', NEW r \in Sockets, Arrives(i, r)'
       PROVE  \/ i \in DOMAIN channel /\ channel'[i] = channel[i] /\ Arrives(i, r)
              \/ i = Len(channel) + 1 /\ channel'[i].frame = x /\ r = s
  <2>1. CASE i \in DOMAIN channel /\ channel'[i] = channel[i]
    BY <1>10, <2>1 DEF Arrives, By, Writer
  <2>2. CASE i = Len(channel) + 1 /\ channel'[i] = entry
    <3>1. By(x, r)
      BY <1>6, <1>10, <2>2 DEF Arrives, By, Writer
    <3> QED BY <1>3, <1>6, <2>2, <3>1, OneWriter
  <2> QED BY <1>9, <2>1, <2>2
<1>11. OutboxRises'
  <2> SUFFICES ASSUME NEW r \in Sockets, NEW i \in DOMAIN outbox'[r],
                      NEW j \in DOMAIN outbox'[r], i < j
               PROVE  Number(outbox'[r][i]) < Number(outbox'[r][j])
    BY DEF OutboxRises, Number
  <2>1. CASE r # s
    BY <1>1, <2>1 DEF Queue, OutboxRises
  <2>2. CASE r = s
    <3>1. /\ i + 1 \in DOMAIN outbox[s] /\ j + 1 \in DOMAIN outbox[s] /\ i + 1 < j + 1
          /\ outbox'[s][i] = outbox[s][i + 1] /\ outbox'[s][j] = outbox[s][j + 1]
      BY <1>4, <2>2
    <3> QED BY <2>2, <3>1 DEF Queue, OutboxRises
  <2> QED BY <2>1, <2>2
<1>12. ChannelRises'
  <2> SUFFICES ASSUME NEW r \in Sockets, NEW i \in DOMAIN channel', NEW j \in DOMAIN channel',
                      i < j, Arrives(i, r)', Arrives(j, r)'
               PROVE  Number(channel'[i].frame) < Number(channel'[j].frame)
    BY DEF ChannelRises, Number
  <2>1. CASE i \in DOMAIN channel /\ channel'[i] = channel[i] /\ Arrives(i, r)
    <3>1. CASE j \in DOMAIN channel /\ channel'[j] = channel[j] /\ Arrives(j, r)
      BY <2>1, <3>1 DEF Queue, ChannelRises
    <3>2. CASE j = Len(channel) + 1 /\ channel'[j].frame = x /\ r = s
      BY <1>7, <2>1, <3>2
    <3> QED BY <1>10, <3>1, <3>2
  <2>2. CASE i = Len(channel) + 1
    BY <1>9, <2>2
  <2> QED BY <1>10, <2>1, <2>2
<1>13. ChannelFirst'
  <2> SUFFICES ASSUME NEW r \in Sockets, NEW i \in DOMAIN channel', NEW j \in DOMAIN outbox'[r],
                      Arrives(i, r)'
               PROVE  Number(channel'[i].frame) < Number(outbox'[r][j])
    BY DEF ChannelFirst, Number
  <2>1. CASE channel'[i].frame = x /\ r = s
    BY <1>5, <2>1
  <2>2. CASE i \in DOMAIN channel /\ channel'[i] = channel[i] /\ Arrives(i, r)
    <3>1. CASE r # s
      BY <1>1, <2>2, <3>1 DEF Queue, ChannelFirst
    <3>2. CASE r = s
      BY <1>4, <2>2, <3>2 DEF Queue, ChannelFirst
    <3> QED BY <3>1, <3>2
  <2> QED BY <1>10, <2>1, <2>2
<1>14. RanFirst'
  <2> SUFFICES ASSUME NEW r \in Sockets, NEW h \in DOMAIN ran, By(ran[h].frame, r)
               PROVE  /\ \A j \in DOMAIN outbox'[r] :
                           Number(ran[h].frame) < Number(outbox'[r][j])
                      /\ \A i \in DOMAIN channel' : Arrives(i, r)' =>
                           Number(ran[h].frame) < Number(channel'[i].frame)
    BY <1>1 DEF RanFirst, By, Writer, Number
  <2>1. ASSUME NEW j \in DOMAIN outbox'[r]
        PROVE  Number(ran[h].frame) < Number(outbox'[r][j])
    <3>1. CASE r # s
      BY <1>1, <2>1, <3>1 DEF Queue, RanFirst
    <3>2. CASE r = s
      BY <1>4, <2>1, <3>2 DEF Queue, RanFirst
    <3> QED BY <3>1, <3>2
  <2>2. ASSUME NEW i \in DOMAIN channel', Arrives(i, r)'
        PROVE  Number(ran[h].frame) < Number(channel'[i].frame)
    <3>1. CASE channel'[i].frame = x /\ r = s
      BY <1>8, <3>1
    <3>2. CASE i \in DOMAIN channel /\ channel'[i] = channel[i] /\ Arrives(i, r)
      BY <3>2 DEF Queue, RanFirst
    <3> QED BY <1>10, <2>2, <3>1, <3>2
  <2> QED BY <2>1, <2>2
<1> QED BY <1>11, <1>12, <1>13, <1>14 DEF Queue

\* What the relay repeats is not of the first arrivals.
LEMMA RepeatQueue ==
  ASSUME KeyTypes, Queue, Repeats, Repeat
  PROVE  Queue' /\ Repeats'
<1>1. PICK h \in DOMAIN ran :
        channel' = Append(channel, [frame |-> ran[h].frame, again |-> TRUE])
  BY DEF Repeat
<1> DEFINE entry == [frame |-> ran[h].frame, again |-> TRUE]
<1>2. UNCHANGED <<outbox, ran>>
  BY DEF Repeat
<1>3. entry \in Entries /\ entry.again /\ entry.frame = ran[h].frame
  BY KeyPlaces DEF Entries
<1> HIDE DEF entry
<1>4. channel' = Append(channel, entry)
  BY <1>1 DEF entry
<1>5. /\ DOMAIN channel = 1..Len(channel) /\ Len(channel) \in Nat
      /\ \A i \in DOMAIN channel' :
           \/ i \in DOMAIN channel /\ channel'[i] = channel[i]
           \/ i = Len(channel) + 1 /\ channel'[i] = entry
  BY <1>3, <1>4, ChannelAppended
<1>6. ASSUME NEW i \in DOMAIN channel', NEW r \in Sockets, Arrives(i, r)'
      PROVE  i \in DOMAIN channel /\ channel'[i] = channel[i] /\ Arrives(i, r)
  BY <1>3, <1>5, <1>6 DEF Arrives, By, Writer
<1>7. OutboxRises'
  BY <1>2 DEF Queue, OutboxRises, Number
<1>8. ChannelRises'
  <2> SUFFICES ASSUME NEW r \in Sockets, NEW i \in DOMAIN channel', NEW j \in DOMAIN channel',
                      i < j, Arrives(i, r)', Arrives(j, r)'
               PROVE  Number(channel'[i].frame) < Number(channel'[j].frame)
    BY DEF ChannelRises, Number
  <2> QED BY <1>6 DEF Queue, ChannelRises
<1>9. ChannelFirst'
  <2> SUFFICES ASSUME NEW r \in Sockets, NEW i \in DOMAIN channel', NEW j \in DOMAIN outbox[r],
                      Arrives(i, r)'
               PROVE  Number(channel'[i].frame) < Number(outbox[r][j])
    BY <1>2 DEF ChannelFirst, Number
  <2> QED BY <1>6 DEF Queue, ChannelFirst
<1>10. RanFirst'
  <2> SUFFICES ASSUME NEW r \in Sockets, NEW k \in DOMAIN ran, By(ran[k].frame, r),
                      NEW i \in DOMAIN channel', Arrives(i, r)'
               PROVE  Number(ran[k].frame) < Number(channel'[i].frame)
    BY <1>2 DEF RanFirst, Queue, By, Writer, Number
  <2> QED BY <1>6 DEF Queue, RanFirst
<1>11. Repeats'
  BY <1>2, <1>3, <1>5 DEF Repeats
<1> QED BY <1>7, <1>8, <1>9, <1>10, <1>11 DEF Queue

\* What the relay repeats is refused.
LEMMA RepeatRefused ==
  ASSUME IInv, KeyTypes, Repeats, Receive, channel[1].again
  PROVE  ~Receives(host.receiver, Master, SessionId, channel[1].frame)
<1> DEFINE f == channel[1].frame
           writers == host.receiver.writers
<1>1. host.phase = "up" /\ 1 \in DOMAIN channel /\ f \in KeyFrames
  BY ReceiveIs
<1>2. PICK h \in DOMAIN ran : ran[h].frame = f
  BY <1>1 DEF Repeats
<1> SUFFICES ASSUME Receives(host.receiver, Master, SessionId, f) PROVE FALSE
  OBVIOUS
<1> HIDE DEF f
<1>3. /\ f.body.plain.epoch = host.receiver.epoch
      /\ f.header.writer \in DOMAIN writers
           => f.header.sequence > writers[f.header.writer]
  BY DEF Receives, Expects, Fresh
<1>4. ran[h].conn = host.conn
  BY <1>1, <1>2, <1>3 DEF IInv, Epochs
<1>5. /\ f.header.writer \in DOMAIN writers
      /\ f.header.sequence <= writers[f.header.writer]
  BY <1>1, <1>2, <1>4 DEF IInv, Newest
<1>6. f.header.sequence \in Nat /\ writers[f.header.writer] \in Nat
  BY <1>1, <1>5, KeyFrameIs DEF IInv, Shape
<1> QED BY <1>3, <1>5, <1>6

\* The host takes what arrives first, or refuses it.
LEMMA ReceiveQueue ==
  ASSUME IInv, PathInv, KeyTypes, Queue, Repeats, Receive
  PROVE  Queue' /\ Repeats'
<1> DEFINE y == channel[1].frame
           n == Len(channel)
           l == Len(ran) + 1
<1>1. /\ n \in Nat /\ DOMAIN channel = 1..n /\ 1 \in DOMAIN channel /\ y \in KeyFrames
      /\ DOMAIN channel' = 1..(n - 1)
      /\ \A i \in 1..(n - 1) : channel'[i] = channel[i + 1]
      /\ outbox' = outbox
  BY ReceiveIs
<1>2. \/ ran' = ran
      \/ ~channel[1].again /\ ran' = Append(ran, [frame |-> y, conn |-> host.conn])
  BY ReceiveIs, RepeatRefused
<1> HIDE DEF n
<1>3. \A i \in DOMAIN channel' : /\ i + 1 \in DOMAIN channel /\ channel'[i] = channel[i + 1]
                                 /\ 1 < i + 1 /\ i \in Nat
  BY <1>1
<1>4. \A i \in DOMAIN channel', r \in Sockets : Arrives(i, r)' => Arrives(i + 1, r)
  BY <1>3 DEF Arrives, By, Writer
<1>5. /\ DOMAIN ran = 1..Len(ran) /\ Len(ran) \in Nat
      /\ \A h \in DOMAIN ran : h \in DOMAIN ran' /\ ran'[h] = ran[h]
      /\ \A h \in DOMAIN ran' : \/ h \in DOMAIN ran /\ ran'[h] = ran[h]
                                \/ h = l /\ ran'[h].frame = y /\ ~channel[1].again
  <2>1. CASE ran' = ran
    <3>1. ran \in Seq([frame : KeyFrames, conn : ConnIds])
      BY DEF KeyTypes
    <3> QED BY <2>1, <3>1
  <2>2. CASE ~channel[1].again /\ ran' = Append(ran, [frame |-> y, conn |-> host.conn])
    <3> HIDE DEF y
    <3>1. /\ Len(ran) \in Nat /\ DOMAIN ran = 1..Len(ran) /\ DOMAIN ran' = 1..(Len(ran) + 1)
          /\ \A i \in 1..Len(ran) : ran'[i] = ran[i]
          /\ ran'[Len(ran) + 1] = [frame |-> y, conn |-> host.conn]
      BY <1>1, <2>2, RanAppended
    <3>2. ran'[Len(ran) + 1].frame = y
      BY <3>1
    <3> QED BY <2>2, <3>1, <3>2
  <2> QED BY <1>2, <2>1, <2>2
<1> HIDE DEF l
<1>6. OutboxRises'
  BY <1>1 DEF Queue, OutboxRises, Number
<1>7. ChannelRises'
  <2> SUFFICES ASSUME NEW r \in Sockets, NEW i \in DOMAIN channel', NEW j \in DOMAIN channel',
                      i < j, Arrives(i, r)', Arrives(j, r)'
               PROVE  Number(channel'[i].frame) < Number(channel'[j].frame)
    BY DEF ChannelRises, Number
  <2>1. i + 1 < j + 1
    BY <1>3
  <2> QED BY <1>3, <1>4, <2>1 DEF Queue, ChannelRises
<1>8. ChannelFirst'
  <2> SUFFICES ASSUME NEW r \in Sockets, NEW i \in DOMAIN channel', NEW j \in DOMAIN outbox[r],
                      Arrives(i, r)'
               PROVE  Number(channel'[i].frame) < Number(outbox[r][j])
    BY <1>1 DEF ChannelFirst, Number
  <2> QED BY <1>3, <1>4 DEF Queue, ChannelFirst
<1>9. RanFirst'
  <2> SUFFICES ASSUME NEW r \in Sockets, NEW h \in DOMAIN ran', By(ran'[h].frame, r)
               PROVE  /\ \A j \in DOMAIN outbox[r] :
                           Number(ran'[h].frame) < Number(outbox[r][j])
                      /\ \A i \in DOMAIN channel' : Arrives(i, r)' =>
                           Number(ran'[h].frame) < Number(channel'[i].frame)
    BY <1>1 DEF RanFirst, By, Writer, Number
  <2>1. CASE h \in DOMAIN ran /\ ran'[h] = ran[h]
    BY <1>3, <1>4, <2>1 DEF Queue, RanFirst
  <2>2. CASE ran'[h].frame = y /\ ~channel[1].again
    <3>1. Arrives(1, r)
      BY <2>2 DEF Arrives
    <3>2. \A j \in DOMAIN outbox[r] : Number(y) < Number(outbox[r][j])
      BY <1>1, <3>1 DEF Queue, ChannelFirst
    <3>3. \A i \in DOMAIN channel' : Arrives(i, r)' => Number(y) < Number(channel'[i].frame)
      BY <1>1, <1>3, <1>4, <3>1 DEF Queue, ChannelRises
    <3> QED BY <2>2, <3>2, <3>3
  <2> QED BY <1>5, <2>1, <2>2
<1>10. Repeats'
  <2> SUFFICES ASSUME NEW i \in DOMAIN channel', channel'[i].again
               PROVE  \E h \in DOMAIN ran' : ran'[h].frame = channel'[i].frame
    BY DEF Repeats
  <2> QED BY <1>3, <1>5 DEF Repeats
<1> QED BY <1>6, <1>7, <1>8, <1>9, <1>10 DEF Queue

LEMMA QueueStep ==
  ASSUME IInv, PathInv, KeyTypes, Counted, SealedWaits, OnlySent, Queue, Repeats,
         [Next]_vars
  PROVE  Queue' /\ Repeats'
<1> USE DEF pageVars, relayVars, hostVars, Unchanged
<1>1. ASSUME UNCHANGED <<ran, outbox>>, channel' = channel \/ channel' = <<>>
      PROVE  Queue' /\ Repeats'
  <2>1. Repeats'
    BY <1>1 DEF Repeats
  <2> QED BY <1>1, <2>1, QueueStill
<1>2. CASE SocketCloses \/ Reconnect \/ Reload \/ Join \/ Type \/ InputBegins
  BY <1>1, <1>2 DEF SocketCloses, Reconnect, Reload, Join, Type, InputBegins
<1>3. CASE Receiving
  <2>1. UNCHANGED <<outbox, ran, channel>>
    BY <1>3 DEF Receiving, ReceiveInit, Created, ReceiveStatus,
       ReceiveUnavailable, ReceiveFrame, Decrypted
  <2> QED BY <1>1, <2>1
<1>4. CASE InputEnds
  <2>1. UNCHANGED <<ran, channel>>
    BY <1>4 DEF InputEnds
  <2>2. Repeats'
    BY <2>1 DEF Repeats
  <2> QED BY <1>4, <2>2, InputEndsQueue
<1>5. CASE \E n \in ConnIds : Resume(n) \/ Feed(n) \/ HandlerEnds(n)
  BY <1>1, <1>5 DEF Resume, Feed, HandlerEnds
<1>6. ASSUME NEW s \in Sockets, SendInput(s) PROVE Queue' /\ Repeats'
  <2>1. ran' = ran /\ outbox[s][1] \in KeyFrames
    BY <1>6, SendInputIs
  <2>2. Repeats'
    <3>1. CASE channel' = channel
      BY <2>1, <3>1 DEF Repeats
    <3>2. CASE channel' = Append(channel, [frame |-> outbox[s][1], again |-> FALSE])
      <4>1. [frame |-> outbox[s][1], again |-> FALSE] \in Entries
        BY <2>1 DEF Entries
      <4>2. \A i \in DOMAIN channel' : \/ i \in DOMAIN channel /\ channel'[i] = channel[i]
                                       \/ ~channel'[i].again
        BY <3>2, <4>1, ChannelAppended
      <4> QED BY <2>1, <4>2 DEF Repeats
    <3> QED BY <1>6, <3>1, <3>2, SendInputIs
  <2> QED BY <1>6, <2>2, SendInputQueue
<1>7. ASSUME NEW s \in Sockets, LoseOutbox(s) PROVE Queue' /\ Repeats'
  <2>1. /\ UNCHANGED <<channel, ran>>
        /\ \A r \in Sockets : outbox'[r] = IF r = s THEN <<>> ELSE outbox[r]
    BY <1>7 DEF LoseOutbox, KeyTypes
  <2>2. Repeats'
    BY <2>1 DEF Repeats
  <2> QED BY <2>1, <2>2, QueueStill
<1>8. CASE Repeat
  BY <1>8, RepeatQueue
<1>9. CASE Dial \/ Disconnect \/ Connected \/ Pump
  BY <1>1, <1>9 DEF Dial, Disconnect, Connected, Pump, Emit
<1>10. CASE Receive
  BY <1>10, ReceiveQueue
<1>11. CASE UNCHANGED vars
  BY <1>1, <1>11 DEF vars
<1> QED BY <1>2, <1>3, <1>4, <1>5, <1>6, <1>7, <1>8, <1>9, <1>10, <1>11
        DEF Next, Sending

LEMMA CountedStep ==
  ASSUME PathInv, KeyTypes, Counted, SealedWaits, [Next]_vars
  PROVE  Counted' /\ SealedWaits'
<1> USE DEF pageVars, relayVars, hostVars, Unchanged
<1>1. ASSUME UNCHANGED <<sent, sealing, cipher, page, receiving>>
      PROVE  Counted' /\ SealedWaits'
  <2>1. sealing # <<>> => sealing[1].job.socket \in Sockets
    BY SealedTypes
  <2>2. \A s \in Sockets : Unsealed(s)' => Unsealed(s)
    BY <1>1 DEF Unsealed, Inited
  <2> QED BY <1>1, <2>1, <2>2, CountedStill
<1>2. CASE SocketCloses \/ Reconnect \/ Reload \/ Join \/ Receiving \/ Type
  BY <1>2, PageCounts
<1>3. CASE InputBegins
  BY <1>3, InputBeginsCounts
<1>4. CASE InputEnds
  BY <1>4, InputEndsCounts
<1>5. CASE \E n \in ConnIds : Resume(n) \/ Feed(n) \/ HandlerEnds(n)
  BY <1>1, <1>5 DEF Resume, Feed, HandlerEnds
<1>6. CASE \E s \in Sockets : SendInput(s) \/ LoseOutbox(s)
  BY <1>1, <1>6 DEF SendInput, LoseOutbox
<1>7. CASE Repeat \/ Dial \/ Disconnect
  BY <1>1, <1>7 DEF Repeat, Dial, Disconnect
<1>8. CASE Connected \/ Pump
  BY <1>1, <1>8 DEF Connected, Pump, Emit
<1>9. CASE Receive
  BY <1>1, <1>9 DEF Receive
<1>10. CASE UNCHANGED vars
  BY <1>1, <1>10 DEF vars
<1> QED BY <1>2, <1>3, <1>4, <1>5, <1>6, <1>7, <1>8, <1>9, <1>10 DEF Next, Sending

-----------------------------------------------------------------------------
(* What runs. *)

\* A frame the host takes is the first of its socket that is not accounted for: those
\* sealed before it for this connection have run.
LEMMA TakenIs ==
  ASSUME IInv, KeyInv, Receive, NEW y \in KeyFrames, y = channel[1].frame,
         Receives(host.receiver, Master, SessionId, y)
  PROVE  /\ Epoch(y) = host.conn
         /\ \E s \in Sockets : \E k \in DOMAIN sent[s] :
              /\ y = sent[s][k]
              /\ \A j \in 1..(k - 1) :
                   Epoch(sent[s][j]) = host.conn =>
                     \E h \in DOMAIN ran : ran[h] = [frame |-> sent[s][j], conn |-> host.conn]
<1>1. /\ host.phase = "up" /\ 1 \in DOMAIN channel /\ ~channel[1].again
      /\ DOMAIN channel = 1..Len(channel) /\ Len(channel) \in Nat
  BY ReceiveIs, RepeatRefused DEF KeyInv
<1>2. Epoch(y) = host.conn
  BY <1>1 DEF Receives, Expects, IInv, Epochs, Epoch
<1>3. PICK s \in Sockets : By(y, s)
  BY KeyFrameIs
<1>4. Arrives(1, s)
  BY <1>1, <1>3 DEF Arrives
<1>5. PICK k \in DOMAIN sent[s] : y = sent[s][k]
  BY <1>1, <1>3, SentBySocket DEF KeyInv, OnlySent
<1>6. /\ DOMAIN sent[s] = 1..Len(sent[s]) /\ Len(sent[s]) \in Nat
      /\ \A i \in DOMAIN sent[s] : sent[s][i] \in KeyFrames
  <2>1. sent[s] \in Seq(KeyFrames)
    BY DEF KeyInv, KeyTypes
  <2> QED BY <2>1, LenProperties, ElementOfSeq
<1>7. ASSUME NEW j \in 1..(k - 1), Epoch(sent[s][j]) = host.conn
      PROVE  \E h \in DOMAIN ran : ran[h] = [frame |-> sent[s][j], conn |-> host.conn]
  <2> DEFINE x == sent[s][j]
  <2>1. j \in DOMAIN sent[s] /\ j < k
    BY <1>6
  <2>2. /\ x \in KeyFrames /\ By(x, s) /\ Number(x) < Number(y)
        /\ Number(x) \in Nat /\ Number(y) \in Nat
    BY <1>5, <1>6, <2>1, KeyFrameIs DEF KeyInv, Counted
  <2>3. Place(s, x)
    BY <1>1, <1>7, <2>1 DEF KeyInv, Placed
  <2> HIDE DEF x
  <2>4. ASSUME NEW i \in DOMAIN channel, channel[i] = [frame |-> x, again |-> FALSE]
        PROVE  FALSE
    <3>1. Arrives(i, s) /\ channel[i].frame = x
      BY <2>2, <2>4 DEF Arrives
    <3>2. i # 1
      BY <2>2, <3>1
    <3>3. 1 < i
      BY <1>1, <3>2
    <3>4. Number(y) < Number(x)
      BY <1>1, <1>4, <3>1, <3>3 DEF KeyInv, Queue, ChannelRises
    <3> QED BY <2>2, <3>4
  <2>5. ASSUME NEW i \in DOMAIN outbox[s], outbox[s][i] = x
        PROVE  FALSE
    <3>1. Number(y) < Number(x)
      BY <1>1, <1>4, <2>5 DEF KeyInv, Queue, ChannelFirst
    <3> QED BY <2>2, <3>1
  <2>6. ~Shut(s)
    BY <1>3 DEF Receives, Fresh, Shut, By
  <2>7. ~Lost(s, x)
    <3>1. Lost(s, x) => Number(y) < Number(x)
      BY <1>1, <1>4 DEF Lost
    <3> QED BY <2>2, <3>1
  <2> QED BY <2>3, <2>4, <2>5, <2>6, <2>7 DEF Place, x
<1> QED BY <1>2, <1>5, <1>7

LEMMA PrefixStep ==
  ASSUME IInv, IInv', PathInv, KeyInv, [Next]_vars
  PROVE  RunsAPrefix'
<1> USE DEF pageVars, relayVars, hostVars, Unchanged
<1>1. ASSUME NEW s \in Sockets, NEW k \in DOMAIN sent[s]
      PROVE  /\ k \in DOMAIN sent'[s] /\ sent'[s][k] = sent[s][k]
             /\ \A j \in 1..(k - 1) : sent'[s][j] = sent[s][j]
  <2>1. sent[s] \in Seq(KeyFrames)
    BY DEF KeyInv, KeyTypes
  <2>2. \A j \in 1..(k - 1) : j \in DOMAIN sent[s]
    BY <2>1, LenProperties
  <2> QED BY <2>2, SentStays DEF KeyInv
<1>2. /\ ran \in Seq([frame : KeyFrames, conn : ConnIds])
      /\ DOMAIN ran = 1..Len(ran) /\ Len(ran) \in Nat
  <2>1. ran \in Seq([frame : KeyFrames, conn : ConnIds])
    BY DEF KeyInv, KeyTypes
  <2> QED BY <2>1, LenProperties
<1>3. ASSUME \A i \in DOMAIN ran : i \in DOMAIN ran' /\ ran'[i] = ran[i],
             NEW i \in DOMAIN ran
      PROVE  /\ \A h \in 1..(i - 1) : ran'[h].frame # ran'[i].frame
             /\ \E s \in Sockets : \E k \in DOMAIN sent'[s] :
                  /\ ran'[i].frame = sent'[s][k]
                  /\ sent'[s][k].body.plain.epoch = ran'[i].conn
                  /\ \A j \in 1..(k - 1) :
                       sent'[s][j].body.plain.epoch = ran'[i].conn
                         => \E h \in 1..(i - 1) :
                              ran'[h] = [frame |-> sent'[s][j], conn |-> ran'[i].conn]
  <2>1. i \in 1..Len(ran) /\ \A h \in 1..(i - 1) : h \in DOMAIN ran
    BY <1>2, <1>3
  <2>2. ran'[i] = ran[i] /\ \A h \in 1..(i - 1) : ran'[h] = ran[h]
    BY <1>3, <2>1
  <2>3. \A h \in 1..(i - 1) : ran'[h].frame # ran'[i].frame
    BY <2>2 DEF KeyInv, RunsAPrefix
  <2>4. PICK s \in Sockets : \E k \in DOMAIN sent[s] :
          /\ ran[i].frame = sent[s][k]
          /\ sent[s][k].body.plain.epoch = ran[i].conn
          /\ \A j \in 1..(k - 1) :
               sent[s][j].body.plain.epoch = ran[i].conn
                 => \E h \in 1..(i - 1) :
                      ran[h] = [frame |-> sent[s][j], conn |-> ran[i].conn]
    BY DEF KeyInv, RunsAPrefix
  <2>5. PICK k \in DOMAIN sent[s] :
          /\ ran[i].frame = sent[s][k]
          /\ sent[s][k].body.plain.epoch = ran[i].conn
          /\ \A j \in 1..(k - 1) :
               sent[s][j].body.plain.epoch = ran[i].conn
                 => \E h \in 1..(i - 1) :
                      ran[h] = [frame |-> sent[s][j], conn |-> ran[i].conn]
    BY <2>4
  <2>6. k \in DOMAIN sent'[s] /\ sent'[s][k] = sent[s][k]
    BY <1>1
  <2>7. ASSUME NEW j \in 1..(k - 1), sent'[s][j].body.plain.epoch = ran'[i].conn
        PROVE  \E h \in 1..(i - 1) :
                 ran'[h] = [frame |-> sent'[s][j], conn |-> ran'[i].conn]
    <3>1. sent'[s][j] = sent[s][j]
      BY <1>1
    <3>2. \E h \in 1..(i - 1) : ran[h] = [frame |-> sent[s][j], conn |-> ran[i].conn]
      BY <2>2, <2>5, <2>7, <3>1
    <3> QED BY <2>2, <3>1, <3>2
  <2> QED BY <2>2, <2>3, <2>5, <2>6, <2>7
<1>4. CASE ran' = ran
  BY <1>3, <1>4 DEF RunsAPrefix
<1>5. ASSUME NEW y \in KeyFrames, y = channel[1].frame, Receive,
             Receives(host.receiver, Master, SessionId, y),
             ran' = Append(ran, [frame |-> y, conn |-> host.conn])
      PROVE  RunsAPrefix'
  <2> DEFINE l == Len(ran) + 1
  <2>1. /\ DOMAIN ran' = 1..l /\ ran'[l] = [frame |-> y, conn |-> host.conn]
        /\ \A i \in DOMAIN ran : i \in DOMAIN ran' /\ ran'[i] = ran[i]
    BY <1>2, <1>5, RanAppended DEF KeyInv
  <2>2. ran'[l].frame = y /\ ran'[l].conn = host.conn
    BY <2>1
  <2>3. l - 1 = Len(ran) /\ l \in DOMAIN ran'
    BY <1>2, <2>1
  <2>4. \A h \in 1..(l - 1) : ran'[h].frame # ran'[l].frame
    <3>1. \A h \in 1..(l - 1) : h \in DOMAIN ran' /\ h < l
      BY <1>2, <2>1
    <3> HIDE DEF l
    <3> QED BY <2>3, <3>1 DEF IInv, RunsOnce
  <2>5. Epoch(y) = host.conn
    BY <1>5, TakenIs
  <2>6. PICK s \in Sockets : \E k \in DOMAIN sent[s] :
          /\ y = sent[s][k]
          /\ \A j \in 1..(k - 1) :
               Epoch(sent[s][j]) = host.conn =>
                 \E h \in DOMAIN ran : ran[h] = [frame |-> sent[s][j], conn |-> host.conn]
    BY <1>5, TakenIs
  <2>7. PICK k \in DOMAIN sent[s] :
          /\ y = sent[s][k]
          /\ \A j \in 1..(k - 1) :
               Epoch(sent[s][j]) = host.conn =>
                 \E h \in DOMAIN ran : ran[h] = [frame |-> sent[s][j], conn |-> host.conn]
    BY <2>6
  <2>8. k \in DOMAIN sent'[s] /\ sent'[s][k] = y
    BY <1>1, <2>7
  <2>9. sent'[s][k].body.plain.epoch = host.conn
    BY <2>5, <2>8 DEF Epoch
  <2>10. ASSUME NEW j \in 1..(k - 1), sent'[s][j].body.plain.epoch = host.conn
         PROVE  \E h \in 1..(l - 1) :
                  ran'[h] = [frame |-> sent'[s][j], conn |-> host.conn]
    <3>1. sent'[s][j] = sent[s][j]
      BY <1>1
    <3>2. \E h \in DOMAIN ran : ran[h] = [frame |-> sent[s][j], conn |-> host.conn]
      BY <2>7, <2>10, <3>1 DEF Epoch
    <3> QED BY <1>2, <2>1, <2>3, <3>1, <3>2
  <2>11. /\ \A h \in 1..(l - 1) : ran'[h].frame # ran'[l].frame
         /\ \E r \in Sockets : \E m \in DOMAIN sent'[r] :
              /\ ran'[l].frame = sent'[r][m]
              /\ sent'[r][m].body.plain.epoch = ran'[l].conn
              /\ \A j \in 1..(m - 1) :
                   sent'[r][j].body.plain.epoch = ran'[l].conn
                     => \E h \in 1..(l - 1) :
                          ran'[h] = [frame |-> sent'[r][j], conn |-> ran'[l].conn]
    <3> HIDE DEF l
    <3> QED BY <2>2, <2>4, <2>8, <2>9, <2>10
  <2>12. \A i \in DOMAIN ran' : i \in DOMAIN ran \/ i = l
    BY <1>2, <2>1
  <2> HIDE DEF l
  <2> QED BY SMTT(20), <1>3, <2>1, <2>11, <2>12 DEF RunsAPrefix
<1>6. CASE SocketCloses \/ Reconnect \/ Reload \/ Join \/ Type \/ Sending
  BY <1>4, <1>6 DEF SocketCloses, Reconnect, Reload, Join, Type, Sending, InputBegins,
     InputEnds
<1>7. CASE Receiving
  <2>1. UNCHANGED ran
    BY <1>7 DEF Receiving, ReceiveInit, Created, ReceiveStatus,
       ReceiveUnavailable, ReceiveFrame, Decrypted
  <2> QED BY <1>4, <2>1
<1>8. CASE \E n \in ConnIds : Resume(n) \/ Feed(n) \/ HandlerEnds(n)
  BY <1>4, <1>8 DEF Resume, Feed, HandlerEnds
<1>9. CASE \E s \in Sockets : SendInput(s) \/ LoseOutbox(s)
  BY <1>4, <1>9 DEF SendInput, LoseOutbox
<1>10. CASE Repeat \/ Dial \/ Disconnect \/ Connected \/ Pump
  BY <1>4, <1>10 DEF Repeat, Dial, Disconnect, Connected, Pump, Emit
<1>11. CASE Receive
  <2>1. channel[1].frame \in KeyFrames
    BY <1>11, ReceiveIs DEF KeyInv
  <2> QED BY <1>4, <1>5, <1>11, <2>1, ReceiveIs DEF KeyInv
<1>12. CASE UNCHANGED vars
  BY <1>4, <1>12 DEF vars
<1> QED BY <1>6, <1>7, <1>8, <1>9, <1>10, <1>11, <1>12 DEF Next

-----------------------------------------------------------------------------
(* Nothing is missing but what is lost for good. *)

\* A connection that lasts is the same, and only an ack makes one.
LEMMA HostLasts ==
  ASSUME IInv, [Next]_vars, host'.phase = "up"
  PROVE  /\ host'.conn = host.conn
         /\ \/ host.phase = "up" /\ (host'.receiver = host.receiver \/ Receive)
            \/ host.phase = "dialing" /\ Connected
<1> USE DEF pageVars, relayVars, hostVars, Unchanged
<1>1. CASE UNCHANGED host
  BY <1>1
<1>2. CASE Dial \/ Disconnect
  <2>1. host'.phase \in {"dialing", "down"}
    BY <1>2 DEF Dial, Disconnect, IInv, Shape
  <2> QED BY <2>1
<1>3. CASE Connected \/ Pump
  <2>1. PICK q, r :
          /\ host' = [host EXCEPT !.phase = "up", !.sequence = q, !.receiver = r]
          /\ \/ Connected /\ host.phase = "dialing"
             \/ r = host.receiver /\ host.phase = "up"
    BY <1>3 DEF Connected, Pump, Emit
  <2>2. host'.conn = host.conn /\ host'.receiver = r
    BY <2>1 DEF IInv, Shape
  <2> QED BY <2>1, <2>2
<1>4. CASE Receive
  <2>1. host.phase = "up" /\ \E r : host' = [host EXCEPT !.receiver = r]
    <3>1. host.phase = "up" /\ (\/ host' = [host EXCEPT !.receiver = Received(@, Head(channel).frame)]
                                \/ host' = host)
      BY <1>4 DEF Receive
    <3>2. host = [host EXCEPT !.receiver = host.receiver]
      BY DEF IInv, Shape
    <3> QED BY <3>1, <3>2
  <2>2. host'.conn = host.conn
    BY <2>1 DEF IInv, Shape
  <2> QED BY <1>4, <2>1, <2>2
<1>5. CASE SocketCloses \/ Reconnect \/ Reload \/ Join \/ Type \/ Sending
  BY <1>1, <1>5 DEF SocketCloses, Reconnect, Reload, Join, Type, Sending, InputBegins,
     InputEnds
<1>6. CASE Receiving
  <2>1. UNCHANGED host
    BY <1>6 DEF Receiving, ReceiveInit, Created, ReceiveStatus,
       ReceiveUnavailable, ReceiveFrame, Decrypted
  <2> QED BY <1>1, <2>1
<1>7. CASE \E n \in ConnIds : Resume(n) \/ Feed(n) \/ HandlerEnds(n)
  BY <1>1, <1>7 DEF Resume, Feed, HandlerEnds
<1>8. CASE \E s \in Sockets : SendInput(s) \/ LoseOutbox(s)
  BY <1>1, <1>8 DEF SendInput, LoseOutbox
<1>9. CASE Repeat
  BY <1>1, <1>9 DEF Repeat
<1>10. CASE UNCHANGED vars
  BY <1>1, <1>10 DEF vars
<1> QED BY <1>2, <1>3, <1>4, <1>5, <1>6, <1>7, <1>8, <1>9, <1>10 DEF Next

\* A connection that the relay has lost does not come back.
LEMMA CutStays ==
  ASSUME IInv, PathInv, [Next]_vars, host.phase = "up", host'.phase = "up", Cut
  PROVE  Cut'
<1> USE DEF pageVars, relayVars, hostVars, Unchanged
<1>1. host'.conn = host.conn
  BY HostLasts
<1>2. relay \in Relays /\ handler[host.conn] # "none"
  BY DEF PathInv, RelayTypes, Links
<1>3. CASE UNCHANGED relay
  BY <1>1, <1>3 DEF Cut
<1>4. ASSUME NEW n \in ConnIds, Resume(n) PROVE Cut'
  <2>1. n # host.conn /\ relay' = [relay EXCEPT !.holder = n, !.live = TRUE, !.input = n]
    BY <1>2, <1>4 DEF Resume
  <2>2. relay'.input = n
    BY <1>2, <2>1 DEF Relays
  <2> QED BY <1>1, <2>1, <2>2 DEF Cut
<1>5. ASSUME NEW n \in ConnIds, Feed(n) PROVE Cut'
  <2>1. PICK ready, history :
          relay' = [relay EXCEPT !.ready = ready, !.history = history]
    BY <1>5 DEF Feed
  <2>2. relay'.input = relay.input /\ relay'.live = relay.live
    BY <1>2, <2>1 DEF Relays
  <2> QED BY <1>1, <2>2 DEF Cut
<1>6. ASSUME NEW n \in ConnIds, HandlerEnds(n) PROVE Cut'
  <2>1. \/ UNCHANGED relay
        \/ relay' = [relay EXCEPT !.live = FALSE, !.input = 0]
    BY <1>6 DEF HandlerEnds
  <2>2. CASE relay' = [relay EXCEPT !.live = FALSE, !.input = 0]
    <3>1. ~relay'.live
      BY <1>2, <2>2 DEF Relays
    <3> QED BY <3>1 DEF Cut
  <2> QED BY <1>3, <2>1, <2>2
<1>7. CASE SocketCloses \/ Reconnect \/ Reload \/ Join \/ Type \/ Sending
  BY <1>3, <1>7 DEF SocketCloses, Reconnect, Reload, Join, Type, Sending, InputBegins,
     InputEnds
<1>8. CASE Receiving
  <2>1. UNCHANGED relay
    BY <1>8 DEF Receiving, ReceiveInit, Created, ReceiveStatus,
       ReceiveUnavailable, ReceiveFrame, Decrypted
  <2> QED BY <1>3, <2>1
<1>9. CASE \E s \in Sockets : SendInput(s) \/ LoseOutbox(s)
  BY <1>3, <1>9 DEF SendInput, LoseOutbox
<1>10. CASE Repeat \/ Dial \/ Disconnect \/ Connected \/ Pump \/ Receive
  BY <1>3, <1>10 DEF Repeat, Dial, Disconnect, Connected, Pump, Emit, Receive
<1>11. CASE UNCHANGED vars
  BY <1>3, <1>11 DEF vars
<1> QED BY <1>4, <1>5, <1>6, <1>7, <1>8, <1>9, <1>10, <1>11 DEF Next

\* A socket of the page that is closed stays closed.
LEMMA DeadStays ==
  ASSUME PathInv, [Next]_vars, NEW s \in Sockets, Dead(s)
  PROVE  Dead(s)'
<1> USE DEF pageVars, relayVars, hostVars, Unchanged
<1>1. page \in Pages /\ page.socket \in Nat /\ s \in Nat
  BY DEF PathInv, PageTypes, Pages, Sockets
<1>2. CASE page'.socket = page.socket /\ page'.link \in {page.link, "closed"}
  BY <1>2 DEF Dead
<1>3. CASE SocketCloses
  <2>1. page' = [page EXCEPT !.link = "closed", !.allow = FALSE]
    BY <1>3 DEF SocketCloses
  <2>2. page'.socket = page.socket /\ page'.link = "closed"
    BY <1>1, <2>1 DEF Pages
  <2> QED BY <1>2, <2>2
<1>4. CASE Reconnect \/ Reload
  <2>1. page'.socket = page.socket + 1
    <3>1. CASE Reconnect
      <4>1. page' = [page EXCEPT !.socket = @ + 1, !.link = "connecting"]
        BY <3>1 DEF Reconnect
      <4> QED BY <1>1, <4>1 DEF Pages
    <3>2. CASE Reload
      BY <3>2 DEF Reload, Page
    <3> QED BY <1>4, <3>1, <3>2
  <2> QED BY <1>1, <2>1 DEF Dead
<1>5. CASE Join
  <2>1. page.link = "connecting" /\ page' = [page EXCEPT !.link = "open"]
    BY <1>5 DEF Join
  <2>2. page'.socket = page.socket
    BY <1>1, <2>1 DEF Pages
  <2> QED BY <2>1, <2>2 DEF Dead
<1>6. CASE Receiving
  <2>1. \/ page' = page \/ page' = Failed("protocol")
        \/ \E m : page' = Initialised(m)
        \/ \E live : page' = Status(live)
        \/ page' = [page EXCEPT !.allow = FALSE]
        \/ page' = [page EXCEPT !.authenticated = TRUE, !.allow = TRUE]
    <3>1. CASE ReceiveInit \/ ReceiveFrame
      BY <3>1 DEF ReceiveInit, ReceiveFrame
    <3>2. CASE Created
      BY <3>2 DEF Created
    <3>3. CASE ReceiveStatus \/ ReceiveUnavailable
      BY <3>3 DEF ReceiveStatus, ReceiveUnavailable
    <3>4. CASE Decrypted
      BY <3>4 DEF Decrypted
    <3> QED BY <1>6, <3>1, <3>2, <3>3, <3>4 DEF Receiving
  <2>2. page'.socket = page.socket /\ page'.link \in {page.link, "closed"}
    BY <1>1, <2>1 DEF Pages, Failed, Initialised, Status
  <2> QED BY <1>2, <2>2
<1>7. CASE Type \/ InputEnds
  BY <1>2, <1>7 DEF Type, InputEnds
<1>8. CASE InputBegins
  <2>1. page' = page \/ \E why \in Errors : page' = Failed(why)
    BY <1>8 DEF InputBegins, Errors
  <2>2. page'.socket = page.socket /\ page'.link \in {page.link, "closed"}
    BY <1>1, <2>1 DEF Pages, Failed
  <2> QED BY <1>2, <2>2
<1>9. CASE \E n \in ConnIds : Resume(n) \/ Feed(n) \/ HandlerEnds(n)
  BY <1>2, <1>9 DEF Resume, Feed, HandlerEnds
<1>10. CASE \E r \in Sockets : SendInput(r) \/ LoseOutbox(r)
  BY <1>2, <1>10 DEF SendInput, LoseOutbox
<1>11. CASE Repeat \/ Dial \/ Disconnect \/ Connected \/ Pump \/ Receive
  BY <1>2, <1>11 DEF Repeat, Dial, Disconnect, Connected, Pump, Emit, Receive
<1>12. CASE UNCHANGED vars
  BY <1>2, <1>12 DEF vars
<1> QED BY <1>3, <1>4, <1>5, <1>6, <1>7, <1>8, <1>9, <1>10, <1>11, <1>12 DEF Next, Sending

\* Where every frame sent has a place, however it is written.
LEMMA PlacedThen ==
  ASSUME \A s \in Sockets : \A k \in DOMAIN sent'[s] : \A x :
           host'.phase = "up" /\ x = sent'[s][k] /\ Epoch(x) = host'.conn => Place(s, x)'
  PROVE  Placed'
<1> SUFFICES ASSUME host'.phase = "up", NEW s \in Sockets, NEW k \in DOMAIN sent'[s],
                    Epoch(sent'[s][k]) = host'.conn
             PROVE  Place(s, sent[s][k])'
  BY DEF Placed, Epoch
<1>1. ASSUME NEW x, x = sent'[s][k] PROVE Place(s, x)'
  BY <1>1
<1> QED BY <1>1 DEF Place, Lost, Number

\* The frames that were sent before the step keep a place.
LEMMA PlacedKept ==
  ASSUME IInv, KeyInv, [Next]_vars, UNCHANGED sent, host'.phase = "up" => host.phase = "up",
         \A s \in Sockets : \A x \in KeyFrames :
           /\ host.phase = "up" /\ host'.phase = "up" /\ Place(s, x)
           /\ By(x, s) /\ sent[s] # <<>> /\ Epoch(x) = host.conn
           => Place(s, x)'
  PROVE  Placed'
<1> SUFFICES ASSUME host'.phase = "up", NEW s \in Sockets, NEW k \in DOMAIN sent[s], NEW x,
                    x = sent[s][k], Epoch(x) = host'.conn
             PROVE  Place(s, x)'
  BY PlacedThen
<1>1. host'.conn = host.conn /\ host.phase = "up"
  BY HostLasts
<1>2. x \in KeyFrames /\ By(x, s)
  BY KeyPlaces DEF KeyInv, Counted
<1>3. sent[s] # <<>>
  OBVIOUS
<1>4. Place(s, x)
  BY <1>1 DEF KeyInv, Placed
<1> QED BY <1>1, <1>2, <1>3, <1>4

\* Nothing moves.
LEMMA PlacedStill ==
  ASSUME IInv, PathInv, KeyInv, [Next]_vars, UNCHANGED <<sent, outbox, channel, ran>>,
         host'.phase = "up" => host.phase = "up" /\ host'.receiver = host.receiver
  PROVE  Placed'
<1> SUFFICES ASSUME host.phase = "up", host'.phase = "up",
                    NEW s \in Sockets, NEW x \in KeyFrames, Place(s, x)
             PROVE  Place(s, x)'
  BY PlacedKept
<1>1. host'.conn = host.conn /\ host'.receiver = host.receiver
  BY HostLasts
<1>2. Lost(s, x) => Lost(s, x)'
  <2>1. /\ Cut => Cut'
        /\ Dead(s) => Dead(s)'
    BY CutStays, DeadStays
  <2>2. \A i \in DOMAIN channel : Arrives(i, s)' <=> Arrives(i, s)
    BY DEF Arrives, By, Writer
  <2> QED BY <2>1, <2>2 DEF Lost, Number
<1>3. Shut(s) => Shut(s)'
  BY <1>1 DEF Shut, Writer
<1> QED BY <1>1, <1>2, <1>3 DEF Place

\* A frame that the page sends is on its way.
LEMMA InputEndsPlaced ==
  ASSUME IInv, PathInv, KeyInv, InputEnds
  PROVE  Placed'
<1> DEFINE p == page.socket
           frame == sealing[1].frame
<1>1. UNCHANGED <<page, relay, host, ran, channel>>
  BY DEF InputEnds, relayVars, hostVars
<1>2. [Next]_vars
  BY DEF Next, Sending
<1>3. CASE UNCHANGED <<outbox, sent>>
  BY <1>1, <1>2, <1>3, PlacedStill
<1>4. CASE /\ frame \in KeyFrames /\ page.link = "open" /\ p \in Sockets
           /\ \A s \in Sockets :
                /\ sent'[s] = IF s = p THEN Append(sent[s], frame) ELSE sent[s]
                /\ outbox'[s] = IF s = p THEN Append(outbox[s], frame) ELSE outbox[s]
  <2>1. /\ sent[p] \in Seq(KeyFrames) /\ outbox[p] \in Seq(KeyFrames)
        /\ sent'[p] = Append(sent[p], frame) /\ outbox'[p] = Append(outbox[p], frame)
    BY <1>4 DEF KeyInv, KeyTypes
  <2>2. ~Dead(p)
    BY <1>4 DEF Dead, Sockets
  <2>3. frame \in KeyFrames
    BY <1>4
  <2> HIDE DEF p, frame
  <2>4. /\ Len(sent[p]) \in Nat /\ DOMAIN sent[p] = 1..Len(sent[p])
        /\ DOMAIN sent'[p] = 1..(Len(sent[p]) + 1)
        /\ \A i \in 1..Len(sent[p]) : sent'[p][i] = sent[p][i]
        /\ sent'[p][Len(sent[p]) + 1] = frame
    BY <2>1, <2>3, Appended
  <2>5. /\ Len(outbox[p]) \in Nat /\ DOMAIN outbox[p] = 1..Len(outbox[p])
        /\ DOMAIN outbox'[p] = 1..(Len(outbox[p]) + 1)
        /\ \A i \in 1..Len(outbox[p]) : outbox'[p][i] = outbox[p][i]
        /\ outbox'[p][Len(outbox[p]) + 1] = frame
    BY <2>1, <2>3, Appended
  <2>6. \A s \in Sockets : s # p => sent'[s] = sent[s] /\ outbox'[s] = outbox[s]
    BY <1>4
  <2>7. ASSUME NEW s \in Sockets, NEW x, Place(s, x) PROVE Place(s, x)'
    <3>1. \A i \in DOMAIN outbox[s] : i \in DOMAIN outbox'[s] /\ outbox'[s][i] = outbox[s][i]
      BY <2>5, <2>6
    <3>2. Shut(s) => Shut(s)'
      BY <1>1 DEF Shut, Writer
    <3>3. Lost(s, x) => Lost(s, x)'
      <4>1. \A i \in DOMAIN channel : Arrives(i, s)' <=> Arrives(i, s)
        BY <1>1 DEF Arrives, By, Writer
      <4>2. (outbox[s] = <<>> /\ Dead(s)) => (outbox'[s] = <<>> /\ Dead(s)')
        BY <1>1, <2>2, <2>6 DEF Dead
      <4> QED BY <1>1, <4>1, <4>2 DEF Lost, Number, Cut
    <3> QED BY <1>1, <2>7, <3>1, <3>2, <3>3 DEF Place
  <2>8. ASSUME host'.phase = "up", NEW s \in Sockets, NEW k \in DOMAIN sent'[s], NEW x,
               x = sent'[s][k], Epoch(x) = host'.conn
        PROVE  Place(s, x)'
    <3>1. CASE k \in DOMAIN sent[s] /\ sent'[s][k] = sent[s][k]
      BY <1>1, <2>7, <2>8, <3>1 DEF KeyInv, Placed
    <3>2. CASE s = p /\ x = frame
      <4>1. Len(outbox[p]) + 1 \in DOMAIN outbox'[p]
        BY <2>5
      <4> QED BY <2>5, <3>2, <4>1 DEF Place
    <3> QED BY <2>4, <2>6, <2>8, <3>1, <3>2
  <2> QED BY <2>8, PlacedThen
<1> QED BY <1>3, <1>4, InputEndsIs DEF KeyInv

\* What the relay cannot pass on is lost, and the rest of the socket's frames will be.
LEMMA SendInputPlaced ==
  ASSUME IInv, PathInv, KeyInv, NEW s \in Sockets, SendInput(s)
  PROVE  Placed'
<1> DEFINE y == outbox[s][1]
           entry == [frame |-> y, again |-> FALSE]
<1>1. /\ y \in KeyFrames /\ outbox[s] # <<>>
      /\ DOMAIN outbox[s] = 1..Len(outbox[s]) /\ Len(outbox[s]) \in Nat
      /\ 1 \in DOMAIN outbox[s]
      /\ \A r \in Sockets : r # s => outbox'[r] = outbox[r]
      /\ DOMAIN outbox'[s] = 1..(Len(outbox[s]) - 1)
      /\ \A i \in 1..(Len(outbox[s]) - 1) : outbox'[s][i] = outbox[s][i + 1]
      /\ UNCHANGED <<page, sent, relay, host, ran>>
  BY SendInputIs DEF KeyInv
<1>2. /\ \A i \in DOMAIN channel : i \in DOMAIN channel' /\ channel'[i] = channel[i]
      /\ host.phase = "up" =>
           \/ Cut /\ channel' = channel
           \/ /\ ~Cut
              /\ \E i \in DOMAIN channel' : channel'[i] = entry
              /\ \A i \in DOMAIN channel' : i \in DOMAIN channel \/ channel'[i] = entry
  <2>1. CASE channel' = channel /\ ~(relay.live /\ relay.input = host.conn /\ host.phase # "down")
    BY <2>1 DEF Cut
  <2>2. CASE /\ channel' = Append(channel, entry)
             /\ relay.live /\ relay.input = host.conn /\ host.phase # "down"
    <3>1. entry \in Entries
      BY <1>1 DEF Entries
    <3> HIDE DEF entry
    <3>2. /\ DOMAIN channel = 1..Len(channel) /\ Len(channel) \in Nat
          /\ DOMAIN channel' = 1..(Len(channel) + 1)
          /\ \A i \in 1..Len(channel) : channel'[i] = channel[i]
          /\ channel'[Len(channel) + 1] = entry
      BY <2>2, <3>1, ChannelAppended DEF KeyInv
    <3>3. Len(channel) + 1 \in DOMAIN channel'
      BY <3>2
    <3> QED BY <2>2, <3>2, <3>3 DEF Cut
  <2> QED BY <2>1, <2>2, SendInputIs DEF KeyInv
<1>3. By(y, s)
  BY <1>1 DEF KeyInv, OnlySent
<1>4. entry.frame = y /\ ~entry.again
  OBVIOUS
<1>5. [Next]_vars
  BY DEF Next
<1> SUFFICES ASSUME host.phase = "up", NEW r \in Sockets, NEW x \in KeyFrames, Place(r, x),
                    By(x, r)
             PROVE  Place(r, x)'
  BY <1>1, <1>5, PlacedKept
<1>6. CASE \E h \in DOMAIN ran : ran[h] = [frame |-> x, conn |-> host.conn]
  BY <1>1, <1>6 DEF Place
<1>7. CASE \E i \in DOMAIN channel : channel[i] = [frame |-> x, again |-> FALSE]
  BY <1>2, <1>7 DEF Place
<1>8. CASE Shut(r)
  BY <1>1, <1>8 DEF Place, Shut, Writer
<1>9. ASSUME NEW i \in DOMAIN outbox[r], outbox[r][i] = x PROVE Place(r, x)'
  <2>1. CASE r # s
    BY <1>1, <1>9, <2>1 DEF Place
  <2>2. CASE r = s /\ i # 1
    <3>1. i - 1 \in DOMAIN outbox'[s] /\ outbox'[s][i - 1] = outbox[s][i]
      <4>1. i - 1 \in 1..(Len(outbox[s]) - 1) /\ (i - 1) + 1 = i
        BY <1>1, <1>9, <2>2
      <4> QED BY <1>1, <4>1
    <3> QED BY <1>9, <2>2, <3>1 DEF Place
  <2>3. CASE r = s /\ i = 1
    <3>1. x = y
      BY <1>9, <2>3
    <3>2. CASE \E j \in DOMAIN channel' : channel'[j] = entry
      BY <3>1, <3>2 DEF Place
    <3>3. CASE Cut /\ channel' = channel
      <4>1. Cut'
        BY <1>1, <3>3 DEF Cut
      <4>2. \A j \in DOMAIN channel : Arrives(j, s) => Number(channel[j].frame) < Number(y)
        BY <1>1 DEF KeyInv, Queue, ChannelFirst
      <4>3. \A j \in DOMAIN channel : Arrives(j, s)' <=> Arrives(j, s)
        BY <3>3 DEF Arrives, By, Writer
      <4>4. Lost(r, x)'
        BY <2>3, <3>1, <3>3, <4>1, <4>2, <4>3 DEF Lost, Number
      <4> QED BY <4>4 DEF Place
    <3> QED BY <1>2, <3>2, <3>3
  <2> QED BY <2>1, <2>2, <2>3
<1>10. CASE Lost(r, x)
  <2>1. CASE Cut /\ channel' = channel
    <3>1. Cut'
      BY <1>1, <2>1 DEF Cut
    <3>2. \A j \in DOMAIN channel : Arrives(j, r)' <=> Arrives(j, r)
      BY <2>1 DEF Arrives, By, Writer
    <3>3. Lost(r, x)'
      BY <1>10, <2>1, <3>1, <3>2 DEF Lost, Number
    <3> QED BY <3>3 DEF Place
  <2>2. CASE /\ ~Cut
             /\ \A i \in DOMAIN channel' : i \in DOMAIN channel \/ channel'[i] = entry
    <3>1. outbox[r] = <<>> /\ Dead(r) /\ r # s
      BY <1>1, <1>10, <2>2 DEF Lost
    <3>2. outbox'[r] = <<>> /\ Dead(r)'
      BY <1>1, <3>1 DEF Dead
    <3>3. ASSUME NEW j \in DOMAIN channel', Arrives(j, r)'
          PROVE  Number(channel'[j].frame) < Number(x)
      <4>1. By(channel'[j].frame, r)
        BY <3>3 DEF Arrives, By, Writer
      <4>2. channel'[j] # entry
        BY <1>3, <1>4, <3>1, <4>1, OneWriter
      <4>3. j \in DOMAIN channel /\ channel'[j] = channel[j]
        BY <1>2, <2>2, <4>2
      <4>4. Arrives(j, r)
        BY <3>3, <4>3 DEF Arrives, By, Writer
      <4> QED BY <1>10, <4>3, <4>4 DEF Lost
    <3>4. Lost(r, x)'
      BY <3>2, <3>3 DEF Lost, Number
    <3> QED BY <3>4 DEF Place
  <2> QED BY <1>2, <2>1, <2>2
<1> QED BY <1>6, <1>7, <1>8, <1>9, <1>10 DEF Place

\* A socket that is closed takes with it what it had.
LEMMA LoseOutboxPlaced ==
  ASSUME IInv, PathInv, KeyInv, NEW s \in Sockets, LoseOutbox(s)
  PROVE  Placed'
<1>1. /\ s # page.socket \/ page.link = "closed"
      /\ \A r \in Sockets : outbox'[r] = IF r = s THEN <<>> ELSE outbox[r]
      /\ UNCHANGED <<page, sent, relay, host, ran, channel>>
  BY DEF LoseOutbox, KeyInv, KeyTypes, pageVars, relayVars, hostVars
<1>2. [Next]_vars
  BY DEF Next
<1>3. page.socket \in Nat /\ s \in Nat
  BY DEF PathInv, PageTypes, Pages, Sockets
<1>4. sent[s] # <<>> => Dead(s)
  BY <1>1, <1>3 DEF KeyInv, Counted, Unsealed, Dead
<1> SUFFICES ASSUME host.phase = "up", NEW r \in Sockets, NEW x \in KeyFrames, Place(r, x),
                    sent[r] # <<>>
             PROVE  Place(r, x)'
  BY <1>1, <1>2, PlacedKept
<1>5. \A i \in DOMAIN channel : Arrives(i, r)' <=> Arrives(i, r)
  BY <1>1 DEF Arrives, By, Writer
<1>6. CASE Lost(r, x)
  <2>1. outbox[r] = <<>> /\ Dead(r) => outbox'[r] = <<>> /\ Dead(r)'
    BY <1>1 DEF Dead
  <2>2. Lost(r, x)'
    BY <1>1, <1>5, <1>6, <2>1 DEF Lost, Number, Cut
  <2> QED BY <2>2 DEF Place
<1>7. ASSUME NEW i \in DOMAIN outbox[r], outbox[r][i] = x PROVE Place(r, x)'
  <2>1. CASE r # s
    BY <1>1, <1>7, <2>1 DEF Place
  <2>2. CASE r = s
    <3>1. outbox'[r] = <<>> /\ Dead(r)'
      BY <1>1, <1>4, <2>2 DEF Dead
    <3>2. \A j \in DOMAIN channel : Arrives(j, r) => Number(channel[j].frame) < Number(x)
      BY <1>7 DEF KeyInv, Queue, ChannelFirst
    <3>3. Lost(r, x)'
      BY <1>1, <1>5, <3>1, <3>2 DEF Lost, Number
    <3> QED BY <3>3 DEF Place
  <2> QED BY <2>1, <2>2
<1>8. CASE Shut(r)
  BY <1>1, <1>8 DEF Place, Shut, Writer
<1>9. CASE \/ \E h \in DOMAIN ran : ran[h] = [frame |-> x, conn |-> host.conn]
           \/ \E i \in DOMAIN channel : channel[i] = [frame |-> x, again |-> FALSE]
  BY <1>1, <1>9 DEF Place
<1> QED BY <1>6, <1>7, <1>8, <1>9 DEF Place

\* What comes again moves nothing.
LEMMA RepeatPlaced ==
  ASSUME IInv, PathInv, KeyInv, Repeat
  PROVE  Placed'
<1>1. PICK h \in DOMAIN ran :
        channel' = Append(channel, [frame |-> ran[h].frame, again |-> TRUE])
  BY DEF Repeat
<1> DEFINE entry == [frame |-> ran[h].frame, again |-> TRUE]
<1>2. UNCHANGED <<page, sent, relay, host, ran, outbox>>
  BY DEF Repeat, pageVars, relayVars
<1>3. entry \in Entries /\ entry.again
  BY KeyPlaces DEF Entries, KeyInv
<1> HIDE DEF entry
<1>4. /\ \A i \in DOMAIN channel : i \in DOMAIN channel' /\ channel'[i] = channel[i]
      /\ \A i \in DOMAIN channel' : i \in DOMAIN channel \/ channel'[i] = entry
  <2>1. /\ DOMAIN channel = 1..Len(channel) /\ Len(channel) \in Nat
        /\ DOMAIN channel' = 1..(Len(channel) + 1)
        /\ \A i \in 1..Len(channel) : channel'[i] = channel[i]
        /\ channel'[Len(channel) + 1] = entry
    BY <1>1, <1>3, ChannelAppended DEF KeyInv, entry
  <2> QED BY <2>1
<1>5. [Next]_vars
  BY DEF Next
<1> SUFFICES ASSUME host.phase = "up", NEW r \in Sockets, NEW x \in KeyFrames, Place(r, x)
             PROVE  Place(r, x)'
  BY <1>2, <1>5, PlacedKept
<1>6. CASE Lost(r, x)
  <2>1. ASSUME NEW j \in DOMAIN channel', Arrives(j, r)'
        PROVE  Number(channel'[j].frame) < Number(x)
    <3>1. j \in DOMAIN channel /\ channel'[j] = channel[j]
      BY <1>3, <1>4, <2>1 DEF Arrives
    <3>2. Arrives(j, r)
      BY <2>1, <3>1 DEF Arrives, By, Writer
    <3> QED BY <1>6, <3>1, <3>2 DEF Lost
  <2>2. Cut \/ (outbox[r] = <<>> /\ Dead(r)) => Cut' \/ (outbox'[r] = <<>> /\ Dead(r)')
    BY <1>2 DEF Cut, Dead
  <2>3. Lost(r, x)'
    BY <1>6, <2>1, <2>2 DEF Lost, Number
  <2> QED BY <2>3 DEF Place
<1>7. CASE Shut(r)
  BY <1>2, <1>7 DEF Place, Shut, Writer
<1>8. CASE \/ \E i \in DOMAIN ran : ran[i] = [frame |-> x, conn |-> host.conn]
           \/ \E i \in DOMAIN channel : channel[i] = [frame |-> x, again |-> FALSE]
           \/ \E i \in DOMAIN outbox[r] : outbox[r][i] = x
  BY <1>2, <1>4, <1>8 DEF Place
<1> QED BY <1>6, <1>7, <1>8 DEF Place

\* The first frame in line runs, unless the host has no room for its writer.
LEMMA ArrivalRunsOrShut ==
  ASSUME IInv, KeyInv, Receive, NEW s \in Sockets, NEW x \in KeyFrames, By(x, s),
         Epoch(x) = host.conn, channel[1] = [frame |-> x, again |-> FALSE]
  PROVE  Receives(host.receiver, Master, SessionId, x) \/ Shut(s)
<1> DEFINE writers == host.receiver.writers
<1>1. /\ host.phase = "up" /\ 1 \in DOMAIN channel /\ Arrives(1, s)
      /\ channel[1].frame = x
  BY ReceiveIs DEF KeyInv, Arrives
<1>2. /\ OpensInput(Master, SessionId, x) /\ Expects(host.receiver, x.body.plain)
      /\ Number(x) \in Nat /\ Number(x) = x.header.sequence
  BY <1>1, KeyFrameIs DEF Expects, IInv, Epochs, Epoch
<1>3. SUFFICES ASSUME ~Fresh(host.receiver, x.header) PROVE Shut(s)
  BY <1>2 DEF Receives
<1>4. x.header.writer = Writer(s)
  BY DEF By
<1>5. ASSUME Writer(s) \in DOMAIN writers PROVE FALSE
  <2>1. PICK h \in DOMAIN ran :
          /\ ran[h].frame.header.writer = Writer(s)
          /\ Number(ran[h].frame) = writers[Writer(s)]
    BY <1>1, <1>5 DEF KeyInv, Attained
  <2>2. Number(ran[h].frame) < Number(x)
    BY <1>1, <2>1 DEF KeyInv, Queue, RanFirst, By
  <2> QED BY <1>2, <1>3, <1>4, <1>5, <2>1, <2>2 DEF Fresh
<1> QED BY <1>3, <1>4, <1>5 DEF Fresh, Shut

LEMMA ReceivePlaced ==
  ASSUME IInv, PathInv, KeyInv, Receive
  PROVE  Placed'
<1> DEFINE y == channel[1].frame
           n == Len(channel)
<1>1. /\ n \in Nat /\ DOMAIN channel = 1..n /\ 1 \in DOMAIN channel /\ y \in KeyFrames
      /\ DOMAIN channel' = 1..(n - 1)
      /\ \A i \in 1..(n - 1) : channel'[i] = channel[i + 1]
      /\ UNCHANGED <<page, sent, relay, outbox>>
      /\ IF Receives(host.receiver, Master, SessionId, y)
         THEN /\ host' = [host EXCEPT !.receiver = Received(@, y)]
              /\ ran' = Append(ran, [frame |-> y, conn |-> host.conn])
         ELSE UNCHANGED <<host, ran>>
  BY ReceiveIs DEF KeyInv
<1>2. [Next]_vars
  BY DEF Next
<1> HIDE DEF y, n
<1>3. \A i \in DOMAIN channel' : i + 1 \in DOMAIN channel /\ channel'[i] = channel[i + 1]
  BY <1>1
<1>4. /\ \A i \in DOMAIN ran : i \in DOMAIN ran' /\ ran'[i] = ran[i]
      /\ Receives(host.receiver, Master, SessionId, y)
           => \E h \in DOMAIN ran' : ran'[h] = [frame |-> y, conn |-> host.conn]
  <2>1. CASE UNCHANGED <<host, ran>> /\ ~Receives(host.receiver, Master, SessionId, y)
    BY <2>1
  <2>2. CASE ran' = Append(ran, [frame |-> y, conn |-> host.conn])
    <3>1. /\ Len(ran) \in Nat /\ DOMAIN ran = 1..Len(ran) /\ DOMAIN ran' = 1..(Len(ran) + 1)
          /\ \A i \in 1..Len(ran) : ran'[i] = ran[i]
          /\ ran'[Len(ran) + 1] = [frame |-> y, conn |-> host.conn]
      BY <1>1, <2>2, RanAppended DEF KeyInv
    <3>2. Len(ran) + 1 \in DOMAIN ran'
      BY <3>1
    <3> QED BY <3>1, <3>2
  <2> QED BY <1>1, <2>1, <2>2
<1>0. host.phase = "up" /\ UNCHANGED sent
  BY <1>1 DEF Receive
<1> SUFFICES ASSUME host.phase = "up", host'.phase = "up",
                    NEW s \in Sockets, NEW x \in KeyFrames, Place(s, x),
                    By(x, s), Epoch(x) = host.conn
             PROVE  Place(s, x)'
  BY <1>0, <1>2, PlacedKept
<1>5. host'.conn = host.conn
  BY <1>2, HostLasts
<1>6. CASE \E h \in DOMAIN ran : ran[h] = [frame |-> x, conn |-> host.conn]
  BY <1>4, <1>5, <1>6 DEF Place
<1>7. Shut(s) => Shut(s)'
  <2>1. CASE UNCHANGED host
    BY <2>1 DEF Shut, Writer
  <2>2. CASE /\ host' = [host EXCEPT !.receiver = Received(@, y)]
             /\ Receives(host.receiver, Master, SessionId, y)
    <3>1. DOMAIN host'.receiver.writers
            = DOMAIN host.receiver.writers \cup {y.header.writer}
      BY <1>1, <2>2, ReceiverTakes
    <3>2. ASSUME Shut(s) PROVE Shut(s)'
      <4>1. y.header.writer \in DOMAIN host.receiver.writers
        BY <2>2, <3>2 DEF Shut, Receives, Fresh
      <4>2. DOMAIN host'.receiver.writers = DOMAIN host.receiver.writers
        BY <3>1, <4>1
      <4> QED BY <3>2, <4>2 DEF Shut, Writer
    <3> QED BY <3>2
  <2> QED BY <1>1, <2>1, <2>2
<1>8. ASSUME NEW i \in DOMAIN channel, channel[i] = [frame |-> x, again |-> FALSE]
      PROVE  Place(s, x)'
  <2>1. CASE i # 1
    <3>1. i - 1 \in 1..(n - 1) /\ (i - 1) + 1 = i
      BY <1>1, <2>1
    <3>2. i - 1 \in DOMAIN channel' /\ channel'[i - 1] = channel[i]
      BY <1>1, <3>1
    <3> QED BY <1>8, <3>2 DEF Place
  <2>2. CASE i = 1
    <3>1. y = x
      BY <1>8, <2>2 DEF y
    <3>2. Receives(host.receiver, Master, SessionId, x) \/ Shut(s)
      BY <1>8, <2>2, ArrivalRunsOrShut
    <3>3. CASE Shut(s)
      BY <1>7, <3>3 DEF Place
    <3>4. CASE Receives(host.receiver, Master, SessionId, x)
      BY <1>4, <1>5, <3>1, <3>4 DEF Place
    <3> QED BY <3>2, <3>3, <3>4
  <2> QED BY <2>1, <2>2
<1>9. CASE \E i \in DOMAIN outbox[s] : outbox[s][i] = x
  BY <1>1, <1>9 DEF Place
<1>10. CASE Shut(s)
  BY <1>7, <1>10 DEF Place
<1>11. CASE Lost(s, x)
  <2>1. ASSUME NEW j \in DOMAIN channel', Arrives(j, s)'
        PROVE  Number(channel'[j].frame) < Number(x)
    <3>1. Arrives(j + 1, s)
      BY <1>3, <2>1 DEF Arrives, By, Writer
    <3> QED BY <1>3, <1>11, <3>1 DEF Lost
  <2>2. Cut \/ (outbox[s] = <<>> /\ Dead(s)) => Cut' \/ (outbox'[s] = <<>> /\ Dead(s)')
    BY <1>1, <1>5 DEF Cut, Dead
  <2>3. Lost(s, x)'
    BY <1>11, <2>1, <2>2 DEF Lost, Number
  <2> QED BY <2>3 DEF Place
<1> QED BY <1>6, <1>8, <1>9, <1>10, <1>11 DEF Place

LEMMA PlacedStep ==
  ASSUME IInv, PathInv, KeyInv, [Next]_vars
  PROVE  Placed'
<1> USE DEF pageVars, relayVars, hostVars, Unchanged
<1>1. ASSUME UNCHANGED <<sent, outbox, channel, ran, host>> PROVE Placed'
  BY <1>1, PlacedStill
<1>2. CASE SocketCloses \/ Reconnect \/ Reload \/ Join \/ Type \/ InputBegins
  BY <1>1, <1>2 DEF SocketCloses, Reconnect, Reload, Join, Type, InputBegins
<1>3. CASE Receiving
  <2>1. UNCHANGED <<sent, outbox, channel, ran, host>>
    BY <1>3 DEF Receiving, ReceiveInit, Created, ReceiveStatus,
       ReceiveUnavailable, ReceiveFrame, Decrypted
  <2> QED BY <1>1, <2>1
<1>4. CASE InputEnds
  BY <1>4, InputEndsPlaced
<1>5. CASE \E n \in ConnIds : Resume(n) \/ Feed(n) \/ HandlerEnds(n)
  BY <1>1, <1>5 DEF Resume, Feed, HandlerEnds
<1>6. CASE \E s \in Sockets : SendInput(s) \/ LoseOutbox(s)
  BY <1>6, SendInputPlaced, LoseOutboxPlaced
<1>7. CASE Repeat
  BY <1>7, RepeatPlaced
<1>8. CASE Dial \/ Disconnect
  <2>1. host'.phase \in {"dialing", "down"}
    BY <1>8 DEF Dial, Disconnect, IInv, Shape
  <2> QED BY <2>1 DEF Placed
<1>9. CASE Connected
  <2>1. host.phase = "dialing" /\ UNCHANGED sent
    BY <1>9 DEF Connected, Emit
  <2>2. host'.phase = "up" => host'.conn = host.conn
    BY HostLasts
  <2>3. \A s \in Sockets : \A k \in DOMAIN sent[s] : Epoch(sent[s][k]) # host.conn
    BY <2>1 DEF KeyInv, Told, ToldByKeys, Known
  <2> QED BY <2>1, <2>2, <2>3 DEF Placed, Epoch
<1>10. CASE Pump
  <2>1. UNCHANGED <<sent, outbox, channel, ran>> /\ host.phase = "up"
    BY <1>10 DEF Pump, Emit
  <2>2. \E q : host' = [host EXCEPT !.phase = "up", !.sequence = q,
                                    !.receiver = host.receiver]
    BY <1>10 DEF Pump, Emit
  <2>3. host'.receiver = host.receiver
    BY <2>2 DEF IInv, Shape
  <2> QED BY <2>1, <2>3, PlacedStill
<1>11. CASE Receive
  BY <1>11, ReceivePlaced
<1>12. CASE UNCHANGED vars
  BY <1>1, <1>12 DEF vars
<1> QED BY <1>2, <1>3, <1>4, <1>5, <1>6, <1>7, <1>8, <1>9, <1>10, <1>11, <1>12
        DEF Next, Sending

-----------------------------------------------------------------------------
LEMMA KeyStep == IInv /\ PathInv /\ KeyInv /\ [Next]_vars => KeyInv'
<1> SUFFICES ASSUME IInv, PathInv, KeyInv, [Next]_vars PROVE KeyInv'
  OBVIOUS
<1>1. IInv'
  BY StepKeeps
<1>2. /\ KeyTypes /\ Told /\ Counted /\ SealedWaits /\ OnlySent /\ Queue
      /\ Repeats /\ Attained /\ Placed
  BY DEF KeyInv
<1>3. KeyTypes'
  BY <1>2, KeyTypesStep
<1>4. Told'
  BY <1>2, ToldByHostStep, ToldToPageStep, ToldByKeysStep DEF Told
<1>5. Counted' /\ SealedWaits'
  BY <1>2, CountedStep
<1>6. OnlySent'
  BY <1>2, OnlySentStep
<1>7. Queue' /\ Repeats'
  BY <1>2, QueueStep
<1>8. Attained'
  BY <1>2, AttainedStep
<1>9. Placed'
  BY PlacedStep
<1>10. RunsAPrefix'
  BY <1>1, PrefixStep
<1> QED BY <1>3, <1>4, <1>5, <1>6, <1>7, <1>8, <1>9, <1>10 DEF KeyInv

LEMMA KeyInvariance == Spec => [](IInv /\ PathInv /\ KeyInv)
<1>1. Init => IInv /\ PathInv /\ KeyInv
  BY InitHolds, PathInit, KeyInit
<1>2. IInv /\ PathInv /\ KeyInv /\ [Next]_vars => IInv' /\ PathInv' /\ KeyInv'
  BY StepKeeps, PathStep, KeyStep
<1> QED BY <1>1, <1>2, PTL DEF Spec

\* What a connection of the host runs of a page's keystrokes is a beginning of what the
\* page sealed for it (InputReceiver::receive, crypto.js, send_input), whatever breaks and
\* whatever comes again.
THEOREM RunsABeginning == Spec => []RunsAPrefix
<1>1. KeyInv => RunsAPrefix
  BY DEF KeyInv
<1> QED BY KeyInvariance, <1>1, PTL

-----------------------------------------------------------------------------
(* InputPath implements InputContract: keystrokes go through the path in the order they  *)
(* were typed in, so the first to arrive of a socket is the oldest it has on its way.    *)

KeyOf(f) == f.body.plain.key

InputsRise ==
  /\ \A i \in DOMAIN inputs : inputs[i].key \in 1..typed
  /\ \A i, j \in DOMAIN inputs : i < j => inputs[i].key < inputs[j].key

SealedKey ==
  sealing # <<>> =>
    /\ KeyOf(sealing[1].frame) = sealing[1].job.key
    /\ sealing[1].job.key \in 1..typed
    /\ \A i \in DOMAIN inputs : sealing[1].job.key < inputs[i].key

SentKeys ==
  \A s \in Sockets : \A k \in DOMAIN sent[s] :
    /\ KeyOf(sent[s][k]) \in 1..typed
    /\ sealing # <<>> => KeyOf(sent[s][k]) < sealing[1].job.key
    /\ \A i \in DOMAIN inputs : KeyOf(sent[s][k]) < inputs[i].key
    /\ \A l \in DOMAIN sent[s] : k < l => KeyOf(sent[s][k]) < KeyOf(sent[s][l])

TypedInv == InputsRise /\ SealedKey /\ SentKeys

LEMMA TypedInit == Init => TypedInv
<1> SUFFICES ASSUME Init PROVE TypedInv
  OBVIOUS
<1>1. inputs = <<>> /\ sealing = <<>> /\ \A s \in Sockets : sent[s] = <<>>
  BY DEF Init
<1> QED BY <1>1 DEF TypedInv, InputsRise, SealedKey, SentKeys

\* The oldest keystroke that waits is sealed or dropped.
LEMMA InputBeginsTakes ==
  ASSUME PathInv, InputBegins
  PROVE  /\ sealing = <<>> /\ inputs # <<>> /\ inputs[1] \in Jobs
         /\ Len(inputs) \in Nat /\ DOMAIN inputs = 1..Len(inputs) /\ 1 \in DOMAIN inputs
         /\ DOMAIN inputs' = 1..(Len(inputs) - 1)
         /\ \A i \in DOMAIN inputs' : /\ i + 1 \in DOMAIN inputs /\ i \in Nat
                                      /\ inputs'[i] = inputs[i + 1]
         /\ UNCHANGED <<outbox, channel, ran, sent, typed>>
         /\ \/ sealing' = <<>>
            \/ /\ sealing' # <<>> /\ sealing'[1].job = inputs[1]
               /\ KeyOf(sealing'[1].frame) = inputs[1].key
<1>1. /\ sealing = <<>> /\ inputs # <<>> /\ inputs' = RemoveAt(inputs, 1)
      /\ UNCHANGED <<outbox, channel, ran, sent, typed>>
      /\ \/ sealing' = <<>>
         \/ sealing' = <<[job |-> inputs[1], frame |-> InputFrame(cipher, inputs[1].key)]>>
  BY DEF InputBegins, NextInput, Unchanged, hostVars
<1>2. inputs \in Seq(Jobs)
  BY DEF PathInv, PageTypes
<1>3. /\ inputs' = Tail(inputs) /\ Len(inputs) \in Nat /\ Len(inputs) >= 1
      /\ DOMAIN inputs = 1..Len(inputs) /\ inputs[1] \in Jobs
  BY <1>1, <1>2, OldestRemoved, Tailed
<1>4. /\ DOMAIN Tail(inputs) = 1..(Len(inputs) - 1)
      /\ \A i \in 1..(Len(inputs) - 1) : Tail(inputs)[i] = inputs[i + 1]
  BY <1>1, <1>2, Tailed
<1>5. \A i \in 1..(Len(inputs) - 1) : i + 1 \in DOMAIN inputs /\ i \in Nat
  BY <1>3
<1>6. 1 \in DOMAIN inputs
  BY <1>3
<1>7. ASSUME sealing' = <<[job |-> inputs[1], frame |-> InputFrame(cipher, inputs[1].key)]>>
      PROVE  /\ sealing' # <<>> /\ sealing'[1].job = inputs[1]
             /\ KeyOf(sealing'[1].frame) = inputs[1].key
  <2> DEFINE frame == InputFrame(cipher, inputs[1].key)
  <2>1. frame.body.plain = [t |-> "input", epoch |-> cipher.epoch, key |-> inputs[1].key]
    BY DEF InputFrame, Seal
  <2>2. KeyOf(frame) = inputs[1].key
    BY <2>1 DEF KeyOf
  <2> HIDE DEF frame
  <2>3. sealing' # <<>> /\ sealing'[1].job = inputs[1] /\ sealing'[1].frame = frame
    BY <1>7 DEF frame
  <2> QED BY <2>2, <2>3
<1> QED BY <1>1, <1>3, <1>4, <1>5, <1>6, <1>7

\* A keystroke is typed after all the others.
LEMMA TypeAppends ==
  ASSUME PathInv, Type
  PROVE  /\ Len(inputs) \in Nat /\ DOMAIN inputs = 1..Len(inputs)
         /\ DOMAIN inputs' = 1..(Len(inputs) + 1)
         /\ \A i \in DOMAIN inputs : i \in DOMAIN inputs' /\ inputs'[i] = inputs[i]
         /\ Len(inputs) + 1 \in DOMAIN inputs'
         /\ inputs'[Len(inputs) + 1].key = typed + 1
         /\ inputs'[Len(inputs) + 1].socket = page.socket
         /\ typed' = typed + 1 /\ typed \in Nat /\ typed < MaxKeys
         /\ UNCHANGED <<outbox, channel, ran, sent, sealing>>
<1> DEFINE job == [socket |-> page.socket, writer |-> cipher.writer, key |-> typed + 1]
<1>1. /\ inputs' = Append(inputs, job) /\ typed' = typed + 1 /\ typed < MaxKeys
      /\ UNCHANGED <<outbox, channel, ran, sent, sealing>>
  BY DEF Type, Unchanged, hostVars
<1>2. inputs \in Seq(Jobs) /\ typed \in Nat
  BY DEF PathInv, PageTypes
<1>3. job.socket = page.socket /\ job.key = typed + 1
  OBVIOUS
<1> HIDE DEF job
<1>4. inputs \in Seq(Jobs \cup {job})
  BY <1>2
<1>5. /\ Len(inputs) \in Nat /\ DOMAIN inputs = 1..Len(inputs)
      /\ DOMAIN inputs' = 1..(Len(inputs) + 1)
      /\ \A i \in 1..Len(inputs) : inputs'[i] = inputs[i]
      /\ inputs'[Len(inputs) + 1] = job
  BY <1>1, <1>4, Appended
<1>6. Len(inputs) + 1 \in DOMAIN inputs' /\ \A i \in DOMAIN inputs : i \in DOMAIN inputs'
  BY <1>5
<1> QED BY <1>1, <1>2, <1>3, <1>5, <1>6

LEMMA TypedStep ==
  ASSUME PathInv, KeyTypes, TypedInv, [Next]_vars
  PROVE  TypedInv'
<1> USE DEF pageVars, relayVars, hostVars, Unchanged, TypedInv
<1>1. ASSUME UNCHANGED <<inputs, sealing, sent, typed>> PROVE TypedInv'
  BY <1>1 DEF InputsRise, SealedKey, SentKeys, KeyOf
<1>2. CASE SocketCloses \/ Reconnect \/ Join
  BY <1>1, <1>2 DEF SocketCloses, Reconnect, Join
<1>3. CASE Reload
  <2>1. inputs' = <<>> /\ sealing' = <<>> /\ UNCHANGED <<sent, typed>>
    BY <1>3 DEF Reload
  <2> QED BY <2>1 DEF InputsRise, SealedKey, SentKeys, KeyOf
<1>4. CASE Receiving
  <2>1. UNCHANGED <<inputs, sealing, sent, typed>>
    BY <1>4 DEF Receiving, ReceiveInit, Created, ReceiveStatus,
       ReceiveUnavailable, ReceiveFrame, Decrypted
  <2> QED BY <1>1, <2>1
<1>5. CASE Type
  <2> DEFINE l == Len(inputs) + 1
  <2>1. /\ Len(inputs) \in Nat /\ DOMAIN inputs = 1..Len(inputs) /\ DOMAIN inputs' = 1..l
        /\ \A i \in DOMAIN inputs : i \in DOMAIN inputs' /\ inputs'[i] = inputs[i]
        /\ inputs'[l].key = typed + 1
        /\ typed' = typed + 1 /\ typed \in Nat /\ UNCHANGED <<sent, sealing>>
    BY <1>5, TypeAppends
  <2>2. \A i \in DOMAIN inputs' : i \in DOMAIN inputs \/ i = l
    BY <2>1
  <2>3. \A i, j \in DOMAIN inputs' : i < j => i \in DOMAIN inputs
    BY <2>1
  <2> HIDE DEF l
  <2>4. InputsRise'
    <3>1. \A i \in DOMAIN inputs' : inputs'[i].key \in 1..typed'
      BY <2>1, <2>2 DEF InputsRise
    <3>2. ASSUME NEW i \in DOMAIN inputs', NEW j \in DOMAIN inputs', i < j
          PROVE  inputs'[i].key < inputs'[j].key
      <4>1. i \in DOMAIN inputs /\ inputs'[i] = inputs[i]
        BY <2>1, <2>3, <3>2
      <4>2. inputs[i].key \in 1..typed
        BY <4>1 DEF InputsRise
      <4>3. CASE j = l
        BY <2>1, <4>1, <4>2, <4>3
      <4>4. CASE j \in DOMAIN inputs
        BY <2>1, <3>2, <4>1, <4>4 DEF InputsRise
      <4> QED BY <2>2, <4>3, <4>4
    <3> QED BY <3>1, <3>2 DEF InputsRise
  <2>5. SealedKey'
    BY <2>1, <2>2 DEF SealedKey, KeyOf
  <2>6. SentKeys'
    BY <2>1, <2>2 DEF SentKeys, KeyOf
  <2> QED BY <2>4, <2>5, <2>6
<1>6. CASE InputBegins
  <2>1. /\ sealing = <<>> /\ 1 \in DOMAIN inputs
        /\ \A i \in DOMAIN inputs' : /\ i + 1 \in DOMAIN inputs /\ i \in Nat
                                     /\ inputs'[i] = inputs[i + 1]
        /\ UNCHANGED <<sent, typed>>
        /\ \/ sealing' = <<>>
           \/ /\ sealing'[1].job = inputs[1]
              /\ KeyOf(sealing'[1].frame) = inputs[1].key
    BY <1>6, InputBeginsTakes
  <2>2. InputsRise'
    <3>1. \A i, j \in DOMAIN inputs' : i < j => i + 1 < j + 1
      BY <2>1
    <3> QED BY <2>1, <3>1 DEF InputsRise
  <2>3. SealedKey'
    <3>1. \A i \in DOMAIN inputs' : 1 < i + 1
      <4>1. \A i \in DOMAIN inputs' : i \in 1..Len(inputs)
        BY <1>6, InputBeginsTakes
      <4> QED BY <4>1
    <3> QED BY <2>1, <3>1 DEF SealedKey, InputsRise, KeyOf
  <2>4. SentKeys'
    BY <2>1 DEF SentKeys, KeyOf
  <2> QED BY <2>2, <2>3, <2>4
<1>7. CASE InputEnds
  <2> DEFINE p == page.socket
             frame == sealing[1].frame
             key == sealing[1].job.key
  <2>1. sealing # <<>> /\ sealing' = <<>> /\ UNCHANGED <<inputs, typed>>
    BY <1>7, InputEndsIs DEF InputEnds
  <2>2. InputsRise' /\ SealedKey'
    BY <2>1 DEF InputsRise, SealedKey
  <2>3. CASE UNCHANGED sent
    BY <2>1, <2>2, <2>3 DEF SentKeys, KeyOf
  <2>4. CASE /\ frame \in KeyFrames /\ p \in Sockets
             /\ \A s \in Sockets : sent'[s] = IF s = p THEN Append(sent[s], frame) ELSE sent[s]
    <3>1. sent[p] \in Seq(KeyFrames) /\ sent'[p] = Append(sent[p], frame)
      BY <2>4 DEF KeyTypes
    <3>2. /\ KeyOf(frame) = key /\ key \in 1..typed
          /\ \A i \in DOMAIN inputs : key < inputs[i].key
          /\ \A s \in Sockets : \A k \in DOMAIN sent[s] : KeyOf(sent[s][k]) < key
      BY <2>1 DEF SealedKey, SentKeys
    <3> HIDE DEF p, frame, key
    <3>3. /\ Len(sent[p]) \in Nat /\ DOMAIN sent[p] = 1..Len(sent[p])
          /\ DOMAIN sent'[p] = 1..(Len(sent[p]) + 1)
          /\ \A i \in 1..Len(sent[p]) : sent'[p][i] = sent[p][i]
          /\ sent'[p][Len(sent[p]) + 1] = frame
      BY <2>4, <3>1, Appended
    <3>4. ASSUME NEW s \in Sockets, NEW k \in DOMAIN sent'[s]
          PROVE  \/ k \in DOMAIN sent[s] /\ sent'[s][k] = sent[s][k]
                 \/ s = p /\ k = Len(sent[p]) + 1 /\ sent'[s][k] = frame
      BY <2>4, <3>3
    <3>5. ASSUME NEW s \in Sockets, NEW k \in DOMAIN sent'[s]
          PROVE  /\ KeyOf(sent'[s][k]) \in 1..typed
                 /\ \A i \in DOMAIN inputs : KeyOf(sent'[s][k]) < inputs[i].key
                 /\ \A l \in DOMAIN sent'[s] : k < l => KeyOf(sent'[s][k]) < KeyOf(sent'[s][l])
      <4>1. CASE k \in DOMAIN sent[s] /\ sent'[s][k] = sent[s][k]
        <5>1. ASSUME NEW l \in DOMAIN sent'[s], k < l
              PROVE  KeyOf(sent[s][k]) < KeyOf(sent'[s][l])
          BY <3>2, <3>4, <4>1, <5>1 DEF SentKeys
        <5> QED BY <4>1, <5>1 DEF SentKeys
      <4>2. CASE s = p /\ k = Len(sent[p]) + 1 /\ sent'[s][k] = frame
        <5>1. \A l \in DOMAIN sent'[s] : ~(k < l)
          BY <3>3, <4>2
        <5> QED BY <3>2, <4>2, <5>1
      <4> QED BY <3>4, <4>1, <4>2
    <3>6. SentKeys'
      BY <2>1, <3>5 DEF SentKeys, KeyOf
    <3> QED BY <2>2, <3>6
  <2> QED BY <1>7, <2>3, <2>4, InputEndsIs
<1>8. CASE \E n \in ConnIds : Resume(n) \/ Feed(n) \/ HandlerEnds(n)
  BY <1>1, <1>8 DEF Resume, Feed, HandlerEnds
<1>9. CASE \E s \in Sockets : SendInput(s) \/ LoseOutbox(s)
  BY <1>1, <1>9 DEF SendInput, LoseOutbox
<1>10. CASE Repeat \/ Dial \/ Disconnect \/ Connected \/ Pump \/ Receive
  <2>1. UNCHANGED <<inputs, sealing, sent, typed>>
    BY <1>10 DEF Repeat, Dial, Disconnect, Connected, Pump, Emit, Receive
  <2> QED BY <1>1, <2>1
<1>11. CASE UNCHANGED vars
  BY <1>1, <1>11 DEF vars
<1> QED BY <1>2, <1>3, <1>4, <1>5, <1>6, <1>7, <1>8, <1>9, <1>10, <1>11 DEF Next, Sending

-----------------------------------------------------------------------------
\* Keystroke key of socket s is on its way.
On(s, key) ==
  \/ \E i \in DOMAIN channel : Arrives(i, s) /\ key = KeyOf(channel[i].frame)
  \/ \E i \in DOMAIN outbox[s] : key = KeyOf(outbox[s][i])
  \/ sealing # <<>> /\ sealing[1].job.socket = s /\ key = sealing[1].job.key
  \/ \E i \in DOMAIN inputs : inputs[i].socket = s /\ key = inputs[i].key

LEMMA KeysOn ==
  ASSUME NEW s \in Sockets, NEW key
  PROVE  /\ key \in Keys(s) <=> On(s, key)
         /\ key \in Keys(s)' <=> On(s, key)'
<1>1. key \in Keys(s) <=> On(s, key)
  BY DEF Keys, Arriving, On, Arrives, By, KeyOf
<1>2. key \in Keys(s)' <=> On(s, key)'
  BY DEF Keys, Arriving, On, Arrives, By, KeyOf, Writer
<1> QED BY <1>1, <1>2

\* Of the frames of a socket, the one with the lower number has the older keystroke.
LEMMA NumbersAreKeys ==
  ASSUME KeyInv, SentKeys, NEW s \in Sockets, NEW f, NEW g,
         IsSent(f), IsSent(g), By(f, s), By(g, s), Number(f) < Number(g)
  PROVE  KeyOf(f) < KeyOf(g)
<1>1. PICK k \in DOMAIN sent[s] : f = sent[s][k]
  BY SentBySocket DEF KeyInv
<1>2. PICK l \in DOMAIN sent[s] : g = sent[s][l]
  BY SentBySocket DEF KeyInv
<1>3. /\ sent[s] \in Seq(KeyFrames) /\ f \in KeyFrames /\ g \in KeyFrames
  BY <1>1, <1>2, KeyPlaces DEF KeyInv
<1>4. k \in Nat /\ l \in Nat
  BY <1>3, LenProperties
<1>5. Number(f) \in Nat /\ Number(g) \in Nat
  BY <1>3, KeyFrameIs
<1>6. ~(l < k) /\ l # k
  BY <1>1, <1>2, <1>5 DEF KeyInv, Counted
<1>7. k < l
  BY <1>4, <1>6
<1> QED BY <1>1, <1>2, <1>7 DEF SentKeys

\* What is on its way was typed.
LEMMA WayTyped ==
  ASSUME KeyInv, TypedInv, NEW s \in Sockets, NEW key, On(s, key)
  PROVE  key \in 1..typed
<1>1. \A f : IsSent(f) => KeyOf(f) \in 1..typed
  BY DEF IsSent, TypedInv, SentKeys
<1> QED BY <1>1 DEF On, KeyInv, OnlySent, TypedInv, SealedKey, InputsRise

\* Nothing comes on its way: for the contract, something is lost or nothing happens.
LEMMA Loses ==
  ASSUME KeyInv, TypedInv, UNCHANGED <<typed, ran>>,
         \A s \in Sockets : \A key : On(s, key)' => On(s, key)
  PROVE  Contract!Lose
<1>1. ASSUME NEW s \in Sockets
      PROVE  Keys(s)' \subseteq Keys(s) /\ Keys(s)' \subseteq 1..typed
  BY KeysOn, WayTyped
<1>2. /\ Way = [s \in Sockets |-> Keys(s)]
      /\ Way' = [s \in Sockets |-> Keys(s)']
  BY DEF Way
<1>3. Way' \in [Sockets -> SUBSET (1..typed)]
  BY <1>1, <1>2
<1>4. \A s \in Sockets : Way'[s] \subseteq Way[s]
  BY <1>1, <1>2
<1>5. Done' = Done
  BY DEF Done
<1> QED BY <1>3, <1>4, <1>5 DEF Contract!Lose

\* A keystroke is typed.
LEMMA Types ==
  ASSUME PathInv, Type
  PROVE  Contract!Type(page.socket) /\ page.socket \in Sockets
<1> DEFINE p == page.socket
           l == Len(inputs) + 1
<1>1. /\ DOMAIN inputs = 1..Len(inputs) /\ DOMAIN inputs' = 1..l /\ Len(inputs) \in Nat
      /\ \A i \in DOMAIN inputs : i \in DOMAIN inputs' /\ inputs'[i] = inputs[i]
      /\ l \in DOMAIN inputs'
      /\ inputs'[l].key = typed + 1 /\ inputs'[l].socket = p
      /\ typed' = typed + 1 /\ typed < MaxKeys
      /\ UNCHANGED <<outbox, channel, ran, sealing>>
  BY TypeAppends
<1>2. \A i \in DOMAIN inputs' : i \in DOMAIN inputs \/ i = l
  BY <1>1
<1>3. p \in Sockets
  BY DEF PathInv, PageTypes, Pages
<1> HIDE DEF p, l
<1>4. ASSUME NEW s \in Sockets, NEW key
      PROVE  On(s, key)' <=> On(s, key) \/ (s = p /\ key = typed + 1)
  <2>1. (\E i \in DOMAIN inputs' : inputs'[i].socket = s /\ key = inputs'[i].key)
          <=> \/ \E i \in DOMAIN inputs : inputs[i].socket = s /\ key = inputs[i].key
              \/ s = p /\ key = typed + 1
    BY <1>1, <1>2
  <2> QED BY <1>1, <2>1 DEF On, Arrives, By, Writer, KeyOf
<1>5. ASSUME NEW s \in Sockets
      PROVE  Keys(s)' = IF s = p THEN Keys(s) \cup {typed + 1} ELSE Keys(s)
  BY <1>4, KeysOn
<1>6. /\ Way = [s \in Sockets |-> Keys(s)]
      /\ Way' = [s \in Sockets |-> Keys(s)']
  BY DEF Way
<1>7. Way' = [Way EXCEPT ![p] = @ \cup {typed'}]
  BY <1>1, <1>3, <1>5, <1>6
<1>8. Done' = Done
  BY <1>1 DEF Done
<1> QED BY <1>1, <1>3, <1>7, <1>8 DEF Contract!Type, p

\* What the host runs is the oldest that is on its way.
LEMMA Runs ==
  ASSUME IInv, PathInv, KeyInv, TypedInv, Receive,
         Receives(host.receiver, Master, SessionId, channel[1].frame)
  PROVE  \E s \in Sockets : Contract!Run(s)
<1> DEFINE y == channel[1].frame
           key == KeyOf(y)
           n == Len(channel)
           l == Len(ran) + 1
<1>1. /\ n \in Nat /\ DOMAIN channel = 1..n /\ 1 \in DOMAIN channel /\ y \in KeyFrames
      /\ DOMAIN channel' = 1..(n - 1)
      /\ \A i \in 1..(n - 1) : channel'[i] = channel[i + 1]
      /\ UNCHANGED <<sealing, outbox, inputs, typed>>
      /\ ran' = Append(ran, [frame |-> y, conn |-> host.conn])
  BY ReceiveIs DEF KeyInv, Receive, pageVars
<1>2. ~channel[1].again
  BY RepeatRefused DEF KeyInv
<1>3. PICK s \in Sockets : By(y, s)
  BY <1>1, KeyFrameIs
<1> HIDE DEF y, n
<1>4. Arrives(1, s)
  BY <1>2, <1>3 DEF Arrives, y
<1>5. IsSent(y) /\ y = channel[1].frame
  BY <1>1 DEF KeyInv, OnlySent, y
<1>6. ASSUME NEW i \in DOMAIN channel, i # 1, Arrives(i, s)
      PROVE  key < KeyOf(channel[i].frame)
  <2>1. 1 < i
    BY <1>1, <1>6
  <2>2. Number(y) < Number(channel[i].frame)
    BY <1>1, <1>4, <1>5, <1>6, <2>1 DEF KeyInv, Queue, ChannelRises
  <2>3. IsSent(channel[i].frame) /\ By(channel[i].frame, s)
    BY <1>6 DEF KeyInv, OnlySent, Arrives
  <2> QED BY <1>3, <1>5, <2>2, <2>3, NumbersAreKeys DEF TypedInv
<1>7. ASSUME NEW j \in DOMAIN outbox[s] PROVE key < KeyOf(outbox[s][j])
  <2>1. Number(y) < Number(outbox[s][j])
    BY <1>1, <1>4, <1>5 DEF KeyInv, Queue, ChannelFirst
  <2>2. IsSent(outbox[s][j]) /\ By(outbox[s][j], s)
    BY DEF KeyInv, OnlySent
  <2> QED BY <1>3, <1>5, <2>1, <2>2, NumbersAreKeys DEF TypedInv
<1>8. /\ sealing # <<>> => key < sealing[1].job.key
      /\ \A i \in DOMAIN inputs : key < inputs[i].key
      /\ key \in 1..typed
  BY <1>5 DEF IsSent, TypedInv, SentKeys
<1> HIDE DEF key
<1>9. On(s, key)
  BY <1>1, <1>4, <1>5 DEF On, key
<1>10. ASSUME NEW other, On(s, other), other # key PROVE key < other
  <2>1. \A i \in DOMAIN channel : i = 1 => KeyOf(channel[i].frame) = key
    BY <1>5 DEF key
  <2> QED BY <1>6, <1>7, <1>8, <1>10, <2>1 DEF On
<1>11. \A i \in DOMAIN channel' : /\ i + 1 \in DOMAIN channel /\ i + 1 # 1
                                  /\ channel'[i] = channel[i + 1]
  BY <1>1
<1>12. \A i \in DOMAIN channel : i # 1 => /\ i - 1 \in DOMAIN channel'
                                          /\ channel'[i - 1] = channel[i]
  <2> SUFFICES ASSUME NEW i \in DOMAIN channel, i # 1
               PROVE  i - 1 \in DOMAIN channel' /\ channel'[i - 1] = channel[i]
    OBVIOUS
  <2>1. i - 1 \in 1..(n - 1) /\ (i - 1) + 1 = i
    BY <1>1
  <2> QED BY <1>1, <2>1
<1>14. ASSUME NEW r \in Sockets, NEW other
       PROVE  On(r, other)' <=> On(r, other) /\ ~(r = s /\ other = key)
  <2>0. key \in Int
    BY <1>8
  <2>1. On(r, other)' <=>
          \/ \E i \in DOMAIN channel : /\ i # 1 /\ Arrives(i, r)
                                       /\ other = KeyOf(channel[i].frame)
          \/ \E i \in DOMAIN outbox[r] : other = KeyOf(outbox[r][i])
          \/ sealing # <<>> /\ sealing[1].job.socket = r /\ other = sealing[1].job.key
          \/ \E i \in DOMAIN inputs : inputs[i].socket = r /\ other = inputs[i].key
    <3>1. /\ outbox' = outbox /\ sealing' = sealing /\ inputs' = inputs
          /\ (\E i \in DOMAIN channel' : Arrives(i, r)' /\ other = KeyOf(channel'[i].frame))
               <=> \E i \in DOMAIN channel : /\ i # 1 /\ Arrives(i, r)
                                             /\ other = KeyOf(channel[i].frame)
      <4>1. outbox' = outbox /\ sealing' = sealing /\ inputs' = inputs
        BY <1>1
      <4>2. (\E i \in DOMAIN channel' : Arrives(i, r)' /\ other = KeyOf(channel'[i].frame))
              <=> \E i \in DOMAIN channel : /\ i # 1 /\ Arrives(i, r)
                                            /\ other = KeyOf(channel[i].frame)
        BY <1>11, <1>12 DEF Arrives, By, Writer
      <4> QED BY <4>1, <4>2, ZenonT(30) DEF Arrives, By, Writer
    <3> QED BY <3>1 DEF On, KeyOf, Arrives, By, Writer
  <2>2. CASE r = s
    <3>1. ASSUME NEW k, key < k PROVE k # key
      BY <2>0, <3>1
    <3>2. Arrives(1, s) /\ KeyOf(channel[1].frame) = key
      BY <1>4, <1>5 DEF key
    <3>3. CASE other = key
      <4>1. ~On(s, other)'
        BY <1>6, <1>7, <1>8, <2>1, <2>2, <3>1, <3>3
      <4> QED BY <2>2, <3>3, <4>1
    <3>4. CASE other # key
      BY <2>1, <2>2, <3>2, <3>4 DEF On
    <3> QED BY <3>3, <3>4
  <2>3. CASE r # s
    <3>1. ~Arrives(1, r)
      BY <1>3, <1>5, <2>3, OneWriter DEF Arrives
    <3> QED BY <2>1, <2>3, <3>1 DEF On
  <2> QED BY <2>2, <2>3
<1>15. /\ Way = [r \in Sockets |-> Keys(r)]
       /\ Way' = [r \in Sockets |-> Keys(r)']
  BY DEF Way
<1>16. ASSUME NEW r \in Sockets
       PROVE  Keys(r)' = IF r = s THEN Keys(r) \ {key} ELSE Keys(r)
  BY <1>14, KeysOn
<1>17. Way' = [Way EXCEPT ![s] = @ \ {key}]
  BY <1>15, <1>16
<1>18. key \in Way[s] /\ \A other \in Way[s] : key <= other
  <2>1. key \in Keys(s) /\ \A other \in Keys(s) : other = key \/ key < other
    BY <1>9, <1>10, KeysOn
  <2>2. key \in Int
    BY <1>8
  <2>3. \A other \in Keys(s) : other \in Int
    BY KeysOn, WayTyped
  <2> QED BY <1>15, <2>1, <2>2, <2>3
<1>19. Done' = Append(Done, key)
  <2>1. /\ l \in Nat /\ DOMAIN ran = 1..Len(ran) /\ DOMAIN ran' = 1..l /\ Len(ran) \in Nat
        /\ \A i \in 1..Len(ran) : ran'[i] = ran[i]
        /\ ran'[l] = [frame |-> y, conn |-> host.conn]
    BY <1>1, RanAppended DEF KeyInv
  <2>2. ran'[l].frame = y
    BY <2>1
  <2>3. /\ DOMAIN Done = 1..Len(ran) /\ DOMAIN Done' = 1..l
        /\ \A i \in 1..Len(ran) : Done[i] = KeyOf(ran[i].frame) /\ Done'[i] = Done[i]
        /\ Done'[l] = key
    <3>1. /\ Done = [i \in 1..Len(ran) |-> KeyOf(ran[i].frame)]
          /\ Done' = [i \in 1..l |-> KeyOf(ran'[i].frame)]
      BY <2>1 DEF Done, KeyOf
    <3>2. l \in 1..l /\ \A i \in 1..Len(ran) : i \in 1..l
      BY <2>1
    <3> QED BY <2>1, <2>2, <3>1, <3>2 DEF key
  <2>4. Done \in Seq(Range(Done)) /\ Len(Done) = Len(ran)
    <3>1. Done = [i \in 1..Len(ran) |-> KeyOf(ran[i].frame)]
      BY <2>1 DEF Done, KeyOf
    <3> QED BY <2>1, <3>1 DEF Range
  <2>5. key \in Nat /\ \A i \in 1..Len(ran) : Done[i] \in Range(Done)
    BY <1>8, <2>3 DEF Range
  <2> DEFINE S == Range(Done) \cup {key}
  <2>6. Done \in Seq(S) /\ key \in S
    BY <2>4
  <2>7. Done' \in Seq(S) /\ Len(Done') = l
    <3>1. \A i \in 1..l : Done'[i] \in S
      <4>1. \A i \in 1..l : i = l \/ i \in 1..Len(ran)
        BY <2>1
      <4> QED BY <2>3, <2>5, <4>1
    <3>2. Done' = [i \in 1..l |-> Done'[i]]
      BY <2>1 DEF Done
    <3> HIDE DEF S, l
    <3> QED BY <2>1, <3>1, <3>2
  <2> HIDE DEF S
  <2>8. /\ Append(Done, key) \in Seq(S) /\ Len(Append(Done, key)) = l
        /\ \A i \in 1..Len(ran) : Append(Done, key)[i] = Done[i]
        /\ Append(Done, key)[l] = key
    BY <2>4, <2>6, Appended
  <2>9. \A i \in 1..l : Done'[i] = Append(Done, key)[i]
    <3>1. \A i \in 1..l : i = l \/ i \in 1..Len(ran)
      BY <2>1
    <3> QED BY <2>3, <2>8, <3>1
  <2> QED BY <2>7, <2>8, <2>9, SeqEqual
<1> QED BY <1>1, <1>17, <1>18, <1>19 DEF Contract!Run

\* What the page seals and sends is what was on its way already.
LEMMA SendingLoses ==
  ASSUME PathInv, KeyInv, TypedInv, Sending
  PROVE  Contract!Lose
<1>1. CASE InputBegins
  <2>1. /\ sealing = <<>> /\ 1 \in DOMAIN inputs
        /\ \A i \in DOMAIN inputs' : /\ i + 1 \in DOMAIN inputs /\ inputs'[i] = inputs[i + 1]
        /\ UNCHANGED <<outbox, channel, ran, typed>>
        /\ \/ sealing' = <<>>
           \/ sealing'[1].job = inputs[1]
    BY <1>1, InputBeginsTakes
  <2>2. \A s \in Sockets : \A key : On(s, key)' => On(s, key)
    BY <2>1 DEF On, Arrives, By, Writer, KeyOf
  <2> QED BY <2>1, <2>2, Loses
<1>2. CASE InputEnds
  <2> DEFINE p == page.socket
             frame == sealing[1].frame
  <2>1. sealing # <<>> /\ sealing' = <<>> /\ UNCHANGED <<inputs, channel, typed, ran>>
    BY <1>2, InputEndsIs DEF InputEnds, KeyInv, hostVars
  <2>2. CASE UNCHANGED outbox
    <3>1. \A s \in Sockets : \A key : On(s, key)' => On(s, key)
      BY <2>1, <2>2 DEF On, Arrives, By, Writer, KeyOf
    <3> QED BY <2>1, <3>1, Loses
  <2>3. CASE /\ frame \in KeyFrames /\ p \in Sockets /\ sealing[1].job.socket = p
             /\ \A s \in Sockets :
                  outbox'[s] = IF s = p THEN Append(outbox[s], frame) ELSE outbox[s]
    <3>1. outbox[p] \in Seq(KeyFrames) /\ outbox'[p] = Append(outbox[p], frame)
      BY <2>3 DEF KeyInv, KeyTypes
    <3>2. KeyOf(frame) = sealing[1].job.key
      BY <2>1 DEF TypedInv, SealedKey
    <3> HIDE DEF p, frame
    <3>3. /\ Len(outbox[p]) \in Nat /\ DOMAIN outbox[p] = 1..Len(outbox[p])
          /\ DOMAIN outbox'[p] = 1..(Len(outbox[p]) + 1)
          /\ \A i \in 1..Len(outbox[p]) : outbox'[p][i] = outbox[p][i]
          /\ outbox'[p][Len(outbox[p]) + 1] = frame
      BY <2>3, <3>1, Appended
    <3>4. ASSUME NEW s \in Sockets, NEW i \in DOMAIN outbox'[s]
          PROVE  \/ i \in DOMAIN outbox[s] /\ outbox'[s][i] = outbox[s][i]
                 \/ s = p /\ outbox'[s][i] = frame
      BY <2>3, <3>3
    <3>5. \A s \in Sockets : \A key : On(s, key)' => On(s, key)
      BY <2>1, <2>3, <3>2, <3>4 DEF On, Arrives, By, Writer, KeyOf
    <3> QED BY <2>1, <3>5, Loses
  <2> QED BY <1>2, <2>2, <2>3, InputEndsIs DEF KeyInv
<1> QED BY <1>1, <1>2 DEF Sending

\* So is what the relay passes on.
LEMMA SendInputLoses ==
  ASSUME KeyInv, TypedInv, NEW s \in Sockets, SendInput(s)
  PROVE  Contract!Lose
<1> DEFINE y == outbox[s][1]
           entry == [frame |-> y, again |-> FALSE]
<1>1. /\ y \in KeyFrames /\ 1 \in DOMAIN outbox[s]
      /\ DOMAIN outbox[s] = 1..Len(outbox[s]) /\ Len(outbox[s]) \in Nat
      /\ \A r \in Sockets : r # s => outbox'[r] = outbox[r]
      /\ DOMAIN outbox'[s] = 1..(Len(outbox[s]) - 1)
      /\ \A i \in 1..(Len(outbox[s]) - 1) : outbox'[s][i] = outbox[s][i + 1]
      /\ UNCHANGED <<sealing, ran, inputs, typed>>
      /\ channel' = Append(channel, entry) \/ channel' = channel
  BY SendInputIs DEF KeyInv, SendInput, pageVars
<1>2. entry \in Entries /\ entry.frame = y
  BY <1>1 DEF Entries
<1>3. By(y, s)
  BY <1>1 DEF KeyInv, OnlySent
<1> HIDE DEF entry
<1>4. \A i \in DOMAIN channel' : \/ i \in DOMAIN channel /\ channel'[i] = channel[i]
                                 \/ channel'[i].frame = y
  <2>1. CASE channel' = channel
    BY <2>1
  <2>2. CASE channel' = Append(channel, entry)
    <3>1. /\ DOMAIN channel = 1..Len(channel) /\ Len(channel) \in Nat
          /\ DOMAIN channel' = 1..(Len(channel) + 1)
          /\ \A i \in 1..Len(channel) : channel'[i] = channel[i]
          /\ channel'[Len(channel) + 1] = entry
      BY <1>2, <2>2, ChannelAppended DEF KeyInv
    <3> QED BY <1>2, <3>1
  <2> QED BY <1>1, <2>1, <2>2
<1>5. \A i \in DOMAIN outbox'[s] : i + 1 \in DOMAIN outbox[s] /\ outbox'[s][i] = outbox[s][i + 1]
  BY <1>1
<1> HIDE DEF y
<1>6. 1 \in DOMAIN outbox[s] /\ outbox[s][1] = y
  BY <1>1 DEF y
<1>7. ASSUME NEW r \in Sockets, NEW key, On(r, key)' PROVE On(r, key)
  <2>1. ASSUME NEW i \in DOMAIN channel', Arrives(i, r)', key = KeyOf(channel'[i].frame)
        PROVE  On(r, key)
    <3>1. CASE i \in DOMAIN channel /\ channel'[i] = channel[i]
      BY <2>1, <3>1 DEF On, Arrives, By, Writer
    <3>2. CASE channel'[i].frame = y
      <4>1. By(y, r)
        BY <2>1, <3>2 DEF Arrives, By, Writer
      <4>2. r = s
        BY <1>3, <4>1, OneWriter
      <4> QED BY <1>6, <2>1, <3>2, <4>2 DEF On
    <3> QED BY <1>4, <2>1, <3>1, <3>2
  <2>2. ASSUME NEW i \in DOMAIN outbox'[r], key = KeyOf(outbox'[r][i])
        PROVE  On(r, key)
    <3>1. CASE r # s
      BY <1>1, <2>2, <3>1 DEF On
    <3>2. CASE r = s
      BY <1>5, <2>2, <3>2 DEF On
    <3> QED BY <3>1, <3>2
  <2>3. \/ \E i \in DOMAIN channel' : Arrives(i, r)' /\ key = KeyOf(channel'[i].frame)
        \/ \E i \in DOMAIN outbox'[r] : key = KeyOf(outbox'[r][i])
        \/ sealing # <<>> /\ sealing[1].job.socket = r /\ key = sealing[1].job.key
        \/ \E i \in DOMAIN inputs : inputs[i].socket = r /\ key = inputs[i].key
    BY <1>1, <1>7 DEF On, KeyOf, Arrives, By, Writer
  <2>4. CASE \E i \in DOMAIN channel' : Arrives(i, r)' /\ key = KeyOf(channel'[i].frame)
    BY <2>1, <2>4 DEF Arrives, By, Writer
  <2>5. CASE \E i \in DOMAIN outbox'[r] : key = KeyOf(outbox'[r][i])
    BY <2>2, <2>5
  <2>6. CASE \/ sealing # <<>> /\ sealing[1].job.socket = r /\ key = sealing[1].job.key
             \/ \E i \in DOMAIN inputs : inputs[i].socket = r /\ key = inputs[i].key
    BY <2>6 DEF On
  <2> QED BY <2>3, <2>4, <2>5, <2>6
<1> QED BY <1>1, <1>7, Loses

LEMMA ContractInit == Init => Contract!Init
<1> SUFFICES ASSUME Init PROVE Contract!Init
  OBVIOUS
<1>1. /\ channel = <<>> /\ sealing = <<>> /\ inputs = <<>> /\ ran = <<>> /\ typed = 0
      /\ \A s \in Sockets : outbox[s] = <<>>
  BY DEF Init
<1>2. ASSUME NEW s \in Sockets PROVE Keys(s) = {}
  BY <1>1 DEF Keys, Arriving
<1>3. Way = [s \in Sockets |-> {}]
  BY <1>2 DEF Way
<1>4. Done = <<>>
  BY <1>1 DEF Done
<1> QED BY <1>1, <1>3, <1>4 DEF Contract!Init

\* Every step of the path is one of the contract.
LEMMA ContractStep ==
  ASSUME IInv, PathInv, KeyInv, TypedInv, [Next]_vars
  PROVE  Contract!Next
<1> USE DEF pageVars, relayVars, hostVars, Unchanged
<1>1. ASSUME UNCHANGED <<outbox, typed, ran>>, channel' = channel \/ channel' = <<>>,
             inputs' = inputs \/ inputs' = <<>>, sealing' = sealing \/ sealing' = <<>>
      PROVE  Contract!Lose
  <2>1. \A s \in Sockets : \A key : On(s, key)' => On(s, key)
    BY <1>1 DEF On, Arrives, By, Writer, KeyOf
  <2> QED BY <1>1, <2>1, Loses
<1>2. CASE SocketCloses \/ Reconnect \/ Reload \/ Join
  <2>1. Contract!Lose
    BY <1>1, <1>2 DEF SocketCloses, Reconnect, Reload, Join
  <2> QED BY <2>1 DEF Contract!Next
<1>3. CASE Receiving
  <2>1. UNCHANGED <<outbox, typed, ran, channel, inputs, sealing>>
    BY <1>3 DEF Receiving, ReceiveInit, Created, ReceiveStatus,
       ReceiveUnavailable, ReceiveFrame, Decrypted
  <2> QED BY <1>1, <2>1 DEF Contract!Next
<1>4. CASE Type
  BY <1>4, Types DEF Contract!Next
<1>5. CASE Sending
  BY <1>5, SendingLoses DEF Contract!Next
<1>6. CASE \E n \in ConnIds : Resume(n) \/ Feed(n) \/ HandlerEnds(n)
  <2>1. Contract!Lose
    BY <1>1, <1>6 DEF Resume, Feed, HandlerEnds
  <2> QED BY <2>1 DEF Contract!Next
<1>7. ASSUME NEW s \in Sockets, SendInput(s) PROVE Contract!Lose
  BY <1>7, SendInputLoses
<1>8. ASSUME NEW s \in Sockets, LoseOutbox(s) PROVE Contract!Lose
  <2>1. /\ \A r \in Sockets : outbox'[r] = IF r = s THEN <<>> ELSE outbox[r]
        /\ UNCHANGED <<channel, sealing, inputs, typed, ran>>
    BY <1>8 DEF LoseOutbox, KeyInv, KeyTypes
  <2>2. \A r \in Sockets : \A key : On(r, key)' => On(r, key)
    BY <2>1 DEF On, Arrives, By, Writer, KeyOf
  <2> QED BY <2>1, <2>2, Loses
<1>9. CASE Repeat
  <2>1. PICK h \in DOMAIN ran :
          channel' = Append(channel, [frame |-> ran[h].frame, again |-> TRUE])
    BY <1>9 DEF Repeat
  <2> DEFINE entry == [frame |-> ran[h].frame, again |-> TRUE]
  <2>2. entry \in Entries /\ entry.again
    BY KeyPlaces DEF Entries, KeyInv
  <2>3. UNCHANGED <<outbox, sealing, inputs, typed, ran>>
    BY <1>9 DEF Repeat
  <2> HIDE DEF entry
  <2>4. \A i \in DOMAIN channel' : \/ i \in DOMAIN channel /\ channel'[i] = channel[i]
                                   \/ channel'[i].again
    <3>1. /\ DOMAIN channel = 1..Len(channel) /\ Len(channel) \in Nat
          /\ DOMAIN channel' = 1..(Len(channel) + 1)
          /\ \A i \in 1..Len(channel) : channel'[i] = channel[i]
          /\ channel'[Len(channel) + 1] = entry
      BY <2>1, <2>2, ChannelAppended DEF KeyInv, entry
    <3> QED BY <2>2, <3>1
  <2>5. \A r \in Sockets : \A key : On(r, key)' => On(r, key)
    BY <2>3, <2>4 DEF On, Arrives, By, Writer, KeyOf
  <2> QED BY <2>3, <2>5, Loses DEF Contract!Next
<1>10. CASE Dial \/ Disconnect \/ Connected \/ Pump
  <2>1. Contract!Lose
    BY <1>1, <1>10 DEF Dial, Disconnect, Connected, Pump, Emit
  <2> QED BY <2>1 DEF Contract!Next
<1>11. CASE Receive
  <2>1. CASE Receives(host.receiver, Master, SessionId, channel[1].frame)
    BY <1>11, <2>1, Runs DEF Contract!Next
  <2>2. CASE ~Receives(host.receiver, Master, SessionId, channel[1].frame)
    <3>1. /\ UNCHANGED <<ran, outbox, sealing, inputs, typed>>
          /\ Len(channel) \in Nat /\ DOMAIN channel = 1..Len(channel)
          /\ DOMAIN channel' = 1..(Len(channel) - 1)
          /\ \A i \in 1..(Len(channel) - 1) : channel'[i] = channel[i + 1]
      BY <1>11, <2>2, ReceiveIs DEF KeyInv, Receive
    <3>2. \A i \in DOMAIN channel' : i + 1 \in DOMAIN channel /\ channel'[i] = channel[i + 1]
      BY <3>1
    <3>3. \A s \in Sockets : \A key : On(s, key)' => On(s, key)
      BY <3>1, <3>2 DEF On, Arrives, By, Writer, KeyOf
    <3> QED BY <3>1, <3>3, Loses DEF Contract!Next
  <2> QED BY <2>1, <2>2
<1>12. CASE UNCHANGED vars
  BY <1>1, <1>12 DEF vars, Contract!Next
<1> QED BY <1>2, <1>3, <1>4, <1>5, <1>6, <1>7, <1>8, <1>9, <1>10, <1>11, <1>12
        DEF Next, Contract!Next

\* The path of a keystroke (session.html's send, crypto.js's input, send_input,
\* InputReceiver::receive) is a channel that may lose keystrokes, but runs none twice and
\* those of a socket in the order typed.
THEOREM PathKeepsContract == Spec => KeepsContract
<1>1. Init => IInv /\ PathInv /\ KeyInv /\ TypedInv
  BY InitHolds, PathInit, KeyInit, TypedInit
<1>2. IInv /\ PathInv /\ KeyInv /\ TypedInv /\ [Next]_vars
        => IInv' /\ PathInv' /\ KeyInv' /\ TypedInv'
  BY StepKeeps, PathStep, KeyStep, TypedStep DEF KeyInv
<1>3. IInv /\ PathInv /\ KeyInv /\ TypedInv /\ [Next]_vars => [Contract!Next]_Contract!vars
  BY ContractStep
<1> QED BY <1>1, <1>2, <1>3, ContractInit, PTL DEF Spec, KeepsContract, Contract!Spec
=============================================================================
