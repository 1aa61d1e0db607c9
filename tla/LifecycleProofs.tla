--------------------------- MODULE LifecycleProofs ---------------------------
(***************************************************************************)
(* Proofs about Lifecycle for any number of connections, viewers and       *)
(* sessions.  IInv is the inductive invariant: one lemma per conjunct says *)
(* that a step preserves it, with the actions that could disturb it first  *)
(* and on their own and the others together.                               *)
(***************************************************************************)
EXTENDS Lifecycle, TLAPS

\* A handler's locals follow its place in the code.
Seats ==
  /\ \A c \in Conns : target[c] = NoId <=> pc[c] \in {"hello", "gone"}
  /\ \A c \in Conns : clean[c] => pc[c] \in {"pump", "detach"}
  /\ \A c \in Conns : inbox[c] > 0 => pc[c] \in {"pump", "exit", "detach"}
  /\ \A c \in Conns :
       pc[c] \in {"hello", "created", "resume"} => epoch[c] = 0
  /\ \A v \in Viewers : mayWrite[v] => watching[v] \in Ids

\* Whatever is listed, told to a producer or attached to has been created.
Created ==
  /\ \A id \in known \cup store : status[id] # "absent"
  /\ \A c \in Conns :
       pc[c] \notin {"hello", "gone"} => status[target[c]] # "absent"

\* Until the first ack has told a producer the id of a session, nobody but the
\* handler that created it is attached to it, and its epoch is still 0.
Secret ==
  /\ \A c \in Conns : pc[c] = "resume" => target[c] \in known
  /\ \A c \in Conns : pc[c] = "created" => target[c] \notin known
  /\ \A id \in Ids \ known : current[id] = 0
  /\ \A c, d \in Conns :
       target[c] = target[d] /\ target[c] \in Ids \ known => c = d

\* No handler is ahead of its session.
Fenced ==
  \A c \in Conns : Seated(c) => epoch[c] <= current[target[c]]

\* The permission of a session is the one its current producer asked for.
Permission ==
  \A c \in Conns, id \in Ids : Holds(c, id) => allowInput[id] = consent[c]

\* What the reaper has under test or will remove was terminal at the epoch it
\* read, and is so until a resume moves the epoch on.
Seen ==
  \A id \in Ids :
    id \in doomed \/ id = testing =>
      /\ seen[id] <= current[id]
      /\ seen[id] = current[id] => status[id] \in Terminal

IInv ==
  /\ TypeOK /\ Seats /\ Created /\ Secret /\ Fenced /\ Permission /\ Seen
  /\ OneHolder /\ InputBelongsToHolder /\ KeysNeedConsent /\ LiveHasHandler
  /\ LiveIsShown

USE LifecycleAssumption DEF Goto, Current, Return, Terminal

-----------------------------------------------------------------------------
\* No handler, viewer or sweep exists at first, so every part holds.
LEMMA InitIInv ==
  Init => IInv
BY DEF Init, IInv, TypeOK, Labels, Seats, Created, Secret, Fenced, Permission,
       Seen, Seated, Holds, OneHolder, InputBelongsToHolder, KeysNeedConsent,
       LiveHasHandler, LiveIsShown

\* Every action keeps the types: a handler past its hello has a session.
LEMMA TypeOKStep ==
  TypeOK /\ Seats /\ [Next]_vars => TypeOK'
<1> SUFFICES ASSUME TypeOK /\ Seats, [Next]_vars PROVE TypeOK'
  OBVIOUS
<1> USE DEF Seats, sessionVars, viewerVars, handlerVars, reaperVars, TypeOK,
             Labels
<1>1. ASSUME NEW c \in Conns, Refuse(c) PROVE TypeOK'
  BY <1>1 DEF Refuse
<1>2. ASSUME NEW c \in Conns, Find(c) PROVE TypeOK'
  BY <1>2 DEF Find
<1>3. ASSUME NEW c \in Conns, Create(c) PROVE TypeOK'
  BY <1>3 DEF Create
<1>4. ASSUME NEW c \in Conns, ReadEpoch(c) PROVE TypeOK'
  BY <1>4 DEF ReadEpoch
<1>5. ASSUME NEW c \in Conns, Resume(c) PROVE TypeOK'
  BY <1>5 DEF Resume
<1>6. ASSUME NEW c \in Conns, Announce(c) PROVE TypeOK'
  BY <1>6 DEF Announce
<1>7. ASSUME NEW c \in Conns, SendAck(c) PROVE TypeOK'
  BY <1>7 DEF SendAck
<1>8. ASSUME NEW c \in Conns, AckFails(c) PROVE TypeOK'
  BY <1>8 DEF AckFails
<1>9. ASSUME NEW c \in Conns, AttachInput(c) PROVE TypeOK'
  BY <1>9 DEF AttachInput
<1>10. ASSUME NEW c \in Conns, ReceiveExit(c) PROVE TypeOK'
  BY <1>10 DEF ReceiveExit
<1>11. ASSUME NEW c \in Conns, MarkExit(c) PROVE TypeOK'
  BY <1>11 DEF MarkExit
<1>12. ASSUME NEW c \in Conns, PumpEnds(c) PROVE TypeOK'
  BY <1>12 DEF PumpEnds
<1>13. ASSUME NEW c \in Conns, DetachInput(c) PROVE TypeOK'
  <2>1. target[c] \in Ids
    BY <1>13 DEF DetachInput
  <2>2. input' \in [Ids -> Conns \cup {NoConn}]
    BY <1>13, <2>1 DEF DetachInput
  <2>3. inbox' \in [Conns -> 0..MaxKeys]
    BY <1>13 DEF DetachInput
  <2>4. CASE clean[c]
    <3>1. Return(c)
      BY <1>13, <2>4 DEF DetachInput
    <3> QED
      BY <1>13, <2>2, <2>3, <3>1 DEF DetachInput
  <2>5. CASE ~clean[c]
    BY <1>13, <2>2, <2>3, <2>5 DEF DetachInput
  <2> QED
    BY <2>4, <2>5
<1>14. ASSUME NEW c \in Conns, MarkDisconnected(c) PROVE TypeOK'
  <2>1. Return(c) /\ target[c] \in Ids
    BY <1>14 DEF MarkDisconnected
  <2> DEFINE States == {"absent", "live"} \cup Terminal
             id == target[c]
  <2>2. /\ status \in [Ids -> States] /\ shown \in [Ids -> States]
        /\ input \in [Ids -> Conns \cup {NoConn}] /\ expired \in [Ids -> BOOLEAN]
        /\ "stale" \in States /\ id \in Ids
    BY <2>1 DEF Terminal
  <2>3. \/ /\ status' = [status EXCEPT ![id] = "stale"]
           /\ input' = [input EXCEPT ![id] = NoConn]
           /\ expired' = [expired EXCEPT ![id] = FALSE]
           /\ shown' = [shown EXCEPT ![id] = "stale"]
        \/ UNCHANGED <<status, input, expired, shown>>
    BY <1>14 DEF MarkDisconnected
  <2> HIDE DEF States, id
  <2>4. /\ status' \in [Ids -> States] /\ shown' \in [Ids -> States]
        /\ input' \in [Ids -> Conns \cup {NoConn}] /\ expired' \in [Ids -> BOOLEAN]
    BY ONLY ZenonT(40), <2>2, <2>3
  <2>5. /\ pc' \in [Conns -> Labels] /\ consent' \in [Conns -> BOOLEAN]
        /\ target' \in [Conns -> Ids \cup {NoId}] /\ epoch' \in [Conns -> Nat]
        /\ clean' \in [Conns -> BOOLEAN] /\ lost' \in [Conns -> BOOLEAN]
    BY <2>1 DEF Return, Goto
  <2>6. UNCHANGED <<current, allowInput, store, known, inbox, viewerVars, reaperVars>>
    BY <1>14 DEF MarkDisconnected
  <2> QED BY <2>4, <2>5, <2>6 DEF States
<1>15. ASSUME NEW c \in Conns, Downstream(c) PROVE TypeOK'
  BY <1>15 DEF Downstream
<1>16. ASSUME NEW c \in Conns, Lose(c) PROVE TypeOK'
  BY <1>16 DEF Lose
<1>17. ASSUME NEW v \in Viewers, Watch(v) PROVE TypeOK'
  BY <1>17 DEF Watch
<1>18. ASSUME NEW v \in Viewers, SendInput(v) PROVE TypeOK'
  BY <1>18 DEF SendInput
<1>19. ASSUME NEW id \in Ids, Elapse(id) PROVE TypeOK'
  BY <1>19 DEF Elapse
<1>20. ASSUME NEW id \in Ids, ReadStatus(id) PROVE TypeOK'
  BY <1>20 DEF ReadStatus
<1>21. ASSUME NEW id \in Ids, Remove(id) PROVE TypeOK'
  BY <1>21 DEF Remove
<1>22. ASSUME SweepBegins PROVE TypeOK'
  BY <1>22 DEF SweepBegins
<1>23. ASSUME ReadExpiry PROVE TypeOK'
  BY <1>23 DEF ReadExpiry
<1>24. CASE UNCHANGED vars
  BY <1>24 DEF vars
<1> QED
  BY <1>1, <1>2, <1>3, <1>4, <1>5, <1>6, <1>7, <1>8, <1>9, <1>10,
     <1>11, <1>12, <1>13, <1>14, <1>15, <1>16, <1>17, <1>18, <1>19, <1>20,
     <1>21, <1>22, <1>23, <1>24 DEF Next, Handler, Reaper

\* A keystroke goes to a handler that has attached its input channel.
LEMMA SeatsStep ==
  IInv /\ [Next]_vars => Seats'
<1> SUFFICES ASSUME IInv, [Next]_vars PROVE Seats'
  OBVIOUS
<1> USE DEF IInv, sessionVars, viewerVars, handlerVars, reaperVars, TypeOK,
             Labels, Seats
<1>1. ASSUME NEW c \in Conns, Find(c) PROVE Seats'
  BY <1>1 DEF Find
<1>2. ASSUME NEW c \in Conns, Create(c) PROVE Seats'
  BY <1>2 DEF Create
<1>3. ASSUME NEW c \in Conns, DetachInput(c) PROVE Seats'
  BY <1>3 DEF DetachInput
<1>4. ASSUME NEW c \in Conns, MarkDisconnected(c) PROVE Seats'
  BY <1>4 DEF MarkDisconnected
<1>5. ASSUME NEW c \in Conns,
               \/ Refuse(c) \/ ReadEpoch(c) \/ Resume(c) \/ Announce(c) \/
                  SendAck(c) \/ AckFails(c) \/ AttachInput(c) \/
                  ReceiveExit(c) \/ MarkExit(c) \/ PumpEnds(c) \/
                  Downstream(c) \/ Lose(c)
      PROVE  Seats'
  BY <1>5 DEF Refuse, ReadEpoch, Resume, Announce, SendAck, AckFails,
         AttachInput, ReceiveExit, MarkExit, PumpEnds, Downstream, Lose
<1>6. ASSUME NEW v \in Viewers, SendInput(v) PROVE Seats'
  <2>1. pc[input[watching[v]]] \in {"pump", "exit", "detach"}
    BY <1>6 DEF SendInput, InputBelongsToHolder
  <2>2. inbox' = [inbox EXCEPT ![input[watching[v]]] = @ + 1]
    BY <1>6 DEF SendInput
  <2>3. UNCHANGED <<target, pc, clean, epoch, mayWrite, watching>>
    BY <1>6 DEF SendInput
  <2> QED
    BY <2>1, <2>2, <2>3
<1>7. ASSUME NEW v \in Viewers,
               \/ Watch(v)
      PROVE  Seats'
  BY <1>7 DEF Watch
<1>8. ASSUME NEW id \in Ids,
               \/ Elapse(id) \/ ReadStatus(id) \/ Remove(id)
      PROVE  Seats'
  BY <1>8 DEF Elapse, ReadStatus, Remove
<1>9. ASSUME SweepBegins \/ ReadExpiry
      PROVE  Seats'
  BY <1>9 DEF SweepBegins, ReadExpiry
<1>10. CASE UNCHANGED vars
  BY <1>10 DEF vars
<1> QED
  BY <1>1, <1>2, <1>3, <1>4, <1>5, <1>6, <1>7, <1>8, <1>9, <1>10 DEF Next, Handler, Reaper

\* Find picks from the store, Create what it has just created.
LEMMA CreatedStep ==
  IInv /\ [Next]_vars => Created'
<1> SUFFICES ASSUME IInv, [Next]_vars PROVE Created'
  OBVIOUS
<1> USE DEF IInv, sessionVars, viewerVars, handlerVars, reaperVars, TypeOK,
             Labels, Seats, Created
<1>1. ASSUME NEW c \in Conns, Find(c) PROVE Created'
  BY <1>1 DEF Find
<1>2. ASSUME NEW c \in Conns, Create(c) PROVE Created'
  BY <1>2 DEF Create
<1>3. ASSUME NEW c \in Conns, DetachInput(c) PROVE Created'
  BY <1>3 DEF DetachInput
<1>4. ASSUME NEW c \in Conns,
               \/ Refuse(c) \/ ReadEpoch(c) \/ Resume(c) \/ Announce(c) \/
                  SendAck(c) \/ AckFails(c) \/ AttachInput(c) \/
                  ReceiveExit(c) \/ MarkExit(c) \/ PumpEnds(c) \/
                  MarkDisconnected(c) \/ Downstream(c) \/ Lose(c)
      PROVE  Created'
  BY <1>4 DEF Refuse, ReadEpoch, Resume, Announce, SendAck, AckFails,
         AttachInput, ReceiveExit, MarkExit, PumpEnds, MarkDisconnected,
         Downstream, Lose
<1>5. ASSUME NEW v \in Viewers,
               \/ Watch(v) \/ SendInput(v)
      PROVE  Created'
  BY <1>5 DEF Watch, SendInput
<1>6. ASSUME NEW id \in Ids,
               \/ Elapse(id) \/ ReadStatus(id) \/ Remove(id)
      PROVE  Created'
  BY <1>6 DEF Elapse, ReadStatus, Remove
<1>7. ASSUME SweepBegins \/ ReadExpiry
      PROVE  Created'
  BY <1>7 DEF SweepBegins, ReadExpiry
<1>8. CASE UNCHANGED vars
  BY <1>8 DEF vars
<1> QED
  BY <1>1, <1>2, <1>3, <1>4, <1>5, <1>6, <1>7, <1>8 DEF Next, Handler, Reaper

\* Create picks an id no handler has, and Find only ids made known.
LEMMA SecretStep ==
  IInv /\ [Next]_vars => Secret'
<1> SUFFICES ASSUME IInv, [Next]_vars PROVE Secret'
  OBVIOUS
<1> USE DEF IInv, sessionVars, viewerVars, handlerVars, reaperVars, TypeOK,
             Labels, Seats, Created, Secret
<1>1. ASSUME NEW c \in Conns, Find(c) PROVE Secret'
  BY <1>1 DEF Find
<1>2. ASSUME NEW c \in Conns, Create(c) PROVE Secret'
  BY <1>2 DEF Create
<1>3. ASSUME NEW c \in Conns, Resume(c) PROVE Secret'
  BY <1>3 DEF Resume
<1>4. ASSUME NEW c \in Conns, SendAck(c) PROVE Secret'
  BY <1>4 DEF SendAck
<1>5. ASSUME NEW c \in Conns, DetachInput(c) PROVE Secret'
  <2>1. CASE clean[c]
    BY SMTT(30), <1>5, <2>1 DEF DetachInput
  <2>2. CASE ~clean[c]
    BY <1>5, <2>2 DEF DetachInput
  <2> QED
    BY <2>1, <2>2
<1>6. ASSUME NEW c \in Conns,
               \/ Refuse(c) \/ ReadEpoch(c) \/ Announce(c) \/
                  AckFails(c) \/ AttachInput(c) \/ ReceiveExit(c) \/
                  MarkExit(c) \/ PumpEnds(c) \/ MarkDisconnected(c) \/
                  Downstream(c) \/ Lose(c)
      PROVE  Secret'
  BY SMTT(30), <1>6 DEF Refuse, ReadEpoch, Announce, AckFails, AttachInput, ReceiveExit,
         MarkExit, PumpEnds, MarkDisconnected, Downstream, Lose
<1>7. ASSUME NEW v \in Viewers,
               \/ Watch(v) \/ SendInput(v)
      PROVE  Secret'
  BY <1>7 DEF Watch, SendInput
<1>8. ASSUME NEW id \in Ids,
               \/ Elapse(id) \/ ReadStatus(id) \/ Remove(id)
      PROVE  Secret'
  BY <1>8 DEF Elapse, ReadStatus, Remove
<1>9. ASSUME SweepBegins \/ ReadExpiry
      PROVE  Secret'
  BY <1>9 DEF SweepBegins, ReadExpiry
<1>10. CASE UNCHANGED vars
  BY <1>10 DEF vars
<1> QED
  BY <1>1, <1>2, <1>3, <1>4, <1>5, <1>6, <1>7, <1>8, <1>9, <1>10 DEF Next, Handler, Reaper

\* Epochs only grow, and a handler takes the newest.
LEMMA FencedStep ==
  IInv /\ [Next]_vars => Fenced'
<1> SUFFICES ASSUME IInv, [Next]_vars PROVE Fenced'
  OBVIOUS
<1> USE DEF IInv, sessionVars, viewerVars, handlerVars, reaperVars, TypeOK,
             Labels, Seats, Created, Secret, Fenced, Seated
<1>1. ASSUME NEW c \in Conns, Create(c) PROVE Fenced'
  BY <1>1 DEF Create
<1>2. ASSUME NEW c \in Conns, ReadEpoch(c) PROVE Fenced'
  BY <1>2 DEF ReadEpoch
<1>3. ASSUME NEW c \in Conns, Resume(c) PROVE Fenced'
  BY <1>3 DEF Resume
<1>4. ASSUME NEW c \in Conns, DetachInput(c) PROVE Fenced'
  BY <1>4 DEF DetachInput
<1>5. ASSUME NEW c \in Conns,
               \/ Refuse(c) \/ Find(c) \/ Announce(c) \/ SendAck(c) \/
                  AckFails(c) \/ AttachInput(c) \/ ReceiveExit(c) \/
                  MarkExit(c) \/ PumpEnds(c) \/ MarkDisconnected(c) \/
                  Downstream(c) \/ Lose(c)
      PROVE  Fenced'
  BY <1>5 DEF Refuse, Find, Announce, SendAck, AckFails, AttachInput,
         ReceiveExit, MarkExit, PumpEnds, MarkDisconnected, Downstream, Lose
<1>6. ASSUME NEW v \in Viewers,
               \/ Watch(v) \/ SendInput(v)
      PROVE  Fenced'
  BY <1>6 DEF Watch, SendInput
<1>7. ASSUME NEW id \in Ids,
               \/ Elapse(id) \/ ReadStatus(id) \/ Remove(id)
      PROVE  Fenced'
  BY <1>7 DEF Elapse, ReadStatus, Remove
<1>8. ASSUME SweepBegins \/ ReadExpiry
      PROVE  Fenced'
  BY <1>8 DEF SweepBegins, ReadExpiry
<1>9. CASE UNCHANGED vars
  BY <1>9 DEF vars
<1> QED
  BY <1>1, <1>2, <1>3, <1>4, <1>5, <1>6, <1>7, <1>8, <1>9 DEF Next, Handler, Reaper

\* Resume hands out an epoch above all others; the creator is alone.
LEMMA OneHolderStep ==
  IInv /\ [Next]_vars => OneHolder'
<1> SUFFICES ASSUME IInv, [Next]_vars PROVE OneHolder'
  OBVIOUS
<1> USE DEF IInv, sessionVars, viewerVars, handlerVars, reaperVars, TypeOK,
             Labels, Seats, Created, Secret, Fenced, OneHolder, Seated
<1>1. ASSUME NEW c \in Conns, Create(c) PROVE OneHolder'
  BY <1>1 DEF Create
<1>2. ASSUME NEW c \in Conns, ReadEpoch(c) PROVE OneHolder'
  BY <1>2 DEF ReadEpoch
<1>3. ASSUME NEW c \in Conns, Resume(c) PROVE OneHolder'
  BY <1>3 DEF Resume
<1>4. ASSUME NEW c \in Conns, DetachInput(c) PROVE OneHolder'
  BY <1>4 DEF DetachInput
<1>5. ASSUME NEW c \in Conns,
               \/ Refuse(c) \/ Find(c) \/ Announce(c) \/ SendAck(c) \/
                  AckFails(c) \/ AttachInput(c) \/ ReceiveExit(c) \/
                  MarkExit(c) \/ PumpEnds(c) \/ MarkDisconnected(c) \/
                  Downstream(c) \/ Lose(c)
      PROVE  OneHolder'
  BY <1>5 DEF Refuse, Find, Announce, SendAck, AckFails, AttachInput,
         ReceiveExit, MarkExit, PumpEnds, MarkDisconnected, Downstream, Lose
<1>6. ASSUME NEW v \in Viewers,
               \/ Watch(v) \/ SendInput(v)
      PROVE  OneHolder'
  BY <1>6 DEF Watch, SendInput
<1>7. ASSUME NEW id \in Ids,
               \/ Elapse(id) \/ ReadStatus(id) \/ Remove(id)
      PROVE  OneHolder'
  BY <1>7 DEF Elapse, ReadStatus, Remove
<1>8. ASSUME SweepBegins \/ ReadExpiry
      PROVE  OneHolder'
  BY <1>8 DEF SweepBegins, ReadExpiry
<1>9. CASE UNCHANGED vars
  BY <1>9 DEF vars
<1> QED
  BY <1>1, <1>2, <1>3, <1>4, <1>5, <1>6, <1>7, <1>8, <1>9 DEF Next, Handler, Reaper

\* Whoever moves the epoch or leaves takes the channel along.
LEMMA InputBelongsToHolderStep ==
  IInv /\ [Next]_vars => InputBelongsToHolder'
<1> SUFFICES ASSUME IInv, [Next]_vars PROVE InputBelongsToHolder'
  OBVIOUS
<1> USE DEF IInv, sessionVars, viewerVars, handlerVars, reaperVars, TypeOK,
             Labels, Seats, Created, Fenced, OneHolder, InputBelongsToHolder,
             Holds, Seated
<1>1. ASSUME NEW c \in Conns, Create(c) PROVE InputBelongsToHolder'
  BY <1>1 DEF Create
<1>2. ASSUME NEW c \in Conns, Resume(c) PROVE InputBelongsToHolder'
  BY <1>2 DEF Resume
<1>3. ASSUME NEW c \in Conns, AttachInput(c) PROVE InputBelongsToHolder'
  BY <1>3 DEF AttachInput
<1>4. ASSUME NEW c \in Conns, DetachInput(c) PROVE InputBelongsToHolder'
  BY <1>4 DEF DetachInput
<1>5. ASSUME NEW c \in Conns, MarkDisconnected(c) PROVE InputBelongsToHolder'
  BY <1>5 DEF MarkDisconnected
<1>6. ASSUME NEW c \in Conns,
               \/ Refuse(c) \/ Find(c) \/ ReadEpoch(c) \/ Announce(c) \/
                  SendAck(c) \/ AckFails(c) \/ ReceiveExit(c) \/
                  MarkExit(c) \/ PumpEnds(c) \/ Downstream(c) \/ Lose(c)
      PROVE  InputBelongsToHolder'
  BY <1>6 DEF Refuse, Find, ReadEpoch, Announce, SendAck, AckFails,
         ReceiveExit, MarkExit, PumpEnds, Downstream, Lose
<1>7. ASSUME NEW v \in Viewers,
               \/ Watch(v) \/ SendInput(v)
      PROVE  InputBelongsToHolder'
  BY <1>7 DEF Watch, SendInput
<1>8. ASSUME NEW id \in Ids,
               \/ Elapse(id) \/ ReadStatus(id) \/ Remove(id)
      PROVE  InputBelongsToHolder'
  BY <1>8 DEF Elapse, ReadStatus, Remove
<1>9. ASSUME SweepBegins \/ ReadExpiry
      PROVE  InputBelongsToHolder'
  BY <1>9 DEF SweepBegins, ReadExpiry
<1>10. CASE UNCHANGED vars
  BY <1>10 DEF vars
<1> QED
  BY <1>1, <1>2, <1>3, <1>4, <1>5, <1>6, <1>7, <1>8, <1>9, <1>10 DEF Next, Handler, Reaper

\* Create and Resume set permission and epoch under one lock.
LEMMA PermissionStep ==
  IInv /\ [Next]_vars => Permission'
<1> SUFFICES ASSUME IInv, [Next]_vars PROVE Permission'
  OBVIOUS
<1> USE DEF IInv, sessionVars, viewerVars, handlerVars, reaperVars, TypeOK,
             Labels, Seats, Created, Secret, Fenced, Permission, Holds, Seated
<1>1. ASSUME NEW c \in Conns, Create(c) PROVE Permission'
  BY <1>1 DEF Create
<1>2. ASSUME NEW c \in Conns, ReadEpoch(c) PROVE Permission'
  BY <1>2 DEF ReadEpoch
<1>3. ASSUME NEW c \in Conns, Resume(c) PROVE Permission'
  BY <1>3 DEF Resume
<1>4. ASSUME NEW c \in Conns, DetachInput(c) PROVE Permission'
  BY <1>4 DEF DetachInput
<1>5. ASSUME NEW c \in Conns,
               \/ Refuse(c) \/ Find(c) \/ Announce(c) \/ SendAck(c) \/
                  AckFails(c) \/ AttachInput(c) \/ ReceiveExit(c) \/
                  MarkExit(c) \/ PumpEnds(c) \/ MarkDisconnected(c) \/
                  Downstream(c) \/ Lose(c)
      PROVE  Permission'
  BY <1>5 DEF Refuse, Find, Announce, SendAck, AckFails, AttachInput,
         ReceiveExit, MarkExit, PumpEnds, MarkDisconnected, Downstream, Lose
<1>6. ASSUME NEW v \in Viewers,
               \/ Watch(v) \/ SendInput(v)
      PROVE  Permission'
  BY <1>6 DEF Watch, SendInput
<1>7. ASSUME NEW id \in Ids,
               \/ Elapse(id) \/ ReadStatus(id) \/ Remove(id)
      PROVE  Permission'
  BY <1>7 DEF Elapse, ReadStatus, Remove
<1>8. ASSUME SweepBegins \/ ReadExpiry
      PROVE  Permission'
  BY <1>8 DEF SweepBegins, ReadExpiry
<1>9. CASE UNCHANGED vars
  BY <1>9 DEF vars
<1> QED
  BY <1>1, <1>2, <1>3, <1>4, <1>5, <1>6, <1>7, <1>8, <1>9 DEF Next, Handler, Reaper

\* A keystroke accepted for a session goes to the holder, who consented.
LEMMA KeysNeedConsentStep ==
  IInv /\ [Next]_vars => KeysNeedConsent'
<1> SUFFICES ASSUME IInv, [Next]_vars PROVE KeysNeedConsent'
  OBVIOUS
<1> USE DEF IInv, sessionVars, viewerVars, handlerVars, reaperVars, TypeOK,
             Labels, Seats, KeysNeedConsent, InputBelongsToHolder, Permission,
             Holds, Seated
<1>1. ASSUME NEW c \in Conns, DetachInput(c) PROVE KeysNeedConsent'
  BY <1>1 DEF DetachInput
<1>2. ASSUME NEW c \in Conns, Downstream(c) PROVE KeysNeedConsent'
  BY <1>2 DEF Downstream
<1>3. ASSUME NEW c \in Conns,
               \/ Refuse(c) \/ Find(c) \/ Create(c) \/ ReadEpoch(c) \/
                  Resume(c) \/ Announce(c) \/ SendAck(c) \/ AckFails(c) \/
                  AttachInput(c) \/ ReceiveExit(c) \/ MarkExit(c) \/
                  PumpEnds(c) \/ MarkDisconnected(c) \/ Lose(c)
      PROVE  KeysNeedConsent'
  BY <1>3 DEF Refuse, Find, Create, ReadEpoch, Resume, Announce, SendAck,
         AckFails, AttachInput, ReceiveExit, MarkExit, PumpEnds,
         MarkDisconnected, Lose
<1>4. ASSUME NEW v \in Viewers, SendInput(v) PROVE KeysNeedConsent'
  BY <1>4 DEF SendInput
<1>5. ASSUME NEW v \in Viewers,
               \/ Watch(v)
      PROVE  KeysNeedConsent'
  BY <1>5 DEF Watch
<1>6. ASSUME NEW id \in Ids,
               \/ Elapse(id) \/ ReadStatus(id) \/ Remove(id)
      PROVE  KeysNeedConsent'
  BY <1>6 DEF Elapse, ReadStatus, Remove
<1>7. ASSUME SweepBegins \/ ReadExpiry
      PROVE  KeysNeedConsent'
  BY <1>7 DEF SweepBegins, ReadExpiry
<1>8. CASE UNCHANGED vars
  BY <1>8 DEF vars
<1> QED
  BY <1>1, <1>2, <1>3, <1>4, <1>5, <1>6, <1>7, <1>8 DEF Next, Handler, Reaper

\* The holder leaves only after it has marked the session terminal.
LEMMA LiveHasHandlerStep ==
  IInv /\ [Next]_vars => LiveHasHandler'
<1> SUFFICES ASSUME IInv, [Next]_vars PROVE LiveHasHandler'
  OBVIOUS
<1> USE DEF IInv, sessionVars, viewerVars, handlerVars, reaperVars, TypeOK,
             Labels, Seats, Created, Secret, Fenced, OneHolder,
             LiveHasHandler, Holds, Seated
<1>1. ASSUME NEW c \in Conns, Create(c) PROVE LiveHasHandler'
  BY SMTT(30), <1>1 DEF Create
<1>2. ASSUME NEW c \in Conns, ReadEpoch(c) PROVE LiveHasHandler'
  BY <1>2 DEF ReadEpoch
<1>3. ASSUME NEW c \in Conns, Resume(c) PROVE LiveHasHandler'
  BY SMTT(30), <1>3 DEF Resume
<1>4. ASSUME NEW c \in Conns, MarkExit(c) PROVE LiveHasHandler'
  BY <1>4 DEF MarkExit
<1>5. ASSUME NEW c \in Conns, DetachInput(c) PROVE LiveHasHandler'
  BY SMTT(30), <1>5 DEF DetachInput
<1>6. ASSUME NEW c \in Conns, MarkDisconnected(c) PROVE LiveHasHandler'
  BY SMTT(30), <1>6 DEF MarkDisconnected
<1>7. ASSUME NEW c \in Conns,
               \/ Refuse(c) \/ Find(c) \/ Announce(c) \/ SendAck(c) \/
                  AckFails(c) \/ AttachInput(c) \/ ReceiveExit(c) \/
                  PumpEnds(c) \/ Downstream(c) \/ Lose(c)
      PROVE  LiveHasHandler'
  BY SMTT(30), <1>7 DEF Refuse, Find, Announce, SendAck, AckFails, AttachInput,
         ReceiveExit, PumpEnds, Downstream, Lose
<1>8. ASSUME NEW v \in Viewers,
               \/ Watch(v) \/ SendInput(v)
      PROVE  LiveHasHandler'
  BY <1>8 DEF Watch, SendInput
<1>9. ASSUME NEW id \in Ids,
               \/ Elapse(id) \/ ReadStatus(id) \/ Remove(id)
      PROVE  LiveHasHandler'
  BY <1>9 DEF Elapse, ReadStatus, Remove
<1>10. ASSUME SweepBegins \/ ReadExpiry
      PROVE  LiveHasHandler'
  BY <1>10 DEF SweepBegins, ReadExpiry
<1>11. CASE UNCHANGED vars
  BY <1>11 DEF vars
<1> QED
  BY <1>1, <1>2, <1>3, <1>4, <1>5, <1>6, <1>7, <1>8, <1>9, <1>10,
     <1>11 DEF Next, Handler, Reaper

\* Who resumes a session announces it next.
LEMMA LiveIsShownStep ==
  IInv /\ [Next]_vars => LiveIsShown'
<1> SUFFICES ASSUME IInv, [Next]_vars PROVE LiveIsShown'
  OBVIOUS
<1> USE DEF IInv, sessionVars, viewerVars, handlerVars, reaperVars, TypeOK,
             Labels, Seats, Fenced, OneHolder, LiveIsShown, Holds, Seated
<1>1. ASSUME NEW c \in Conns, Create(c) PROVE LiveIsShown'
  BY <1>1 DEF Create
<1>2. ASSUME NEW c \in Conns, Resume(c) PROVE LiveIsShown'
  BY <1>2 DEF Resume
<1>3. ASSUME NEW c \in Conns, Announce(c) PROVE LiveIsShown'
  BY <1>3 DEF Announce
<1>4. ASSUME NEW c \in Conns, MarkExit(c) PROVE LiveIsShown'
  BY <1>4 DEF MarkExit
<1>5. ASSUME NEW c \in Conns, DetachInput(c) PROVE LiveIsShown'
  BY <1>5 DEF DetachInput
<1>6. ASSUME NEW c \in Conns, MarkDisconnected(c) PROVE LiveIsShown'
  BY <1>6 DEF MarkDisconnected
<1>7. ASSUME NEW c \in Conns,
               \/ Refuse(c) \/ Find(c) \/ ReadEpoch(c) \/ SendAck(c) \/
                  AckFails(c) \/ AttachInput(c) \/ ReceiveExit(c) \/
                  PumpEnds(c) \/ Downstream(c) \/ Lose(c)
      PROVE  LiveIsShown'
  BY <1>7 DEF Refuse, Find, ReadEpoch, SendAck, AckFails, AttachInput,
         ReceiveExit, PumpEnds, Downstream, Lose
<1>8. ASSUME NEW v \in Viewers,
               \/ Watch(v) \/ SendInput(v)
      PROVE  LiveIsShown'
  BY <1>8 DEF Watch, SendInput
<1>9. ASSUME NEW id \in Ids,
               \/ Elapse(id) \/ ReadStatus(id) \/ Remove(id)
      PROVE  LiveIsShown'
  BY <1>9 DEF Elapse, ReadStatus, Remove
<1>10. ASSUME SweepBegins \/ ReadExpiry
      PROVE  LiveIsShown'
  BY <1>10 DEF SweepBegins, ReadExpiry
<1>11. CASE UNCHANGED vars
  BY <1>11 DEF vars
<1> QED
  BY <1>1, <1>2, <1>3, <1>4, <1>5, <1>6, <1>7, <1>8, <1>9, <1>10,
     <1>11 DEF Next, Handler, Reaper

\* A terminal session turns live only as its epoch moves on.
LEMMA SeenStep ==
  IInv /\ [Next]_vars => Seen'
<1> SUFFICES ASSUME IInv, [Next]_vars PROVE Seen'
  OBVIOUS
<1> USE DEF IInv, sessionVars, viewerVars, handlerVars, reaperVars, TypeOK,
             Labels, Seen, Seats
<1>1. ASSUME NEW c \in Conns, Resume(c) PROVE Seen'
  BY <1>1 DEF Resume
<1>2. ASSUME NEW c \in Conns, MarkExit(c) PROVE Seen'
  BY <1>2 DEF MarkExit
<1>3. ASSUME NEW c \in Conns,
               \/ Refuse(c) \/ Find(c) \/ Create(c) \/ ReadEpoch(c) \/
                  Announce(c) \/ SendAck(c) \/ AckFails(c) \/
                  AttachInput(c) \/ ReceiveExit(c) \/ PumpEnds(c) \/
                  DetachInput(c) \/ MarkDisconnected(c) \/ Downstream(c) \/
                  Lose(c)
      PROVE  Seen'
  BY <1>3 DEF Refuse, Find, Create, ReadEpoch, Announce, SendAck, AckFails,
         AttachInput, ReceiveExit, PumpEnds, DetachInput, MarkDisconnected,
         Downstream, Lose
<1>4. ASSUME NEW v \in Viewers,
               \/ Watch(v) \/ SendInput(v)
      PROVE  Seen'
  BY <1>4 DEF Watch, SendInput
<1>5. ASSUME NEW id \in Ids, ReadStatus(id) PROVE Seen'
  BY <1>5 DEF ReadStatus
<1>6. ASSUME NEW id \in Ids,
               \/ Elapse(id) \/ Remove(id)
      PROVE  Seen'
  BY <1>6 DEF Elapse, Remove
<1>7. ASSUME ReadExpiry PROVE Seen'
  BY <1>7 DEF ReadExpiry
<1>8. ASSUME SweepBegins
      PROVE  Seen'
  BY <1>8 DEF SweepBegins
<1>9. CASE UNCHANGED vars
  BY <1>9 DEF vars
<1> QED
  BY <1>1, <1>2, <1>3, <1>4, <1>5, <1>6, <1>7, <1>8, <1>9 DEF Next, Handler, Reaper

-----------------------------------------------------------------------------
\* IInv is inductive.
LEMMA IInvStep ==
  IInv /\ [Next]_vars => IInv'
BY TypeOKStep, SeatsStep, CreatedStep, SecretStep, FencedStep, PermissionStep,
   SeenStep, OneHolderStep, InputBelongsToHolderStep, KeysNeedConsentStep,
   LiveHasHandlerStep, LiveIsShownStep DEF IInv

\* The inductive invariant holds in every reachable state of the relay.
THEOREM Invariant ==
  Spec => []IInv
BY InitIInv, IInvStep, PTL DEF Spec

\* Every variable of the relay has its type.
THEOREM TypeCorrect ==
  Spec => []TypeOK
<1>1. IInv => TypeOK
  BY DEF IInv
<1> QED
  BY <1>1, Invariant, PTL

\* The input channel of a session is the one of the connection that holds its
\* current epoch (attach_input, detach_input, resume, mark_*).
THEOREM InputIsTheHolders ==
  Spec => []InputBelongsToHolder
<1>1. IInv => InputBelongsToHolder
  BY DEF IInv
<1> QED
  BY <1>1, Invariant, PTL

\* No two handlers are given one epoch of a session (attach, resume).
THEOREM EpochsAreUnique ==
  Spec => []OneHolder
<1>1. IInv => OneHolder
  BY DEF IInv
<1> QED
  BY <1>1, Invariant, PTL

\* Keystrokes wait only for hosts that asked for input (send_input, resume).
THEOREM InputNeedsConsent ==
  Spec => []KeysNeedConsent
<1>1. IInv => KeysNeedConsent
  BY DEF IInv
<1> QED
  BY <1>1, Invariant, PTL

\* A live session has a handler that holds it and will still mark it, one that
\* failed to send its ack included (mark_exit, mark_disconnected).
THEOREM LiveSessionsAreHeld ==
  Spec => []LiveHasHandler
<1>1. IInv => LiveHasHandler
  BY DEF IInv
<1> QED
  BY <1>1, Invariant, PTL

\* Every return to life is broadcast, or will be by the holder (resume).
THEOREM LiveSessionsAreShown ==
  Spec => []LiveIsShown
<1>1. IInv => LiveIsShown
  BY DEF IInv
<1> QED
  BY <1>1, Invariant, PTL

\* What the reaper removes is terminal unless it was resumed after the reaper
\* read its status (reap).
THEOREM ReaperIsFencedByEpochs ==
  Spec => []DoomedUnlessResumed
<1>1. IInv => DoomedUnlessResumed
  BY DEF IInv, TypeOK, Seen, DoomedUnlessResumed
<1> QED
  BY <1>1, Invariant, PTL

-----------------------------------------------------------------------------
(***************************************************************************)
(* Lifecycle implements SessionContract: under the mapping of Contract     *)
(* every step of the relay is a step of the contract or leaves its state   *)
(* alone.  IInv supplies what the contract's guards ask for.               *)
(***************************************************************************)

\* No session, no seat, no keystroke at first.
LEMMA InitMaps ==
  Init => Contract!CInit
BY DEF Init, Contract!CInit, Contract!Nowhere, Seat, SeatOf, Seated

\* Nobody's seat moves.
LEMMA SeatsStay ==
  ASSUME \A d \in Conns : SeatOf(d)' = SeatOf(d)
  PROVE  Seat' = Seat
BY DEF Seat

\* Only the seat of c moves.
LEMMA SeatMoves ==
  ASSUME NEW c \in Conns, \A d \in Conns \ {c} : SeatOf(d)' = SeatOf(d)
  PROVE  Seat' = [Seat EXCEPT ![c] = SeatOf(c)']
BY DEF Seat

\* What a seat says.
LEMMA SeatReads ==
  ASSUME NEW c \in Conns
  PROVE  /\ Seat[c] = SeatOf(c)
         /\ Seated(c) => Seat[c] = [id |-> target[c], gen |-> epoch[c]]
         /\ ~Seated(c) => Seat[c] = Contract!Nowhere
BY DEF Seat, SeatOf, Contract!Nowhere

\* The newest seat of the contract is the holder.
LEMMA NewestHolds ==
  ASSUME NEW c \in Conns, NEW id \in Ids
  PROVE  Contract!Newest(c, id) <=> Holds(c, id)
<1>1. CASE Seated(c)
  <2>1. Seat[c] = [id |-> target[c], gen |-> epoch[c]]
    BY <1>1, SeatReads
  <2> QED
    BY <1>1, <2>1 DEF Contract!Newest, Holds
<1>2. CASE ~Seated(c)
  <2>1. Seat[c] = [id |-> NoId, gen |-> 0]
    BY <1>2 DEF Seat, SeatOf
  <2>2. Seat[c].id # id
    BY <2>1
  <2> QED
    BY <1>2, <2>2 DEF Contract!Newest, Holds
<1> QED
  BY <1>1, <1>2

\* Each step of the relay, under IInv, is a step of the contract or a stutter.
LEMMA StepMaps ==
  IInv /\ IInv' /\ [Next]_vars => [Contract!CNext]_Contract!cvars
<1> SUFFICES ASSUME IInv, IInv', [Next]_vars
             PROVE  [Contract!CNext]_Contract!cvars
  OBVIOUS
<1> USE DEF IInv, TypeOK, Labels, Seats, sessionVars, handlerVars, viewerVars,
             reaperVars
<1>0. ASSUME UNCHANGED <<status, current, Seat, consent, inbox>>
      PROVE  UNCHANGED Contract!cvars
  BY <1>0 DEF Contract!cvars
<1>1. ASSUME NEW c \in Conns, Refuse(c) PROVE Contract!Decide(c)
  <2>1. ~Seated(c) /\ \A d \in Conns : SeatOf(d)' = SeatOf(d)
    BY <1>1 DEF Refuse, Seated, SeatOf
  <2>2. Seat' = Seat /\ Seat[c] = Contract!Nowhere
    BY <2>1, SeatsStay, SeatReads
  <2> QED
    BY <1>1, <2>2 DEF Refuse, Contract!Decide
<1>2. ASSUME NEW c \in Conns, Find(c) PROVE Contract!Decide(c)
  <2>1. ~Seated(c) /\ \A d \in Conns : SeatOf(d)' = SeatOf(d)
    BY <1>2 DEF Find, Seated, SeatOf
  <2>2. Seat' = Seat /\ Seat[c] = Contract!Nowhere
    BY <2>1, SeatsStay, SeatReads
  <2> QED
    BY <1>2, <2>2 DEF Find, Contract!Decide
<1>3. ASSUME NEW c \in Conns, Create(c)
      PROVE  \E id \in Ids : Contract!Open(c, id)
  <2>1. PICK id \in Ids, wants \in BOOLEAN :
          /\ status[id] = "absent"
          /\ status' = [status EXCEPT ![id] = "live"]
          /\ target' = [target EXCEPT ![c] = id]
          /\ consent' = [consent EXCEPT ![c] = wants]
    BY <1>3 DEF Create
  <2>2. current[id] = 0 /\ epoch[c] = 0
    BY <1>3, <2>1 DEF Create, Created, Secret
  <2>3. /\ ~Seated(c)
        /\ SeatOf(c)' = [id |-> id, gen |-> current[id]]
        /\ \A d \in Conns \ {c} : SeatOf(d)' = SeatOf(d)
    BY <1>3, <2>1, <2>2 DEF Create, Seated, SeatOf
  <2>4. /\ Seat' = [Seat EXCEPT ![c] = [id |-> id, gen |-> current[id]]]
        /\ Seat[c] = Contract!Nowhere
    BY ZenonT(40), <2>3, SeatMoves, SeatReads
  <2>5. Contract!Open(c, id)
    BY <1>3, <2>1, <2>4 DEF Create, Contract!Open
  <2> QED
    BY <2>5
<1>4. ASSUME NEW c \in Conns, ReadEpoch(c) PROVE UNCHANGED Contract!cvars
  <2>1. epoch' = epoch
    BY <1>4 DEF ReadEpoch, Secret
  <2>2. \A d \in Conns : SeatOf(d)' = SeatOf(d)
    BY <1>4, <2>1 DEF ReadEpoch, Seated, SeatOf
  <2> QED
    BY <1>4, <2>2, <1>0, SeatsStay DEF ReadEpoch
<1>5. ASSUME NEW c \in Conns, Resume(c)
      PROVE  \E id \in Ids : Contract!TakeOver(c, id)
  <2> DEFINE id == target[c]
  <2>1. id \in Ids /\ status[id] # "absent"
    BY <1>5 DEF Resume, Created
  <2>2. /\ ~Seated(c)
        /\ SeatOf(c)' = [id |-> id, gen |-> current[id] + 1]
        /\ \A d \in Conns \ {c} : SeatOf(d)' = SeatOf(d)
    BY <1>5, <2>1 DEF Resume, Seated, SeatOf
  <2>3. /\ Seat' = [Seat EXCEPT ![c] = [id |-> id, gen |-> current[id] + 1]]
        /\ Seat[c] = Contract!Nowhere
    BY ZenonT(40), <2>2, SeatMoves, SeatReads
  <2>4. Contract!TakeOver(c, id)
    BY <1>5, <2>1, <2>3 DEF Resume, Contract!TakeOver
  <2> QED
    BY <2>1, <2>4
<1>6. ASSUME NEW c \in Conns,
             \/ Announce(c) \/ SendAck(c) \/ AckFails(c) \/ AttachInput(c)
             \/ ReceiveExit(c) \/ PumpEnds(c) \/ Lose(c)
      PROVE  UNCHANGED Contract!cvars
  <2>1. \A d \in Conns : SeatOf(d)' = SeatOf(d)
    BY <1>6 DEF Announce, SendAck, AckFails, AttachInput, ReceiveExit,
                PumpEnds, Lose, Seated, SeatOf
  <2>2. UNCHANGED <<status, current, consent, inbox>>
    BY <1>6 DEF Announce, SendAck, AckFails, AttachInput, ReceiveExit,
                PumpEnds, Lose
  <2> QED
    BY <2>1, <2>2, <1>0, SeatsStay
<1>7. ASSUME NEW c \in Conns, MarkExit(c)
      PROVE  \E id \in Ids : Contract!End(c, id)
  <2>1. target[c] \in Ids /\ Seated(c)
    BY <1>7 DEF MarkExit, Seated
  <2>2. \A d \in Conns : SeatOf(d)' = SeatOf(d)
    BY <1>7 DEF MarkExit, Seated, SeatOf
  <2>3. Seat' = Seat /\ Seat[c] = [id |-> target[c], gen |-> epoch[c]]
    BY <2>1, <2>2, SeatsStay, SeatReads
  <2>4. Contract!End(c, target[c])
    BY <1>7, <2>3 DEF MarkExit, Contract!End
  <2> QED
    BY <2>1, <2>4
<1>8. ASSUME NEW c \in Conns, DetachInput(c), clean[c]
      PROVE  Contract!Leave(c)
  <2>1. Return(c) /\ Seated(c) /\ ~Seated(c)'
    BY <1>8 DEF DetachInput, Seated
  <2>2. \A d \in Conns \ {c} : SeatOf(d)' = SeatOf(d)
    BY <1>8, <2>1 DEF DetachInput, Seated, SeatOf
  <2>3. SeatOf(c)' = Contract!Nowhere
    BY <2>1 DEF SeatOf, Contract!Nowhere
  <2>4. Seat' = [Seat EXCEPT ![c] = Contract!Nowhere]
    BY <2>2, <2>3, SeatMoves
  <2>5. ASSUME NEW id \in Ids, Contract!Newest(c, id), status[id] = "live"
        PROVE  FALSE
    <3>1. Holds(c, id)
      BY <2>5, NewestHolds
    <3>2. PICK d \in Conns : Holds(d, id) /\ ~clean[d]
      BY <2>5 DEF LiveHasHandler
    <3>3. d = c
      BY <3>1, <3>2 DEF OneHolder, Holds
    <3> QED
      BY <1>8, <3>2, <3>3
  <2> QED
    BY <1>8, <2>1, <2>4, <2>5 DEF DetachInput, Contract!Leave, Contract!Vacate
<1>9. ASSUME NEW c \in Conns, DetachInput(c), ~clean[c]
      PROVE  Contract!Forward(c) \/ UNCHANGED Contract!cvars
  <2>1. \A d \in Conns : SeatOf(d)' = SeatOf(d)
    BY <1>9 DEF DetachInput, Seated, SeatOf
  <2>2. Seat' = Seat
    BY <2>1, SeatsStay
  <2>3. inbox[c] > 0 \/ inbox' = inbox
    BY <1>9 DEF DetachInput
  <2> QED
    BY <1>9, <2>2, <2>3, <1>0 DEF DetachInput, Contract!Forward
<1>10. ASSUME NEW c \in Conns, MarkDisconnected(c)
       PROVE  \/ Contract!Leave(c)
              \/ \E id \in Ids : Contract!Drop(c, id)
  <2>1. target[c] \in Ids /\ Return(c) /\ Seated(c) /\ ~Seated(c)'
    BY <1>10 DEF MarkDisconnected, Seated
  <2>2. \A d \in Conns \ {c} : SeatOf(d)' = SeatOf(d)
    BY <1>10, <2>1 DEF MarkDisconnected, Seated, SeatOf
  <2>3. SeatOf(c)' = Contract!Nowhere
    BY <2>1 DEF SeatOf, Contract!Nowhere
  <2>4. Seat' = [Seat EXCEPT ![c] = Contract!Nowhere]
    BY <2>2, <2>3, SeatMoves
  <2>5. inbox' = [inbox EXCEPT ![c] = 0]
    BY <1>10 DEF MarkDisconnected
  <2>6. Contract!Vacate(c)
    BY <2>1, <2>4, <2>5 DEF Contract!Vacate
  <2>7. CASE Current(c) /\ status[target[c]] = "live"
    <3>1. Contract!Newest(c, target[c])
      BY <2>1, <2>7, NewestHolds DEF Holds
    <3>2. Contract!Drop(c, target[c])
      BY <1>10, <2>6, <2>7, <3>1 DEF MarkDisconnected, Contract!Drop
    <3> QED
      BY <2>1, <3>2
  <2>8. CASE ~(Current(c) /\ status[target[c]] = "live")
    <3>1. \A id \in Ids : Contract!Newest(c, id) => status[id] # "live"
      BY <2>8, NewestHolds DEF Holds
    <3> QED
      BY <1>10, <2>6, <2>8, <3>1 DEF MarkDisconnected, Contract!Leave
  <2> QED
    BY <2>7, <2>8
<1>11. ASSUME NEW c \in Conns, Downstream(c) PROVE Contract!Forward(c)
  <2>1. \A d \in Conns : SeatOf(d)' = SeatOf(d)
    BY <1>11 DEF Downstream, Seated, SeatOf
  <2>2. Seat' = Seat
    BY <2>1, SeatsStay
  <2> QED
    BY <1>11, <2>2 DEF Downstream, Contract!Forward
<1>12. ASSUME NEW v \in Viewers, Watch(v) PROVE UNCHANGED Contract!cvars
  <2>1. \A d \in Conns : SeatOf(d)' = SeatOf(d)
    BY <1>12 DEF Watch, Seated, SeatOf
  <2> QED
    BY <1>12, <2>1, <1>0, SeatsStay DEF Watch
<1>13. ASSUME NEW v \in Viewers, SendInput(v)
       PROVE  \E c \in Conns, id \in Ids : Contract!Accept(c, id)
  <2> DEFINE id == watching[v]
             c == input[id]
  <2>1. id \in Ids /\ c \in Conns /\ allowInput[id] /\ status[id] = "live"
    BY <1>13 DEF SendInput
  <2>2. Holds(c, id)
    BY <1>13, <2>1 DEF SendInput, InputBelongsToHolder
  <2>3. consent[c]
    BY <2>1, <2>2 DEF Permission
  <2>4. Contract!Newest(c, id)
    BY <2>1, <2>2, NewestHolds
  <2>5. \A d \in Conns : SeatOf(d)' = SeatOf(d)
    BY <1>13 DEF SendInput, Seated, SeatOf
  <2>6. Seat' = Seat
    BY <2>5, SeatsStay
  <2>7. Contract!Accept(c, id)
    BY <1>13, <2>1, <2>3, <2>4, <2>6 DEF SendInput, Contract!Accept
  <2> QED
    BY <2>1, <2>7
<1>14. ASSUME \/ \E id \in Ids : Elapse(id) \/ ReadStatus(id) \/ Remove(id)
              \/ SweepBegins \/ ReadExpiry \/ UNCHANGED vars
       PROVE  UNCHANGED Contract!cvars
  <2>1. UNCHANGED <<target, pc, epoch, status, current, consent, inbox>>
    BY <1>14 DEF Elapse, ReadStatus, Remove, SweepBegins, ReadExpiry, vars
  <2>2. \A d \in Conns : SeatOf(d)' = SeatOf(d)
    BY <2>1 DEF Seated, SeatOf
  <2> QED
    BY <2>1, <2>2, <1>0, SeatsStay
<1>15. ASSUME Contract!CNext PROVE [Contract!CNext]_Contract!cvars
  BY <1>15
<1> QED
  <2>1. ASSUME NEW c \in Conns,
               \/ Refuse(c) \/ Find(c) \/ Create(c) \/ Handler(c)
               \/ ReceiveExit(c) \/ PumpEnds(c) \/ Downstream(c) \/ Lose(c)
        PROVE  Contract!CNext \/ UNCHANGED Contract!cvars
    BY <2>1, <1>1, <1>2, <1>3, <1>4, <1>5, <1>6, <1>7, <1>8, <1>9, <1>10,
       <1>11 DEF Handler, Contract!CNext
  <2>2. ASSUME NEW v \in Viewers, Watch(v) \/ SendInput(v)
        PROVE  Contract!CNext \/ UNCHANGED Contract!cvars
    BY <2>2, <1>12, <1>13 DEF Contract!CNext
  <2> QED
    BY <2>1, <2>2, <1>14 DEF Next, Reaper

\* Whatever handlers, viewers and sweeps do, to the mutex-guarded state of the
\* sessions they do what SessionContract allows.
THEOREM RelayKeepsContract ==
  Spec => KeepsContract
BY Invariant, InitMaps, StepMaps, PTL DEF Spec, KeepsContract, Contract!CSpec

=============================================================================
