----------------------------- MODULE LinkProofs -----------------------------
(***************************************************************************)
(* What the key schedule and the framing of Cipher keep apart, and from it *)
(* that a tab sees the session whose key it came by (KeyLink): for every   *)
(* value of the constants, any number of sessions and any keys.            *)
(***************************************************************************)
EXTENDS KeyLink, SequenceTheorems, TLAPS

-----------------------------------------------------------------------------
(* Keys and frames. *)

\* The info of derive: context, label of the direction, writer.
Label(input) == IF input THEN InputLabel ELSE OutputLabel
Info(writer, input) == Context \o Label(input) \o writer

\* Its length, and where in it the writer stands.
LEMMA InfoParts ==
  ASSUME NEW w \in Seq(Int), NEW d \in BOOLEAN
  PROVE  /\ Label(d) \in Seq(Int)
         /\ Len(Info(w, d)) = Len(Context) + Len(Label(d)) + Len(w)
         /\ \A i \in 1..Len(w) :
              Info(w, d)[Len(Context) + Len(Label(d)) + i] = w[i]
<1> USE CipherAssumption
<1>1. Label(d) \in Seq(Int)
  BY DEF Label
<1>2. /\ Context \o Label(d) \in Seq(Int)
      /\ Len(Context \o Label(d)) = Len(Context) + Len(Label(d))
  BY <1>1, ConcatProperties
<1>3. /\ Len(Info(w, d)) = Len(Context \o Label(d)) + Len(w)
      /\ \A i \in 1..Len(w) : Info(w, d)[Len(Context \o Label(d)) + i] = w[i]
  BY <1>2, ConcatProperties DEF Info
<1> QED BY <1>1, <1>2, <1>3

\* Whatever the host and a browser derive, two keys are equal only for one master key,
\* session, direction and writer.  derive writes label and writer one after the
\* other with nothing in between; that the labels differ in length and writers do
\* not is what keeps the directions apart.
THEOREM KeysAreSeparate ==
  ASSUME NEW m, NEW n, NEW s, NEW t,
         NEW v \in Seq(Int), NEW w \in Seq(Int), Len(v) = Len(w),
         NEW d \in BOOLEAN, NEW e \in BOOLEAN,
         Derive(m, s, v, d) = Derive(n, t, w, e)
  PROVE  m = n /\ s = t /\ d = e /\ v = w
<1>1. m = n /\ s = t /\ Info(v, d) = Info(w, e)
  BY DEF Derive, Info, Label
<1>2. Len(Label(d)) = Len(Label(e))
  <2>1. Label(d) \in Seq(Int) /\ Label(e) \in Seq(Int)
    BY InfoParts
  <2>2. /\ Len(Info(v, d)) = Len(Context) + Len(Label(d)) + Len(v)
        /\ Len(Info(w, e)) = Len(Context) + Len(Label(e)) + Len(w)
    BY InfoParts
  <2>3. Len(Context) \in Nat /\ Len(v) \in Nat
    BY CipherAssumption
  <2> QED BY <1>1, <2>1, <2>2, <2>3
<1>3. d = e
  BY <1>2, CipherAssumption DEF Label
<1>4. ASSUME NEW i \in 1..Len(v) PROVE v[i] = w[i]
  <2> DEFINE k == Len(Context) + Len(Label(d)) + i
  <2>1. Info(v, d)[k] = v[i]
    BY InfoParts
  <2>2. Info(w, e)[k] = w[i]
    BY SMTT(30), <1>2, InfoParts
  <2> QED BY <1>1, <2>1, <2>2
<1>5. v = w
  BY <1>4, SeqEqual
<1> QED BY <1>1, <1>3, <1>5

\* The host opens as input only what was sealed as input, under the session's key and
\* for this session: neither its own output nor the input of another session, nor
\* a frame whose header says another writer than its key was derived for.
THEOREM InputOpensAsSealed ==
  ASSUME NEW m, NEW n, NEW s, NEW t, NEW w \in Seq(Int), NEW d \in BOOLEAN,
         NEW header, NEW plain, NEW u \in Seq(Int), Len(u) = Len(w),
         header.writer = u,
         OpensInput(m, s, Seal(Derive(n, t, w, d), t, header, plain))
  PROVE  m = n /\ s = t /\ d = TRUE /\ u = w
<1> DEFINE frame == Seal(Derive(n, t, w, d), t, header, plain)
<1>1. frame.header = header /\ frame.body.key = Derive(n, t, w, d)
  BY DEF Seal
<1>2. Derive(n, t, w, d) = Derive(m, s, u, TRUE)
  BY <1>1 DEF OpensInput, Decrypts
<1>3. \A e \in BOOLEAN : Derive(n, t, w, d) = Derive(m, s, u, e)
                           => n = m /\ t = s /\ d = e /\ w = u
  BY KeysAreSeparate
<1> QED BY <1>2, <1>3

\* A browser opens as output nothing that a browser sealed.
THEOREM OutputOpensAsSealed ==
  ASSUME NEW cipher, NEW n, NEW t, NEW w \in Seq(Int), NEW d \in BOOLEAN,
         NEW header, NEW plain, NEW u \in Seq(Int), Len(u) = Len(w),
         header.writer = u,
         Opens(cipher, Seal(Derive(n, t, w, d), t, header, plain))
  PROVE  cipher.master = n /\ cipher.session = t /\ d = FALSE /\ u = w
<1> DEFINE frame == Seal(Derive(n, t, w, d), t, header, plain)
<1>1. frame.header = header /\ frame.body.key = Derive(n, t, w, d)
  BY DEF Seal
<1>2. Derive(n, t, w, d) = Derive(cipher.master, cipher.session, u, FALSE)
  BY <1>1 DEF Opens, OutputKey, Decrypts
<1>3. \A e \in BOOLEAN : Derive(n, t, w, d) = Derive(cipher.master, cipher.session, u, e)
                           => n = cipher.master /\ t = cipher.session /\ d = e /\ w = u
  BY KeysAreSeparate
<1> QED BY <1>2, <1>3

-----------------------------------------------------------------------------
(* The tab. *)

USE LinkAssumption

\* A page that has a key has it from its own address, or, opened without one, from
\* storage, which holds what the last complete link of the session brought.
KeyedByItsLink ==
  tab.phase \in {"keyed", "shown"} =>
    IF tab.read = None THEN works /\ tab.key = last[tab.id] ELSE tab.key = tab.read

Shape ==
  /\ tab \in [page : {"session", "login", "again", "blank"}, id : Ids, hash : Fragments,
              phase : {"connecting", "asking", "blocked", "keyed", "shown", "locked"},
              read : Fragments, key : Fragments]
  /\ stored \in [Ids -> Fragments] /\ last \in [Ids -> Fragments]
  /\ works => stored = last

IInv == Shape /\ KeyedByItsLink /\ LockedForAReason

LEMMA FragmentsAreInts ==
  /\ Fragments \subseteq Int /\ {None, Empty, Malformed} \subseteq Fragments
  /\ \A i \in Ids : Master[i] \in Nat /\ Master[i] \in Fragments
  /\ \A key \in Fragments : Decodes(key) => key # None
BY DEF Fragments, Keys, None, Empty, Malformed, Decodes

\* The first page stands for none.
LEMMA InitHolds == Init => IInv
<1> SUFFICES ASSUME Init PROVE IInv
  OBVIOUS
<1> DEFINE first == CHOOSE i \in Ids : TRUE
<1>1. first \in Ids
  OBVIOUS
<1> HIDE DEF first
<1>2. tab = [page |-> "blank", id |-> first, hash |-> None, phase |-> "asking",
             read |-> None, key |-> None]
  BY DEF Init, LoginAgain, LoginPage, first
<1>3. stored = [i \in Ids |-> None] /\ last = stored
  BY DEF Init
<1>4. tab.phase = "asking"
  BY <1>2
<1>5. Shape
  BY <1>1, <1>2, <1>3, FragmentsAreInts DEF Shape
<1> QED BY <1>4, <1>5 DEF IInv, KeyedByItsLink, LockedForAReason

\* remember: storage, when it works, follows what links bring.
LEMMA RememberKeeps ==
  ASSUME IInv, NEW id \in Ids, NEW key \in Fragments, UNCHANGED works,
         Keep(id, key), Brings(id, IF Decodes(key) THEN key ELSE last[id])
  PROVE  /\ stored' \in [Ids -> Fragments] /\ last' \in [Ids -> Fragments]
         /\ works' => stored' = last'
BY DEF IInv, Shape, Keep, Brings

\* A page served anew has not looked for its key yet.
LEMMA ServeKeeps ==
  ASSUME IInv, NEW id \in Ids, NEW hash \in Fragments, Serve(id, hash), UNCHANGED works
  PROVE  IInv'
<1>1. /\ stored' \in [Ids -> Fragments] /\ last' \in [Ids -> Fragments]
      /\ works' => stored' = last'
  BY RememberKeeps DEF Serve, Remember, IInv, Shape
<1>2. \E page \in {"session", "login"}, phase \in {"connecting", "asking", "blocked"} :
        tab' = [page |-> page, id |-> id, hash |-> hash, phase |-> phase,
                read |-> None, key |-> None]
  BY DEF Serve, SessionPage, LoginPage
<1> QED BY <1>1, <1>2, FragmentsAreInts
        DEF IInv, Shape, KeyedByItsLink, LockedForAReason

\* Nor has one to which sign-in leads.
LEMMA PagesKeep ==
  ASSUME IInv, UNCHANGED <<stored, works, last>>, NEW id \in Ids, NEW hash \in Fragments,
         tab' = SessionPage(id, hash) \/ tab' = LoginAgain(id)
  PROVE  IInv'
<1>1. \E page \in {"session", "again"}, phase \in {"connecting", "asking"},
         text \in {hash, None} :
        tab' = [page |-> page, id |-> id, hash |-> text, phase |-> phase,
                read |-> None, key |-> None]
  BY DEF SessionPage, LoginAgain, LoginPage
<1> QED BY <1>1, FragmentsAreInts DEF IInv, Shape, KeyedByItsLink, LockedForAReason

\* The init frame: the page has the key its link says, or locks itself for what
\* it says.
LEMMA ReceiveInitKeeps == IInv /\ ReceiveInit => IInv'
<1> SUFFICES ASSUME IInv, ReceiveInit PROVE IInv'
  OBVIOUS
<1> DEFINE key == Loaded(tab.id)
<1>1. tab.id \in Ids /\ tab.hash \in Fragments /\ key \in Fragments
  BY FragmentsAreInts DEF IInv, Shape, Loaded
<1>2. /\ stored' \in [Ids -> Fragments] /\ last' \in [Ids -> Fragments]
      /\ works' => stored' = last'
  BY <1>1, RememberKeeps DEF ReceiveInit, IInv, Shape
<1>3. tab.hash = None => UNCHANGED last
  BY DEF ReceiveInit
<1>4. works' = works
  BY DEF ReceiveInit
<1>5. tab.hash # None => key = tab.hash
  BY DEF Loaded
<1>6. tab.hash = None /\ works => key = last[tab.id]
  BY DEF Loaded, IInv, Shape
<1>7. tab.hash = None /\ ~works => key = None
  BY DEF Loaded
<1>8. Master[tab.id] \in Nat
  BY <1>1
<1>9. CASE Decodes(key)
  <2>1. tab' = [tab EXCEPT !.phase = "keyed", !.read = tab.hash, !.key = key]
    BY <1>9 DEF ReceiveInit
  <2> HIDE DEF key
  <2>2. /\ tab'.phase = "keyed" /\ tab'.read = tab.hash /\ tab'.key = key
        /\ tab'.id = tab.id
        /\ tab' \in [page : {"session", "login", "again", "blank"}, id : Ids,
                     hash : Fragments,
                     phase : {"connecting", "asking", "blocked", "keyed", "shown",
                              "locked"},
                     read : Fragments, key : Fragments]
    BY <1>1, <2>1 DEF IInv, Shape
  <2>3. key # None
    BY <1>1, <1>9, FragmentsAreInts
  <2> QED BY <1>2, <1>3, <1>4, <1>5, <1>6, <1>7, <2>2, <2>3
          DEF IInv, Shape, KeyedByItsLink, LockedForAReason
<1>10. CASE ~Decodes(key)
  <2>1. tab' = Locked
    BY <1>10 DEF ReceiveInit
  <2> HIDE DEF key
  <2>2. /\ tab'.phase = "locked" /\ tab'.read = tab.hash /\ tab'.id = tab.id
        /\ tab' \in [page : {"session", "login", "again", "blank"}, id : Ids,
                     hash : Fragments,
                     phase : {"connecting", "asking", "blocked", "keyed", "shown",
                              "locked"},
                     read : Fragments, key : Fragments]
    BY <1>1, <2>1 DEF IInv, Shape, Locked
  <2>3. key # Master[tab.id]
    BY <1>8, <1>10 DEF Decodes
  <2> QED BY <1>2, <1>3, <1>4, <1>5, <1>6, <1>7, <2>2, <2>3
          DEF IInv, Shape, KeyedByItsLink, LockedForAReason
<1> QED BY <1>9, <1>10

\* The host's frame opens under the session's own key.
LEMMA OwnKeyOpens ==
  ASSUME NEW id \in Ids
  PROVE  LET cipher == NewCipher(Master[id], <<id>>, <<1>>)
         IN Admits(cipher, HostFrame(id)) /\ Opens(cipher, HostFrame(id))
BY DEF NewCipher, HostFrame, OutputFrame, Seal, Header, Nonce, Admits, Opens, OutputKey,
       Decrypts, SNAPSHOT, OUTPUT

\* The snapshot: a page whose key is another locks itself, and no other page does.
LEMMA ReceiveSnapshotKeeps == IInv /\ ReceiveSnapshot => IInv'
<1> SUFFICES ASSUME IInv, ReceiveSnapshot PROVE IInv'
  OBVIOUS
<1> DEFINE cipher == NewCipher(tab.key, <<tab.id>>, <<1>>)
           frame == HostFrame(tab.id)
           opens == Admits(cipher, frame) /\ Opens(cipher, frame)
<1>1. /\ tab.phase = "keyed" /\ UNCHANGED <<stored, works, last>>
      /\ tab' = [tab EXCEPT !.phase = IF opens THEN "shown" ELSE "locked"]
  BY DEF ReceiveSnapshot
<1>2. tab.key = Master[tab.id] => opens
  BY OwnKeyOpens DEF IInv, Shape
<1> HIDE DEF opens
<1> QED BY <1>1, <1>2 DEF IInv, Shape, KeyedByItsLink, LockedForAReason

LEMMA StepKeeps == IInv /\ [Next]_vars => IInv'
<1> SUFFICES ASSUME IInv, [Next]_vars PROVE IInv'
  OBVIOUS
<1>1. ASSUME NEW id \in Ids, NEW hash \in Fragments, Visit(id, hash) PROVE IInv'
  BY <1>1, ServeKeeps DEF Visit
<1>2. ASSUME NEW id \in Ids, NEW hash \in Fragments, Fragment(id, hash) PROVE IInv'
  BY <1>2 DEF Fragment, IInv, Shape, KeyedByItsLink, LockedForAReason
<1>3. ASSUME NEW id \in Ids, NEW hash \in Fragments, VisitWithToken(id, hash)
      PROVE  IInv'
  BY <1>3, PagesKeep DEF VisitWithToken
<1>4. CASE Reload
  BY <1>4, ServeKeeps DEF Reload, IInv, Shape
<1>5. CASE SignIn
  BY <1>5, PagesKeep, FragmentsAreInts DEF SignIn, IInv, Shape
<1>6. CASE SignInFails
  BY <1>6, PagesKeep, FragmentsAreInts DEF SignInFails, IInv, Shape
<1>7. CASE SignedOut \/ UNCHANGED vars
  BY <1>7 DEF SignedOut, vars, IInv, Shape, KeyedByItsLink, LockedForAReason
<1>8. CASE ReceiveInit \/ ReceiveSnapshot
  BY <1>8, ReceiveInitKeeps, ReceiveSnapshotKeeps
<1>9. CASE Reconnect
  BY <1>9 DEF Reconnect, IInv, Shape, KeyedByItsLink, LockedForAReason
<1> QED BY <1>1, <1>2, <1>3, <1>4, <1>5, <1>6, <1>7, <1>8, <1>9 DEF Next

\* What a session page receives locks it only for what its link or the last link of its session
\* said, whatever sign-ins, reloads and other sessions came in between: remember, load
\* and create of web/static/crypto.js.
THEOREM LockedForItsLink == Spec => []LockedForAReason
<1>1. IInv => LockedForAReason
  BY DEF IInv
<1> QED BY InitHolds, StepKeeps, <1>1, PTL DEF Spec

\* What is stored for a session changes only to the well-formed key in the address of
\* its own page.
THEOREM StorageFollowsLinks == Spec => StoredByItsLink
<1> DEFINE Step == \A id \in Ids :
             stored'[id] # stored[id] =>
               tab'.id = id /\ stored'[id] = tab'.hash /\ Decodes(tab'.hash)
<1>1. IInv /\ [Next]_vars => [Step]_vars
  <2> SUFFICES ASSUME IInv, Next, NEW id \in Ids, stored'[id] # stored[id]
               PROVE  tab'.id = id /\ stored'[id] = tab'.hash /\ Decodes(tab'.hash)
    OBVIOUS
  <2>1. ASSUME NEW i \in Ids, NEW key \in Fragments, Keep(i, key)
        PROVE  id = i /\ stored'[id] = key /\ Decodes(key)
    BY <2>1 DEF IInv, Shape, Keep
  <2>2. ASSUME NEW i \in Ids, NEW hash \in Fragments, Serve(i, hash)
        PROVE  tab'.id = id /\ stored'[id] = tab'.hash /\ Decodes(tab'.hash)
    <3>1. Keep(i, hash) /\ tab' = LoginPage(i, hash, ~Decodes(hash) \/ ~works)
      BY <2>2 DEF Serve, Remember
    <3> QED BY <2>1, <3>1 DEF LoginPage
  <2>3. CASE \E i \in Ids, hash \in Fragments :
               Visit(i, hash) \/ Fragment(i, hash) \/ VisitWithToken(i, hash)
    BY <2>2, <2>3 DEF Visit, Fragment, VisitWithToken
  <2>4. CASE Reload
    BY <2>2, <2>4 DEF Reload, IInv, Shape
  <2>5. CASE ReceiveInit
    <3>1. tab.hash # None /\ Keep(tab.id, tab.hash)
      BY <2>5 DEF ReceiveInit
    <3>2. tab'.id = tab.id /\ tab'.hash = tab.hash
      BY <2>5 DEF ReceiveInit, Locked, IInv, Shape
    <3> QED BY <2>1, <3>1, <3>2 DEF IInv, Shape
  <2> QED BY <2>3, <2>4, <2>5
          DEF Next, SignIn, SignInFails, SignedOut, ReceiveSnapshot, Reconnect
<1> QED BY InitHolds, StepKeeps, <1>1, PTL DEF Spec, StoredByItsLink

=============================================================================
