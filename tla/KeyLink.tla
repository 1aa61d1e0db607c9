------------------------------ MODULE KeyLink ------------------------------
(***************************************************************************)
(* How a browser tab comes by the key of an encrypted session: from the    *)
(* fragment of a watch link, through the sign-in page that the relay may   *)
(* put in between, and from sessionStorage when a page is opened without   *)
(* the fragment.  remember, load and create of web/static/crypto.js, with  *)
(* the scripts of web/login.html and web/session.html that call them and   *)
(* the pages that server/mod.rs gives out.                                 *)
(*                                                                         *)
(* One tab; the sessions are encrypted and live on.                        *)
(***************************************************************************)
EXTENDS Cipher

CONSTANTS Ids,     \* the sessions; numbers, for derive takes bytes
          Master   \* the key of each

ASSUME LinkAssumption ==
  /\ Ids \subseteq Nat /\ Ids # {}
  /\ Master \in [Ids -> Nat]
  /\ \A i, j \in Ids : Master[i] = Master[j] => i = j

VARIABLES
  tab,       \* the page in the tab: where it stands and what it has read
  stored,    \* sessionStorage: the key kept for each session
  signedIn,  \* does the cookie hold?
  works,     \* can the page use sessionStorage?
  last       \* history: the last key that a link brought a page of each session

vars == <<tab, stored, signedIn, works, last>>

\* What a fragment may say: no key at all, key= and nothing, a key cut short or
\* misspelt, or a key, be it that of another session.
Empty == -2
Malformed == -3
Keys == {Master[i] : i \in Ids}
Fragments == {None, Empty, Malformed} \cup Keys

\* decode throws at what is no key.
Decodes(text) == text \in Nat

-----------------------------------------------------------------------------
(* Pages the relay serves. *)

SessionPage(id, hash) ==
  [page |-> "session", id |-> id, hash |-> hash, phase |-> "connecting",
   read |-> None, key |-> None]

LoginPage(id, hash, blocked) ==
  [page |-> "login", id |-> id, hash |-> hash, read |-> None, key |-> None,
   phase |-> IF blocked THEN "blocked" ELSE "asking"]

\* After a wrong token: /login?bad=1&next=/s/<id>, and no fragment.
LoginAgain(id) == [LoginPage(id, None, FALSE) EXCEPT !.page = "again"]

Init ==
  /\ tab = [LoginAgain(CHOOSE i \in Ids : TRUE) EXCEPT !.page = "blank"]
  /\ stored = [i \in Ids |-> None]
  /\ signedIn \in BOOLEAN /\ works \in BOOLEAN
  /\ last = [i \in Ids |-> None]

Brings(id, key) == last' = [last EXCEPT ![id] = key]

\* Mutant: the key is kept before it is looked at.
KeepUnread(id, key) ==
  stored' = IF works THEN [stored EXCEPT ![id] = key] ELSE stored

Keep(id, key) ==
  stored' = IF Decodes(key) /\ works THEN [stored EXCEPT ![id] = key] ELSE stored

\* Mutant: the sign-in page only looks whether it could keep the key.
RememberNothing(id, key) ==
  Brings(id, IF Decodes(key) THEN key ELSE last[id]) /\ UNCHANGED stored

\* remember, up to where it may throw: the sign-in page is blocked then.
Remember(id, key) ==
  /\ Keep(id, key)
  /\ Brings(id, IF Decodes(key) THEN key ELSE last[id])

\* GET /s/<id>: the page, or the sign-in page in its place.
Serve(id, hash) ==
  IF signedIn
  THEN tab' = SessionPage(id, hash) /\ UNCHANGED <<stored, last>>
  ELSE IF hash \in {None, Empty}
  THEN tab' = LoginPage(id, hash, FALSE) /\ UNCHANGED <<stored, last>>
  ELSE /\ Remember(id, hash)
       /\ tab' = LoginPage(id, hash, ~Decodes(hash) \/ ~works)

-----------------------------------------------------------------------------
(* Steps of the user. *)

\* Same address but for the fragment: the browser loads nothing.
SamePage(id, hash) ==
  tab.page \in {"login", "session"} /\ tab.id = id /\ hash # None

\* A watch link is opened, or, without the key, a card of the dashboard.
Visit(id, hash) ==
  /\ ~SamePage(id, hash)
  /\ Serve(id, hash)
  /\ UNCHANGED <<signedIn, works>>

\* No script listens for the new fragment.
Fragment(id, hash) ==
  /\ SamePage(id, hash)
  /\ tab' = [tab EXCEPT !.hash = hash]
  /\ UNCHANGED <<stored, signedIn, works, last>>

Reload ==
  /\ tab.page \in {"login", "session"}
  /\ Serve(tab.id, tab.hash)
  /\ UNCHANGED <<signedIn, works>>

\* /s/<id>?token=...: the relay sets the cookie and redirects; the browser takes the
\* fragment along.
VisitWithToken(id, hash) ==
  /\ signedIn' = TRUE
  /\ tab' = SessionPage(id, hash)
  /\ UNCHANGED <<stored, works, last>>

\* The form is posted, which takes no fragment along.
SignIn ==
  /\ tab.phase = "asking" /\ tab.page \in {"login", "again"}
  /\ signedIn' = TRUE
  /\ tab' = SessionPage(tab.id, None)
  /\ UNCHANGED <<stored, works, last>>

SignInFails ==
  /\ tab.phase = "asking" /\ tab.page \in {"login", "again"}
  /\ tab' = LoginAgain(tab.id)
  /\ UNCHANGED <<stored, signedIn, works, last>>

\* The cookie expires or the relay's token is changed.
SignedOut ==
  /\ signedIn
  /\ signedIn' = FALSE
  /\ UNCHANGED <<tab, stored, works, last>>

-----------------------------------------------------------------------------
(* Steps of the session page. *)

Locked == [tab EXCEPT !.phase = "locked", !.read = tab.hash]

\* load, called for the init frame: what the fragment says, else what is stored.
Loaded(id) == IF tab.hash # None THEN tab.hash
              ELSE IF works THEN stored[id] ELSE None

\* The socket's init frame arrives; only a session still signed in gets one.
ReceiveInit ==
  /\ tab.page = "session" /\ tab.phase = "connecting" /\ signedIn
  /\ LET key == Loaded(tab.id) IN
       IF Decodes(key)
       THEN tab' = [tab EXCEPT !.phase = "keyed", !.read = tab.hash, !.key = key]
       ELSE tab' = Locked
  /\ IF tab.hash # None
     THEN /\ Keep(tab.id, tab.hash)
          /\ Brings(tab.id, IF Decodes(tab.hash) THEN tab.hash ELSE last[tab.id])
     ELSE UNCHANGED <<stored, last>>
  /\ UNCHANGED <<signedIn, works>>

HostFrame(id) ==
  OutputFrame(Master[id], <<id>>, <<0>>, 0, [t |-> "snapshot", epoch |-> 0])

\* The host's snapshot arrives.
ReceiveSnapshot ==
  /\ tab.phase = "keyed"
  /\ LET cipher == NewCipher(tab.key, <<tab.id>>, <<1>>)
         frame == HostFrame(tab.id)
     IN tab' = [tab EXCEPT !.phase = IF Admits(cipher, frame) /\ Opens(cipher, frame)
                                     THEN "shown" ELSE "locked"]
  /\ UNCHANGED <<stored, signedIn, works, last>>

\* The socket breaks; a new one brings an init frame again.
Reconnect ==
  /\ tab.phase \in {"keyed", "shown"}
  /\ tab' = [tab EXCEPT !.phase = "connecting"]
  /\ UNCHANGED <<stored, signedIn, works, last>>

-----------------------------------------------------------------------------
Next ==
  \/ \E id \in Ids, hash \in Fragments :
       Visit(id, hash) \/ Fragment(id, hash) \/ VisitWithToken(id, hash)
  \/ Reload \/ SignIn \/ SignInFails \/ SignedOut
  \/ ReceiveInit \/ ReceiveSnapshot \/ Reconnect

Spec == Init /\ [][Next]_vars

-----------------------------------------------------------------------------
(* Properties. *)

\* What a session page receives locks it only for the link it was opened with, or, opened
\* without a key, because the last link of this session in this tab was not a complete one or
\* sessionStorage is not to be had.  Whoever came by the complete link sees the
\* session, also past a sign-in, wrong tokens, reloads and the dashboard, and
\* whatever other sessions the tab has shown.
LockedForAReason ==
  tab.phase = "locked" =>
    IF tab.read = None
    THEN ~works \/ last[tab.id] # Master[tab.id]
    ELSE tab.read # Master[tab.id]

\* Only a well-formed key in the address of a session's own page replaces what is
\* stored for the session; a damaged link makes nothing forgotten.
StoredByItsLink ==
  [][\A id \in Ids :
       stored'[id] # stored[id] =>
         tab'.id = id /\ stored'[id] = tab'.hash /\ Decodes(tab'.hash)]_vars

=============================================================================
