-------------------------- MODULE SessionContract --------------------------
(***************************************************************************)
(* What the relay promises of a session, without locks, handlers or sweeps.*)
(* A session passes from producer to producer; each takeover is a new      *)
(* generation.  Only the producer seated on the newest generation can lose *)
(* the session, nobody but a producer that once sat on it can end it, only *)
(* a takeover brings it back, and a keystroke is accepted for nobody but   *)
(* the newest producer, while the session is live, and with its consent.   *)
(***************************************************************************)
EXTENDS Integers

CONSTANTS Conns, Ids, NoId

VARIABLES phase,    \* of each session: absent, live, stale or ended
          gen,      \* the generation of each session
          seat,     \* the session and generation a producer took over
          consent,  \* whether a producer asked for keystrokes
          keys      \* keystrokes accepted for a producer, not yet forwarded

cvars == <<phase, gen, seat, consent, keys>>

Nowhere == [id |-> NoId, gen |-> 0]

CInit ==
  /\ phase = [id \in Ids |-> "absent"]
  /\ gen = [id \in Ids |-> 0]
  /\ seat = [c \in Conns |-> Nowhere]
  /\ consent = [c \in Conns |-> FALSE]
  /\ keys = [c \in Conns |-> 0]

Newest(c, id) == seat[c] = [id |-> id, gen |-> gen[id]]

\* A producer makes up its mind before it is seated.
Decide(c) ==
  /\ seat[c] = Nowhere
  /\ \E ok \in BOOLEAN : consent' = [consent EXCEPT ![c] = ok]
  /\ UNCHANGED <<phase, gen, seat, keys>>

Open(c, id) ==
  /\ seat[c] = Nowhere
  /\ phase[id] = "absent"
  /\ phase' = [phase EXCEPT ![id] = "live"]
  /\ seat' = [seat EXCEPT ![c] = [id |-> id, gen |-> gen[id]]]
  /\ \E ok \in BOOLEAN : consent' = [consent EXCEPT ![c] = ok]
  /\ UNCHANGED <<gen, keys>>

TakeOver(c, id) ==
  /\ seat[c] = Nowhere
  /\ phase[id] # "absent"
  /\ phase' = [phase EXCEPT ![id] = "live"]
  /\ gen' = [gen EXCEPT ![id] = @ + 1]
  /\ seat' = [seat EXCEPT ![c] = [id |-> id, gen |-> gen[id] + 1]]
  /\ UNCHANGED <<consent, keys>>

End(c, id) ==
  /\ seat[c].id = id
  /\ phase' = [phase EXCEPT ![id] = "ended"]
  /\ UNCHANGED <<gen, seat, consent, keys>>

Vacate(c) ==
  /\ seat' = [seat EXCEPT ![c] = Nowhere]
  /\ consent' = [consent EXCEPT ![c] = FALSE]
  /\ keys' = [keys EXCEPT ![c] = 0]

\* A producer leaves a session that has ended or has a newer producer, or it
\* is lost as the newest producer of a live one.
Leave(c) ==
  /\ \A id \in Ids : Newest(c, id) => phase[id] # "live"
  /\ Vacate(c)
  /\ UNCHANGED <<phase, gen>>

Drop(c, id) ==
  /\ Newest(c, id)
  /\ phase[id] = "live"
  /\ phase' = [phase EXCEPT ![id] = "stale"]
  /\ Vacate(c)
  /\ UNCHANGED gen

Accept(c, id) ==
  /\ Newest(c, id)
  /\ phase[id] = "live"
  /\ consent[c]
  /\ keys' = [keys EXCEPT ![c] = @ + 1]
  /\ UNCHANGED <<phase, gen, seat, consent>>

\* Accepted keystrokes are forwarded one by one or lost together.
Forward(c) ==
  /\ keys[c] > 0
  /\ keys' \in {[keys EXCEPT ![c] = keys[c] - 1], [keys EXCEPT ![c] = 0]}
  /\ UNCHANGED <<phase, gen, seat, consent>>

CNext ==
  \E c \in Conns :
    \/ Decide(c) \/ Leave(c) \/ Forward(c)
    \/ \E id \in Ids : \/ Open(c, id) \/ TakeOver(c, id) \/ End(c, id)
                       \/ Drop(c, id) \/ Accept(c, id)

CSpec == CInit /\ [][CNext]_cvars

=============================================================================
