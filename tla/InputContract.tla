--------------------------- MODULE InputContract ---------------------------
(***************************************************************************)
(* What an encrypted session promises for its keystrokes, without page,    *)
(* relay, host connections or ciphers: a keystroke typed on a socket of a  *)
(* page is on its way until it runs on the host or is lost.  Any may be    *)
(* lost; none runs twice, and those of one socket run in the order typed.  *)
(* InputPath implements this.                                              *)
(***************************************************************************)
EXTENDS Naturals, Sequences

CONSTANTS Sockets, MaxKeys

VARIABLES
  typed,  \* keystrokes typed so far; each is known by its number
  way,    \* per socket the keystrokes on their way
  done    \* the keystrokes run

vars == <<typed, way, done>>

Init ==
  /\ typed = 0
  /\ way = [s \in Sockets |-> {}]
  /\ done = <<>>

Type(s) ==
  /\ typed < MaxKeys
  /\ typed' = typed + 1
  /\ way' = [way EXCEPT ![s] = @ \cup {typed'}]
  /\ UNCHANGED done

\* Whatever is on its way may be lost: a page closes, a connection breaks.
Lose ==
  /\ UNCHANGED <<typed, done>>
  /\ way' \in [Sockets -> SUBSET (1..typed)]
  /\ \A s \in Sockets : way'[s] \subseteq way[s]

\* The oldest of a socket's keystrokes runs.
Run(s) ==
  /\ \E key \in way[s] :
       /\ \A other \in way[s] : key <= other
       /\ done' = Append(done, key)
       /\ way' = [way EXCEPT ![s] = @ \ {key}]
  /\ UNCHANGED typed

Next == Lose \/ \E s \in Sockets : Type(s) \/ Run(s)

Spec == Init /\ [][Next]_vars

=============================================================================
